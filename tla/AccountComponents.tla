------------------------- MODULE AccountComponents -------------------------
(***************************************************************************)
(* The components about accounts: sign-in, ownership of mailboxes and      *)
(* domains, registration, permissions.  Like those of MailComponents they  *)
(* share no variable and are put side by side.                             *)
(***************************************************************************)
EXTENDS SignIn, Ownership, Registration, Permissions

VARIABLE focus

accountVars == <<signInVars, ownershipVars, registrationVars, permissionsVars, focus>>

\* One of the states each may start in, for a component that is not in focus.
Still(component, init) == focus = component \/ init

AccountsInit ==
  /\ focus \in {"sign-in", "ownership", "registration", "permissions"}
  /\ SignInInit /\ Still("sign-in", sessions = {} /\ ~account.enabled)
  /\ OwnershipInit
  /\ Still("ownership", /\ left = CHOOSE budget \in Budget : TRUE
                        /\ box.owner = CHOOSE u \in Person \ {Reader} : TRUE)
  /\ RegistrationInit /\ Still("registration", quota.limit = (CHOOSE n \in Cap : TRUE) /\ ~invite.needed)
  /\ PermissionsInit
  /\ Still("permissions", /\ migrated /\ staff[CHOOSE u \in Staff : TRUE].super
                          /\ groups[CHOOSE g \in Group : TRUE].kept
                          /\ ceiling.limit = CHOOSE n \in Allowance : TRUE)

AccountsNext ==
  \/ focus = "sign-in" /\ SignInNext /\ UNCHANGED <<ownershipVars, registrationVars, permissionsVars, focus>>
  \/ focus = "ownership" /\ OwnershipNext /\ UNCHANGED <<signInVars, registrationVars, permissionsVars, focus>>
  \/ focus = "registration" /\ RegistrationNext /\ UNCHANGED <<signInVars, ownershipVars, permissionsVars, focus>>
  \/ focus = "permissions" /\ PermissionsNext /\ UNCHANGED <<signInVars, ownershipVars, registrationVars, focus>>

AccountsSpec == AccountsInit /\ [][AccountsNext]_accountVars

-----------------------------------------------------------------------------
(* Properties *)

\* Each variable of each component holds a value of its kind.
AccountsTypeOK == SignInTypeOK /\ OwnershipTypeOK /\ RegistrationTypeOK /\ PermissionsTypeOK
=============================================================================
