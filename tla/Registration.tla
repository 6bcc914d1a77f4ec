---------------------------- MODULE Registration ----------------------------
(***************************************************************************)
(* How accounts and mailboxes come into being: registration with or        *)
(* without an invite, registration and linking through Linux.do, a user    *)
(* who applies for one more mailbox under the limits of his permission     *)
(* groups, and administrators, who count but are not limited.              *)
(*                                                                         *)
(* Each request is one transaction.  Its steps interleave with those of    *)
(* others as on PostgreSQL and MySQL: a row it changed and a unique value  *)
(* it inserted make others wait until it commits or rolls back; SQLite     *)
(* admits fewer orders.  Checks before the transaction lock nothing.       *)
(***************************************************************************)
EXTENDS Naturals, FiniteSets

CONSTANTS
  Applicant,      \* requests under way at the same time
  Member,         \* rows of users there may be, told apart by their address
  Owner,          \* the user who applies for more mailboxes
  Address,        \* addresses of mailboxes
  NoOne,          \* no user, or no address
  Cap,            \* the values MaxMailboxes takes; 0 is unlimited
  Daily,          \* MaxMailboxesPerDay; 0 is unlimited
  MaxUses,        \* registration_invites.max_uses
  Challenge,      \* rows of oauth_registration_challenges
  MaxRequests,    \* bound: requests made
  MaxChanges      \* bound: changes by administrators, and events that age

ASSUME RegistrationAssumption ==
  /\ Owner \in Member /\ NoOne \notin Member \cup Address
  /\ Cap \subseteq Nat /\ Cap # {} /\ {Daily, MaxRequests, MaxChanges} \subseteq Nat
  /\ MaxUses \in Nat \ {0} /\ IsFiniteSet(Member) /\ IsFiniteSet(Address)

VARIABLES
  members,     \* users: how each came, and whether it has the group of the invite
  addresses,   \* mailboxes: the owner of each address
  quota,       \* of Owner: the limit, creations of the last day
  invite,      \* the invite, and the permission group it grants
  sso,         \* the OAuth state, the challenges, the Linux.do identity
  intake,      \* the requests under way
  tally        \* history and bounds

registrationVars == <<members, addresses, quota, invite, sso, intake, tally>>

Kind == {"register", "external", "apply", "admin", "login", "link"}
Stage == {"idle", "consume", "insert", "lock", "count", "update", "commit", "state", "profile", "bind"}
Way == {"none", "seed", "open", "code", "external"}
State == [id : Nat, kind : {"login", "link"}, who : Member \cup {NoOne}]
Slot == [pc : Stage, kind : Kind, who : Member \cup {NoOne}, box : Address \cup {NoOne},
         limit : Cap, seen : [boxes : Nat, day : Nat], coded : BOOLEAN, token : Challenge \cup {NoOne} \cup Nat]

RegistrationTypeOK ==
  /\ members \in [Member -> [way : Way, group : BOOLEAN]]
  /\ addresses \in [Address -> Member \cup {NoOne}]
  /\ quota \in [limit : Cap, highest : Cap, self : Nat, admin : Nat, given : Nat]
  /\ invite \in [kept : BOOLEAN, used : 0 .. MaxUses, group : BOOLEAN, counted : BOOLEAN,
                needed : BOOLEAN]
  /\ sso \in [states : SUBSET State,
              challenges : SUBSET Challenge, identity : Member \cup {NoOne}]
  /\ intake \in [Applicant -> Slot]
  /\ tally \in [requests : Nat, changes : Nat, spent : Nat, issued : Nat, claimed : Nat,
                proven : SUBSET Member, unlinked : SUBSET Member]

-----------------------------------------------------------------------------
(* Helpers *)

IdleSlot == [pc |-> "idle", kind |-> "register", who |-> NoOne, box |-> NoOne,
             limit |-> CHOOSE n \in Cap : TRUE, seen |-> [boxes |-> 0, day |-> 0],
             coded |-> FALSE, token |-> NoOne]

Known(u) == members[u].way # "none"
Owned(u) == {b \in Address : addresses[b] = u}
InTx(s, kinds) == intake[s].kind \in kinds /\ intake[s].pc \in {"insert", "lock", "count", "update", "commit"}
Others(s) == Applicant \ {s}
Done(s) == intake' = [intake EXCEPT ![s] = IdleSlot]
At(s, pc) == intake' = [intake EXCEPT ![s].pc = pc]
Enter(s, slot) ==
  /\ intake[s].pc = "idle" /\ tally.requests < MaxRequests
  /\ intake' = [intake EXCEPT ![s] = slot]
  /\ tally' = [tally EXCEPT !.requests = @ + 1]

PastLimit(s) == intake[s].kind = "apply" /\ (intake[s].limit > 0 \/ Daily > 0)

\* lockUserQuotaRowTx
Locked(s) == PastLimit(s) /\ intake[s].pc \in {"count", "update"}

\* The lock and the UPDATE of users that every creation makes wait for the
\* transaction that changed the row.
RowFree(s) == \A t \in Others(s) : ~(intake[t].who = Owner /\ InTx(t, {"apply", "admin"})
                                     /\ (Locked(t) \/ intake[t].pc = "commit"))

\* Another transaction has inserted the same unique value.
AddressFree(s) == \A t \in Others(s) : ~(intake[t].box = intake[s].box /\ intake[s].box # NoOne
                                         /\ intake[t].pc = "commit")
EmailFree(s) == \A t \in Others(s) : ~(intake[t].who = intake[s].who
                                       /\ InTx(t, {"register", "external"}) /\ intake[t].pc # "insert")
InviteFree(s) == \A t \in Others(s) : ~(intake[t].coded /\ InTx(t, {"register"}))

-----------------------------------------------------------------------------
(* Requests, up to the transaction *)

\* handleRegister: validateRegistrationInvite, then userByEmail.  Without an
\* active domain there is no mailbox to create.
AskRegister(s) ==
  \E u \in Member, b \in Address \cup {NoOne} :
    /\ ~Known(u)
    /\ invite.needed => invite.kept /\ invite.used < MaxUses
    /\ Enter(s, [IdleSlot EXCEPT !.kind = "register", !.who = u, !.box = b,
                                 !.pc = IF invite.needed THEN "consume" ELSE "insert"])
    /\ UNCHANGED <<members, addresses, quota, invite, sso>>

\* handleApplyMailbox: the limits came with the user of the request.
AskApply(s) ==
  \E b \in Address :
    /\ addresses[b] = NoOne
    /\ Enter(s, [IdleSlot EXCEPT !.kind = "apply", !.who = Owner, !.box = b, !.limit = quota.limit,
                                 !.pc = IF quota.limit > 0 \/ Daily > 0 THEN "lock" ELSE "update"])
    /\ UNCHANGED <<members, addresses, quota, invite, sso>>

\* handleCreateMailbox, handleOpenAPICreateMailbox
AskAdmin(s) ==
  \E b \in Address :
    /\ Enter(s, [IdleSlot EXCEPT !.kind = "admin", !.who = Owner, !.box = b, !.pc = "update"])
    /\ UNCHANGED <<members, addresses, quota, invite, sso>>

\* handleLinuxDoRegister: the challenge is read before the transaction.
AskExternal(s) ==
  \E u \in Member, b \in Address, c \in sso.challenges :
    /\ Enter(s, [IdleSlot EXCEPT !.kind = "external", !.who = u, !.box = b, !.token = c,
                                 !.pc = "insert"])
    /\ UNCHANGED <<members, addresses, quota, invite, sso>>

-----------------------------------------------------------------------------
(* The transaction.  Whatever fails rolls everything back.                 *)

\* Mutant: an UPDATE without its condition, as if the check before sufficed.
MayConsumeAlways(s) == invite.kept

\* consumeRegistrationInviteTx: the conditional UPDATE
MayConsume(s) == invite.kept /\ invite.used < MaxUses

ConsumeInvite(s) ==
  /\ intake[s].pc = "consume" /\ InviteFree(s)
  /\ IF MayConsume(s) /\ invite.group
     THEN intake' = [intake EXCEPT ![s].pc = "insert", ![s].coded = TRUE]
     ELSE Done(s)
  /\ UNCHANGED <<members, addresses, quota, invite, sso, tally>>

\* INSERT INTO users; the membership fails when the group went away meanwhile.
InsertUser(s) ==
  /\ intake[s].pc = "insert" /\ EmailFree(s)
  /\ IF Known(intake[s].who) \/ (intake[s].coded /\ ~invite.group) THEN Done(s)
     ELSE At(s, IF intake[s].box = NoOne THEN "commit" ELSE "update")
  /\ UNCHANGED <<members, addresses, quota, invite, sso, tally>>

LockUser(s) ==
  /\ intake[s].pc = "lock" /\ RowFree(s)
  /\ At(s, "count")
  /\ UNCHANGED <<members, addresses, quota, invite, sso, tally>>

\* The UPDATE of consumeMailboxQuotaTx begins: its subqueries see what is
\* committed now, also when it has to wait for the row.
Count(s) ==
  /\ intake[s].pc = "count"
  /\ intake' = [intake EXCEPT ![s].pc = "update",
                  ![s].seen = [boxes |-> Cardinality(Owned(Owner)), day |-> quota.self + quota.admin]]
  /\ UNCHANGED <<members, addresses, quota, invite, sso, tally>>

\* The conditions of that UPDATE.  The first mailbox of a new account is
\* below any limit.
QuotaLeft(s) ==
  PastLimit(s) => /\ intake[s].limit > 0 => intake[s].seen.boxes < intake[s].limit
                  /\ Daily > 0 => intake[s].seen.day < Daily

\* createMailboxWithPasswordHashTx, recordMailboxCreationTx
CreateBox(s) ==
  /\ intake[s].pc = "update" /\ AddressFree(s)
  /\ intake[s].kind \in {"apply", "admin"} => RowFree(s)
  /\ IF QuotaLeft(s) /\ addresses[intake[s].box] = NoOne THEN At(s, "commit") ELSE Done(s)
  /\ UNCHANGED <<members, addresses, quota, invite, sso, tally>>

\* The identity is unique, and the DELETE of the challenge must affect a row.
ChallengeHolds(s) ==
  intake[s].kind = "external" => sso.identity = NoOne /\ intake[s].token \in sso.challenges

\* The two unique rows of an external registration make others wait as well;
\* nothing of it can be seen before the commit.
Commit(s) ==
  LET u == intake[s].who  b == intake[s].box  k == intake[s].kind
      new == k \in {"register", "external"}
  IN /\ intake[s].pc = "commit" /\ ChallengeHolds(s)
     /\ members' = IF new THEN [members EXCEPT ![u] =
                     [way |-> IF k = "external" THEN k ELSE IF intake[s].coded THEN "code" ELSE "open",
                      group |-> intake[s].coded]] ELSE members
     /\ addresses' = IF b = NoOne THEN addresses ELSE [addresses EXCEPT ![b] = u]
     /\ quota' = IF new THEN quota
                 ELSE IF k = "apply" THEN [quota EXCEPT !.self = @ + 1]
                 ELSE [quota EXCEPT !.admin = @ + 1, !.given = @ + 1]
     /\ invite' = IF intake[s].coded THEN [invite EXCEPT !.used = @ + 1] ELSE invite
     /\ tally' = IF intake[s].coded THEN [tally EXCEPT !.spent = @ + 1] ELSE tally
     /\ sso' = IF k = "external"
               THEN [sso EXCEPT !.identity = u, !.challenges = @ \ {intake[s].token}] ELSE sso
     /\ Done(s)

\* An error of the database, a domain that is not active, a conflict on the
\* identity or the challenge.
RollBack(s) ==
  /\ intake[s].pc \in {"consume", "insert", "lock", "count", "update", "commit"}
  /\ Done(s)
  /\ UNCHANGED <<members, addresses, quota, invite, sso, tally>>

-----------------------------------------------------------------------------
(* Linux.do *)

\* handleLinuxDoLoginStart; handleLinuxDoLinkStart, after the password and the
\* code of the second factor
StartState(kind, u) ==
  /\ tally.requests < MaxRequests
  /\ kind = "link" => Known(u)
  /\ sso' = [sso EXCEPT !.states = @ \cup {[id |-> tally.issued, kind |-> kind, who |-> u]}]
  /\ tally' = [tally EXCEPT !.requests = @ + 1, !.issued = @ + 1,
                            !.proven = IF kind = "link" THEN @ \cup {u} ELSE @]
  /\ UNCHANGED <<members, addresses, quota, invite, intake>>

\* handleLinuxDoCallback, consumeLinuxDoState: SELECT, then DELETE
ReadState(s) ==
  /\ \E st \in sso.states :
       Enter(s, [IdleSlot EXCEPT !.kind = st.kind, !.who = st.who, !.token = st.id, !.pc = "state"])
  /\ UNCHANGED <<members, addresses, quota, invite, sso>>

\* Mutant: the rows affected by the DELETE are not looked at.
StateWasRead(s) == TRUE

StateTaken(s) == \E st \in sso.states : st.id = intake[s].token

TakeState(s) ==
  /\ intake[s].pc = "state"
  /\ IF StateTaken(s)
     THEN /\ At(s, "profile")
          /\ sso' = [sso EXCEPT !.states = {st \in @ : st.id # intake[s].token}]
          /\ tally' = [tally EXCEPT !.claimed = @ + 1]
     ELSE Done(s) /\ UNCHANGED <<sso, tally>>
  /\ UNCHANGED <<members, addresses, quota, invite>>

\* ExchangeProfile fails, the user cancels, or Linux.do is switched off.
LoseProfile(s) ==
  /\ intake[s].pc = "profile"
  /\ Done(s)
  /\ UNCHANGED <<members, addresses, quota, invite, sso, tally>>

\* finishLinuxDoLogin.  A linked user signs in, which the sign-in module has.
FinishLogin(s) ==
  /\ intake[s].pc = "profile" /\ intake[s].kind = "login"
  /\ IF sso.identity # NoOne THEN sso' = sso
     ELSE \E c \in Challenge \ sso.challenges : sso' = [sso EXCEPT !.challenges = @ \cup {c}]
  /\ Done(s)
  /\ UNCHANGED <<members, addresses, quota, invite, tally>>

SameSession(s, session) == session = intake[s].who

\* finishLinuxDoLink: the session may be another user's by now; then the two
\* reads of bindLinuxDoIdentity.
CheckLink(s) ==
  /\ intake[s].pc = "profile" /\ intake[s].kind = "link"
  /\ \E session \in {u \in Member : Known(u)} :
       IF SameSession(s, session) /\ sso.identity \in {NoOne, session}
       THEN intake' = [intake EXCEPT ![s].pc = "bind", ![s].who = session]
       ELSE Done(s)
  /\ UNCHANGED <<members, addresses, quota, invite, sso, tally>>

\* The INSERT of bindLinuxDoIdentity; the unique index refuses a second owner,
\* and the UPDATE of an identity its owner already had changes only the name.
Bind(s) ==
  /\ intake[s].pc = "bind"
  /\ sso' = IF sso.identity = NoOne THEN [sso EXCEPT !.identity = intake[s].who] ELSE sso
  /\ Done(s)
  /\ UNCHANGED <<members, addresses, quota, invite, tally>>

\* handleLinuxDoUnlink
Unlink ==
  /\ sso.identity # NoOne /\ tally.requests < MaxRequests
  /\ sso' = [sso EXCEPT !.identity = NoOne]
  /\ tally' = [tally EXCEPT !.requests = @ + 1, !.unlinked = @ \cup {sso.identity}]
  /\ UNCHANGED <<members, addresses, quota, invite, intake>>

-----------------------------------------------------------------------------
(* Administrators, and the clock *)

Change == /\ tally.changes < MaxChanges
          /\ tally' = [tally EXCEPT !.changes = @ + 1]

\* An administrator changes the limits of the groups of Owner.
SetLimit ==
  /\ Change
  /\ \E n \in Cap \ {quota.limit} :
       quota' = [quota EXCEPT !.limit = n,
                   !.highest = IF n = 0 \/ @ = 0 THEN 0 ELSE IF n > @ THEN n ELSE @]
  /\ UNCHANGED <<members, addresses, invite, sso, intake>>

\* A mailbox is deleted: the count goes down, the events of the day stay.
DropBox ==
  /\ Change
  /\ \E b \in Address : addresses[b] # NoOne /\ addresses' = [addresses EXCEPT ![b] = NoOne]
  /\ UNCHANGED <<members, quota, invite, sso, intake>>

\* A push that Owner accepts, or an update of the owner, moves a mailbox to him.
ReceiveBox ==
  /\ Change
  /\ \E b \in Address : addresses[b] \notin {NoOne, Owner} /\ addresses' = [addresses EXCEPT ![b] = Owner]
  /\ quota' = [quota EXCEPT !.given = @ + 1]
  /\ UNCHANGED <<members, invite, sso, intake>>

\* A creation event leaves the last 24 hours.
Lapse ==
  /\ Change
  /\ \E f \in {"self", "admin"} : quota[f] > 0 /\ quota' = [quota EXCEPT ![f] = @ - 1]
  /\ UNCHANGED <<members, addresses, invite, sso, intake>>

\* handleDeleteRegistrationInvite; the DELETE waits for the row.
DropInvite ==
  /\ Change /\ invite.kept
  /\ \A s \in Applicant : ~(intake[s].coded /\ InTx(s, {"register"}))
  /\ invite' = [invite EXCEPT !.kept = FALSE]
  /\ UNCHANGED <<members, addresses, quota, sso, intake>>

\* handleDeletePermissionGroup: nobody is in the group.
CountGroup ==
  /\ Change /\ invite.group /\ \A u \in Member : ~members[u].group
  /\ invite' = [invite EXCEPT !.counted = TRUE]
  /\ UNCHANGED <<members, addresses, quota, sso, intake>>

\* The DELETE waits for the transactions that have inserted a membership, and
\* cascades to those that came after the count.
DropGroup ==
  /\ invite.counted /\ invite.group
  /\ \A s \in Applicant : ~(intake[s].coded /\ intake[s].pc \in {"update", "commit"})
  /\ invite' = [invite EXCEPT !.group = FALSE]
  /\ members' = [u \in Member |-> [members[u] EXCEPT !.group = FALSE]]
  /\ UNCHANGED <<addresses, quota, sso, intake, tally>>

-----------------------------------------------------------------------------

RegistrationInit ==
  /\ members = [u \in Member |-> [way |-> IF u = Owner THEN "seed" ELSE "none", group |-> FALSE]]
  /\ addresses = [b \in Address |-> NoOne]
  /\ quota \in {[limit |-> n, highest |-> n, self |-> 0, admin |-> 0, given |-> 0] : n \in Cap}
  /\ invite \in [kept : {TRUE}, used : {0}, group : {TRUE}, counted : {FALSE}, needed : BOOLEAN]
  /\ sso = [states |-> {}, challenges |-> {}, identity |-> NoOne]
  /\ intake = [s \in Applicant |-> IdleSlot]
  /\ tally = [requests |-> 0, changes |-> 0, spent |-> 0, issued |-> 0, claimed |-> 0,
              proven |-> {}, unlinked |-> {}]

RegistrationNext ==
  \/ \E s \in Applicant :
       \/ AskRegister(s) \/ AskApply(s) \/ AskAdmin(s) \/ AskExternal(s)
       \/ ConsumeInvite(s) \/ InsertUser(s) \/ LockUser(s) \/ Count(s) \/ CreateBox(s) \/ Commit(s) \/ RollBack(s)
       \/ ReadState(s) \/ TakeState(s) \/ LoseProfile(s) \/ FinishLogin(s) \/ CheckLink(s) \/ Bind(s)
  \/ StartState("login", NoOne) \/ \E u \in Member : StartState("link", u)
  \/ Unlink
  \/ SetLimit \/ DropBox \/ ReceiveBox \/ Lapse \/ DropInvite \/ CountGroup \/ DropGroup

RegistrationSpec == RegistrationInit /\ [][RegistrationNext]_registrationVars

-----------------------------------------------------------------------------
(* Properties *)

\* The uses an invite has left always account for the accounts it made, and
\* never more accounts than it allows, however many requests race for it.
InviteNotOverspent == invite.used = tally.spent /\ tally.spent <= MaxUses
                      /\ tally.spent = Cardinality({u \in Member : members[u].way = "code"})

\* What a user creates himself stays within the highest limit he ever had;
\* beyond it he has only what others gave him.  The same for one day.
QuotaHolds ==
  /\ quota.highest > 0 => Cardinality(Owned(Owner)) <= quota.highest + quota.given
  /\ Daily > 0 => quota.self <= Daily

\* An account made through Linux.do has the identity it was made from, unless
\* its user unlinked it; others have it only after proving their password.
IdentityEarned ==
  /\ \A u \in Member : members[u].way = "external" => sso.identity = u \/ u \in tally.unlinked
  /\ sso.identity # NoOne =>
       members[sso.identity].way = "external" \/ sso.identity \in tally.proven

\* A state is good for one callback.
StateOnce == tally.claimed <= tally.issued

\* What registration promises, whatever order requests and changes come in.
RegistrationSafe == InviteNotOverspent /\ QuotaHolds /\ IdentityEarned /\ StateOnce
=============================================================================
