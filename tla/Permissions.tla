----------------------------- MODULE Permissions -----------------------------
(***************************************************************************)
(* Permission groups, what they give their members, and who may give it.   *)
(* A user in no group has the group of regular users; explicit groups      *)
(* replace it.  Whoever manages groups and members may hand out only what  *)
(* he holds himself; a super administrator may hand out anything.          *)
(*                                                                         *)
(* A request is authenticated and checked against what the database says   *)
(* at that moment, and writes later; others may have written in between.   *)
(***************************************************************************)
EXTENDS Naturals, FiniteSets

CONSTANTS
  Staff,        \* users
  Group,        \* permission groups besides that of regular users
  Regular,      \* pg_regular_user
  Right,        \* permission keys
  Manage,       \* the key that admits to the handlers below
  Default,      \* regularUserDefaultPermissions
  Allowance,    \* values of a limit; 0 is unlimited
  Desk,         \* requests under way at the same time
  MaxEdits      \* bound: requests made, and restarts

ASSUME PermissionsAssumption ==
  /\ Regular \notin Group /\ Manage \in Right /\ Default \subseteq Right
  /\ Allowance \subseteq Nat /\ {0, 1} \subseteq Allowance /\ MaxEdits \in Nat
  /\ IsFiniteSet(Group)

VARIABLES
  groups,     \* permission_groups
  staff,      \* users.role and user_permission_groups
  desk,       \* the requests under way
  migrated,   \* system_settings: the defaults were added to the regular group
  ceiling,    \* history: what regular users held at first, and what super
              \* administrators and the program itself added
  edits       \* the bound used up

permissionsVars == <<groups, staff, desk, migrated, ceiling, edits>>

AllGroups == Group \cup {Regular}
GroupRow == [kept : BOOLEAN, system : BOOLEAN, rights : SUBSET Right, limit : Allowance]
Grant == [rights : SUBSET Right, limit : Allowance]
Op == {"none", "create", "update", "delete", "assign", "promote"}
DeskRow == [op : Op, super : BOOLEAN, group : AllGroups, give : Grant, who : Staff,
            to : SUBSET Group]

PermissionsTypeOK ==
  /\ groups \in [AllGroups -> GroupRow]
  /\ staff \in [Staff -> [super : BOOLEAN, in : SUBSET Group]]
  /\ desk \in [Desk -> DeskRow]
  /\ migrated \in BOOLEAN
  /\ ceiling \in Grant
  /\ edits \in 0 .. MaxEdits

-----------------------------------------------------------------------------
(* Limits: 0 is unlimited, and absorbs every other value when merged.      *)

\* canGrantLimitValue
CanGrantLimit(have, want) == have = 0 \/ (want # 0 /\ want <= have)
\* mergeLimitValue
MergeLimit(a, b) == IF a = 0 \/ b = 0 THEN 0 ELSE IF b > a THEN b ELSE a

Widest(limits) == CHOOSE n \in limits : \A m \in limits : CanGrantLimit(n, m)
Merge(a, b) == [rights |-> a.rights \cup b.rights, limit |-> MergeLimit(a.limit, b.limit)]

\* authorizationForUser, effectivePermissionsForUserGroups and
\* effectiveLimitsForUserGroups: minimalLimits is where the merge begins.
GrantOf(in) ==
  LET has == {g \in in : groups[g].kept}
      from == IF has = {} THEN {Regular} ELSE has
  IN [rights |-> UNION {groups[g].rights : g \in from},
      limit |-> Widest({groups[g].limit : g \in from} \cup (IF has = {} THEN {} ELSE {1}))]

Everything == [rights |-> Right, limit |-> 0]
Holds(u) == IF staff[u].super THEN Everything ELSE GrantOf(staff[u].in)

\* actorCanGrantPermissions, actorCanGrantLimits
MayGrant(u, grant) ==
  \/ staff[u].super
  \/ grant.rights \subseteq Holds(u).rights /\ CanGrantLimit(Holds(u).limit, grant.limit)

\* Mutant: the groups only have to exist.
MayAssignAny(u, to) == \A g \in to : groups[g].kept

\* setUserPermissionGroups up to its writes; without groups the regular one counts.
MayAssign(u, to) == (\A g \in to : groups[g].kept) /\ MayGrant(u, GrantOf(to))

-----------------------------------------------------------------------------
(* Requests up to their checks; one that is refused changes nothing.       *)

Least == [rights |-> {}, limit |-> 1]
IdleDesk == [op |-> "none", super |-> FALSE, group |-> Regular, give |-> Least,
             who |-> CHOOSE u \in Staff : TRUE, to |-> {}]

\* requireAuth, requirePermission
Managers == {u \in Staff : Manage \in Holds(u).rights}
Free(k) == desk[k].op = "none" /\ edits < MaxEdits

Take(k, u, request) ==
  /\ edits' = edits + 1
  /\ desk' = [desk EXCEPT ![k] = [request EXCEPT !.super = staff[u].super]]
  /\ UNCHANGED <<groups, staff, migrated, ceiling>>

\* handleCreatePermissionGroup
AskCreate(k) ==
  Free(k) /\ \E u \in Managers, g \in Group, give \in Grant :
    /\ ~groups[g].kept /\ \A j \in Desk : ~(desk[j].op = "create" /\ desk[j].group = g)
    /\ MayGrant(u, give)
    /\ Take(k, u, [IdleDesk EXCEPT !.op = "create", !.group = g, !.give = give])

\* handleUpdatePermissionGroup; a request without limits reads those of the
\* group, and checks and writes them as if it had brought them.
AskUpdate(k) ==
  Free(k) /\ \E u \in Managers, g \in AllGroups, give \in Grant :
    /\ groups[g].kept /\ MayGrant(u, give)
    /\ Take(k, u, [IdleDesk EXCEPT !.op = "update", !.group = g, !.give = give])

\* handleDeletePermissionGroup counts the members.
AskDelete(k) ==
  Free(k) /\ \E u \in Managers, g \in Group :
    /\ groups[g].kept /\ ~groups[g].system /\ \A v \in Staff : g \notin staff[v].in
    /\ Take(k, u, [IdleDesk EXCEPT !.op = "delete", !.group = g])

\* handleCreateUser and handleUpdateUser, where they set the groups.  Only
\* super administrators touch each other, and nobody takes the access to the
\* administration from himself.
AskAssign(k) ==
  Free(k) /\ \E u \in Managers, v \in Staff, to \in SUBSET Group :
    /\ staff[u].super \/ ~staff[v].super
    /\ u = v => Manage \in GrantOf(to).rights
    /\ MayAssign(u, to)
    /\ Take(k, u, [IdleDesk EXCEPT !.op = "assign", !.who = v, !.to = to])

\* The same with the role of an administrator.
AskPromote(k) ==
  Free(k) /\ \E u \in Managers, v \in Staff :
    staff[u].super /\ Take(k, u, [IdleDesk EXCEPT !.op = "promote", !.who = v])

-----------------------------------------------------------------------------
(* Their writes *)

CloseDesk(k) == desk' = [desk EXCEPT ![k] = IdleDesk]

\* A write by a super administrator raises what anybody may come to hold.
Raise(k, grant) == ceiling' = IF desk[k].super THEN Merge(ceiling, grant) ELSE ceiling

WriteGroup(k) ==
  LET d == desk[k]
  IN /\ d.op \in {"create", "update"}
     /\ IF d.op = "create" \/ groups[d.group].kept
        THEN /\ groups' = [groups EXCEPT ![d.group] =
                  [kept |-> TRUE, system |-> @.system /\ d.op = "update",
                   rights |-> d.give.rights, limit |-> d.give.limit]]
             /\ Raise(k, d.give)
        ELSE UNCHANGED <<groups, ceiling>>
     /\ CloseDesk(k)
     /\ UNCHANGED <<staff, migrated, edits>>

\* Memberships written since the count go with the group: their users fall
\* back to the regular group.
WriteDelete(k) ==
  LET g == desk[k].group
  IN /\ desk[k].op = "delete"
     /\ groups' = [groups EXCEPT ![g].kept = FALSE]
     /\ staff' = [u \in Staff |-> [staff[u] EXCEPT !.in = @ \ {g}]]
     /\ CloseDesk(k)
     /\ UNCHANGED <<migrated, ceiling, edits>>

\* writeUserPermissionGroups: the INSERT fails for a group that is gone.
WriteAssign(k) ==
  LET d == desk[k]
  IN /\ d.op = "assign"
     /\ IF \A g \in d.to : groups[g].kept
        THEN /\ staff' = [staff EXCEPT ![d.who] = [super |-> FALSE, in |-> d.to]]
             /\ Raise(k, GrantOf(d.to))
        ELSE UNCHANGED <<staff, ceiling>>
     /\ CloseDesk(k)
     /\ UNCHANGED <<groups, migrated, edits>>

Promote(k) ==
  /\ desk[k].op = "promote"
  /\ staff' = [staff EXCEPT ![desk[k].who] = [super |-> TRUE, in |-> {}]]
  /\ CloseDesk(k)
  /\ UNCHANGED <<groups, migrated, ceiling, edits>>

\* ensureDefaultPermissionGroups, as another process starts: the regular group
\* gets its missing defaults once, a legacy group nobody is in goes, and one
\* with members becomes an ordinary group.
Restart ==
  LET gone == {g \in Group : groups[g].system /\ \A u \in Staff : g \notin staff[u].in}
  IN /\ edits < MaxEdits /\ edits' = edits + 1
     /\ groups' = [g \in AllGroups |->
          IF g = Regular THEN [groups[g] EXCEPT !.rights = IF migrated THEN @ ELSE @ \cup Default]
          ELSE [groups[g] EXCEPT !.kept = @ /\ g \notin gone, !.system = FALSE]]
     /\ ceiling' = IF migrated THEN ceiling ELSE [ceiling EXCEPT !.rights = @ \cup Default]
     /\ migrated' = TRUE
     /\ UNCHANGED <<staff, desk>>

-----------------------------------------------------------------------------

\* A super administrator, a manager in a group of his own, regular users; the
\* other group may be left of an earlier version, with all permissions.
PermissionsInit ==
  /\ \E super, manager \in Staff, lead, old \in Group, limit \in Allowance, legacy \in BOOLEAN :
       /\ super # manager /\ lead # old
       /\ groups = [g \in AllGroups |->
            [kept |-> g \in {Regular, lead} \/ legacy, system |-> legacy /\ g = old,
             rights |-> IF g = lead THEN {Manage} ELSE IF g = old THEN Right ELSE {},
             limit |-> IF g = lead THEN limit ELSE 1]]
       /\ staff = [u \in Staff |-> [super |-> u = super, in |-> IF u = manager THEN {lead} ELSE {}]]
       /\ ceiling = [rights |-> {Manage}, limit |-> limit]
       /\ migrated = ~legacy
  /\ desk = [k \in Desk |-> IdleDesk]
  /\ edits = 0

PermissionsNext ==
  \/ \E k \in Desk :
       \/ AskCreate(k) \/ AskUpdate(k) \/ AskDelete(k) \/ AskAssign(k) \/ AskPromote(k)
       \/ WriteGroup(k) \/ WriteDelete(k) \/ WriteAssign(k) \/ Promote(k)
  \/ Restart

PermissionsSpec == PermissionsInit /\ [][PermissionsNext]_permissionsVars

-----------------------------------------------------------------------------
(* Properties *)

\* Nobody but a super administrator comes to hold a permission, or a limit,
\* that no regular user held at first and no super administrator handed out,
\* by any sequence of edits and in any interleaving: managers only pass on
\* what they hold, and who loses a group falls back to the regular one.
PermissionsSafe ==
  \A u \in Staff : ~staff[u].super =>
    /\ Holds(u).rights \subseteq ceiling.rights
    /\ CanGrantLimit(ceiling.limit, Holds(u).limit)
=============================================================================
