------------------------ MODULE AdministrationProofs ------------------------
(***************************************************************************)
(* Theorems about what administrators govern: Permissions, Ownership and   *)
(* Registration, which share no variable.                                  *)
(*                                                                         *)
(* The inductive invariant of Permissions follows what is handed out: the  *)
(* rows of the groups regular users are in, what a manager is about to     *)
(* write into a group, and the groups he is about to assign.  The one of   *)
(* Ownership follows what a request has checked and is going to write.     *)
(* The one of Registration says what every request in its transaction has  *)
(* secured so far (Fits), and which two requests cannot have secured the   *)
(* same at once (Apart).                                                   *)
(***************************************************************************)
EXTENDS Permissions, Ownership, Registration, FiniteSetTheorems, WellFoundedInduction, TLAPS

-----------------------------------------------------------------------------
(* Permissions: the inductive invariant *)

\* No more than another grant: the comparison of actorCanGrantPermissions and
\* actorCanGrantLimits.
Below(grant, top) == grant.rights \subseteq top.rights /\ CanGrantLimit(top.limit, grant.limit)

\* A group gives nothing beyond the ceiling, even if it is gone.
RowBelow(g) == Below(groups[g], ceiling)

\* What a manager is about to write was his to give, or still is in the groups
\* he hands out.
DeskOK(d) ==
  ~d.super => /\ d.op \in {"create", "update"} => Below(d.give, ceiling)
              /\ d.op = "assign" => \A g \in d.to : RowBelow(g)

PermissionsInv ==
  /\ PermissionsTypeOK
  /\ RowBelow(Regular)
  /\ \A u \in Staff : ~staff[u].super => \A g \in staff[u].in : RowBelow(g)
  /\ \A k \in Desk : \A d \in DeskRow : desk[k] = d => DeskOK(d)

-----------------------------------------------------------------------------
(* Permissions: lemmas about limits *)

LEMMA LimitsOrder ==
  ASSUME NEW a \in Nat, NEW b \in Nat, NEW c \in Nat
  PROVE  /\ CanGrantLimit(a, a) /\ CanGrantLimit(a, 1)
         /\ CanGrantLimit(a, b) \/ CanGrantLimit(b, a)
         /\ CanGrantLimit(a, b) /\ CanGrantLimit(b, c) => CanGrantLimit(a, c)
  BY DEF CanGrantLimit

LEMMA MergeIsAbove ==
  ASSUME NEW a \in Nat, NEW b \in Nat
  PROVE  /\ MergeLimit(a, b) \in {0, a, b}
         /\ CanGrantLimit(MergeLimit(a, b), a) /\ CanGrantLimit(MergeLimit(a, b), b)
  BY DEF MergeLimit, CanGrantLimit

\* Finitely many limits have a widest one: a smallest set without would leave
\* one with, when a member is taken out, and one of the two would do.
LEMMA WidestIsAbove ==
  ASSUME NEW S \in SUBSET Nat, IsFiniteSet(S), S # {}
  PROVE  Widest(S) \in S /\ \A m \in S : CanGrantLimit(Widest(S), m)
<1> DEFINE Has(A) == \E n \in A : \A m \in A : CanGrantLimit(n, m)
           Bad == {A \in SUBSET S : A # {} /\ ~Has(A)}
<1>1. Bad = {}
  <2> SUFFICES ASSUME Bad # {} PROVE FALSE
    OBVIOUS
  <2>1. Bad \subseteq FiniteSubsetsOf(S)
    BY FS_Subset DEF FiniteSubsetsOf
  <2>2. PICK A \in Bad : \A B \in Bad : <<B, A>> \notin StrictSubsetOrdering(S)
    <3>1. IsWellFoundedOn(StrictSubsetOrdering(S), FiniteSubsetsOf(S))
      BY FS_StrictSubsetOrderingWellFounded
    <3> HIDE DEF Bad
    <3> QED BY <2>1, <3>1, WFMin
  <2>3. PICK x \in A : TRUE
    BY DEF Bad
  <2> DEFINE B == A \ {x}
  <2>4. A \subseteq S /\ ~Has(A) /\ B \subseteq S /\ x \in Nat
    BY <2>2, <2>3
  <2>5. <<B, A>> \in StrictSubsetOrdering(S)
    BY <2>3, <2>4 DEF StrictSubsetOrdering
  <2>6. B = {} \/ Has(B)
    BY <2>2, <2>4, <2>5
  <2>7. CASE B = {}
    <3>1. A = {x}
      BY <2>3, <2>7
    <3> QED BY <2>4, <3>1, LimitsOrder
  <2>8. CASE Has(B)
    <3>1. PICK n \in B : \A m \in B : CanGrantLimit(n, m)
      BY <2>8
    <3>2. n \in Nat /\ n \in A
      BY <2>4, <3>1
    <3>3. CASE CanGrantLimit(n, x)
      <4>1. \A m \in A : CanGrantLimit(n, m)
        BY <3>1, <3>3
      <4> QED BY <2>4, <3>2, <4>1
    <3>4. CASE CanGrantLimit(x, n)
      <4>1. \A m \in A : CanGrantLimit(x, m)
        <5> TAKE m \in A
        <5>1. m \in Nat
          BY <2>4
        <5>2. CASE m = x
          BY <2>4, <5>2, LimitsOrder
        <5>3. CASE m # x
          BY <2>4, <3>1, <3>2, <3>4, <5>1, <5>3, LimitsOrder
        <5> QED BY <5>2, <5>3
      <4> QED BY <2>3, <2>4, <4>1
    <3> QED BY <2>4, <3>2, <3>3, <3>4, LimitsOrder
  <2> QED BY <2>6, <2>7, <2>8
<1>2. S \notin Bad
  BY <1>1
<1>3. Has(S)
  BY <1>2
<1> QED BY <1>3 DEF Widest

-----------------------------------------------------------------------------
(* Permissions: lemmas about grants *)

IsGrant(x) == x.rights \in SUBSET Right /\ x.limit \in Nat

LEMMA BelowOrder ==
  ASSUME NEW x, NEW y, NEW z, IsGrant(x), IsGrant(y), IsGrant(z)
  PROVE  Below(x, x) /\ (Below(x, y) /\ Below(y, z) => Below(x, z))
<1>1. CanGrantLimit(x.limit, x.limit)
      /\ (CanGrantLimit(z.limit, y.limit) /\ CanGrantLimit(y.limit, x.limit)
          => CanGrantLimit(z.limit, x.limit))
  BY LimitsOrder DEF IsGrant
<1> QED BY <1>1 DEF Below

LEMMA MergedGrant ==
  ASSUME NEW x \in Grant, NEW y \in Grant
  PROVE  Merge(x, y) \in Grant /\ Below(x, Merge(x, y)) /\ Below(y, Merge(x, y))
<1>1. /\ x.rights \in SUBSET Right /\ y.rights \in SUBSET Right
      /\ x.limit \in Allowance /\ y.limit \in Allowance /\ Allowance \subseteq Nat /\ 0 \in Allowance
  BY PermissionsAssumption DEF Grant, PermissionsAssumption
<1>2. /\ MergeLimit(x.limit, y.limit) \in {0, x.limit, y.limit}
      /\ CanGrantLimit(MergeLimit(x.limit, y.limit), x.limit)
      /\ CanGrantLimit(MergeLimit(x.limit, y.limit), y.limit)
  BY <1>1, MergeIsAbove
<1> QED BY <1>1, <1>2 DEF Merge, Grant, Below

LEMMA GrantsTyped ==
  ASSUME PermissionsTypeOK
  PROVE  /\ \A g \in AllGroups : IsGrant(groups[g]) /\ groups[g].limit \in Allowance
         /\ \A x \in Grant : IsGrant(x)
         /\ ceiling \in Grant
  BY PermissionsAssumption
     DEF PermissionsTypeOK, PermissionsAssumption, IsGrant, GroupRow, Grant

\* effectivePermissionsForUserGroups and effectiveLimitsForUserGroups: the
\* merge is above every group it comes from, and no higher than anything that
\* is above all of them and the regular group.
LEMMA GrantOfGroups ==
  ASSUME PermissionsTypeOK, NEW in \in SUBSET Group
  PROVE  /\ GrantOf(in) \in Grant
         /\ \A g \in in : groups[g].kept => Below(groups[g], GrantOf(in))
         /\ \A top \in Grant : Below(groups[Regular], top) /\ (\A g \in in : Below(groups[g], top))
                               => Below(GrantOf(in), top)
<1> DEFINE has == {g \in in : groups[g].kept}
           from == IF has = {} THEN {Regular} ELSE has
           limits == {groups[g].limit : g \in from}
           all == limits \cup (IF has = {} THEN {} ELSE {1})
           rights == UNION {groups[g].rights : g \in from}
<1>1. GrantOf(in) = [rights |-> rights, limit |-> Widest(all)]
  BY DEF GrantOf
<1>2. from \subseteq AllGroups /\ IsFiniteSet(from) /\ from # {}
  <2>1. IsFiniteSet(has)
    BY FS_Subset, PermissionsAssumption DEF PermissionsAssumption
  <2>2. IsFiniteSet({Regular})
    BY FS_Singleton
  <2> QED BY <2>1, <2>2 DEF AllGroups
<1>3. /\ Allowance \subseteq Nat /\ 1 \in Allowance
      /\ \A g \in AllGroups : IsGrant(groups[g]) /\ groups[g].limit \in Allowance
  BY GrantsTyped, PermissionsAssumption DEF PermissionsAssumption
<1>4. IsFiniteSet(limits) /\ limits \subseteq Allowance /\ limits # {}
  <2> DEFINE f == [g \in from |-> groups[g].limit]
  <2>1. f \in Surjection(from, limits)
    BY DEF Surjection
  <2>2. IsFiniteSet(limits)
    BY <1>2, <2>1, FS_Surjection
  <2> QED BY <1>2, <1>3, <2>2
<1>5. IsFiniteSet(all) /\ all \subseteq Allowance /\ all # {}
  <2>1. IsFiniteSet(limits \cup {1})
    BY <1>4, FS_AddElement
  <2>2. limits \cup {} = limits
    OBVIOUS
  <2> QED BY <1>3, <1>4, <2>1, <2>2
<1>6. Widest(all) \in all /\ \A m \in all : CanGrantLimit(Widest(all), m)
  <2> HIDE DEF all
  <2> QED BY <1>3, <1>5, WidestIsAbove
<1>7. rights \in SUBSET Right
  BY <1>2, <1>3 DEF IsGrant
<1>8. GrantOf(in) \in Grant
  BY <1>1, <1>5, <1>6, <1>7 DEF Grant
<1>9. ASSUME NEW g \in in, groups[g].kept
      PROVE  Below(groups[g], GrantOf(in))
  <2>1. g \in from
    BY <1>9
  <2>2. groups[g].rights \subseteq rights /\ groups[g].limit \in all
    BY <2>1
  <2> HIDE DEF rights, all
  <2> QED BY <1>1, <1>6, <2>2 DEF Below
<1>10. ASSUME NEW top \in Grant, Below(groups[Regular], top), \A g \in in : Below(groups[g], top)
       PROVE  Below(GrantOf(in), top)
  <2>1. \A g \in from : Below(groups[g], top)
    BY <1>10
  <2>2. rights \subseteq top.rights
    BY <2>1 DEF Below
  <2>3. CanGrantLimit(top.limit, Widest(all))
    <3>1. top.limit \in Nat
      BY <1>3 DEF Grant
    <3>2. CanGrantLimit(top.limit, 1)
      BY <3>1, LimitsOrder
    <3>3. \A m \in all : CanGrantLimit(top.limit, m)
      BY <2>1, <3>2 DEF Below
    <3> QED BY <1>6, <3>3
  <2> HIDE DEF rights, all
  <2> QED BY <1>1, <2>2, <2>3 DEF Below
<1> QED BY <1>8, <1>9, <1>10

\* What a user who is no super administrator holds is below the ceiling.
LEMMA HoldsBelow ==
  ASSUME PermissionsInv, NEW u \in Staff, ~staff[u].super
  PROVE  Holds(u) \in Grant /\ Below(Holds(u), ceiling)
<1>1. staff[u].in \in SUBSET Group /\ PermissionsTypeOK
  BY DEF PermissionsInv, PermissionsTypeOK
<1>2. Below(groups[Regular], ceiling) /\ \A g \in staff[u].in : Below(groups[g], ceiling)
  BY DEF PermissionsInv, RowBelow
<1>3. ceiling \in Grant
  BY <1>1, GrantsTyped
<1> QED BY <1>1, <1>2, <1>3, GrantOfGroups DEF Holds

\* actorCanGrantPermissions and actorCanGrantLimits let a manager give only
\* what is below the ceiling.
LEMMA GrantedBelow ==
  ASSUME PermissionsInv, NEW u \in Staff, ~staff[u].super, NEW give \in Grant, MayGrant(u, give)
  PROVE  Below(give, ceiling)
<1>1. Holds(u) \in Grant /\ Below(Holds(u), ceiling)
  BY HoldsBelow
<1>2. Below(give, Holds(u))
  BY DEF MayGrant, Below
<1>3. IsGrant(give) /\ IsGrant(Holds(u)) /\ IsGrant(ceiling)
  BY <1>1, GrantsTyped DEF PermissionsInv
<1> QED BY <1>1, <1>2, <1>3, BelowOrder

-----------------------------------------------------------------------------
(* Permissions: steps *)

\* The ceiling is not lowered, and no group rises above it.
Kept ==
  /\ \A x : IsGrant(x) /\ Below(x, ceiling) => Below(x, ceiling')
  /\ \A g \in AllGroups : RowBelow(g) => RowBelow(g)'

LEMMA StepKeeps ==
  ASSUME PermissionsInv, PermissionsTypeOK', Kept,
         \A u \in Staff : ~staff'[u].super => \A g \in staff'[u].in : RowBelow(g)',
         \A k \in Desk : \A d \in DeskRow : desk'[k] = d => DeskOK(d)
  PROVE  PermissionsInv'
<1>1. RowBelow(Regular)'
  BY DEF PermissionsInv, Kept, AllGroups
<1>2. ASSUME NEW k \in Desk, NEW d \in DeskRow, desk'[k] = d
      PROVE  DeskOK(d)'
  <2>1. DeskOK(d) /\ d.give \in Grant /\ d.to \in SUBSET Group
    BY <1>2 DEF DeskRow
  <2>2. IsGrant(d.give) /\ d.to \subseteq AllGroups
    BY <2>1, GrantsTyped DEF PermissionsInv, AllGroups
  <2> QED BY <2>1, <2>2 DEF DeskOK, Kept
<1> QED BY <1>1, <1>2 DEF PermissionsInv

\* Where neither the rows nor the ceiling change.
LEMMA SameRows ==
  ASSUME UNCHANGED <<groups, ceiling>>
  PROVE  Kept /\ \A g \in AllGroups : RowBelow(g)' = RowBelow(g)
  BY DEF Kept, RowBelow

LEMMA IdleDeskFits ==
  ASSUME PermissionsInv, NEW k \in Desk
  PROVE  IdleDesk \in DeskRow /\ DeskOK(IdleDesk)
<1>1. desk[k] \in DeskRow
  BY DEF PermissionsInv, PermissionsTypeOK
<1>2. (CHOOSE u \in Staff : TRUE) \in Staff
  BY <1>1 DEF DeskRow
<1>3. Least \in Grant
  BY PermissionsAssumption DEF Least, Grant, PermissionsAssumption
<1>4. IdleDesk \in DeskRow
  BY <1>2, <1>3 DEF IdleDesk, DeskRow, Op, AllGroups
<1> QED BY <1>4 DEF IdleDesk, DeskOK

\* A request is taken: only its desk and the bound change.
LEMMA TakeStep ==
  ASSUME PermissionsInv, NEW k \in Desk, NEW u \in Staff, NEW x \in DeskRow, ~x.super,
         Free(k), Take(k, u, x), ~staff[u].super => DeskOK(x)
  PROVE  PermissionsInv'
<1> DEFINE y == [x EXCEPT !.super = staff[u].super]
<1>1. PermissionsTypeOK /\ staff[u].super \in BOOLEAN
  BY DEF PermissionsInv, PermissionsTypeOK
<1>2. y \in DeskRow /\ y.super = staff[u].super /\ y.op = x.op /\ y.give = x.give /\ y.to = x.to
  BY <1>1 DEF DeskRow
<1>3. /\ desk' = [desk EXCEPT ![k] = y] /\ edits' = edits + 1
      /\ UNCHANGED <<groups, staff, migrated, ceiling>>
  BY DEF Take
<1> HIDE DEF y
<1>4. DeskOK(y)
  BY <1>2 DEF DeskOK
<1>5. PermissionsTypeOK'
  <2>1. desk' \in [Desk -> DeskRow]
    BY <1>1, <1>2, <1>3 DEF PermissionsTypeOK
  <2>2. edits' \in 0 .. MaxEdits
    BY <1>1, <1>3, PermissionsAssumption DEF PermissionsTypeOK, Free, PermissionsAssumption
  <2> QED BY <1>1, <1>3, <2>1, <2>2 DEF PermissionsTypeOK
<1>6. Kept /\ \A v \in Staff : ~staff'[v].super => \A g \in staff'[v].in : RowBelow(g)'
  <2>1. \A v \in Staff : staff[v].in \subseteq AllGroups
    BY <1>1 DEF PermissionsTypeOK, AllGroups
  <2> QED BY <1>3, <2>1, SameRows DEF PermissionsInv
<1>7. \A j \in Desk : \A d \in DeskRow : desk'[j] = d => DeskOK(d)
  BY <1>1, <1>3, <1>4 DEF PermissionsInv, PermissionsTypeOK
<1> QED BY <1>5, <1>6, <1>7, StepKeeps

LEMMA AskCreateStep ==
  ASSUME PermissionsInv, NEW k \in Desk, AskCreate(k)
  PROVE  PermissionsInv'
<1>1. PICK u \in Staff, g \in Group, give \in Grant :
        /\ MayGrant(u, give)
        /\ Take(k, u, [IdleDesk EXCEPT !.op = "create", !.group = g, !.give = give])
  BY DEF AskCreate, Managers
<1> DEFINE x == [IdleDesk EXCEPT !.op = "create", !.group = g, !.give = give]
<1>2. IdleDesk \in DeskRow /\ ~IdleDesk.super
  BY IdleDeskFits DEF IdleDesk
<1>3. x \in DeskRow /\ ~x.super /\ x.op = "create" /\ x.give = give
  BY <1>2 DEF DeskRow, Op, AllGroups
<1>4. Take(k, u, x)
  BY <1>1
<1> HIDE DEF x
<1>5. ~staff[u].super => DeskOK(x)
  BY <1>1, <1>3, GrantedBelow DEF DeskOK
<1> QED BY <1>3, <1>4, <1>5, TakeStep DEF AskCreate

LEMMA AskUpdateStep ==
  ASSUME PermissionsInv, NEW k \in Desk, AskUpdate(k)
  PROVE  PermissionsInv'
<1>1. PICK u \in Staff, g \in AllGroups, give \in Grant :
        /\ MayGrant(u, give)
        /\ Take(k, u, [IdleDesk EXCEPT !.op = "update", !.group = g, !.give = give])
  BY DEF AskUpdate, Managers
<1> DEFINE x == [IdleDesk EXCEPT !.op = "update", !.group = g, !.give = give]
<1>2. IdleDesk \in DeskRow /\ ~IdleDesk.super
  BY IdleDeskFits DEF IdleDesk
<1>3. x \in DeskRow /\ ~x.super /\ x.op = "update" /\ x.give = give
  BY <1>2 DEF DeskRow, Op
<1>4. Take(k, u, x)
  BY <1>1
<1> HIDE DEF x
<1>5. ~staff[u].super => DeskOK(x)
  BY <1>1, <1>3, GrantedBelow DEF DeskOK
<1> QED BY <1>3, <1>4, <1>5, TakeStep DEF AskUpdate

LEMMA AskDeleteStep ==
  ASSUME PermissionsInv, NEW k \in Desk, AskDelete(k)
  PROVE  PermissionsInv'
<1>1. PICK u \in Staff, g \in Group :
        Take(k, u, [IdleDesk EXCEPT !.op = "delete", !.group = g])
  BY DEF AskDelete, Managers
<1> DEFINE x == [IdleDesk EXCEPT !.op = "delete", !.group = g]
<1>2. IdleDesk \in DeskRow /\ ~IdleDesk.super
  BY IdleDeskFits DEF IdleDesk
<1>3. x \in DeskRow /\ ~x.super /\ x.op = "delete"
  BY <1>2 DEF DeskRow, Op, AllGroups
<1>4. Take(k, u, x)
  BY <1>1
<1> HIDE DEF x
<1>5. DeskOK(x)
  BY <1>3 DEF DeskOK
<1> QED BY <1>3, <1>4, <1>5, TakeStep DEF AskDelete

LEMMA AskAssignStep ==
  ASSUME PermissionsInv, NEW k \in Desk, AskAssign(k)
  PROVE  PermissionsInv'
<1>1. PICK u \in Staff, v \in Staff, to \in SUBSET Group :
        /\ MayAssign(u, to)
        /\ Take(k, u, [IdleDesk EXCEPT !.op = "assign", !.who = v, !.to = to])
  BY DEF AskAssign, Managers
<1> DEFINE x == [IdleDesk EXCEPT !.op = "assign", !.who = v, !.to = to]
<1>2. IdleDesk \in DeskRow /\ ~IdleDesk.super
  BY IdleDeskFits DEF IdleDesk
<1>3. x \in DeskRow /\ ~x.super /\ x.op = "assign" /\ x.to = to
  BY <1>2 DEF DeskRow, Op
<1>4. Take(k, u, x)
  BY <1>1
<1> HIDE DEF x
<1>5. ASSUME ~staff[u].super, NEW g \in to
      PROVE  RowBelow(g)
  <2>1. PermissionsTypeOK /\ groups[g].kept /\ MayGrant(u, GrantOf(to)) /\ g \in AllGroups
    BY <1>1 DEF PermissionsInv, MayAssign, AllGroups
  <2>2. GrantOf(to) \in Grant /\ Below(groups[g], GrantOf(to))
    BY <2>1, GrantOfGroups
  <2>3. Below(GrantOf(to), ceiling)
    BY <1>5, <2>1, <2>2, GrantedBelow
  <2>4. IsGrant(groups[g]) /\ IsGrant(GrantOf(to)) /\ IsGrant(ceiling)
    BY <2>1, <2>2, GrantsTyped
  <2> QED BY <2>2, <2>3, <2>4, BelowOrder DEF RowBelow
<1>6. ~staff[u].super => DeskOK(x)
  BY <1>3, <1>5 DEF DeskOK
<1> QED BY <1>3, <1>4, <1>6, TakeStep DEF AskAssign

LEMMA AskPromoteStep ==
  ASSUME PermissionsInv, NEW k \in Desk, AskPromote(k)
  PROVE  PermissionsInv'
<1>1. PICK u \in Staff, v \in Staff :
        Take(k, u, [IdleDesk EXCEPT !.op = "promote", !.who = v])
  BY DEF AskPromote, Managers
<1> DEFINE x == [IdleDesk EXCEPT !.op = "promote", !.who = v]
<1>2. IdleDesk \in DeskRow /\ ~IdleDesk.super
  BY IdleDeskFits DEF IdleDesk
<1>3. x \in DeskRow /\ ~x.super /\ x.op = "promote"
  BY <1>2 DEF DeskRow, Op
<1>4. Take(k, u, x)
  BY <1>1
<1> HIDE DEF x
<1>5. DeskOK(x)
  BY <1>3 DEF DeskOK
<1> QED BY <1>3, <1>4, <1>5, TakeStep DEF AskPromote

\* A desk that is cleared.
LEMMA ClosedDesk ==
  ASSUME PermissionsInv, NEW k \in Desk, CloseDesk(k)
  PROVE  /\ desk' \in [Desk -> DeskRow]
         /\ \A j \in Desk : \A d \in DeskRow : desk'[j] = d => DeskOK(d)
  BY IdleDeskFits DEF CloseDesk, PermissionsInv, PermissionsTypeOK

\* A write by a super administrator raises the ceiling above what it gives.
LEMMA Raised ==
  ASSUME PermissionsInv, NEW k \in Desk, NEW x \in Grant, Raise(k, x)
  PROVE  /\ ceiling' \in Grant
         /\ \A y : IsGrant(y) /\ Below(y, ceiling) => Below(y, ceiling')
         /\ desk[k].super => Below(x, ceiling')
<1>1. ceiling \in Grant /\ IsGrant(ceiling)
  BY GrantsTyped DEF PermissionsInv
<1>2. CASE ~desk[k].super
  BY <1>1, <1>2 DEF Raise
<1>3. CASE desk[k].super
  <2>1. ceiling' = Merge(ceiling, x)
    BY <1>3 DEF Raise
  <2>2. ceiling' \in Grant /\ Below(ceiling, ceiling') /\ Below(x, ceiling')
    BY <1>1, <2>1, MergedGrant
  <2>3. IsGrant(ceiling')
    BY <2>2, GrantsTyped DEF PermissionsInv
  <2> QED BY <1>1, <2>2, <2>3, BelowOrder
<1> QED BY <1>2, <1>3

LEMMA WriteGroupStep ==
  ASSUME PermissionsInv, NEW k \in Desk, WriteGroup(k)
  PROVE  PermissionsInv'
<1> DEFINE d == desk[k]
           row == [kept |-> TRUE, system |-> groups[d.group].system /\ d.op = "update",
                   rights |-> d.give.rights, limit |-> d.give.limit]
<1>1. /\ PermissionsTypeOK /\ d \in DeskRow /\ DeskOK(d) /\ d.op \in {"create", "update"}
      /\ d.give \in Grant /\ d.group \in AllGroups /\ CloseDesk(k)
      /\ UNCHANGED <<staff, migrated, edits>>
  BY DEF PermissionsInv, PermissionsTypeOK, WriteGroup, DeskRow
<1>2. CASE ~(d.op = "create" \/ groups[d.group].kept)
  <2>1. UNCHANGED <<groups, ceiling, staff, migrated, edits>>
    BY <1>2 DEF WriteGroup
  <2>2. PermissionsTypeOK'
    BY <1>1, <2>1, ClosedDesk DEF PermissionsTypeOK
  <2>3. \A v \in Staff : staff[v].in \subseteq AllGroups
    BY <1>1 DEF PermissionsTypeOK, AllGroups
  <2> QED BY <1>1, <2>1, <2>2, <2>3, SameRows, ClosedDesk, StepKeeps DEF PermissionsInv
<1>3. CASE d.op = "create" \/ groups[d.group].kept
  <2>1. groups' = [groups EXCEPT ![d.group] = row] /\ Raise(k, d.give)
    BY <1>1, <1>3 DEF WriteGroup, PermissionsTypeOK
  <2>2. /\ ceiling' \in Grant
        /\ \A y : IsGrant(y) /\ Below(y, ceiling) => Below(y, ceiling')
        /\ d.super => Below(d.give, ceiling')
    BY <1>1, <2>1, Raised
  <2>3. IsGrant(d.give)
    BY <1>1, GrantsTyped
  <2>4. Below(d.give, ceiling')
    <3>1. ~d.super => Below(d.give, ceiling)
      BY <1>1 DEF DeskOK
    <3> QED BY <2>2, <2>3, <3>1
  <2>5. row \in GroupRow /\ row.rights = d.give.rights /\ row.limit = d.give.limit
    BY <1>1 DEF GroupRow, Grant, PermissionsTypeOK
  <2> HIDE DEF row, d
  <2>6. PermissionsTypeOK'
    BY <1>1, <2>1, <2>2, <2>5, ClosedDesk DEF PermissionsTypeOK
  <2>7. ASSUME NEW g \in AllGroups
        PROVE  /\ RowBelow(g) => RowBelow(g)'
               /\ g = d.group => RowBelow(g)'
    <3>1. CASE g = d.group
      <4>1. groups'[g] = row
        BY <1>1, <2>1, <3>1 DEF PermissionsTypeOK
      <4>2. Below(groups'[g], ceiling')
        BY <2>4, <2>5, <4>1 DEF Below
      <4> QED BY <4>2 DEF RowBelow
    <3>2. CASE g # d.group
      <4>1. groups'[g] = groups[g] /\ IsGrant(groups[g])
        BY <1>1, <2>1, <3>2, GrantsTyped DEF PermissionsTypeOK
      <4>2. Below(groups[g], ceiling) => Below(groups'[g], ceiling')
        BY <2>2, <4>1
      <4> QED BY <3>2, <4>2 DEF RowBelow
    <3> QED BY <3>1, <3>2
  <2>8. Kept
    BY <2>2, <2>7 DEF Kept
  <2>9. \A u \in Staff : ~staff'[u].super => \A g \in staff'[u].in : RowBelow(g)'
    <3>1. \A v \in Staff : staff[v].in \subseteq AllGroups
      BY <1>1 DEF PermissionsTypeOK, AllGroups
    <3> QED BY <1>1, <2>7, <3>1 DEF PermissionsInv
  <2> QED BY <1>1, <2>6, <2>8, <2>9, ClosedDesk, StepKeeps
<1> QED BY <1>2, <1>3

LEMMA WriteDeleteStep ==
  ASSUME PermissionsInv, NEW k \in Desk, WriteDelete(k)
  PROVE  PermissionsInv'
<1> DEFINE g == desk[k].group
<1>1. /\ PermissionsTypeOK /\ g \in AllGroups /\ CloseDesk(k)
      /\ groups' = [groups EXCEPT ![g].kept = FALSE]
      /\ staff' = [u \in Staff |-> [staff[u] EXCEPT !.in = @ \ {g}]]
      /\ UNCHANGED <<migrated, ceiling, edits>>
  BY DEF PermissionsInv, PermissionsTypeOK, WriteDelete, DeskRow
<1> HIDE DEF g
<1>2. /\ groups' \in [AllGroups -> GroupRow]
      /\ \A h \in AllGroups : groups'[h].rights = groups[h].rights /\ groups'[h].limit = groups[h].limit
  BY <1>1 DEF PermissionsTypeOK, GroupRow
<1>3. /\ staff' \in [Staff -> [super : BOOLEAN, in : SUBSET Group]]
      /\ \A u \in Staff : staff'[u].super = staff[u].super /\ staff'[u].in \subseteq staff[u].in
      /\ \A u \in Staff : staff[u].in \subseteq AllGroups
  <2>1. staff \in [Staff -> [super : BOOLEAN, in : SUBSET Group]]
    BY <1>1 DEF PermissionsTypeOK
  <2>2. \A u \in Staff : staff'[u] = [staff[u] EXCEPT !.in = @ \ {g}]
    BY <1>1
  <2>3. \A u \in Staff : /\ staff'[u] \in [super : BOOLEAN, in : SUBSET Group]
                         /\ staff'[u].super = staff[u].super /\ staff'[u].in \subseteq staff[u].in
    <3> TAKE u \in Staff
    <3> DEFINE rest == staff[u].in \ {g}
    <3>1. /\ staff[u] \in [super : BOOLEAN, in : SUBSET Group]
          /\ rest \in SUBSET Group /\ rest \subseteq staff[u].in
      BY <2>1
    <3>2. staff'[u] = [staff[u] EXCEPT !.in = rest]
      BY <2>2
    <3> HIDE DEF rest
    <3> QED BY <3>1, <3>2
  <2> QED BY <1>1, <2>1, <2>3 DEF AllGroups
<1>4. PermissionsTypeOK'
  BY <1>1, <1>2, <1>3, ClosedDesk DEF PermissionsTypeOK
<1>5. \A h \in AllGroups : RowBelow(h) => RowBelow(h)'
  BY <1>1, <1>2 DEF RowBelow, Below
<1>6. Kept
  BY <1>1, <1>5 DEF Kept
<1>7. \A u \in Staff : ~staff'[u].super => \A h \in staff'[u].in : RowBelow(h)'
  BY <1>3, <1>5 DEF PermissionsInv
<1> QED BY <1>1, <1>4, <1>6, <1>7, ClosedDesk, StepKeeps

LEMMA WriteAssignStep ==
  ASSUME PermissionsInv, NEW k \in Desk, WriteAssign(k)
  PROVE  PermissionsInv'
<1> DEFINE d == desk[k]
<1>1. /\ PermissionsTypeOK /\ d \in DeskRow /\ DeskOK(d) /\ d.op = "assign"
      /\ d.to \in SUBSET Group /\ d.who \in Staff /\ CloseDesk(k)
      /\ UNCHANGED <<groups, migrated, edits>>
  BY DEF PermissionsInv, PermissionsTypeOK, WriteAssign, DeskRow
<1>2. \A v \in Staff : staff[v].in \subseteq AllGroups
  BY <1>1 DEF PermissionsTypeOK, AllGroups
<1>3. CASE ~(\A g \in d.to : groups[g].kept)
  <2>1. UNCHANGED <<groups, ceiling, staff, migrated, edits>>
    BY <1>3 DEF WriteAssign
  <2>2. PermissionsTypeOK'
    BY <1>1, <2>1, ClosedDesk DEF PermissionsTypeOK
  <2> QED BY <1>1, <1>2, <2>1, <2>2, SameRows, ClosedDesk, StepKeeps DEF PermissionsInv
<1>4. CASE \A g \in d.to : groups[g].kept
  <2>1. staff' = [staff EXCEPT ![d.who] = [super |-> FALSE, in |-> d.to]] /\ Raise(k, GrantOf(d.to))
    BY <1>4 DEF WriteAssign
  <2>2. /\ GrantOf(d.to) \in Grant /\ IsGrant(GrantOf(d.to))
        /\ \A g \in d.to : Below(groups[g], GrantOf(d.to))
    <3>1. GrantOf(d.to) \in Grant /\ \A g \in d.to : Below(groups[g], GrantOf(d.to))
      BY <1>1, <1>4, GrantOfGroups
    <3> QED BY <1>1, <3>1, GrantsTyped
  <2>3. /\ ceiling' \in Grant /\ IsGrant(ceiling')
        /\ \A y : IsGrant(y) /\ Below(y, ceiling) => Below(y, ceiling')
        /\ d.super => Below(GrantOf(d.to), ceiling')
    <3>1. /\ ceiling' \in Grant
          /\ \A y : IsGrant(y) /\ Below(y, ceiling) => Below(y, ceiling')
          /\ d.super => Below(GrantOf(d.to), ceiling')
      BY <2>1, <2>2, Raised
    <3> QED BY <1>1, <3>1, GrantsTyped
  <2>4. ASSUME NEW g \in AllGroups, RowBelow(g)
        PROVE  RowBelow(g)'
    <3>1. IsGrant(groups[g]) /\ Below(groups[g], ceiling)
      BY <1>1, <2>4, GrantsTyped DEF RowBelow
    <3>2. Below(groups[g], ceiling') /\ groups' = groups
      BY <1>1, <2>3, <3>1
    <3> QED BY <3>2 DEF RowBelow
  <2>5. ASSUME NEW g \in d.to
        PROVE  RowBelow(g)'
    <3>1. g \in AllGroups
      BY <1>1 DEF AllGroups
    <3>2. CASE ~d.super
      BY <1>1, <2>4, <3>1, <3>2 DEF DeskOK
    <3>3. CASE d.super
      <4>1. IsGrant(groups[g])
        BY <1>1, <3>1, GrantsTyped
      <4>2. Below(groups[g], ceiling') /\ groups' = groups
        BY <1>1, <2>2, <2>3, <3>3, <4>1, BelowOrder
      <4> QED BY <4>2 DEF RowBelow
    <3> QED BY <3>2, <3>3
  <2> HIDE DEF d
  <2>6. PermissionsTypeOK'
    <3>1. [super |-> FALSE, in |-> d.to] \in [super : BOOLEAN, in : SUBSET Group]
      BY <1>1
    <3>2. staff' \in [Staff -> [super : BOOLEAN, in : SUBSET Group]]
      BY <1>1, <2>1, <3>1 DEF PermissionsTypeOK
    <3> QED BY <1>1, <2>3, <3>2, ClosedDesk DEF PermissionsTypeOK
  <2>7. Kept
    BY <2>3, <2>4 DEF Kept
  <2>8. ASSUME NEW u \in Staff, ~staff'[u].super, NEW g \in staff'[u].in
        PROVE  RowBelow(g)'
    <3>1. CASE u = d.who
      BY <1>1, <2>1, <2>5, <2>8, <3>1 DEF PermissionsTypeOK
    <3>2. CASE u # d.who
      <4>1. staff'[u] = staff[u]
        BY <1>1, <2>1, <3>2 DEF PermissionsTypeOK
      <4> QED BY <1>2, <2>4, <2>8, <4>1 DEF PermissionsInv
    <3> QED BY <3>1, <3>2
  <2> QED BY <1>1, <2>6, <2>7, <2>8, ClosedDesk, StepKeeps
<1> QED BY <1>3, <1>4

LEMMA PromoteStep ==
  ASSUME PermissionsInv, NEW k \in Desk, Promote(k)
  PROVE  PermissionsInv'
<1>1. /\ PermissionsTypeOK /\ CloseDesk(k) /\ UNCHANGED <<groups, migrated, ceiling, edits>>
      /\ staff' = [staff EXCEPT ![desk[k].who] = [super |-> TRUE, in |-> {}]]
      /\ desk[k].who \in Staff
  BY DEF PermissionsInv, PermissionsTypeOK, Promote, DeskRow
<1>2. /\ staff' \in [Staff -> [super : BOOLEAN, in : SUBSET Group]]
      /\ \A u \in Staff : ~staff'[u].super => staff'[u] = staff[u]
      /\ \A u \in Staff : staff[u].in \subseteq AllGroups
  BY <1>1 DEF PermissionsTypeOK, AllGroups
<1>3. PermissionsTypeOK'
  BY <1>1, <1>2, ClosedDesk DEF PermissionsTypeOK
<1>4. \A u \in Staff : ~staff'[u].super => \A g \in staff'[u].in : RowBelow(g)'
  BY <1>1, <1>2, SameRows DEF PermissionsInv
<1> QED BY <1>1, <1>3, <1>4, SameRows, ClosedDesk, StepKeeps

LEMMA RestartStep ==
  ASSUME PermissionsInv, Restart
  PROVE  PermissionsInv'
<1> DEFINE added == IF migrated THEN {} ELSE Default
<1>1. /\ PermissionsTypeOK /\ Default \subseteq Right /\ edits < MaxEdits /\ edits' = edits + 1
      /\ UNCHANGED <<staff, desk>> /\ migrated' = TRUE
  BY PermissionsAssumption DEF PermissionsInv, Restart, PermissionsAssumption
<1>2. /\ groups' \in [AllGroups -> GroupRow]
      /\ \A g \in AllGroups : /\ groups'[g].limit = groups[g].limit
                              /\ groups'[g].rights = IF g = Regular THEN groups[g].rights \cup added
                                                    ELSE groups[g].rights
  <2> DEFINE gone == {g \in Group : groups[g].system /\ \A u \in Staff : g \notin staff[u].in}
  <2>1. groups' = [g \in AllGroups |->
          IF g = Regular THEN [groups[g] EXCEPT !.rights = IF migrated THEN @ ELSE @ \cup Default]
          ELSE [groups[g] EXCEPT !.kept = @ /\ g \notin gone, !.system = FALSE]]
    BY DEF Restart
  <2> HIDE DEF gone
  <2>2. groups \in [AllGroups -> GroupRow]
    BY <1>1 DEF PermissionsTypeOK
  <2>3. ASSUME NEW g \in AllGroups, g = Regular
        PROVE  /\ groups'[g] \in GroupRow /\ groups'[g].limit = groups[g].limit
               /\ groups'[g].rights = groups[g].rights \cup added
    BY <1>1, <2>1, <2>2, <2>3 DEF GroupRow
  <2>4. ASSUME NEW g \in AllGroups, g # Regular
        PROVE  /\ groups'[g] \in GroupRow /\ groups'[g].limit = groups[g].limit
               /\ groups'[g].rights = groups[g].rights
    BY <2>1, <2>2, <2>4 DEF GroupRow
  <2>5. groups' = [g \in AllGroups |-> groups'[g]]
    BY <2>1
  <2> QED BY <2>3, <2>4, <2>5
<1>3. /\ ceiling' \in Grant /\ ceiling'.limit = ceiling.limit
      /\ ceiling'.rights = ceiling.rights \cup added
  BY <1>1, GrantsTyped DEF Restart, Grant
<1> HIDE DEF added
<1>4. PermissionsTypeOK'
  <2>1. edits' \in 0 .. MaxEdits
    BY <1>1, PermissionsAssumption DEF PermissionsTypeOK, PermissionsAssumption
  <2> QED BY <1>1, <1>2, <1>3, <2>1 DEF PermissionsTypeOK
<1>5. ASSUME NEW g \in AllGroups, RowBelow(g)
      PROVE  RowBelow(g)'
  BY <1>2, <1>3, <1>5 DEF RowBelow, Below
<1>6. \A x : Below(x, ceiling) => Below(x, ceiling')
  BY <1>3 DEF Below
<1>7. Kept
  BY <1>5, <1>6 DEF Kept
<1>8. \A u \in Staff : ~staff'[u].super => \A g \in staff'[u].in : RowBelow(g)'
  <2>1. \A v \in Staff : staff[v].in \subseteq AllGroups
    BY <1>1 DEF PermissionsTypeOK, AllGroups
  <2> QED BY <1>1, <1>5, <2>1 DEF PermissionsInv
<1> QED BY <1>1, <1>4, <1>7, <1>8, StepKeeps DEF PermissionsInv

-----------------------------------------------------------------------------
(* Permissions: theorems *)

LEMMA PermissionsStart == PermissionsInit => PermissionsInv
<1> SUFFICES ASSUME PermissionsInit PROVE PermissionsInv
  OBVIOUS
<1>1. PICK super \in Staff, manager \in Staff, lead \in Group, old \in Group,
           limit \in Allowance, legacy \in BOOLEAN :
       /\ super # manager /\ lead # old
       /\ groups = [g \in AllGroups |->
            [kept |-> g \in {Regular, lead} \/ legacy, system |-> legacy /\ g = old,
             rights |-> IF g = lead THEN {Manage} ELSE IF g = old THEN Right ELSE {},
             limit |-> IF g = lead THEN limit ELSE 1]]
       /\ staff = [u \in Staff |-> [super |-> u = super, in |-> IF u = manager THEN {lead} ELSE {}]]
       /\ ceiling = [rights |-> {Manage}, limit |-> limit]
       /\ migrated = ~legacy
  BY DEF PermissionsInit
<1>2. /\ Regular \notin Group /\ Manage \in Right /\ {0, 1} \subseteq Allowance /\ MaxEdits \in Nat
      /\ limit \in Nat
  BY PermissionsAssumption DEF PermissionsAssumption
<1>3. desk = [k \in Desk |-> IdleDesk] /\ edits = 0
  BY DEF PermissionsInit
<1>4. IdleDesk \in DeskRow /\ DeskOK(IdleDesk)
  <2>1. (CHOOSE u \in Staff : TRUE) \in Staff /\ Least \in Grant
    BY <1>2 DEF Least, Grant
  <2>2. IdleDesk \in DeskRow
    BY <2>1 DEF IdleDesk, DeskRow, Op, AllGroups
  <2> QED BY <2>2 DEF IdleDesk, DeskOK
<1>5. PermissionsTypeOK
  <2>1. groups \in [AllGroups -> GroupRow]
    BY <1>1, <1>2 DEF GroupRow
  <2>2. staff \in [Staff -> [super : BOOLEAN, in : SUBSET Group]]
    BY <1>1
  <2>3. ceiling \in Grant /\ migrated \in BOOLEAN /\ edits \in 0 .. MaxEdits
    BY <1>1, <1>2, <1>3 DEF Grant
  <2> QED BY <1>3, <1>4, <2>1, <2>2, <2>3 DEF PermissionsTypeOK
<1>6. CanGrantLimit(limit, limit) /\ CanGrantLimit(limit, 1)
  BY <1>2, LimitsOrder
<1>7. RowBelow(Regular)
  <2>1. groups[Regular].rights = {} /\ groups[Regular].limit = 1
    BY <1>1, <1>2 DEF AllGroups
  <2> QED BY <1>1, <1>6, <2>1 DEF RowBelow, Below
<1>8. RowBelow(lead)
  <2>1. groups[lead].rights = {Manage} /\ groups[lead].limit = limit
    BY <1>1, <1>2 DEF AllGroups
  <2> QED BY <1>1, <1>6, <2>1 DEF RowBelow, Below
<1>9. \A u \in Staff : staff[u].in \subseteq {lead}
  BY <1>1
<1> QED BY <1>3, <1>4, <1>5, <1>7, <1>8, <1>9 DEF PermissionsInv

LEMMA PermissionsStep == PermissionsInv /\ [PermissionsNext]_permissionsVars => PermissionsInv'
<1> SUFFICES ASSUME PermissionsInv, [PermissionsNext]_permissionsVars PROVE PermissionsInv'
  OBVIOUS
<1>1. ASSUME NEW k \in Desk,
             \/ AskCreate(k) \/ AskUpdate(k) \/ AskDelete(k) \/ AskAssign(k) \/ AskPromote(k)
             \/ WriteGroup(k) \/ WriteDelete(k) \/ WriteAssign(k) \/ Promote(k)
      PROVE  PermissionsInv'
  BY <1>1, AskCreateStep, AskUpdateStep, AskDeleteStep, AskAssignStep, AskPromoteStep,
     WriteGroupStep, WriteDeleteStep, WriteAssignStep, PromoteStep
<1>2. CASE Restart
  BY <1>2, RestartStep
<1>3. CASE UNCHANGED permissionsVars
  BY <1>3 DEF permissionsVars, PermissionsInv, PermissionsTypeOK, RowBelow, DeskOK
<1> QED BY <1>1, <1>2, <1>3 DEF PermissionsNext

LEMMA PermissionsAlways == PermissionsSpec => []PermissionsInv
BY PermissionsStart, PermissionsStep, PTL DEF PermissionsSpec

\* The rows, the requests and the ceiling keep their types.
THEOREM PermissionsTypeCorrect == PermissionsSpec => []PermissionsTypeOK
<1>1. PermissionsInv => PermissionsTypeOK
  BY DEF PermissionsInv
<1> QED BY <1>1, PermissionsAlways, PTL

\* Nobody but a super administrator comes to hold more than regular users held
\* at first and super administrators handed out, whatever managers do at the
\* same time, and however groups are merged, deleted, recreated or migrated
\* (effectivePermissionsForUserGroups, actorCanGrantPermissions and their
\* callers).
THEOREM PermissionsAreSafe == PermissionsSpec => []PermissionsSafe
<1>1. PermissionsInv => PermissionsSafe
  BY HoldsBelow DEF PermissionsSafe, Below
<1> QED BY <1>1, PermissionsAlways, PTL

-----------------------------------------------------------------------------
(* Ownership: the inductive invariant *)

\* What the check of an administrator's request found, while nothing has raced
\* it: what it is going to write leaves the collection rules their mailbox.
Cleared(op) ==
  /\ op.kind = "user" /\ op.disabled => ~(Referenced /\ box.owner = op.who)
  /\ op.kind = "removeUser" => ~(Referenced /\ box.owner = op.who)
  /\ op.kind = "box" => Enabled(op.owner)
  /\ op.kind = "box" /\ (~Active(op.status) \/ op.owner # box.owner) => ~Referenced
  /\ op.kind = "realm" /\ ~Active(op.status) => ~(Referenced /\ Home = op.realm)
  /\ op.kind = "removeRealm" => ~(Referenced /\ Home = op.realm)
  /\ op.kind = "collect" /\ op.on =>
       Active(box.status) /\ Active(realm[Home]) /\ Enabled(box.owner) /\ ~alias
  /\ op.kind = "alias" /\ op.on => ~Referenced

\* And it leaves an administrator, whatever raced it.
LeavesAdmin(op) ==
  /\ op.kind = "user" => AdminLeft(op.who, op.role, op.disabled)
  /\ op.kind = "removeUser" => AdminLeft(op.who, "user", TRUE)

\* The lock admits one request; what it has checked still holds.
LockInv ==
  /\ \A s, t \in AdminSlot : adm[s] # NoOp /\ adm[t] # NoOp => s = t
  /\ \A s \in AdminSlot : adm[s] # NoOp => LeavesAdmin(adm[s])
  /\ \A s \in AdminSlot : adm[s] # NoOp /\ past.moved = "no" => Cleared(adm[s])

\* What a resolution has read still holds if nothing crossed it.
PushInv ==
  /\ push.status = "pending" => push.from \in Person /\ push.to \in Person
  /\ ~past.crossed => \A r \in Resolver : resolving[r].current =>
       /\ push.status = "pending"
       /\ resolving[r].action = "accept" => Gives(r)

\* A page is the row or older; a share that is open was given, or restored.
ShareInv ==
  /\ page.kept => share.kept /\ (page = share \/ page.version < share.version)
  /\ share.kept /\ ~share.revoked /\ ~share.left => past.consent \/ past.stray

OwnershipInv ==
  /\ OwnershipTypeOK /\ LockInv /\ PushInv /\ ShareInv
  /\ AdminRemains /\ TargetUsable /\ PushTellsOutcome

-----------------------------------------------------------------------------
(* Ownership: types *)

LEMMA OpTypes ==
  ASSUME NEW op \in AdminOp \cup {NoOp}
  PROVE  /\ op.kind = "user" => op \in UserOp /\ op.who \in Person /\ op.role \in Role /\ op.disabled \in BOOLEAN
         /\ op.kind = "removeUser" => op.who \in Person
         /\ op.kind = "box" => op \in BoxOp /\ op.owner \in Person /\ op.status \in {"active", "disabled"}
         /\ op.kind = "realm" => op.realm \in Realm /\ op.status \in {"active", "disabled"}
         /\ op.kind = "removeRealm" => op.realm \in Realm
         /\ op.kind = "collect" => op.realm \in Realm /\ op.on \in BOOLEAN
         /\ op.kind = "alias" => op.on \in BOOLEAN
         /\ op.kind # "none" => op # NoOp
  BY DEF AdminOp, UserOp, BoxOp, RealmOp, CollectOp, AliasOp, RemoveOp, NoOp

LEMMA RowTypes ==
  /\ NoPush \in [status : {"none", "pending", "accepted", "cancelled", "rejected", "expired"},
                 from : Person \cup {NoPerson}, to : Person \cup {NoPerson}, late : BOOLEAN]
  /\ NoShare \in Share /\ ~NoShare.kept /\ NoShare.version = 0
  /\ NoPush.status = "none" /\ NoPush.from = NoPerson /\ NoPush.to = NoPerson
  BY DEF NoPush, NoShare, Share

LEMMA AnswerTypes ==
  /\ NoAnswer \in Answer /\ ~NoAnswer.current /\ NoAnswer.action = "none"
  /\ \A x \in Answer : [x EXCEPT !.current = FALSE] \in Answer
  BY DEF NoAnswer, Answer

LEMMA ShareEdits ==
  ASSUME NEW row \in Share, NEW flag \in BOOLEAN, NEW scope \in {"all", "custom"}
  PROVE  /\ [row EXCEPT !.revoked = flag] \in Share /\ [row EXCEPT !.left = flag] \in Share
         /\ [row EXCEPT !.expired = flag] \in Share /\ [row EXCEPT !.scope = scope] \in Share
         /\ [row EXCEPT !.version = @ + 1] \in Share
         /\ [row EXCEPT !.revoked = flag, !.version = @ + 1] \in Share
         /\ [row EXCEPT !.scope = scope, !.expired = flag, !.revoked = FALSE, !.left = FALSE,
                        !.version = @ + 1] \in Share
<1>1. row.version + 1 \in Nat
  BY DEF Share
<1>2. ASSUME NEW edit \in Share, edit.version = row.version PROVE [edit EXCEPT !.version = row.version + 1] \in Share
  BY <1>1, <1>2 DEF Share
<1>3. [row EXCEPT !.revoked = flag] \in Share /\ [row EXCEPT !.revoked = flag].version = row.version
  BY DEF Share
<1>4. [row EXCEPT !.revoked = flag, !.version = @ + 1] = [[row EXCEPT !.revoked = flag] EXCEPT !.version = row.version + 1]
  BY DEF Share
<1> DEFINE edit == [row EXCEPT !.scope = scope, !.expired = flag, !.revoked = FALSE, !.left = FALSE]
<1>5. edit \in Share /\ edit.version = row.version
  BY DEF Share
<1>6. [row EXCEPT !.scope = scope, !.expired = flag, !.revoked = FALSE, !.left = FALSE, !.version = @ + 1]
        = [edit EXCEPT !.version = row.version + 1]
  BY DEF Share
<1>7. [row EXCEPT !.scope = scope, !.expired = flag, !.revoked = FALSE, !.left = FALSE, !.version = @ + 1] \in Share
  BY <1>2, <1>5, <1>6
<1>8. [row EXCEPT !.revoked = flag, !.version = @ + 1] \in Share
  BY <1>2, <1>3, <1>4
<1> QED
  BY <1>1, <1>7, <1>8 DEF Share

LEMMA InitTypes == ASSUME OwnershipInit PROVE OwnershipTypeOK
<1> USE OwnershipAssumption
<1>1. people \in [Person -> [role : Role, disabled : BOOLEAN, gone : BOOLEAN]] /\ box \in [status : Status, owner : Person]
  BY DEF OwnershipInit, Role, Status
<1>2. push \in [status : {"none", "pending", "accepted", "cancelled", "rejected", "expired"},
               from : Person \cup {NoPerson}, to : Person \cup {NoPerson}, late : BOOLEAN]
      /\ share \in Share /\ page \in Share
  BY RowTypes DEF OwnershipInit
<1>3. past \in [moved : {"no", "raced", "target"}, given : BOOLEAN, crossed : BOOLEAN,
               consent : BOOLEAN, stray : BOOLEAN] /\ left \in [admin : Nat, push : Nat, share : Nat]
  BY DEF OwnershipInit
<1> QED
  BY <1>1, <1>2, <1>3, AnswerTypes DEF OwnershipInit, OwnershipTypeOK, Status

LEMMA SpendTypes ==
  ASSUME left \in [admin : Nat, push : Nat, share : Nat], NEW kind \in {"admin", "push", "share"}, Spend(kind)
  PROVE  left' \in [admin : Nat, push : Nat, share : Nat]
  BY DEF Spend

LEMMA AdminTypes ==
  ASSUME OwnershipTypeOK, NEW s \in AdminSlot, WriteAdmin(s)
  PROVE  OwnershipTypeOK'
<1> USE DEF OwnershipTypeOK
<1>1. adm[s] \in AdminOp \cup {NoOp}
  OBVIOUS
<1>2. ASSUME Finished(s) PROVE adm' \in [AdminSlot -> AdminOp \cup {NoOp}]
  BY <1>2 DEF Finished
<1>3. ASSUME BoxGone
      PROVE  /\ box' \in [status : Status, owner : Person] /\ share' \in Share /\ page' \in Share
             /\ push' \in [status : {"none", "pending", "accepted", "cancelled", "rejected", "expired"},
                           from : Person \cup {NoPerson}, to : Person \cup {NoPerson}, late : BOOLEAN]
  BY <1>3, RowTypes DEF BoxGone, Status
<1>4. ASSUME Crossed
      PROVE past' \in [moved : {"no", "raced", "target"}, given : BOOLEAN, crossed : BOOLEAN,
                       consent : BOOLEAN, stray : BOOLEAN]
  BY <1>4 DEF Crossed, ResolverBusy
<1>5. CASE UpdateUser(s)
  <2>1. people' \in [Person -> [role : Role, disabled : BOOLEAN, gone : BOOLEAN]]
    BY <1>1, <1>5, OpTypes DEF UpdateUser
  <2> QED BY <2>1, <1>2, <1>5 DEF UpdateUser, pushState, shareState
<1>6. CASE RemoveUser(s)
  <2>0. adm[s].who \in Person
    BY <1>1, <1>6, OpTypes DEF RemoveUser
  <2>1. people' \in [Person -> [role : Role, disabled : BOOLEAN, gone : BOOLEAN]]
    <3>1. people' = people \/ people' = [people EXCEPT ![adm[s].who].gone = TRUE]
      BY <1>6 DEF RemoveUser
    <3>2. ASSUME NEW row \in [role : Role, disabled : BOOLEAN, gone : BOOLEAN]
          PROVE  [row EXCEPT !.gone = TRUE] \in [role : Role, disabled : BOOLEAN, gone : BOOLEAN]
      OBVIOUS
    <3>3. [people[adm[s].who] EXCEPT !.gone = TRUE] \in [role : Role, disabled : BOOLEAN, gone : BOOLEAN]
      BY <2>0, <3>2
    <3>4. people' = people \/ people' = [people EXCEPT ![adm[s].who] = [people[adm[s].who] EXCEPT !.gone = TRUE]]
      BY <3>1
    <3> QED
      BY <2>0, <3>3, <3>4
  <2>2. /\ box' \in [status : Status, owner : Person] /\ share' \in Share /\ page' \in Share
        /\ push' \in [status : {"none", "pending", "accepted", "cancelled", "rejected", "expired"},
                      from : Person \cup {NoPerson}, to : Person \cup {NoPerson}, late : BOOLEAN]
    BY <1>3, <1>6, RowTypes DEF RemoveUser, shareState
  <2> QED BY <2>1, <2>2, <1>2, <1>4, <1>6 DEF RemoveUser
<1>7. CASE UpdateBox(s)
  <2>1. box' \in [status : Status, owner : Person]
    BY <1>1, <1>7, OpTypes DEF UpdateBox, Status
  <2>2. past' \in [moved : {"no", "raced", "target"}, given : BOOLEAN, crossed : BOOLEAN,
                   consent : BOOLEAN, stray : BOOLEAN]
    BY <1>7 DEF UpdateBox, ResolverBusy
  <2> QED BY <2>1, <2>2, <1>2, <1>7 DEF UpdateBox, pushState, shareState
<1>8. CASE RemoveBox(s)
  <2>1. /\ box' \in [status : Status, owner : Person] /\ share' \in Share /\ page' \in Share
        /\ push' \in [status : {"none", "pending", "accepted", "cancelled", "rejected", "expired"},
                      from : Person \cup {NoPerson}, to : Person \cup {NoPerson}, late : BOOLEAN]
    BY <1>3, <1>8 DEF RemoveBox, shareState
  <2> QED BY <2>1, <1>2, <1>4, <1>8 DEF RemoveBox
<1>9. CASE UpdateRealm(s)
  <2>1. realm' \in [Realm -> Status]
    BY <1>1, <1>9, OpTypes DEF UpdateRealm, Status
  <2> QED BY <2>1, <1>2, <1>9 DEF UpdateRealm, pushState, shareState
<1>10. CASE RemoveRealm(s)
  <2>1. realm' \in [Realm -> Status] /\ targets' \subseteq Realm /\ alias' \in BOOLEAN
    BY <1>1, <1>10, OpTypes DEF RemoveRealm, Status
  <2> QED BY <2>1, <1>2, <1>10 DEF RemoveRealm, pushState, shareState
<1>11. CASE SetCollection(s)
  <2>1. targets' \subseteq Realm
    BY <1>1, <1>11, OpTypes DEF SetCollection
  <2> QED BY <2>1, <1>2, <1>11 DEF SetCollection, pushState, shareState
<1>12. CASE SaveAlias(s)
  BY <1>1, <1>2, <1>12, OpTypes DEF SaveAlias, pushState, shareState
<1> QED
  BY <1>5, <1>6, <1>7, <1>8, <1>9, <1>10, <1>11, <1>12 DEF WriteAdmin

LEMMA StartTypes ==
  ASSUME OwnershipTypeOK, NEW s \in AdminSlot, NEW op \in AdminOp, StartAdmin(s, op)
  PROVE  OwnershipTypeOK'
<1>1. left' \in [admin : Nat, push : Nat, share : Nat]
  BY SpendTypes DEF StartAdmin, OwnershipTypeOK
<1>2. adm' \in [AdminSlot -> AdminOp \cup {NoOp}]
  BY DEF StartAdmin, OwnershipTypeOK
<1> QED
  BY <1>1, <1>2 DEF StartAdmin, OwnershipTypeOK, pushState, shareState

LEMMA PushTypes ==
  ASSUME OwnershipTypeOK,
         \/ \E to \in Person : CreatePush(to)
         \/ PushTimesOut \/ ExpirePush
         \/ \E r \in Resolver : \/ AcceptPush(r) \/ ClosePush(r) \/ RollBackPush(r)
                                \/ \E action \in Action : ReadPush(r, action)
  PROVE  OwnershipTypeOK'
<1> USE DEF OwnershipTypeOK, adminState, shareState
<1>1. ASSUME NEW to \in Person, CreatePush(to) PROVE OwnershipTypeOK'
  <2>1. left' \in [admin : Nat, push : Nat, share : Nat]
    BY <1>1, SpendTypes DEF CreatePush
  <2>2. past' \in [moved : {"no", "raced", "target"}, given : BOOLEAN, crossed : BOOLEAN,
                   consent : BOOLEAN, stray : BOOLEAN]
    BY <1>1 DEF CreatePush
  <2>3. resolving' \in [Resolver -> Answer]
    BY <1>1, AnswerTypes DEF CreatePush
  <2> QED BY <1>1, <2>1, <2>2, <2>3 DEF CreatePush
<1>2. CASE PushTimesOut
  BY <1>2 DEF PushTimesOut
<1>3. CASE ExpirePush
  <2>1. past' \in [moved : {"no", "raced", "target"}, given : BOOLEAN, crossed : BOOLEAN,
                   consent : BOOLEAN, stray : BOOLEAN]
    BY <1>3 DEF ExpirePush, Crossed, ResolverBusy
  <2> QED BY <1>3, <2>1 DEF ExpirePush
<1>4. ASSUME NEW r \in Resolver, AcceptPush(r) PROVE OwnershipTypeOK'
  <2>1. past' \in [moved : {"no", "raced", "target"}, given : BOOLEAN, crossed : BOOLEAN,
                   consent : BOOLEAN, stray : BOOLEAN]
    <3>1. /\ past'.moved \in {past.moved, "raced", "target"}
          /\ past'.given \in BOOLEAN /\ past'.crossed \in BOOLEAN /\ past'.consent \in BOOLEAN
          /\ past' = [past EXCEPT !.given = past'.given, !.crossed = past'.crossed, !.consent = past'.consent,
                                 !.moved = past'.moved]
      BY <1>4 DEF AcceptPush
    <3> QED
      BY <3>1
  <2>2. box' \in [status : Status, owner : Person]
    BY <1>4 DEF AcceptPush
  <2>3. share' \in Share
    <3>1. share' = share \/ share' = [share EXCEPT !.revoked = TRUE, !.version = @ + 1]
      BY <1>4 DEF AcceptPush
    <3> QED
      BY <3>1, ShareEdits
  <2>4. push' \in [status : {"none", "pending", "accepted", "cancelled", "rejected", "expired"},
                   from : Person \cup {NoPerson}, to : Person \cup {NoPerson}, late : BOOLEAN]
        /\ resolving' \in [Resolver -> Answer]
    BY <1>4, AnswerTypes DEF AcceptPush, Close, Answered
  <2> QED BY <1>4, <2>1, <2>2, <2>3, <2>4 DEF AcceptPush
<1>5. ASSUME NEW r \in Resolver, ClosePush(r) PROVE OwnershipTypeOK'
  <2>1. past' \in [moved : {"no", "raced", "target"}, given : BOOLEAN, crossed : BOOLEAN,
                   consent : BOOLEAN, stray : BOOLEAN]
    BY <1>5 DEF ClosePush, Crossing
  <2>2. push' \in [status : {"none", "pending", "accepted", "cancelled", "rejected", "expired"},
                   from : Person \cup {NoPerson}, to : Person \cup {NoPerson}, late : BOOLEAN]
        /\ resolving' \in [Resolver -> Answer]
    BY <1>5, AnswerTypes DEF ClosePush, Close, Answered
  <2> QED BY <1>5, <2>1, <2>2 DEF ClosePush
<1>6. ASSUME NEW r \in Resolver, NEW action \in Action, ReadPush(r, action) PROVE OwnershipTypeOK'
  <2>1. [action |-> action, from |-> push.from, to |-> push.to, current |-> TRUE] \in Answer
    BY DEF Answer
  <2> QED BY <1>6, <2>1 DEF ReadPush
<1>7. ASSUME NEW r \in Resolver, RollBackPush(r) PROVE OwnershipTypeOK'
  BY <1>7, AnswerTypes DEF RollBackPush, Answered
<1> QED
  BY <1>1, <1>2, <1>3, <1>4, <1>5, <1>6, <1>7

LEMMA AliasTypes == ASSUME OwnershipTypeOK, DeleteAlias PROVE OwnershipTypeOK'
<1>1. alias' \in BOOLEAN
  BY DEF DeleteAlias
<1> QED
  BY <1>1 DEF OwnershipTypeOK, DeleteAlias, pushState, shareState

LEMMA ShareTypes ==
  ASSUME OwnershipTypeOK,
         \/ LoadShare \/ RevokeShare \/ LeaveShare \/ ShareExpires
         \/ \E scope \in {"all", "custom"} : CreateShare(scope) \/ \E renewed \in BOOLEAN : UpdateShare(scope, renewed)
  PROVE  OwnershipTypeOK'
<1> USE DEF OwnershipTypeOK, adminState, pushState, shareState
<1>1. CASE LoadShare
  BY <1>1 DEF LoadShare
<1>2. ASSUME NEW consent \in BOOLEAN, Consents(consent)
      PROVE  past' \in [moved : {"no", "raced", "target"}, given : BOOLEAN, crossed : BOOLEAN,
                        consent : BOOLEAN, stray : BOOLEAN]
  BY <1>2 DEF Consents
<1>3. CASE RevokeShare
  <2>1. share' \in Share
    <3>1. share' = [[share EXCEPT !.revoked = TRUE] EXCEPT !.version = @ + 1]
      BY <1>3 DEF RevokeShare, Bumped
    <3> QED
      BY <3>1, ShareEdits
  <2>2. left' \in [admin : Nat, push : Nat, share : Nat]
    BY <1>3, SpendTypes DEF RevokeShare
  <2> QED BY <1>3, <1>2, <2>1, <2>2 DEF RevokeShare
<1>4. CASE LeaveShare
  <2>1. share' \in Share
    <3>1. share' = [[share EXCEPT !.left = TRUE] EXCEPT !.version = @ + 1]
      BY <1>4 DEF LeaveShare, Bumped
    <3> QED
      BY <3>1, ShareEdits
  <2>2. left' \in [admin : Nat, push : Nat, share : Nat]
    BY <1>4, SpendTypes DEF LeaveShare
  <2> QED BY <1>4, <1>2, <2>1, <2>2 DEF LeaveShare
<1>5. CASE ShareExpires
  <2>1. share' \in Share
    BY <1>5 DEF ShareExpires, Share
  <2> QED BY <1>5, <2>1 DEF ShareExpires
<1>6. ASSUME NEW scope \in {"all", "custom"}, CreateShare(scope) PROVE OwnershipTypeOK'
  <2>1. share' \in Share
    <3>1. \/ share' = [share EXCEPT !.scope = scope, !.expired = FALSE, !.revoked = FALSE, !.left = FALSE,
                                    !.version = @ + 1]
          \/ share' = [NoShare EXCEPT !.kept = TRUE, !.owner = box.owner, !.scope = scope, !.version = 1]
      BY <1>6 DEF CreateShare
    <3>2. CASE share' = [NoShare EXCEPT !.kept = TRUE, !.owner = box.owner, !.scope = scope, !.version = 1]
      BY <3>2 DEF Share, NoShare
    <3>3. share \in Share /\ FALSE \in BOOLEAN
      OBVIOUS
    <3> HIDE DEF OwnershipTypeOK
    <3>4. [share EXCEPT !.scope = scope, !.expired = FALSE, !.revoked = FALSE, !.left = FALSE,
                        !.version = @ + 1] \in Share
      BY <3>3, ShareEdits, Zenon
    <3> QED
      BY <3>1, <3>2, <3>4, Zenon
  <2>2. left' \in [admin : Nat, push : Nat, share : Nat]
    BY <1>6, SpendTypes DEF CreateShare, Sharable
  <2>3. past' \in [moved : {"no", "raced", "target"}, given : BOOLEAN, crossed : BOOLEAN,
                   consent : BOOLEAN, stray : BOOLEAN]
    BY <1>6 DEF CreateShare
  <2> QED BY <1>6, <2>1, <2>2, <2>3 DEF CreateShare
<1>7. ASSUME NEW scope \in {"all", "custom"}, NEW renewed \in BOOLEAN, UpdateShare(scope, renewed)
      PROVE  OwnershipTypeOK'
  <2>1. share' \in Share
    <3>1. PICK flag \in BOOLEAN : flag = (share.expired /\ ~renewed)
      BY DEF Share
    <3>2. share' = [share EXCEPT !.scope = scope, !.expired = flag, !.revoked = FALSE, !.left = FALSE,
                                 !.version = @ + 1]
      BY <1>7, <3>1 DEF UpdateShare
    <3>3. share \in Share
      OBVIOUS
    <3> HIDE DEF OwnershipTypeOK
    <3>4. [share EXCEPT !.scope = scope, !.expired = flag, !.revoked = FALSE, !.left = FALSE,
                        !.version = @ + 1] \in Share
      BY <3>3, ShareEdits, Zenon
    <3> QED
      BY <3>2, <3>4, Zenon
  <2>2. left' \in [admin : Nat, push : Nat, share : Nat]
    BY <1>7, SpendTypes DEF UpdateShare, Sharable
  <2> QED BY <1>7, <1>2, <2>1, <2>2 DEF UpdateShare
<1> QED
  BY <1>1, <1>3, <1>4, <1>5, <1>6, <1>7

LEMMA StepTypes ==
  ASSUME OwnershipTypeOK, [OwnershipNext]_ownershipVars
  PROVE  OwnershipTypeOK'
<1>1. CASE UNCHANGED ownershipVars
  BY <1>1 DEF ownershipVars, OwnershipTypeOK
<1> QED
  BY <1>1, AdminTypes, StartTypes, AliasTypes, PushTypes, ShareTypes DEF OwnershipNext

\* Every variable holds a value of its kind, whatever people, domains and
\* requests there are (admin_handlers.go, domain_collection.go,
\* mailbox_push.go, mailbox_sharing.go).
THEOREM OwnershipTypeCorrect == OwnershipSpec => []OwnershipTypeOK
<1>1. OwnershipInit => OwnershipTypeOK
  BY InitTypes
<1>2. OwnershipTypeOK /\ [OwnershipNext]_ownershipVars => OwnershipTypeOK'
  BY StepTypes
<1> QED
  BY <1>1, <1>2, PTL DEF OwnershipSpec

-----------------------------------------------------------------------------
(* Ownership: what a step that leaves the relevant variables alone preserves *)

LEMMA CoreFrame ==
  ASSUME LockInv, AdminRemains, TargetUsable,
         UNCHANGED <<adminState, box>>, past'.moved = past.moved
  PROVE  LockInv' /\ AdminRemains' /\ TargetUsable'
<1>1. ASSUME NEW op PROVE /\ Cleared(op) => Cleared(op)'
                          /\ LeavesAdmin(op) => LeavesAdmin(op)'
  BY DEF Cleared, LeavesAdmin, AdminLeft, Enabled, Active, Referenced, adminState
<1>2. adm' = adm /\ AdminRemains' /\ TargetUsable'
  BY DEF AdminRemains, TargetUsable, Enabled, Active, Referenced, adminState
<1> QED
  BY <1>1, <1>2 DEF LockInv

LEMMA PushFrame ==
  ASSUME PushInv, PushTellsOutcome, UNCHANGED <<pushState, box>>,
         past'.crossed = past.crossed, past'.given = past.given
  PROVE  PushInv' /\ PushTellsOutcome'
  BY DEF PushInv, PushTellsOutcome, pushState, Gives

LEMMA ShareFrame ==
  ASSUME ShareInv, UNCHANGED shareState, past'.consent = past.consent, past'.stray = past.stray
  PROVE  ShareInv'
  BY DEF ShareInv, shareState

-----------------------------------------------------------------------------
(* Ownership: requests of administrators *)

LEMMA StartKeeps ==
  ASSUME OwnershipInv, NEW s \in AdminSlot, NEW op \in AdminOp, StartAdmin(s, op)
  PROVE  LockInv' /\ AdminRemains' /\ TargetUsable' /\ PushInv' /\ PushTellsOutcome' /\ ShareInv'
<1>1. /\ PushInv' /\ PushTellsOutcome' /\ ShareInv'
  BY PushFrame, ShareFrame DEF StartAdmin, OwnershipInv
<1>2. AdminRemains' /\ TargetUsable'
  BY DEF StartAdmin, OwnershipInv, AdminRemains, TargetUsable, Enabled, Active, Referenced
<1>3. PICK actor \in Person : MayRun(actor, op)
  BY DEF StartAdmin
<1>4. /\ op.kind = "user" => MayUpdateUser(actor, op)
      /\ op.kind = "removeUser" => MayRemoveUser(actor, op)
      /\ op.kind = "box" => MayUpdateBox(op)
      /\ op.kind = "realm" => MayUpdateRealm(op)
      /\ op.kind = "removeRealm" => MayRemoveRealm(op)
      /\ op.kind = "collect" => MayCollect(actor, op)
      /\ op.kind = "alias" => MayAlias(op)
  BY <1>3 DEF MayRun
<1>5. LeavesAdmin(op)
  BY <1>4 DEF LeavesAdmin, MayUpdateUser, MayRemoveUser
<1>6. /\ \A u : TargetInUse("user", u) <=> Referenced /\ box.owner = u
      /\ \A d : TargetInUse("domain", d) <=> Referenced /\ Home = d
      /\ \A o : TargetInUse("mailbox", o) <=> Referenced
  BY DEF TargetInUse
<1>7. Cleared(op)
  BY <1>4, <1>6 DEF Cleared, MayUpdateUser, MayRemoveUser, MayUpdateBox, MayUpdateRealm, MayRemoveRealm,
     MayCollect, MayAlias
<1>8. Cleared(op)' /\ LeavesAdmin(op)'
  BY <1>5, <1>7 DEF StartAdmin, Cleared, LeavesAdmin, AdminLeft, Enabled, Active, Referenced
<1>9. \A t \in AdminSlot : adm'[t] # NoOp => t = s
  BY DEF StartAdmin, LockFree, AdminBusy, OwnershipInv, OwnershipTypeOK
<1>10. adm'[s] = op
  BY DEF StartAdmin, OwnershipInv, OwnershipTypeOK
<1>11. LockInv'
  BY <1>8, <1>9, <1>10 DEF LockInv
<1> QED
  BY <1>1, <1>2, <1>11

\* A request that has written leaves the lock.
LEMMA LockIsFree ==
  ASSUME OwnershipTypeOK, LockInv, NEW s \in AdminSlot, adm[s] # NoOp, Finished(s)
  PROVE  LockInv'
<1>1. \A t \in AdminSlot : adm'[t] = NoOp
  BY DEF OwnershipTypeOK, LockInv, Finished
<1> QED
  BY <1>1 DEF LockInv

LEMMA WriteKeepsLock ==
  ASSUME OwnershipInv, NEW s \in AdminSlot, WriteAdmin(s)
  PROVE  LockInv' /\ adm[s] # NoOp /\ Finished(s) /\ LeavesAdmin(adm[s]) /\ (past.moved = "no" => Cleared(adm[s]))
<1>1. Finished(s) /\ adm[s].kind # "none"
  BY DEF WriteAdmin, UpdateUser, RemoveUser, UpdateBox, RemoveBox, UpdateRealm, RemoveRealm, SetCollection, SaveAlias
<1>2. adm[s] # NoOp
  BY <1>1 DEF NoOp
<1> QED
  BY <1>1, <1>2, LockIsFree DEF OwnershipInv, LockInv

LEMMA UpdateUserKeeps ==
  ASSUME OwnershipInv, NEW s \in AdminSlot, UpdateUser(s)
  PROVE  AdminRemains' /\ TargetUsable'
<1> DEFINE op == adm[s]
<1>1. LeavesAdmin(op) /\ (past.moved = "no" => Cleared(op))
  BY WriteKeepsLock DEF WriteAdmin
<1>2. op.kind = "user" /\ op.who \in Person
  BY OpTypes DEF UpdateUser, OwnershipInv, OwnershipTypeOK
<1>3. UNCHANGED <<box, realm, alias, targets, past>>
  BY DEF UpdateUser
<1>4. CASE people[op.who].gone
  <2>1. people' = people
    BY <1>4 DEF UpdateUser
  <2> QED
    BY <2>1, <1>3 DEF OwnershipInv, AdminRemains, TargetUsable, Enabled, Active, Referenced
<1>5. CASE ~people[op.who].gone
  <2>1. people' = [people EXCEPT ![op.who].role = op.role, ![op.who].disabled = op.disabled]
    BY <1>5 DEF UpdateUser
  <2>2. /\ \A v \in Person \ {op.who} : people'[v] = people[v]
        /\ people'[op.who].role = op.role /\ people'[op.who].disabled = op.disabled /\ ~people'[op.who].gone
    BY <2>1, <1>2, <1>5 DEF OwnershipInv, OwnershipTypeOK
  <2>3. AdminLeft(op.who, op.role, op.disabled)
    BY <1>1, <1>2 DEF LeavesAdmin
  <2>4. AdminRemains'
    BY <2>2, <2>3, <1>2 DEF AdminRemains, AdminLeft, Enabled
  <2>5. past.moved = "no" /\ op.disabled => ~(Referenced /\ box.owner = op.who)
    BY <1>1, <1>2 DEF Cleared
  <2>6. box.owner \in Person
    BY DEF OwnershipInv, OwnershipTypeOK
  <2>7. TargetUsable'
    BY <2>2, <2>5, <2>6, <1>3 DEF OwnershipInv, TargetUsable, Enabled, Active, Referenced
  <2> QED
    BY <2>4, <2>7
<1> QED
  BY <1>4, <1>5

LEMMA RemoveUserKeeps ==
  ASSUME OwnershipInv, NEW s \in AdminSlot, RemoveUser(s)
  PROVE  AdminRemains' /\ TargetUsable'
<1> DEFINE u == adm[s].who
           owns == box.owner = u /\ box.status # "gone"
<1>1. LeavesAdmin(adm[s])
  BY WriteKeepsLock DEF WriteAdmin
<1>2. adm[s].kind = "removeUser" /\ u \in Person
  BY OpTypes DEF RemoveUser, OwnershipInv, OwnershipTypeOK
<1>3. UNCHANGED <<realm, alias, targets>> /\ past'.moved = past.moved
  BY DEF RemoveUser, Crossed, OwnershipInv, OwnershipTypeOK
<1>4. CASE owns /\ Referenced
  <2>1. people' = people /\ box' = box
    BY <1>4 DEF RemoveUser
  <2> QED
    BY <2>1, <1>3 DEF OwnershipInv, AdminRemains, TargetUsable, Enabled, Active, Referenced
<1>5. CASE ~(owns /\ Referenced)
  <2>1. people' = [people EXCEPT ![u].gone = TRUE] /\ (~owns => box' = box)
    BY <1>5 DEF RemoveUser
  <2>2. \A v \in Person \ {u} : people'[v] = people[v]
    BY <2>1 DEF OwnershipInv, OwnershipTypeOK
  <2>3. \E v \in Person \ {u} : Enabled(v) /\ people[v].role = "admin"
    BY <1>1, <1>2 DEF LeavesAdmin, AdminLeft
  <2>4. AdminRemains'
    BY <2>2, <2>3 DEF AdminRemains, Enabled
  <2>5. box.owner \in Person
    BY DEF OwnershipInv, OwnershipTypeOK
  <2>6. TargetUsable'
    BY <2>1, <2>2, <2>5, <1>3, <1>5 DEF OwnershipInv, TargetUsable, Enabled, Active, Referenced
  <2> QED
    BY <2>4, <2>6
<1> QED
  BY <1>4, <1>5

LEMMA BoxWriteKeeps ==
  ASSUME OwnershipInv, NEW s \in AdminSlot, UpdateBox(s) \/ RemoveBox(s)
  PROVE  AdminRemains' /\ TargetUsable'
<1>1. past.moved = "no" => Cleared(adm[s])
  BY WriteKeepsLock DEF WriteAdmin
<1>2. AdminRemains'
  BY DEF UpdateBox, RemoveBox, OwnershipInv, AdminRemains, Enabled
<1>3. UNCHANGED <<people, realm, alias, targets>> \/ RemoveBox(s)
  BY DEF UpdateBox
<1>4. CASE UpdateBox(s)
  <2>1. past'.moved = "no" /\ Referenced => past.moved = "no" /\ box'.owner = box.owner
    BY <1>4 DEF UpdateBox, OwnershipInv, OwnershipTypeOK
  <2>2. box' = box \/ box' = [status |-> adm[s].status, owner |-> adm[s].owner]
    BY <1>4 DEF UpdateBox
  <2>3. past.moved = "no" /\ ~Active(adm[s].status) => ~Referenced
    BY <1>1, <1>4 DEF UpdateBox, Cleared
  <2>4. UNCHANGED <<people, realm, alias, targets>>
    BY <1>4 DEF UpdateBox
  <2> QED
    BY <1>2, <2>1, <2>2, <2>3, <2>4 DEF OwnershipInv, TargetUsable, Enabled, Active, Referenced
<1>5. CASE RemoveBox(s)
  <2>1. UNCHANGED <<people, realm, alias, targets>> /\ past'.moved = past.moved /\ (Referenced => box' = box)
    BY <1>5 DEF RemoveBox, Crossed, OwnershipInv, OwnershipTypeOK
  <2> QED
    BY <1>2, <2>1 DEF OwnershipInv, TargetUsable, Enabled, Active, Referenced
<1> QED
  BY <1>4, <1>5

LEMMA RuleWriteKeeps ==
  ASSUME OwnershipInv, NEW s \in AdminSlot, UpdateRealm(s) \/ RemoveRealm(s) \/ SetCollection(s) \/ SaveAlias(s)
  PROVE  AdminRemains' /\ TargetUsable'
<1>1. past.moved = "no" => Cleared(adm[s])
  BY WriteKeepsLock DEF WriteAdmin
<1>2. UNCHANGED <<people, box, past>>
  BY DEF UpdateRealm, RemoveRealm, SetCollection, SaveAlias
<1>3. AdminRemains'
  BY <1>2 DEF OwnershipInv, AdminRemains, Enabled
<1>4. CASE UpdateRealm(s)
  <2>1. alias' = alias /\ targets' = targets /\ (~Active(adm[s].status) => realm'[Home] = realm[Home] \/ adm[s].realm = Home)
    BY <1>4, OwnershipAssumption DEF UpdateRealm, OwnershipInv, OwnershipTypeOK
  <2>2. Active(adm[s].status) => Active(realm'[Home]) \/ realm'[Home] = realm[Home]
    BY <1>4, OwnershipAssumption DEF UpdateRealm, OwnershipInv, OwnershipTypeOK, Active
  <2>3. past.moved = "no" /\ ~Active(adm[s].status) => ~(Referenced /\ Home = adm[s].realm)
    BY <1>1, <1>4 DEF UpdateRealm, Cleared
  <2> QED
    BY <1>2, <1>3, <2>1, <2>2, <2>3 DEF OwnershipInv, TargetUsable, Enabled, Active, Referenced
<1>5. CASE RemoveRealm(s)
  <2>1. past.moved = "no" => ~(Referenced /\ Home = adm[s].realm)
    BY <1>1, <1>5 DEF RemoveRealm, Cleared
  <2>2. /\ targets' \subseteq targets /\ (alias' => alias)
        /\ realm'[Home] = realm[Home] \/ adm[s].realm = Home
    BY <1>5, OwnershipAssumption DEF RemoveRealm, OwnershipInv, OwnershipTypeOK
  <2> QED
    BY <1>2, <1>3, <2>1, <2>2 DEF OwnershipInv, TargetUsable, Enabled, Active, Referenced
<1>6. CASE SetCollection(s)
  <2>1. past.moved = "no" /\ adm[s].on => Active(box.status) /\ Active(realm[Home]) /\ Enabled(box.owner) /\ ~alias
    BY <1>1, <1>6 DEF SetCollection, Cleared
  <2>2. realm' = realm /\ alias' = alias /\ (~adm[s].on => targets' \subseteq targets)
    BY <1>6 DEF SetCollection
  <2> QED
    BY <1>2, <1>3, <2>1, <2>2 DEF OwnershipInv, TargetUsable, Enabled, Active, Referenced
<1>7. CASE SaveAlias(s)
  <2>1. past.moved = "no" /\ adm[s].on => ~Referenced
    BY <1>1, <1>7 DEF SaveAlias, Cleared
  <2>2. realm' = realm /\ targets' = targets /\ alias' = adm[s].on
    BY <1>7 DEF SaveAlias
  <2> QED
    BY <1>2, <1>3, <2>1, <2>2 DEF OwnershipInv, TargetUsable, Enabled, Active, Referenced
<1> QED
  BY <1>4, <1>5, <1>6, <1>7

\* A write that ends the push, or only crosses a resolution of it.
LEMMA CrossingFrame ==
  ASSUME PushInv, PushTellsOutcome, OwnershipTypeOK, push' = push \/ push' = NoPush, resolving' = resolving,
         past'.given = past.given, past'.crossed = (past.crossed \/ ResolverBusy)
  PROVE  PushInv' /\ PushTellsOutcome'
<1>1. ~past'.crossed => ~past.crossed /\ \A r \in Resolver : ~resolving'[r].current
  BY DEF ResolverBusy, OwnershipTypeOK
<1>2. push' = push \/ push'.status = "none"
  BY RowTypes
<1> QED
  BY <1>1, <1>2 DEF PushInv, PushTellsOutcome

LEMMA WriteKeepsPush ==
  ASSUME OwnershipInv, NEW s \in AdminSlot, WriteAdmin(s)
  PROVE  PushInv' /\ PushTellsOutcome' /\ ShareInv'
<1>1. CASE UpdateUser(s) \/ UpdateRealm(s) \/ RemoveRealm(s) \/ SetCollection(s) \/ SaveAlias(s)
  <2>1. UNCHANGED <<pushState, shareState, box, past>>
    BY <1>1 DEF UpdateUser, UpdateRealm, RemoveRealm, SetCollection, SaveAlias
  <2> QED
    BY <2>1, PushFrame, ShareFrame DEF OwnershipInv
<1>2. CASE RemoveUser(s) \/ UpdateBox(s) \/ RemoveBox(s)
  <2>1. /\ past'.given = past.given /\ past'.crossed = (past.crossed \/ ResolverBusy)
        /\ past'.consent = past.consent /\ past'.stray = past.stray
    BY <1>2 DEF RemoveUser, UpdateBox, RemoveBox, Crossed, OwnershipInv, OwnershipTypeOK
  <2>2. resolving' = resolving /\ (push' = push \/ push' = NoPush)
    BY <1>2 DEF RemoveUser, UpdateBox, RemoveBox, BoxGone, pushState, shareState
  <2>3. PushInv' /\ PushTellsOutcome'
    BY <2>1, <2>2, CrossingFrame DEF OwnershipInv
  <2>4. UNCHANGED shareState \/ (share' = NoShare /\ page' = NoShare)
    BY <1>2 DEF RemoveUser, UpdateBox, RemoveBox, BoxGone, shareState
  <2>5. ShareInv'
    BY <2>1, <2>4, ShareFrame, RowTypes DEF OwnershipInv, ShareInv
  <2> QED
    BY <2>3, <2>5
<1> QED
  BY <1>1, <1>2 DEF WriteAdmin

LEMMA WriteKeeps ==
  ASSUME OwnershipInv, NEW s \in AdminSlot, WriteAdmin(s)
  PROVE  LockInv' /\ AdminRemains' /\ TargetUsable' /\ PushInv' /\ PushTellsOutcome' /\ ShareInv'
<1>1. AdminRemains' /\ TargetUsable'
  BY UpdateUserKeeps, RemoveUserKeeps, BoxWriteKeeps, RuleWriteKeeps DEF WriteAdmin
<1> QED
  BY <1>1, WriteKeepsLock, WriteKeepsPush

LEMMA DeleteAliasKeeps ==
  ASSUME OwnershipInv, DeleteAlias
  PROVE  LockInv' /\ AdminRemains' /\ TargetUsable' /\ PushInv' /\ PushTellsOutcome' /\ ShareInv'
<1>1. UNCHANGED <<people, box, realm, targets, adm, pushState, shareState, past>> /\ ~alias'
  BY DEF DeleteAlias
<1>2. ASSUME NEW op PROVE /\ Cleared(op) => Cleared(op)'
                          /\ LeavesAdmin(op) => LeavesAdmin(op)'
  BY <1>1 DEF Cleared, LeavesAdmin, AdminLeft, Enabled, Active, Referenced
<1>3. LockInv'
  BY <1>1, <1>2 DEF OwnershipInv, LockInv
<1>4. AdminRemains' /\ TargetUsable'
  BY <1>1 DEF OwnershipInv, AdminRemains, TargetUsable, Enabled, Active, Referenced
<1> QED
  BY <1>1, <1>3, <1>4, PushFrame, ShareFrame DEF OwnershipInv

-----------------------------------------------------------------------------
(* Ownership: pushes *)

LEMMA CreatePushKeeps ==
  ASSUME OwnershipInv, NEW to \in Person, CreatePush(to)
  PROVE  PushInv' /\ PushTellsOutcome'
<1>1. push' = [status |-> "pending", from |-> box.owner, to |-> to, late |-> FALSE] /\ box.owner \in Person
  BY DEF CreatePush, OwnershipInv, OwnershipTypeOK
<1>2. ~past'.given
  BY DEF CreatePush, OwnershipInv, OwnershipTypeOK
<1>3. \A r \in Resolver : ~resolving'[r].current
  BY DEF CreatePush, OwnershipInv, OwnershipTypeOK, Answer
<1> QED
  BY <1>1, <1>2, <1>3 DEF PushInv, PushTellsOutcome

LEMMA ExpirePushKeeps ==
  ASSUME OwnershipInv, ExpirePush
  PROVE  PushInv' /\ PushTellsOutcome'
<1>1. push'.status = "expired" /\ resolving' = resolving /\ push.status = "pending"
  BY DEF ExpirePush, OwnershipInv, OwnershipTypeOK
<1>2. past'.given = past.given /\ past'.crossed = (past.crossed \/ ResolverBusy)
  BY DEF ExpirePush, Crossed, OwnershipInv, OwnershipTypeOK
<1>3. ~past'.crossed => ~past.crossed /\ \A r \in Resolver : ~resolving'[r].current
  BY <1>1, <1>2 DEF ResolverBusy, OwnershipInv, OwnershipTypeOK
<1> QED
  BY <1>1, <1>2, <1>3 DEF OwnershipInv, PushInv, PushTellsOutcome

LEMMA ReadPushKeeps ==
  ASSUME OwnershipInv, NEW r \in Resolver, NEW action \in Action, ReadPush(r, action)
  PROVE  PushInv' /\ PushTellsOutcome'
<1>1. UNCHANGED <<push, box, past>> /\ push.status = "pending"
  BY DEF ReadPush, Resolvable
<1>2. /\ resolving'[r].action = action /\ resolving'[r].from = push.from
      /\ \A q \in Resolver \ {r} : resolving'[q] = resolving[q]
  BY DEF ReadPush, OwnershipInv, OwnershipTypeOK
<1>3. action = "accept" => box.status # "gone" /\ box.owner = push.from
  BY DEF ReadPush, Active
<1> QED
  BY <1>1, <1>2, <1>3 DEF OwnershipInv, PushInv, PushTellsOutcome, Gives

\* A resolution that nothing crossed finds the push as it read it, and none of
\* the same push stays under way.
LEMMA LastResolution ==
  ASSUME OwnershipInv, NEW r \in Resolver, Answered(r),
         past'.crossed = (past.crossed \/ Crossing(r)), ~past'.crossed
  PROVE  /\ ~past.crossed /\ \A q \in Resolver : ~resolving'[q].current
         /\ resolving[r].current => push.status = "pending" /\ ~past.given
         /\ resolving[r].current /\ resolving[r].action = "accept" => Gives(r)
<1>1. ~past.crossed /\ \A q \in Resolver \ {r} : ~resolving[q].current
  BY DEF Crossing, OwnershipInv, OwnershipTypeOK
<1>2. \A q \in Resolver : ~resolving'[q].current
  BY <1>1, AnswerTypes DEF Answered, OwnershipInv, OwnershipTypeOK
<1> QED
  BY <1>1, <1>2 DEF OwnershipInv, PushInv, PushTellsOutcome, OwnershipTypeOK

LEMMA CloseEnds ==
  ASSUME OwnershipTypeOK, NEW r \in Resolver, NEW status \in {"accepted", "cancelled", "rejected"}, Close(r, status)
  PROVE  /\ ~resolving[r].current => push' = push
         /\ resolving[r].current => push'.status # "pending" /\ (push.status = "pending" => push'.status = status)
         /\ push'.status = "pending" => push' = push
  BY DEF Close, OwnershipTypeOK

LEMMA AcceptPushKeepsCore ==
  ASSUME OwnershipInv, NEW r \in Resolver, AcceptPush(r)
  PROVE  LockInv' /\ AdminRemains' /\ TargetUsable'
<1> DEFINE gives == Gives(r)
<1>1. past'.moved = IF gives /\ Referenced THEN "target"
                    ELSE IF gives /\ AdminBusy /\ past.moved = "no" THEN "raced" ELSE past.moved
  BY DEF AcceptPush, OwnershipInv, OwnershipTypeOK
<1>2. UNCHANGED adminState /\ (~gives => box' = box)
  BY DEF AcceptPush
<1>3. ASSUME NEW op PROVE LeavesAdmin(op) => LeavesAdmin(op)'
  BY <1>2 DEF LeavesAdmin, AdminLeft, Enabled, adminState
<1>4. AdminRemains'
  BY <1>2 DEF OwnershipInv, AdminRemains, Enabled, adminState
<1>5. CASE gives
  <2>1. past'.moved = "no" => ~Referenced /\ ~AdminBusy
    BY <1>1, <1>5
  <2>2. TargetUsable'
    BY <2>1, <1>2 DEF TargetUsable, Referenced, adminState
  <2>3. LockInv'
    BY <2>1, <1>2, <1>3 DEF OwnershipInv, LockInv, AdminBusy, adminState
  <2> QED
    BY <1>4, <2>2, <2>3
<1>6. CASE ~gives
  BY <1>1, <1>2, <1>6, CoreFrame DEF OwnershipInv
<1> QED
  BY <1>5, <1>6

LEMMA AcceptPushKeepsPush ==
  ASSUME OwnershipInv, NEW r \in Resolver, AcceptPush(r)
  PROVE  PushInv' /\ PushTellsOutcome'
<1> DEFINE gives == Gives(r)
<1>1. /\ past'.given = (past.given \/ (gives /\ resolving[r].current))
      /\ past'.crossed = (past.crossed \/ Crossing(r))
  BY DEF AcceptPush, OwnershipInv, OwnershipTypeOK
<1>2. resolving[r].action = "accept" /\ Answered(r) /\ Close(r, "accepted")
  BY DEF AcceptPush
<1>3. /\ ~resolving[r].current => push' = push
      /\ resolving[r].current => push'.status # "pending" /\ (push.status = "pending" => push'.status = "accepted")
      /\ push'.status = "pending" => push' = push
  BY <1>2, CloseEnds DEF OwnershipInv
<1>4. ~past'.crossed => /\ ~past.crossed /\ \A q \in Resolver : ~resolving'[q].current
                        /\ resolving[r].current => push.status = "pending" /\ gives
  BY <1>1, <1>2, LastResolution
<1>8. past'.given <=> past.given \/ (gives /\ resolving[r].current)
  BY <1>1
<1>9. past.given \in BOOLEAN /\ past'.given \in BOOLEAN
  BY <1>1 DEF OwnershipInv, OwnershipTypeOK
<1> HIDE DEF gives
<1>5. PushInv'
  BY <1>3, <1>4 DEF OwnershipInv, PushInv
<1>6. CASE resolving[r].current
  <2>1. ~past'.crossed => past'.given /\ push'.status = "accepted"
    BY <1>3, <1>4, <1>6, <1>8
  <2> QED
    BY <1>5, <1>9, <2>1 DEF PushTellsOutcome
<1>7. CASE ~resolving[r].current
  <2>1. push' = push /\ (past'.given <=> past.given)
    BY <1>3, <1>7, <1>8
  <2> QED
    BY <1>4, <1>5, <1>9, <2>1 DEF OwnershipInv, PushTellsOutcome
<1> QED
  BY <1>5, <1>6, <1>7

LEMMA AcceptPushKeepsShare ==
  ASSUME OwnershipInv, NEW r \in Resolver, AcceptPush(r)
  PROVE  ShareInv'
<1> DEFINE lapses == share.kept /\ ~share.revoked /\ ~share.left
<1>1. past'.consent = (past.consent /\ ~lapses) /\ past'.stray = past.stray /\ page' = page
  BY DEF AcceptPush, OwnershipInv, OwnershipTypeOK
<1>2. share \in Share /\ page \in Share
  BY DEF OwnershipInv, OwnershipTypeOK
<1>3. CASE lapses
  <2>1. share' = [share EXCEPT !.revoked = TRUE, !.version = @ + 1]
    BY <1>3 DEF AcceptPush
  <2>2. share'.kept = share.kept /\ share'.revoked /\ share'.version = share.version + 1
    BY <2>1, <1>2 DEF Share
  <2>3. page = share \/ page.version < share.version => page.version < share'.version
    BY <2>2, <1>2 DEF Share
  <2> QED
    BY <1>1, <2>2, <2>3 DEF OwnershipInv, ShareInv
<1>4. CASE ~lapses
  <2>1. share' = share
    BY <1>4 DEF AcceptPush
  <2> QED
    BY <1>1, <1>4, <2>1 DEF OwnershipInv, ShareInv
<1> QED
  BY <1>3, <1>4

LEMMA ClosePushKeeps ==
  ASSUME OwnershipInv, NEW r \in Resolver, ClosePush(r)
  PROVE  PushInv' /\ PushTellsOutcome'
<1>1. past'.given = past.given /\ past'.crossed = (past.crossed \/ Crossing(r))
  BY DEF ClosePush, OwnershipInv, OwnershipTypeOK
<1>2. resolving[r].action \in {"cancelled", "rejected"} /\ Answered(r) /\ Close(r, resolving[r].action)
  BY DEF ClosePush
<1>3. /\ ~resolving[r].current => push' = push
      /\ resolving[r].current => push'.status \notin {"pending", "accepted"} \/ push.status # "pending"
      /\ push'.status = "pending" => push' = push
  BY <1>2, CloseEnds DEF OwnershipInv
<1>4. ~past'.crossed => /\ ~past.crossed /\ \A q \in Resolver : ~resolving'[q].current
                        /\ resolving[r].current => push.status = "pending" /\ ~past.given
  BY <1>1, <1>2, LastResolution
<1>5. PushInv'
  BY <1>3, <1>4 DEF OwnershipInv, PushInv
<1>6. PushTellsOutcome'
  BY <1>1, <1>3, <1>4 DEF OwnershipInv, PushTellsOutcome
<1> QED
  BY <1>5, <1>6

LEMMA RollBackKeeps ==
  ASSUME OwnershipInv, NEW r \in Resolver, RollBackPush(r)
  PROVE  PushInv' /\ PushTellsOutcome'
<1>1. UNCHANGED <<push, box, past>> /\ resolving'[r] = NoAnswer
      /\ \A q \in Resolver \ {r} : resolving'[q] = resolving[q]
  BY DEF RollBackPush, Answered, OwnershipInv, OwnershipTypeOK
<1> QED
  BY <1>1, AnswerTypes DEF OwnershipInv, PushInv, PushTellsOutcome, Gives

LEMMA PushKeeps ==
  ASSUME OwnershipInv,
         \/ \E to \in Person : CreatePush(to)
         \/ PushTimesOut \/ ExpirePush
         \/ \E r \in Resolver : \/ AcceptPush(r) \/ ClosePush(r) \/ RollBackPush(r)
                                \/ \E action \in Action : ReadPush(r, action)
  PROVE  LockInv' /\ AdminRemains' /\ TargetUsable' /\ PushInv' /\ PushTellsOutcome' /\ ShareInv'
<1>1. CASE \E r \in Resolver : AcceptPush(r)
  BY <1>1, AcceptPushKeepsCore, AcceptPushKeepsPush, AcceptPushKeepsShare
<1>2. CASE ~\E r \in Resolver : AcceptPush(r)
  <2>1. UNCHANGED <<adminState, box, shareState>> /\ past'.moved = past.moved
        /\ past'.consent = past.consent /\ past'.stray = past.stray
    BY <1>2 DEF CreatePush, PushTimesOut, ExpirePush, Crossed, ClosePush, RollBackPush, ReadPush,
              OwnershipInv, OwnershipTypeOK
  <2>2. CASE PushTimesOut
    <3>1. push'.status = push.status /\ push'.from = push.from /\ push'.to = push.to /\ UNCHANGED <<box, resolving, past>>
      BY <2>2 DEF PushTimesOut, OwnershipInv, OwnershipTypeOK
    <3> QED
      BY <2>1, <3>1, CoreFrame, ShareFrame DEF OwnershipInv, PushInv, PushTellsOutcome, Gives
  <2>3. PushInv' /\ PushTellsOutcome'
    BY <1>2, <2>2, CreatePushKeeps, ExpirePushKeeps, ClosePushKeeps, RollBackKeeps, ReadPushKeeps
  <2> QED
    BY <2>1, <2>3, CoreFrame, ShareFrame DEF OwnershipInv
<1> QED
  BY <1>1, <1>2

-----------------------------------------------------------------------------
(* Ownership: the share *)

\* Every change of a kept row passes the page by.
LEMMA LaterVersion ==
  ASSUME OwnershipInv, page' = page, share.kept => share'.kept /\ share'.version = share.version + 1
  PROVE  page'.kept => share'.kept /\ page'.version < share'.version
<1>1. page.kept => share.kept /\ (page.version = share.version \/ page.version < share.version)
  BY DEF OwnershipInv, ShareInv
<1>2. page.version \in Nat /\ share.version \in Nat
  BY DEF OwnershipInv, OwnershipTypeOK, Share
<1> QED
  BY <1>1, <1>2

LEMMA ShareKeeps ==
  ASSUME OwnershipInv,
         \/ LoadShare \/ RevokeShare \/ LeaveShare \/ ShareExpires
         \/ \E scope \in {"all", "custom"} : CreateShare(scope) \/ \E renewed \in BOOLEAN : UpdateShare(scope, renewed)
  PROVE  LockInv' /\ AdminRemains' /\ TargetUsable' /\ PushInv' /\ PushTellsOutcome' /\ ShareInv'
<1>1. UNCHANGED <<adminState, box, pushState>> /\ past'.moved = past.moved
      /\ past'.crossed = past.crossed /\ past'.given = past.given
  BY DEF LoadShare, RevokeShare, LeaveShare, ShareExpires, CreateShare, UpdateShare, Consents, OwnershipInv, OwnershipTypeOK
<1>2. share \in Share /\ page \in Share /\ past.consent \in BOOLEAN /\ past.stray \in BOOLEAN
  BY DEF OwnershipInv, OwnershipTypeOK
<1>3. CASE LoadShare
  <2>1. page' = share /\ share' = share /\ past' = past /\ share.kept
    BY <1>3 DEF LoadShare, OwnsShare
  <2>2. ShareInv'
    BY <2>1 DEF OwnershipInv, ShareInv
  <2> QED
    BY <1>1, <2>2, CoreFrame, PushFrame DEF OwnershipInv
<1>4. CASE RevokeShare \/ LeaveShare
  <2>1. share' = Bumped([share EXCEPT !.revoked = TRUE]) \/ share' = Bumped([share EXCEPT !.left = TRUE])
    BY <1>4 DEF RevokeShare, LeaveShare
  <2>2. share'.kept = share.kept /\ share'.version = share.version + 1 /\ (share'.revoked \/ share'.left)
    BY <1>2, <2>1 DEF Bumped, Share
  <2>3. ShareInv'
    BY <1>4, <2>2, LaterVersion DEF ShareInv, RevokeShare, LeaveShare
  <2> QED
    BY <1>1, <2>3, CoreFrame, PushFrame DEF OwnershipInv
<1>5. CASE ShareExpires
  <2>1. share' = [share EXCEPT !.expired = TRUE] /\ page' = (IF page = share THEN share' ELSE page) /\ past' = past
    BY <1>5 DEF ShareExpires
  <2>2. /\ share'.kept = share.kept /\ share'.version = share.version
        /\ share'.revoked = share.revoked /\ share'.left = share.left
    BY <1>2, <2>1 DEF Share
  <2>3. ShareInv'
    BY <2>1, <2>2 DEF OwnershipInv, ShareInv
  <2> QED
    BY <1>1, <2>3, CoreFrame, PushFrame DEF OwnershipInv
<1>6. ASSUME NEW scope \in {"all", "custom"}, CreateShare(scope) PROVE ShareInv'
  <2>1. share.kept => share'.kept /\ share'.version = share.version + 1
    BY <1>2, <1>6 DEF CreateShare, Share
  <2>2. past'.consent = (share'.owner = box.owner) /\ past'.stray = (past.stray \/ share'.owner # box.owner) /\ page' = page
    BY <1>6 DEF CreateShare, OwnershipInv, OwnershipTypeOK
  <2> QED
    BY <2>1, <2>2, LaterVersion DEF ShareInv
<1>7. ASSUME NEW scope \in {"all", "custom"}, NEW renewed \in BOOLEAN, UpdateShare(scope, renewed) PROVE ShareInv'
  <2>1. share'.kept = share.kept /\ share'.version = share.version + 1
    BY <1>2, <1>7 DEF UpdateShare, Share
  <2>2. past'.consent /\ page' = page
    BY <1>7 DEF UpdateShare, Consents, OwnershipInv, OwnershipTypeOK
  <2> QED
    BY <2>1, <2>2, LaterVersion DEF ShareInv
<1> QED
  BY <1>1, <1>3, <1>4, <1>5, <1>6, <1>7, CoreFrame, PushFrame DEF OwnershipInv

-----------------------------------------------------------------------------
(* Ownership: safety *)

LEMMA InitInv == ASSUME OwnershipInit PROVE OwnershipInv
<1>1. OwnershipTypeOK
  BY InitTypes
<1>2. LockInv
  BY DEF OwnershipInit, LockInv
<1>3. PushInv /\ ShareInv /\ PushTellsOutcome
  BY RowTypes, AnswerTypes DEF OwnershipInit, PushInv, ShareInv, PushTellsOutcome
<1>4. PICK second \in Person \ {Reader} :
        people = [u \in Person |-> [role |-> IF u = Reader THEN "user" ELSE "admin", disabled |-> FALSE, gone |-> FALSE]]
  BY DEF OwnershipInit
<1>5. Enabled(second) /\ people[second].role = "admin"
  BY <1>4 DEF Enabled
<1>6. AdminRemains /\ TargetUsable
  BY <1>5 DEF OwnershipInit, AdminRemains, TargetUsable, Referenced
<1> QED
  BY <1>1, <1>2, <1>3, <1>6 DEF OwnershipInv

LEMMA StepInv ==
  ASSUME OwnershipInv, [OwnershipNext]_ownershipVars
  PROVE  OwnershipInv'
<1>1. OwnershipTypeOK'
  BY StepTypes DEF OwnershipInv
<1>2. CASE UNCHANGED ownershipVars
  <2>1. UNCHANGED <<adminState, box, pushState, shareState, past>>
    BY <1>2 DEF ownershipVars, adminState, pushState, shareState
  <2> QED
    BY <1>1, <2>1, CoreFrame, PushFrame, ShareFrame DEF OwnershipInv
<1>3. CASE OwnershipNext
  BY <1>1, <1>3, WriteKeeps, StartKeeps, DeleteAliasKeeps, PushKeeps, ShareKeeps DEF OwnershipNext, OwnershipInv
<1> QED
  BY <1>2, <1>3

LEMMA InvIsSafe == ASSUME OwnershipInv PROVE OwnershipSafe
<1>1. page.version \in Nat /\ share.version \in Nat
  BY DEF OwnershipInv, OwnershipTypeOK, Share
<1>2. PageNotStale
  BY <1>1 DEF OwnershipInv, ShareInv, PageNotStale
<1>3. ReaderHasConsent
  BY DEF OwnershipInv, ShareInv, ReaderHasConsent, ReaderReads, OwnsShare
<1> QED
  BY <1>2, <1>3 DEF OwnershipInv, OwnershipSafe

\* However the requests of administrators, the pushes and the changes of the
\* share overlap, an administrator remains, collected mail has somewhere to go
\* until a push moves the mailbox, the status of a push tells what it did, a
\* page that may be saved shows the row, and the reader reads with the owner's
\* consent (ensureAdminRemains, collectionTargetInUse, resolveMailboxPush,
\* handleUpdateMailboxShare).
THEOREM OwnershipIsSafe == OwnershipSpec => []OwnershipSafe
<1>1. OwnershipInit => OwnershipInv
  BY InitInv
<1>2. OwnershipInv /\ [OwnershipNext]_ownershipVars => OwnershipInv'
  BY StepInv
<1>3. OwnershipInv => OwnershipSafe
  BY InvIsSafe
<1> QED
  BY <1>1, <1>2, <1>3, PTL DEF OwnershipSpec

-----------------------------------------------------------------------------
(* Registration: the inductive invariant *)

\* A request has a place in the table of users.
Making(x) == x.kind \in {"register", "external"} /\ x.pc \in {"update", "commit"}

\* A request has the row of Owner: by lockUserQuotaRowTx, or by its own UPDATE.
Holding(x) ==
  x.kind \in {"apply", "admin"} /\
  \/ x.pc = "commit"
  \/ x.kind = "apply" /\ (x.limit > 0 \/ Daily > 0) /\ x.pc \in {"count", "update"}

\* Owner may have one more mailbox, in all and today.
Room == quota.highest > 0 => Cardinality(Owned(Owner)) < quota.highest + quota.given
RoomToday == Daily > 0 => quota.self < Daily

\* What a request is at each of its steps, and whom it is about.
RoleFits(x) ==
  /\ x.pc = "consume" => x.kind = "register"
  /\ x.pc = "insert" => x.kind \in {"register", "external"}
  /\ x.pc \in {"lock", "count"} => x.kind = "apply"
  /\ x.pc \in {"update", "commit"} => x.kind \in {"register", "external", "apply", "admin"}
  /\ x.pc \in {"state", "profile"} => x.kind \in {"login", "link"}
  /\ x.pc = "bind" => x.kind = "link"
  /\ x.pc # "idle" /\ x.kind \in {"apply", "admin"} => x.who = Owner
  /\ x.pc # "idle" /\ x.kind \in {"register", "external"} => x.who \in Member
  /\ x.pc # "idle" /\ x.kind = "link" => x.who \in tally.proven
  /\ x.coded => x.kind = "register" /\ x.pc \in {"insert", "update", "commit"}

\* An invite it holds has a use left; its user does not exist yet.
ClaimFits(x) ==
  /\ x.coded => invite.used < MaxUses
  /\ Making(x) => ~Known(x.who)

\* Its limit was never above the highest, and when the UPDATE decides for it
\* there is room, however long ago that statement took its snapshot.
LimitFits(x) ==
  x.kind = "apply" /\ x.pc # "idle" =>
    /\ quota.highest > 0 => x.limit > 0 /\ x.limit <= quota.highest
    /\ x.pc = "update" /\ x.seen.boxes < x.limit => Room
    /\ x.pc = "update" /\ x.seen.day < Daily => RoomToday
    /\ x.pc = "commit" => Room /\ RoomToday

Fits(x) == RoleFits(x) /\ ClaimFits(x) /\ LimitFits(x)

\* Two requests do not hold one use of the invite, one address of a user, or
\* the row of Owner together.
Apart(x, y) ==
  /\ ~(x.coded /\ y.coded)
  /\ ~(Making(x) /\ Making(y) /\ x.who = y.who)
  /\ ~(Holding(x) /\ Holding(y))

SlotInv ==
  /\ intake \in [Applicant -> Slot]
  /\ \A s \in Applicant : \A x \in Slot : intake[s] = x => Fits(x)
  /\ \A s, t \in Applicant : s # t => Apart(intake[s], intake[t])

\* The part of the state that the requests leave alone until they commit.
TablesOK ==
  /\ members \in [Member -> [way : Way, group : BOOLEAN]]
  /\ addresses \in [Address -> Member \cup {NoOne}]
  /\ quota \in [limit : Cap, highest : Cap, self : Nat, admin : Nat, given : Nat]
  /\ invite \in [kept : BOOLEAN, used : 0 .. MaxUses, group : BOOLEAN, counted : BOOLEAN,
                needed : BOOLEAN]
  /\ Known(Owner)
  /\ quota.highest > 0 => quota.limit > 0 /\ quota.limit <= quota.highest

\* A state that nobody has claimed yet was issued, and one for a link was
\* issued to a user who had proved his password.
StatesOK ==
  /\ sso \in [states : SUBSET State,
              challenges : SUBSET Challenge, identity : Member \cup {NoOne}]
  /\ tally \in [requests : Nat, changes : Nat, spent : Nat, issued : Nat, claimed : Nat,
                proven : SUBSET Member, unlinked : SUBSET Member]
  /\ IsFiniteSet(sso.states)
  /\ tally.claimed + Cardinality(sso.states) <= tally.issued
  /\ \A st \in sso.states : st.kind = "link" => st.who \in tally.proven

RegistrationInv == SlotInv /\ TablesOK /\ StatesOK /\ InviteNotOverspent /\ QuotaHolds /\ IdentityEarned

-----------------------------------------------------------------------------
(* Registration: lemmas about the slots *)

LEMMA IdleSlotFits ==
  /\ IdleSlot \in Slot /\ Fits(IdleSlot) /\ Fits(IdleSlot)'
         /\ \A y \in Slot : Apart(IdleSlot, y)
<1>1. (CHOOSE n \in Cap : TRUE) \in Cap
  BY RegistrationAssumption, RegistrationAssumption DEF RegistrationAssumption
<1>2. IdleSlot \in Slot
  BY <1>1 DEF IdleSlot, Slot, Stage, Kind
<1>3. IdleSlot.pc = "idle" /\ IdleSlot.kind = "register" /\ ~IdleSlot.coded
  BY DEF IdleSlot
<1>4. Fits(IdleSlot) /\ Fits(IdleSlot)'
  <2>1. ~Making(IdleSlot) /\ IdleSlot' = IdleSlot
    BY <1>3 DEF Making, IdleSlot
  <2> HIDE DEF IdleSlot
  <2> QED BY <1>3, <2>1 DEF Fits, RoleFits, ClaimFits, LimitFits
<1>5. \A y \in Slot : Apart(IdleSlot, y)
  BY <1>3 DEF Apart, Making, Holding
<1> QED BY <1>2, <1>4, <1>5

\* Nothing a request relies on gets lost.
SlotsKept ==
  /\ tally.proven \subseteq tally'.proven
  /\ invite'.used = invite.used
  /\ \A u \in Member : members'[u].way = members[u].way
  /\ quota'.highest > 0 => quota.highest > 0 /\ quota.highest <= quota'.highest
  /\ Room => Room'
  /\ RoomToday => RoomToday'

LEMMA FitsKept ==
  ASSUME TablesOK, TablesOK', SlotsKept, NEW x \in Slot, Fits(x)
  PROVE  Fits(x)'
<1>1. RoleFits(x)'
  BY DEF RoleFits, Fits, SlotsKept
<1>2. ClaimFits(x)'
  BY DEF ClaimFits, Fits, SlotsKept, Making, RoleFits, Known
<1>3. LimitFits(x)'
  <2>1. x.limit \in Nat /\ quota.highest \in Nat /\ quota'.highest \in Nat
    BY RegistrationAssumption DEF RegistrationAssumption, TablesOK, Slot
  <2> QED BY <2>1 DEF LimitFits, Fits, SlotsKept
<1> QED BY <1>1, <1>2, <1>3 DEF Fits

\* A request takes a step: from intake[s] to x.
Turn(s, x) ==
  /\ x \in Slot
  /\ \A t \in Others(s) : Apart(x, intake[t])
  /\ intake' = [intake EXCEPT ![s] = x]

LEMMA TurnKeeps ==
  ASSUME SlotInv, TablesOK, TablesOK', SlotsKept,
         NEW s \in Applicant, NEW x, Turn(s, x), Fits(x) \/ Fits(x)'
  PROVE  SlotInv'
<1>1. intake' \in [Applicant -> Slot]
  BY DEF SlotInv, Turn
<1>2. \A t \in Applicant : intake'[t] = IF t = s THEN x ELSE intake[t]
  BY DEF SlotInv, Turn
<1>3. ASSUME NEW t \in Applicant, NEW y \in Slot, intake'[t] = y
      PROVE  Fits(y)'
  <2>1. CASE t = s
    BY <2>1, <1>2, <1>3, FitsKept DEF Turn
  <2>2. CASE t # s
    <3>1. Fits(y)
      BY <2>2, <1>2, <1>3 DEF SlotInv
    <3> QED BY <3>1, FitsKept
  <2> QED BY <2>1, <2>2
<1>4. ASSUME NEW t \in Applicant, NEW v \in Applicant, t # v
      PROVE  Apart(intake'[t], intake'[v])
  <2>1. CASE t = s
    BY <2>1, <1>2, <1>4 DEF Turn, Others
  <2>2. CASE v = s
    <3>1. Apart(x, intake[t])
      BY <2>2, <1>4 DEF Turn, Others
    <3>2. intake'[v] = x /\ intake'[t] = intake[t]
      BY <2>2, <1>2, <1>4
    <3> QED BY <3>1, <3>2 DEF Apart
  <2>3. CASE t # s /\ v # s
    BY <2>3, <1>2, <1>4 DEF SlotInv
  <2> QED BY <2>1, <2>2, <2>3
<1>5. (\A t, v \in Applicant : t # v => Apart(intake[t], intake[v]))'
  BY <1>4 DEF Apart, Making, Holding
<1> QED BY <1>1, <1>3, <1>5 DEF SlotInv

\* No request takes a step.
LEMMA RestKeeps ==
  ASSUME SlotInv, TablesOK, TablesOK', SlotsKept, UNCHANGED intake
  PROVE  SlotInv'
<1>1. ASSUME NEW t \in Applicant, NEW y \in Slot, intake'[t] = y
      PROVE  Fits(y)'
  BY <1>1, FitsKept DEF SlotInv
<1>2. (\A t, v \in Applicant : t # v => Apart(intake[t], intake[v]))'
  BY DEF Apart, Making, Holding, SlotInv
<1> QED BY <1>1, <1>2 DEF SlotInv

LEMMA BoxesAreFinite ==
  IsFiniteSet(Owned(Owner)) /\ Cardinality(Owned(Owner)) \in Nat
  BY FS_Subset, FS_CardinalityType, RegistrationAssumption DEF RegistrationAssumption, Owned

\* The limits as numbers.
LEMMA Numbers ==
  ASSUME TablesOK
  PROVE  /\ quota.highest \in Nat /\ quota.limit \in Nat /\ quota.given \in Nat
         /\ quota.self \in Nat /\ quota.admin \in Nat /\ Daily \in Nat /\ MaxUses \in Nat
         /\ invite.used \in Nat
<1>1. Daily \in Nat /\ MaxUses \in Nat /\ Cap \subseteq Nat
  BY RegistrationAssumption DEF RegistrationAssumption
<1>2. invite.used \in 0 .. MaxUses
  BY DEF TablesOK
<1>3. invite.used \in Nat
  BY <1>1, <1>2
<1>4. quota \in [limit : Cap, highest : Cap, self : Nat, admin : Nat, given : Nat]
  BY DEF TablesOK
<1> QED BY <1>1, <1>3, <1>4

LEMMA SameTables ==
  ASSUME TablesOK, UNCHANGED <<members, addresses, quota, invite>>,
         tally.proven \subseteq tally'.proven
  PROVE  TablesOK' /\ SlotsKept
<1>1. quota.highest <= quota.highest
  BY Numbers
<1>2. TablesOK'
  BY DEF TablesOK, Known
<1>3. (Room => Room') /\ (RoomToday => RoomToday')
  BY DEF Room, RoomToday, Owned
<1> QED BY <1>1, <1>2, <1>3 DEF SlotsKept

-----------------------------------------------------------------------------
(* Registration: the steps of a request before it commits *)

\* The counter of requests, the only one such a step touches.
Counted == tally' = tally \/ tally' = [tally EXCEPT !.requests = @ + 1]

LEMMA QuietStep ==
  ASSUME RegistrationInv, NEW s \in Applicant, NEW x, Turn(s, x), Fits(x),
         UNCHANGED <<members, addresses, quota, invite, sso>>, Counted
  PROVE  RegistrationInv'
<1>1. /\ tally' \in [requests : Nat, changes : Nat, spent : Nat, issued : Nat, claimed : Nat,
                     proven : SUBSET Member, unlinked : SUBSET Member]
      /\ tally'.proven = tally.proven /\ tally'.claimed = tally.claimed
      /\ tally'.issued = tally.issued /\ tally'.spent = tally.spent
      /\ tally'.unlinked = tally.unlinked
  BY DEF RegistrationInv, StatesOK, Counted
<1>2. TablesOK' /\ SlotsKept
  BY <1>1, SameTables DEF RegistrationInv
<1>3. SlotInv'
  BY <1>2, TurnKeeps DEF RegistrationInv
<1>4. StatesOK'
  BY <1>1 DEF RegistrationInv, StatesOK
<1>5. InviteNotOverspent'
  BY <1>1 DEF RegistrationInv, InviteNotOverspent
<1>6. QuotaHolds'
  BY DEF RegistrationInv, QuotaHolds, Owned
<1>7. IdentityEarned'
  BY <1>1 DEF RegistrationInv, IdentityEarned
<1> QED BY <1>2, <1>3, <1>4, <1>5, <1>6, <1>7 DEF RegistrationInv

\* A request that ends without a write.
LEMMA DoneStep ==
  ASSUME RegistrationInv, NEW s \in Applicant, Done(s),
         UNCHANGED <<members, addresses, quota, invite, sso>>, Counted
  PROVE  RegistrationInv'
<1>1. \A t \in Applicant : intake[t] \in Slot
  BY DEF RegistrationInv, SlotInv
<1>2. Turn(s, IdleSlot) /\ Fits(IdleSlot)
  BY <1>1, IdleSlotFits DEF Turn, Done, Others
<1> QED BY <1>2, QuietStep

LEMMA AskRegisterStep ==
  ASSUME RegistrationInv, NEW s \in Applicant, AskRegister(s)
  PROVE  RegistrationInv'
<1>1. PICK u \in Member, b \in Address \cup {NoOne} :
        Enter(s, [IdleSlot EXCEPT !.kind = "register", !.who = u, !.box = b,
                                  !.pc = IF invite.needed THEN "consume" ELSE "insert"])
  BY DEF AskRegister
<1> DEFINE x == [IdleSlot EXCEPT !.kind = "register", !.who = u, !.box = b,
                                 !.pc = IF invite.needed THEN "consume" ELSE "insert"]
<1>2. IdleSlot \in Slot /\ ~IdleSlot.coded
  BY IdleSlotFits DEF IdleSlot
<1>3. x \in Slot /\ x.kind = "register" /\ x.who = u /\ x.pc \in {"consume", "insert"} /\ ~x.coded
  BY <1>2 DEF Slot, Stage, Kind
<1>4. Enter(s, x)
  BY <1>1
<1> HIDE DEF x
<1>5. Fits(x)
  BY <1>3 DEF Fits, RoleFits, ClaimFits, LimitFits, Making
<1>6. Turn(s, x)
  BY <1>3, <1>4 DEF Turn, Enter, Apart, Making, Holding
<1> QED BY <1>4, <1>5, <1>6, QuietStep DEF AskRegister, Enter, Counted

LEMMA AskApplyStep ==
  ASSUME RegistrationInv, NEW s \in Applicant, AskApply(s)
  PROVE  RegistrationInv'
<1>1. PICK b \in Address :
        Enter(s, [IdleSlot EXCEPT !.kind = "apply", !.who = Owner, !.box = b, !.limit = quota.limit,
                                  !.pc = IF quota.limit > 0 \/ Daily > 0 THEN "lock" ELSE "update"])
  BY DEF AskApply
<1> DEFINE x == [IdleSlot EXCEPT !.kind = "apply", !.who = Owner, !.box = b, !.limit = quota.limit,
                                 !.pc = IF quota.limit > 0 \/ Daily > 0 THEN "lock" ELSE "update"]
<1>2. IdleSlot \in Slot /\ ~IdleSlot.coded /\ IdleSlot.seen = [boxes |-> 0, day |-> 0]
  BY IdleSlotFits DEF IdleSlot
<1>3. /\ x \in Slot /\ x.kind = "apply" /\ x.who = Owner /\ ~x.coded /\ x.limit = quota.limit
      /\ x.pc = IF quota.limit > 0 \/ Daily > 0 THEN "lock" ELSE "update"
      /\ x.seen.boxes = 0 /\ x.seen.day = 0
  <2>1. Owner \in Member /\ quota.limit \in Cap
    BY RegistrationAssumption DEF RegistrationAssumption, RegistrationInv, TablesOK
  <2>2. x \in Slot
    BY <1>2, <2>1 DEF Slot, Stage, Kind
  <2> QED BY <1>2, <2>2 DEF Slot
<1>4. Enter(s, x)
  BY <1>1
<1> HIDE DEF x
<1>5. RoleFits(x) /\ ClaimFits(x)
  BY <1>3 DEF RoleFits, ClaimFits, Making
<1>6. LimitFits(x)
  <2>1. quota.highest > 0 => x.limit > 0 /\ x.limit <= quota.highest
    BY <1>3 DEF RegistrationInv, TablesOK
  <2>2. x.pc = "update" => ~(x.seen.boxes < x.limit) /\ ~(x.seen.day < Daily)
    BY <1>3, Numbers DEF RegistrationInv
  <2>3. x.pc # "commit"
    BY <1>3
  <2> QED BY <2>1, <2>2, <2>3 DEF LimitFits
<1>7. ~Holding(x) /\ ~Making(x)
  BY <1>3 DEF Holding, Making
<1>8. Turn(s, x)
  BY <1>3, <1>4, <1>7 DEF Turn, Enter, Apart
<1> QED BY <1>4, <1>5, <1>6, <1>8, QuietStep DEF AskApply, Enter, Counted, Fits

LEMMA AskAdminStep ==
  ASSUME RegistrationInv, NEW s \in Applicant, AskAdmin(s)
  PROVE  RegistrationInv'
<1>1. PICK b \in Address :
        Enter(s, [IdleSlot EXCEPT !.kind = "admin", !.who = Owner, !.box = b, !.pc = "update"])
  BY DEF AskAdmin
<1> DEFINE x == [IdleSlot EXCEPT !.kind = "admin", !.who = Owner, !.box = b, !.pc = "update"]
<1>2. IdleSlot \in Slot /\ ~IdleSlot.coded
  BY IdleSlotFits DEF IdleSlot
<1>3. x \in Slot /\ x.kind = "admin" /\ x.who = Owner /\ x.pc = "update" /\ ~x.coded
  BY <1>2, RegistrationAssumption DEF Slot, Stage, Kind, RegistrationAssumption
<1>4. Enter(s, x)
  BY <1>1
<1> HIDE DEF x
<1>5. Fits(x)
  BY <1>3 DEF Fits, RoleFits, ClaimFits, LimitFits, Making
<1>6. Turn(s, x)
  BY <1>3, <1>4 DEF Turn, Enter, Apart, Making, Holding
<1> QED BY <1>4, <1>5, <1>6, QuietStep DEF AskAdmin, Enter, Counted

LEMMA AskExternalStep ==
  ASSUME RegistrationInv, NEW s \in Applicant, AskExternal(s)
  PROVE  RegistrationInv'
<1>1. PICK u \in Member, b \in Address, c \in sso.challenges :
        Enter(s, [IdleSlot EXCEPT !.kind = "external", !.who = u, !.box = b, !.token = c,
                                  !.pc = "insert"])
  BY DEF AskExternal
<1> DEFINE x == [IdleSlot EXCEPT !.kind = "external", !.who = u, !.box = b, !.token = c,
                                 !.pc = "insert"]
<1>2. IdleSlot \in Slot /\ ~IdleSlot.coded
  BY IdleSlotFits DEF IdleSlot
<1>3. x \in Slot /\ x.kind = "external" /\ x.who = u /\ x.pc = "insert" /\ ~x.coded
  <2>1. c \in Challenge
    BY DEF RegistrationInv, StatesOK
  <2> QED BY <1>2, <2>1 DEF Slot, Stage, Kind
<1>4. Enter(s, x)
  BY <1>1
<1> HIDE DEF x
<1>5. Fits(x)
  BY <1>3 DEF Fits, RoleFits, ClaimFits, LimitFits, Making
<1>6. Turn(s, x)
  BY <1>3, <1>4 DEF Turn, Enter, Apart, Making, Holding
<1> QED BY <1>4, <1>5, <1>6, QuietStep DEF AskExternal, Enter, Counted

LEMMA ConsumeInviteStep ==
  ASSUME RegistrationInv, NEW s \in Applicant, ConsumeInvite(s)
  PROVE  RegistrationInv'
<1>1. CASE ~(MayConsume(s) /\ invite.group)
  BY <1>1, DoneStep DEF ConsumeInvite, Counted
<1>2. CASE MayConsume(s) /\ invite.group
  <2> DEFINE x == [intake[s] EXCEPT !.pc = "insert", !.coded = TRUE]
  <2>1. intake[s] \in Slot /\ intake \in [Applicant -> Slot] /\ Fits(intake[s])
    BY DEF RegistrationInv, SlotInv
  <2>2. x \in Slot /\ x.pc = "insert" /\ x.kind = intake[s].kind /\ x.who = intake[s].who /\ x.coded
    BY <2>1 DEF Slot, Stage
  <2>3. intake' = [intake EXCEPT ![s] = x]
    BY <1>2, <2>1 DEF ConsumeInvite
  <2> HIDE DEF x
  <2>4. intake[s].pc = "consume" /\ intake[s].kind = "register" /\ invite.used < MaxUses
    BY <1>2, <2>1 DEF ConsumeInvite, MayConsume, Fits, RoleFits
  <2>5. Fits(x)
    BY <2>1, <2>2, <2>4 DEF Fits, RoleFits, ClaimFits, LimitFits, Making
  <2>6. ASSUME NEW t \in Others(s)
        PROVE  Apart(x, intake[t])
    <3>1. ~intake[t].coded
      <4>1. intake[t] \in Slot /\ Fits(intake[t])
        BY DEF RegistrationInv, SlotInv, Others
      <4> QED BY <4>1 DEF ConsumeInvite, InviteFree, InTx, Fits, RoleFits
    <3> QED BY <3>1, <2>2, <2>4 DEF Apart, Making, Holding
  <2>7. Turn(s, x)
    BY <2>2, <2>3, <2>6 DEF Turn
  <2> QED BY <2>5, <2>7, QuietStep DEF ConsumeInvite, Counted
<1> QED BY <1>1, <1>2

\* A step that only moves a request on: what it was apart from, it still is,
\* unless it now makes a user or holds the row of Owner.
LEMMA AtStep ==
  ASSUME RegistrationInv, NEW s \in Applicant, NEW pc \in Stage, At(s, pc),
         Fits([intake[s] EXCEPT !.pc = pc]),
         Making([intake[s] EXCEPT !.pc = pc]) =>
           \A t \in Others(s) : ~(Making(intake[t]) /\ intake[t].who = intake[s].who),
         Holding([intake[s] EXCEPT !.pc = pc]) => \A t \in Others(s) : ~Holding(intake[t]),
         UNCHANGED <<members, addresses, quota, invite, sso, tally>>
  PROVE  RegistrationInv'
<1> DEFINE x == [intake[s] EXCEPT !.pc = pc]
<1>1. intake \in [Applicant -> Slot] /\ intake[s] \in Slot
  BY DEF RegistrationInv, SlotInv
<1>2. x \in Slot /\ x.who = intake[s].who /\ x.coded = intake[s].coded
  BY <1>1 DEF Slot
<1>3. intake' = [intake EXCEPT ![s] = x]
  BY <1>1 DEF At
<1>4. Fits(x) /\ (Making(x) => \A t \in Others(s) : ~(Making(intake[t]) /\ intake[t].who = intake[s].who))
      /\ (Holding(x) => \A t \in Others(s) : ~Holding(intake[t]))
  OBVIOUS
<1> HIDE DEF x
<1>5. ASSUME NEW t \in Others(s)
      PROVE  Apart(x, intake[t])
  <2>1. ~(intake[s].coded /\ intake[t].coded)
    BY DEF RegistrationInv, SlotInv, Others, Apart
  <2> QED BY <1>2, <1>4, <2>1 DEF Apart
<1>6. Turn(s, x)
  BY <1>2, <1>3, <1>5 DEF Turn
<1> QED BY <1>4, <1>6, QuietStep DEF Counted

LEMMA SlotHere ==
  ASSUME RegistrationInv, NEW s \in Applicant
  PROVE  /\ intake[s] \in Slot /\ Fits(intake[s])
         /\ \A t \in Others(s) : Apart(intake[s], intake[t])
  BY DEF RegistrationInv, SlotInv, Others

\* What a request is after it moved on.
LEMMA MovedSlot ==
  ASSUME NEW y \in Slot, NEW pc \in Stage, NEW x, x = [y EXCEPT !.pc = pc]
  PROVE  /\ x.pc = pc /\ x.kind = y.kind /\ x.who = y.who /\ x.coded = y.coded
         /\ x.limit = y.limit /\ x.seen = y.seen /\ x.box = y.box
  BY DEF Slot

LEMMA InsertUserStep ==
  ASSUME RegistrationInv, NEW s \in Applicant, InsertUser(s)
  PROVE  RegistrationInv'
<1>1. CASE Known(intake[s].who) \/ (intake[s].coded /\ ~invite.group)
  BY <1>1, DoneStep DEF InsertUser, Counted
<1>2. CASE ~(Known(intake[s].who) \/ (intake[s].coded /\ ~invite.group))
  <2> DEFINE pc == IF intake[s].box = NoOne THEN "commit" ELSE "update"
             x  == [intake[s] EXCEPT !.pc = pc]
  <2>1. pc \in Stage /\ pc \in {"update", "commit"} /\ At(s, pc)
    BY <1>2 DEF Stage, InsertUser
  <2> HIDE DEF pc
  <2>2. x.pc = pc /\ x.kind = intake[s].kind /\ x.who = intake[s].who /\ x.coded = intake[s].coded
    BY <2>1, SlotHere, MovedSlot
  <2>3. intake[s].pc = "insert" /\ Fits(intake[s]) /\ intake[s].kind \in {"register", "external"}
    BY SlotHere DEF InsertUser, Fits, RoleFits
  <2> HIDE DEF x
  <2>4. Fits(x)
    <3>1. RoleFits(x)
      BY <2>1, <2>2, <2>3 DEF Fits, RoleFits
    <3>2. ClaimFits(x)
      BY <1>2, <2>1, <2>2, <2>3 DEF Fits, ClaimFits
    <3> QED BY <3>1, <3>2, <2>2, <2>3 DEF Fits, LimitFits
  <2>5. \A t \in Others(s) : ~(Making(intake[t]) /\ intake[t].who = intake[s].who)
    BY DEF InsertUser, EmailFree, InTx, Making
  <2>6. ~Holding(x)
    BY <2>2, <2>3 DEF Holding
  <2> QED BY <2>1, <2>4, <2>5, <2>6, AtStep DEF InsertUser, x
<1> QED BY <1>1, <1>2

\* What RowFree says of a request that is to hold the row of Owner.
LEMMA RowIsFree ==
  ASSUME RegistrationInv, NEW s \in Applicant, RowFree(s)
  PROVE  \A t \in Others(s) : ~Holding(intake[t])
<1>1. ASSUME NEW t \in Others(s), Holding(intake[t])
      PROVE  FALSE
  <2>1. intake[t] \in Slot /\ RoleFits(intake[t])
    BY SlotHere DEF Others, Fits
  <2>2. intake[t].who = Owner
    BY <1>1, <2>1 DEF Holding, RoleFits
  <2> QED BY <1>1, <2>2 DEF RowFree, InTx, Locked, PastLimit, Holding
<1> QED BY <1>1

LEMMA LockUserStep ==
  ASSUME RegistrationInv, NEW s \in Applicant, LockUser(s)
  PROVE  RegistrationInv'
<1> DEFINE x == [intake[s] EXCEPT !.pc = "count"]
<1>1. "count" \in Stage /\ At(s, "count") /\ intake[s].pc = "lock"
  BY DEF Stage, LockUser
<1>2. x.pc = "count" /\ x.kind = intake[s].kind /\ x.who = intake[s].who /\ x.coded = intake[s].coded
      /\ x.limit = intake[s].limit
  BY <1>1, SlotHere, MovedSlot
<1> HIDE DEF x
<1>3. Fits(x)
  BY <1>1, <1>2, SlotHere DEF Fits, RoleFits, ClaimFits, LimitFits, Making
<1>4. ~Making(x) /\ \A t \in Others(s) : ~Holding(intake[t])
  BY <1>2, RowIsFree DEF Making, LockUser
<1> QED BY <1>1, <1>3, <1>4, AtStep DEF LockUser, x

LEMMA CountStep ==
  ASSUME RegistrationInv, NEW s \in Applicant, Count(s)
  PROVE  RegistrationInv'
<1> DEFINE now == [boxes |-> Cardinality(Owned(Owner)), day |-> quota.self + quota.admin]
           x == [intake[s] EXCEPT !.pc = "update", !.seen = now]
<1>1. now \in [boxes : Nat, day : Nat]
  BY BoxesAreFinite, Numbers DEF RegistrationInv
<1>2. intake[s] \in Slot /\ Fits(intake[s]) /\ intake[s].pc = "count" /\ intake \in [Applicant -> Slot]
  BY SlotHere DEF Count, RegistrationInv, SlotInv
<1>3. intake' = [intake EXCEPT ![s] = x]
  BY <1>2 DEF Count
<1>4. now.boxes = Cardinality(Owned(Owner)) /\ now.day = quota.self + quota.admin
  OBVIOUS
<1> HIDE DEF now
<1>5. /\ x \in Slot /\ x.pc = "update" /\ x.kind = intake[s].kind /\ x.who = intake[s].who
      /\ x.coded = intake[s].coded /\ x.limit = intake[s].limit /\ x.seen = now
  BY <1>1, <1>2 DEF Slot, Stage
<1> HIDE DEF x
<1>6. intake[s].kind = "apply"
  BY <1>2 DEF Fits, RoleFits
<1>7. LimitFits(x)
  <2>1. quota.highest > 0 => x.limit > 0 /\ x.limit <= quota.highest
    BY <1>2, <1>5, <1>6 DEF Fits, LimitFits
  <2>2. ASSUME now.boxes < x.limit
        PROVE  Room
    <3>1. x.limit \in Nat /\ quota.highest \in Nat /\ quota.given \in Nat /\ now.boxes \in Nat
      BY <1>1, <1>5, Numbers, RegistrationAssumption DEF RegistrationInv, Slot, RegistrationAssumption
    <3>2. quota.highest > 0 => now.boxes < quota.highest + quota.given
      BY <2>1, <2>2, <3>1
    <3> QED BY <1>4, <3>2 DEF Room
  <2>3. ASSUME now.day < Daily
        PROVE  RoomToday
    <3>1. quota.self < Daily
      BY <1>4, <2>3, Numbers DEF RegistrationInv
    <3> QED BY <3>1 DEF RoomToday
  <2> QED BY <1>5, <2>1, <2>2, <2>3 DEF LimitFits
<1>8. Fits(x)
  BY <1>2, <1>5, <1>6, <1>7 DEF Fits, RoleFits, ClaimFits, Making
<1>9. ASSUME NEW t \in Others(s)
      PROVE  Apart(x, intake[t])
  BY <1>2, <1>5, <1>6, SlotHere DEF Apart, Holding, Making
<1>10. Turn(s, x)
  BY <1>3, <1>5, <1>9 DEF Turn
<1> QED BY <1>8, <1>10, QuietStep DEF Count, Counted

LEMMA CreateBoxStep ==
  ASSUME RegistrationInv, NEW s \in Applicant, CreateBox(s)
  PROVE  RegistrationInv'
<1>1. CASE ~(QuotaLeft(s) /\ addresses[intake[s].box] = NoOne)
  BY <1>1, DoneStep DEF CreateBox, Counted
<1>2. CASE QuotaLeft(s) /\ addresses[intake[s].box] = NoOne
  <2> DEFINE x == [intake[s] EXCEPT !.pc = "commit"]
  <2>1. "commit" \in Stage /\ At(s, "commit") /\ intake[s].pc = "update" /\ Fits(intake[s])
    BY <1>2, SlotHere DEF Stage, CreateBox
  <2>2. x.pc = "commit" /\ x.kind = intake[s].kind /\ x.who = intake[s].who /\ x.coded = intake[s].coded
        /\ x.limit = intake[s].limit /\ x.seen = intake[s].seen
    BY <2>1, SlotHere, MovedSlot
  <2> HIDE DEF x
  <2>3. RoleFits(x) /\ ClaimFits(x)
    BY <2>1, <2>2 DEF Fits, RoleFits, ClaimFits, Making
  <2>4. ASSUME intake[s].kind = "apply"
        PROVE  Room /\ RoomToday /\ (quota.highest > 0 => x.limit > 0 /\ x.limit <= quota.highest)
    <3>1. quota.highest > 0 => x.limit > 0 /\ x.limit <= quota.highest
      BY <2>1, <2>2, <2>4 DEF Fits, LimitFits
    <3>2. x.limit \in Nat /\ quota.highest \in Nat /\ Daily \in Nat
      BY <2>2, SlotHere, Numbers, RegistrationAssumption DEF RegistrationInv, Slot, RegistrationAssumption
    <3>3. Room
      <4>1. CASE quota.highest > 0
        BY <4>1, <3>1, <1>2, <2>1, <2>2, <2>4 DEF QuotaLeft, PastLimit, Fits, LimitFits
      <4>2. CASE ~(quota.highest > 0)
        BY <4>2 DEF Room
      <4> QED BY <4>1, <4>2
    <3>4. RoomToday
      <4>1. CASE Daily > 0
        BY <4>1, <1>2, <2>1, <2>4 DEF QuotaLeft, PastLimit, Fits, LimitFits
      <4>2. CASE ~(Daily > 0)
        BY <4>2 DEF RoomToday
      <4> QED BY <4>1, <4>2
    <3> QED BY <3>1, <3>3, <3>4
  <2>5. Fits(x)
    BY <2>2, <2>3, <2>4 DEF Fits, LimitFits
  <2>6. ASSUME Making(x), NEW t \in Others(s)
        PROVE  ~(Making(intake[t]) /\ intake[t].who = intake[s].who)
    BY <2>1, <2>2, <2>6, SlotHere DEF Making, Apart
  <2>7. ASSUME Holding(x)
        PROVE  \A t \in Others(s) : ~Holding(intake[t])
    BY <2>2, <2>7, RowIsFree DEF CreateBox, Holding
  <2> QED BY <2>1, <2>5, <2>6, <2>7, AtStep DEF CreateBox, x
<1> QED BY <1>1, <1>2

LEMMA RollBackStep ==
  ASSUME RegistrationInv, NEW s \in Applicant, RollBack(s) \/ LoseProfile(s)
  PROVE  RegistrationInv'
  BY DoneStep DEF RollBack, LoseProfile, Counted

LEMMA ReadStateStep ==
  ASSUME RegistrationInv, NEW s \in Applicant, ReadState(s)
  PROVE  RegistrationInv'
<1>1. PICK st \in sso.states :
        Enter(s, [IdleSlot EXCEPT !.kind = st.kind, !.who = st.who, !.token = st.id, !.pc = "state"])
  BY DEF ReadState
<1> DEFINE x == [IdleSlot EXCEPT !.kind = st.kind, !.who = st.who, !.token = st.id, !.pc = "state"]
<1>2. IdleSlot \in Slot /\ ~IdleSlot.coded
  BY IdleSlotFits DEF IdleSlot
<1>3. st \in State /\ (st.kind = "link" => st.who \in tally.proven)
  BY DEF RegistrationInv, StatesOK
<1>4. x \in Slot /\ x.kind = st.kind /\ x.who = st.who /\ x.pc = "state" /\ ~x.coded
  BY <1>2, <1>3 DEF Slot, Stage, Kind, State
<1>5. Enter(s, x)
  BY <1>1
<1> HIDE DEF x
<1>6. x.kind \in {"login", "link"}
  BY <1>3, <1>4 DEF State
<1>7. Fits(x)
  BY <1>3, <1>4, <1>6 DEF Fits, RoleFits, ClaimFits, LimitFits, Making
<1>8. Turn(s, x)
  BY <1>4, <1>5, <1>6 DEF Turn, Enter, Apart, Making, Holding
<1> QED BY <1>5, <1>7, <1>8, QuietStep DEF ReadState, Enter, Counted

LEMMA CheckLinkStep ==
  ASSUME RegistrationInv, NEW s \in Applicant, CheckLink(s)
  PROVE  RegistrationInv'
<1>1. CASE Done(s)
  BY <1>1, DoneStep DEF CheckLink, Counted
<1>2. CASE ~Done(s)
  <2> DEFINE x == [intake[s] EXCEPT !.pc = "bind"]
  <2>1. intake[s] \in Slot /\ intake \in [Applicant -> Slot]
    BY DEF RegistrationInv, SlotInv
  <2>2. PICK session \in Member :
          /\ SameSession(s, session)
          /\ intake' = [intake EXCEPT ![s].pc = "bind", ![s].who = session]
    BY <1>2 DEF CheckLink
  <2>3. session = intake[s].who
    BY <2>2 DEF SameSession
  <2>4. intake' = [intake EXCEPT ![s] = x]
    BY <2>1, <2>2, <2>3 DEF Slot
  <2>5. At(s, "bind") /\ "bind" \in Stage
    BY <2>1, <2>4 DEF At, Stage
  <2>6. x.pc = "bind" /\ x.kind = intake[s].kind /\ x.who = intake[s].who /\ x.coded = intake[s].coded
    BY <2>1, <2>5, MovedSlot
  <2> HIDE DEF x
  <2>7. intake[s].pc = "profile" /\ intake[s].kind = "link" /\ Fits(intake[s])
    BY SlotHere DEF CheckLink
  <2>8. Fits(x)
    BY <2>6, <2>7 DEF Fits, RoleFits, ClaimFits, LimitFits, Making
  <2>9. ~Making(x) /\ ~Holding(x)
    BY <2>6 DEF Making, Holding
  <2> QED BY <2>5, <2>8, <2>9, AtStep DEF CheckLink, x
<1> QED BY <1>1, <1>2

-----------------------------------------------------------------------------
(* Registration: the steps of Linux.do that write *)

LEMMA TablesAlone ==
  ASSUME RegistrationInv, UNCHANGED <<members, addresses, quota, invite>>,
         tally'.spent = tally.spent, tally.proven \subseteq tally'.proven
  PROVE  TablesOK' /\ SlotsKept /\ InviteNotOverspent' /\ QuotaHolds'
<1>1. TablesOK' /\ SlotsKept
  BY SameTables DEF RegistrationInv
<1>2. InviteNotOverspent'
  BY DEF RegistrationInv, InviteNotOverspent
<1>3. QuotaHolds'
  BY DEF RegistrationInv, QuotaHolds, Owned
<1> QED BY <1>1, <1>2, <1>3

LEMMA StartStateStep ==
  ASSUME RegistrationInv, NEW kind \in {"login", "link"}, NEW u \in Member \cup {NoOne},
         kind = "link" => u \in Member, StartState(kind, u)
  PROVE  RegistrationInv'
<1> DEFINE st == [id |-> tally.issued, kind |-> kind, who |-> u]
<1>1. /\ tally' = [tally EXCEPT !.requests = @ + 1, !.issued = @ + 1,
                                !.proven = IF kind = "link" THEN @ \cup {u} ELSE @]
      /\ sso' = [sso EXCEPT !.states = @ \cup {st}]
      /\ StatesOK
  BY DEF StartState, RegistrationInv
<1>2. /\ tally' \in [requests : Nat, changes : Nat, spent : Nat, issued : Nat, claimed : Nat,
                     proven : SUBSET Member, unlinked : SUBSET Member]
      /\ tally'.claimed = tally.claimed /\ tally'.issued = tally.issued + 1
      /\ tally'.spent = tally.spent /\ tally'.unlinked = tally.unlinked
      /\ tally'.proven = IF kind = "link" THEN tally.proven \cup {u} ELSE tally.proven
  <2> DEFINE now == IF kind = "link" THEN tally.proven \cup {u} ELSE tally.proven
  <2>1. now \in SUBSET Member
    BY <1>1 DEF StatesOK
  <2>2. tally' = [tally EXCEPT !.requests = @ + 1, !.issued = @ + 1, !.proven = now]
    BY <1>1
  <2> HIDE DEF now
  <2>3. /\ tally' \in [requests : Nat, changes : Nat, spent : Nat, issued : Nat, claimed : Nat,
                       proven : SUBSET Member, unlinked : SUBSET Member]
        /\ tally'.claimed = tally.claimed /\ tally'.issued = tally.issued + 1
        /\ tally'.spent = tally.spent /\ tally'.unlinked = tally.unlinked
        /\ tally'.proven = now
    <3>1. tally \in [requests : Nat, changes : Nat, spent : Nat, issued : Nat, claimed : Nat,
                     proven : SUBSET Member, unlinked : SUBSET Member]
      BY <1>1 DEF StatesOK
    <3>2. tally.requests + 1 \in Nat /\ tally.issued + 1 \in Nat
      BY <3>1
    <3> QED BY <2>1, <2>2, <3>1, <3>2
  <2> QED BY <2>3 DEF now
<1>3. st \in State
  BY <1>1 DEF State, StatesOK
<1>4. st.kind = kind /\ st.who = u
  OBVIOUS
<1> HIDE DEF st
<1>5. /\ sso' \in [states : SUBSET State,
                   challenges : SUBSET Challenge, identity : Member \cup {NoOne}]
      /\ sso'.states = sso.states \cup {st} /\ sso'.identity = sso.identity
  BY <1>1, <1>3 DEF StatesOK
<1>6. StatesOK'
  <2>1. IsFiniteSet(sso'.states) /\ Cardinality(sso'.states) <= Cardinality(sso.states) + 1
    <3>1. IsFiniteSet(sso.states) /\ Cardinality(sso.states) \in Nat
      BY <1>1, FS_CardinalityType DEF StatesOK
    <3>2. IsFiniteSet(sso'.states)
          /\ Cardinality(sso'.states) = IF st \in sso.states THEN Cardinality(sso.states)
                                        ELSE Cardinality(sso.states) + 1
      <4>1. Cardinality(sso.states \cup {st}) = IF st \in sso.states THEN Cardinality(sso.states)
                                                 ELSE Cardinality(sso.states) + 1
        BY <3>1, FS_AddElement
      <4>2. IsFiniteSet(sso.states \cup {st})
        BY <3>1, FS_AddElement
      <4> QED BY <1>5, <4>1, <4>2
    <3> QED BY <3>1, <3>2
  <2>2. tally'.claimed + Cardinality(sso'.states) <= tally'.issued
    <3>1. /\ tally.claimed \in Nat /\ tally.issued \in Nat
          /\ tally.claimed + Cardinality(sso.states) <= tally.issued
      BY <1>1 DEF StatesOK
    <3>2. Cardinality(sso.states) \in Nat /\ Cardinality(sso'.states) \in Nat
      BY <1>1, <2>1, FS_CardinalityType DEF StatesOK
    <3> QED BY <1>2, <2>1, <3>1, <3>2
  <2>3. \A x \in sso'.states : x.kind = "link" => x.who \in tally'.proven
    BY <1>1, <1>2, <1>4, <1>5 DEF StatesOK
  <2> QED BY <1>2, <1>5, <2>1, <2>2, <2>3 DEF StatesOK
<1>7. TablesOK' /\ SlotsKept /\ InviteNotOverspent' /\ QuotaHolds'
  BY <1>2, TablesAlone DEF StartState
<1>8. SlotInv'
  BY <1>7, RestKeeps DEF RegistrationInv, StartState
<1>9. IdentityEarned'
  BY <1>2, <1>5 DEF RegistrationInv, IdentityEarned, StartState
<1> QED BY <1>6, <1>7, <1>8, <1>9 DEF RegistrationInv

LEMMA TakeStateStep ==
  ASSUME RegistrationInv, NEW s \in Applicant, TakeState(s)
  PROVE  RegistrationInv'
<1>1. CASE ~StateTaken(s)
  BY <1>1, DoneStep DEF TakeState, Counted
<1>2. CASE StateTaken(s)
  <2> DEFINE x == [intake[s] EXCEPT !.pc = "profile"]
             rest == {st \in sso.states : st.id # intake[s].token}
  <2>1. /\ intake[s] \in Slot /\ intake \in [Applicant -> Slot] /\ Fits(intake[s])
        /\ intake[s].pc = "state" /\ StatesOK
    BY DEF RegistrationInv, SlotInv, TakeState
  <2>2. x \in Slot /\ x.pc = "profile" /\ x.kind = intake[s].kind /\ x.who = intake[s].who
        /\ x.coded = intake[s].coded
    BY <2>1 DEF Slot, Stage
  <2>3. intake' = [intake EXCEPT ![s] = x]
    BY <1>2, <2>1 DEF TakeState, At
  <2> HIDE DEF x
  <2>4. Fits(x)
    BY <2>1, <2>2 DEF Fits, RoleFits, ClaimFits, LimitFits, Making
  <2>5. Turn(s, x)
    BY <2>1, <2>2, <2>3 DEF Turn, Apart, Making, Holding, Fits, RoleFits
  <2>6. /\ tally' = [tally EXCEPT !.claimed = @ + 1]
        /\ sso' = [sso EXCEPT !.states = rest]
    BY <1>2 DEF TakeState
  <2>7. /\ tally' \in [requests : Nat, changes : Nat, spent : Nat, issued : Nat, claimed : Nat,
                       proven : SUBSET Member, unlinked : SUBSET Member]
        /\ tally'.claimed = tally.claimed + 1 /\ tally'.issued = tally.issued
        /\ tally'.spent = tally.spent /\ tally'.unlinked = tally.unlinked
        /\ tally'.proven = tally.proven
    BY <2>1, <2>6 DEF StatesOK
  <2>8. /\ sso' \in [states : SUBSET State,
                     challenges : SUBSET Challenge, identity : Member \cup {NoOne}]
        /\ sso'.states = rest /\ sso'.identity = sso.identity
    BY <2>1, <2>6 DEF StatesOK
  <2>9. StatesOK'
    <3>1. PICK st \in sso.states : st.id = intake[s].token
      BY <1>2 DEF StateTaken
    <3>2. /\ IsFiniteSet(sso.states) /\ Cardinality(sso.states) \in Nat
          /\ Cardinality(sso.states \ {st}) = Cardinality(sso.states) - 1
          /\ IsFiniteSet(sso.states \ {st})
      BY <2>1, <3>1, FS_CardinalityType, FS_RemoveElement DEF StatesOK
    <3>3. rest \subseteq sso.states \ {st}
      BY <3>1
    <3>4. IsFiniteSet(rest) /\ Cardinality(rest) <= Cardinality(sso.states) - 1
          /\ Cardinality(rest) \in Nat
      BY <3>2, <3>3, FS_Subset, FS_CardinalityType
    <3>5. /\ tally.claimed \in Nat /\ tally.issued \in Nat
          /\ tally.claimed + Cardinality(sso.states) <= tally.issued
      BY <2>1 DEF StatesOK
    <3>6. tally'.claimed + Cardinality(sso'.states) <= tally'.issued
      BY <2>7, <2>8, <3>2, <3>4, <3>5
    <3>7. \A y \in sso'.states : y.kind = "link" => y.who \in tally'.proven
      BY <2>1, <2>7, <2>8 DEF StatesOK
    <3> QED BY <2>7, <2>8, <3>4, <3>6, <3>7 DEF StatesOK
  <2>10. TablesOK' /\ SlotsKept /\ InviteNotOverspent' /\ QuotaHolds'
    BY <2>7, TablesAlone DEF TakeState
  <2>11. SlotInv'
    BY <2>4, <2>5, <2>10, TurnKeeps DEF RegistrationInv
  <2>12. IdentityEarned'
    BY <2>7, <2>8 DEF RegistrationInv, IdentityEarned, TakeState
  <2> QED BY <2>9, <2>10, <2>11, <2>12 DEF RegistrationInv
<1> QED BY <1>1, <1>2

\* A request ends and changes the challenges or the identity.
LEMMA SsoStep ==
  ASSUME RegistrationInv, NEW s \in Applicant, Done(s),
         UNCHANGED <<members, addresses, quota, invite, tally>>,
         sso' \in [states : SUBSET State,
                   challenges : SUBSET Challenge, identity : Member \cup {NoOne}],
         sso'.states = sso.states, IdentityEarned'
  PROVE  RegistrationInv'
<1>1. TablesOK' /\ SlotsKept /\ InviteNotOverspent' /\ QuotaHolds'
  BY TablesAlone
<1>2. Turn(s, IdleSlot) /\ Fits(IdleSlot)
  BY IdleSlotFits DEF Turn, Done, Others, RegistrationInv, SlotInv
<1>3. SlotInv'
  BY <1>1, <1>2, TurnKeeps DEF RegistrationInv
<1>4. StatesOK'
  BY DEF RegistrationInv, StatesOK
<1> QED BY <1>1, <1>3, <1>4 DEF RegistrationInv

LEMMA FinishLoginStep ==
  ASSUME RegistrationInv, NEW s \in Applicant, FinishLogin(s)
  PROVE  RegistrationInv'
<1>1. StatesOK
  BY DEF RegistrationInv
<1>2. /\ sso' \in [states : SUBSET State,
                   challenges : SUBSET Challenge, identity : Member \cup {NoOne}]
      /\ sso'.states = sso.states /\ sso'.identity = sso.identity
  <2>1. CASE sso' = sso
    BY <1>1, <2>1 DEF StatesOK
  <2>2. CASE sso' # sso
    <3>1. PICK c \in Challenge : sso' = [sso EXCEPT !.challenges = @ \cup {c}]
      BY <2>2 DEF FinishLogin
    <3> QED BY <1>1, <3>1 DEF StatesOK
  <2> QED BY <2>1, <2>2
<1>3. IdentityEarned'
  BY <1>2 DEF RegistrationInv, IdentityEarned, FinishLogin
<1> QED BY <1>2, <1>3, SsoStep DEF FinishLogin

LEMMA BindStep ==
  ASSUME RegistrationInv, NEW s \in Applicant, Bind(s)
  PROVE  RegistrationInv'
<1>1. StatesOK /\ IdentityEarned
  BY DEF RegistrationInv
<1>2. intake[s].who \in Member /\ intake[s].who \in tally.proven
  <2>1. intake[s].who \in tally.proven
    BY SlotHere DEF Bind, Fits, RoleFits
  <2> QED BY <1>1, <2>1 DEF StatesOK
<1>3. CASE sso.identity = NoOne
  <2>1. sso' = [sso EXCEPT !.identity = intake[s].who]
    BY <1>3 DEF Bind
  <2>2. /\ sso' \in [states : SUBSET State,
                     challenges : SUBSET Challenge, identity : Member \cup {NoOne}]
        /\ sso'.states = sso.states /\ sso'.identity = intake[s].who
    BY <1>1, <1>2, <2>1 DEF StatesOK
  <2>3. IdentityEarned'
    <3>1. \A u \in Member : members[u].way = "external" => u \in tally.unlinked
      BY <1>1, <1>3, RegistrationAssumption DEF IdentityEarned, RegistrationAssumption
    <3> QED BY <1>2, <2>2, <3>1 DEF IdentityEarned, Bind
  <2> QED BY <2>2, <2>3, SsoStep DEF Bind
<1>4. CASE sso.identity # NoOne
  <2>1. sso' = sso /\ UNCHANGED <<members, tally>>
    BY <1>4 DEF Bind
  <2>2. IdentityEarned'
    BY <1>1, <2>1 DEF IdentityEarned
  <2> QED BY <1>1, <2>1, <2>2, SsoStep DEF Bind, StatesOK
<1> QED BY <1>3, <1>4

LEMMA UnlinkStep ==
  ASSUME RegistrationInv, Unlink
  PROVE  RegistrationInv'
<1>1. StatesOK /\ IdentityEarned
  BY DEF RegistrationInv
<1>2. /\ tally' \in [requests : Nat, changes : Nat, spent : Nat, issued : Nat, claimed : Nat,
                     proven : SUBSET Member, unlinked : SUBSET Member]
      /\ tally'.claimed = tally.claimed /\ tally'.issued = tally.issued
      /\ tally'.spent = tally.spent /\ tally'.proven = tally.proven
      /\ tally'.unlinked = tally.unlinked \cup {sso.identity}
  <2> DEFINE now == tally.unlinked \cup {sso.identity}
  <2>1. now \in SUBSET Member
    BY <1>1 DEF StatesOK, Unlink
  <2>2. tally' = [tally EXCEPT !.requests = @ + 1, !.unlinked = now]
    BY DEF Unlink
  <2> HIDE DEF now
  <2>3. /\ tally' \in [requests : Nat, changes : Nat, spent : Nat, issued : Nat, claimed : Nat,
                       proven : SUBSET Member, unlinked : SUBSET Member]
        /\ tally'.claimed = tally.claimed /\ tally'.issued = tally.issued
        /\ tally'.spent = tally.spent /\ tally'.proven = tally.proven
        /\ tally'.unlinked = now
    <3>1. tally \in [requests : Nat, changes : Nat, spent : Nat, issued : Nat, claimed : Nat,
                     proven : SUBSET Member, unlinked : SUBSET Member]
      BY <1>1 DEF StatesOK
    <3>2. tally.requests + 1 \in Nat
      BY <3>1
    <3> QED BY <2>1, <2>2, <3>1, <3>2
  <2> QED BY <2>3 DEF now
<1>3. /\ sso' \in [states : SUBSET State,
                   challenges : SUBSET Challenge, identity : Member \cup {NoOne}]
      /\ sso'.states = sso.states /\ sso'.identity = NoOne
  BY <1>1 DEF StatesOK, Unlink
<1>4. StatesOK'
  BY <1>1, <1>2, <1>3 DEF StatesOK
<1>5. TablesOK' /\ SlotsKept /\ InviteNotOverspent' /\ QuotaHolds'
  BY <1>2, TablesAlone DEF Unlink
<1>6. SlotInv'
  BY <1>5, RestKeeps DEF RegistrationInv, Unlink
<1>7. IdentityEarned'
  BY <1>1, <1>2, <1>3 DEF IdentityEarned, Unlink
<1> QED BY <1>4, <1>5, <1>6, <1>7 DEF RegistrationInv

-----------------------------------------------------------------------------
(* Registration: administrators, and the clock *)

LEMMA ChangeStep ==
  ASSUME RegistrationInv, UNCHANGED <<sso, intake>>, Change \/ tally' = tally,
         TablesOK', SlotsKept, QuotaHolds'
  PROVE  RegistrationInv'
<1>1. tally \in [requests : Nat, changes : Nat, spent : Nat, issued : Nat, claimed : Nat,
                 proven : SUBSET Member, unlinked : SUBSET Member]
  BY DEF RegistrationInv, StatesOK
<1>2. tally.changes + 1 \in Nat
  BY <1>1
<1>3. /\ tally' \in [requests : Nat, changes : Nat, spent : Nat, issued : Nat, claimed : Nat,
                     proven : SUBSET Member, unlinked : SUBSET Member]
      /\ tally'.claimed = tally.claimed /\ tally'.issued = tally.issued
      /\ tally'.spent = tally.spent /\ tally'.proven = tally.proven
      /\ tally'.unlinked = tally.unlinked
  BY <1>1, <1>2 DEF Change
<1>4. SlotInv'
  BY RestKeeps DEF RegistrationInv
<1>5. StatesOK'
  BY <1>3 DEF RegistrationInv, StatesOK
<1>6. InviteNotOverspent'
  <2>1. {u \in Member : members'[u].way = "code"} = {u \in Member : members[u].way = "code"}
    BY DEF SlotsKept
  <2>2. invite'.used = invite.used
    BY DEF SlotsKept
  <2> QED BY <1>3, <2>1, <2>2 DEF RegistrationInv, InviteNotOverspent
<1>7. IdentityEarned'
  <2>1. sso.identity # NoOne => sso.identity \in Member
    BY DEF RegistrationInv, StatesOK
  <2> QED BY <1>3, <2>1 DEF RegistrationInv, IdentityEarned, SlotsKept
<1> QED BY <1>4, <1>5, <1>6, <1>7 DEF RegistrationInv

LEMMA SetLimitStep ==
  ASSUME RegistrationInv, SetLimit
  PROVE  RegistrationInv'
<1>1. PICK n \in Cap : quota' = [quota EXCEPT !.limit = n,
        !.highest = IF n = 0 \/ @ = 0 THEN 0 ELSE IF n > @ THEN n ELSE @]
  BY DEF SetLimit
<1> DEFINE top == IF n = 0 \/ quota.highest = 0 THEN 0 ELSE IF n > quota.highest THEN n ELSE quota.highest
<1>2. /\ quota \in [limit : Cap, highest : Cap, self : Nat, admin : Nat, given : Nat]
      /\ n \in Nat /\ quota.highest \in Nat /\ quota.given \in Nat
  BY Numbers, RegistrationAssumption DEF RegistrationInv, TablesOK, RegistrationAssumption
<1>3. top \in Cap
  BY <1>1, <1>2
<1>4. top > 0 => /\ quota.highest > 0 /\ quota.highest <= top /\ n > 0 /\ n <= top
  BY <1>2
<1>5. quota' = [quota EXCEPT !.limit = n, !.highest = top]
  BY <1>1, <1>2
<1> HIDE DEF top
<1>6. /\ quota' \in [limit : Cap, highest : Cap, self : Nat, admin : Nat, given : Nat]
      /\ quota'.limit = n /\ quota'.highest = top /\ quota'.self = quota.self
      /\ quota'.given = quota.given
  BY <1>1, <1>2, <1>3, <1>5
<1>7. /\ UNCHANGED <<members, addresses, invite, sso, intake>> /\ Change /\ top \in Nat
      /\ Cardinality(Owned(Owner)) \in Nat /\ Owned(Owner)' = Owned(Owner)
  BY <1>3, BoxesAreFinite, RegistrationAssumption DEF SetLimit, RegistrationAssumption, Owned
<1>8. TablesOK'
  BY <1>4, <1>6, <1>7 DEF RegistrationInv, TablesOK, Known
<1>9. Room => Room'
  BY <1>2, <1>4, <1>6, <1>7 DEF Room
<1>10. RoomToday => RoomToday'
  BY <1>6 DEF RoomToday
<1>11. SlotsKept
  BY <1>4, <1>6, <1>7, <1>9, <1>10 DEF SlotsKept, Change, RegistrationInv, StatesOK
<1>12. QuotaHolds'
  BY <1>2, <1>4, <1>6, <1>7 DEF RegistrationInv, QuotaHolds
<1> QED BY <1>7, <1>8, <1>11, <1>12, ChangeStep

\* A mailbox goes away from Owner, or comes to him as a gift.
LEMMA BoxesFewer ==
  ASSUME Owned(Owner)' \subseteq Owned(Owner)
  PROVE  /\ Cardinality(Owned(Owner)) \in Nat /\ Cardinality(Owned(Owner)') \in Nat
         /\ Cardinality(Owned(Owner)') <= Cardinality(Owned(Owner))
<1>1. IsFiniteSet(Owned(Owner)) /\ Cardinality(Owned(Owner)) \in Nat
  BY BoxesAreFinite
<1> QED BY <1>1, FS_Subset, FS_CardinalityType

LEMMA BoxesOneMore ==
  ASSUME NEW b, Owned(Owner)' \subseteq Owned(Owner) \cup {b}
  PROVE  /\ Cardinality(Owned(Owner)) \in Nat /\ Cardinality(Owned(Owner)') \in Nat
         /\ Cardinality(Owned(Owner)') <= Cardinality(Owned(Owner)) + 1
<1>1. IsFiniteSet(Owned(Owner)) /\ Cardinality(Owned(Owner)) \in Nat
  BY BoxesAreFinite
<1>2. /\ IsFiniteSet(Owned(Owner) \cup {b})
      /\ Cardinality(Owned(Owner) \cup {b}) = IF b \in Owned(Owner) THEN Cardinality(Owned(Owner))
                                               ELSE Cardinality(Owned(Owner)) + 1
  BY <1>1, FS_AddElement
<1>3. /\ Cardinality(Owned(Owner)') \in Nat
      /\ Cardinality(Owned(Owner)') <= Cardinality(Owned(Owner) \cup {b})
  BY <1>2, FS_Subset, FS_CardinalityType
<1> QED BY <1>1, <1>2, <1>3

LEMMA DropBoxStep ==
  ASSUME RegistrationInv, DropBox
  PROVE  RegistrationInv'
<1>1. PICK b \in Address : addresses' = [addresses EXCEPT ![b] = NoOne]
  BY DEF DropBox
<1>2. addresses \in [Address -> Member \cup {NoOne}]
  BY DEF RegistrationInv, TablesOK
<1>3. addresses' \in [Address -> Member \cup {NoOne}]
  BY <1>1, <1>2
<1>4. Owned(Owner)' \subseteq Owned(Owner)
  BY <1>1, <1>2, RegistrationAssumption DEF Owned, RegistrationAssumption
<1>5. /\ UNCHANGED <<members, quota, invite, sso, intake>> /\ Change
  BY DEF DropBox
<1>6. TablesOK'
  BY <1>3, <1>5 DEF RegistrationInv, TablesOK, Known
<1>7. /\ Cardinality(Owned(Owner)) \in Nat /\ Cardinality(Owned(Owner)') \in Nat
      /\ Cardinality(Owned(Owner)') <= Cardinality(Owned(Owner))
      /\ quota.highest \in Nat /\ quota.given \in Nat
  BY <1>4, BoxesFewer, Numbers DEF RegistrationInv
<1>8. Room => Room'
  BY <1>5, <1>7 DEF Room
<1>9. SlotsKept
  BY <1>5, <1>7, <1>8 DEF SlotsKept, Change, RegistrationInv, StatesOK, RoomToday
<1>10. QuotaHolds'
  BY <1>5, <1>7 DEF RegistrationInv, QuotaHolds
<1> QED BY <1>5, <1>6, <1>9, <1>10, ChangeStep

LEMMA ReceiveBoxStep ==
  ASSUME RegistrationInv, ReceiveBox
  PROVE  RegistrationInv'
<1>1. PICK b \in Address : addresses' = [addresses EXCEPT ![b] = Owner]
  BY DEF ReceiveBox
<1>2. /\ addresses \in [Address -> Member \cup {NoOne}] /\ Owner \in Member
      /\ quota \in [limit : Cap, highest : Cap, self : Nat, admin : Nat, given : Nat]
  BY RegistrationAssumption DEF RegistrationInv, TablesOK, RegistrationAssumption
<1>3. addresses' \in [Address -> Member \cup {NoOne}]
  BY <1>1, <1>2
<1>4. Owned(Owner)' \subseteq Owned(Owner) \cup {b}
  BY <1>1, <1>2 DEF Owned
<1>5. /\ UNCHANGED <<members, invite, sso, intake>> /\ Change
      /\ quota' = [quota EXCEPT !.given = @ + 1]
  BY DEF ReceiveBox
<1>6. quota.given + 1 \in Nat
  BY <1>2
<1>7. /\ quota' \in [limit : Cap, highest : Cap, self : Nat, admin : Nat, given : Nat]
      /\ quota'.limit = quota.limit /\ quota'.highest = quota.highest
      /\ quota'.self = quota.self /\ quota'.given = quota.given + 1
  BY <1>2, <1>5, <1>6
<1>8. TablesOK'
  BY <1>3, <1>5, <1>7 DEF RegistrationInv, TablesOK, Known
<1>9. /\ Cardinality(Owned(Owner)) \in Nat /\ Cardinality(Owned(Owner)') \in Nat
      /\ Cardinality(Owned(Owner)') <= Cardinality(Owned(Owner)) + 1
      /\ quota.highest \in Nat /\ quota.given \in Nat
  BY <1>4, BoxesOneMore, Numbers DEF RegistrationInv
<1>10. Room => Room'
  BY <1>7, <1>9 DEF Room
<1>11. RoomToday => RoomToday'
  BY <1>7 DEF RoomToday
<1>12. SlotsKept
  BY <1>5, <1>7, <1>9, <1>10, <1>11 DEF SlotsKept, Change, RegistrationInv, StatesOK
<1>13. QuotaHolds'
  BY <1>7, <1>9 DEF RegistrationInv, QuotaHolds
<1> QED BY <1>5, <1>8, <1>12, <1>13, ChangeStep

LEMMA LapseStep ==
  ASSUME RegistrationInv, Lapse
  PROVE  RegistrationInv'
<1>1. /\ UNCHANGED <<members, addresses, invite, sso, intake>> /\ Change
      /\ quota \in [limit : Cap, highest : Cap, self : Nat, admin : Nat, given : Nat]
  BY DEF Lapse, RegistrationInv, TablesOK
<1>2. /\ quota' \in [limit : Cap, highest : Cap, self : Nat, admin : Nat, given : Nat]
      /\ quota'.limit = quota.limit /\ quota'.highest = quota.highest
      /\ quota'.given = quota.given /\ quota'.self <= quota.self
  <2>1. CASE quota.self > 0 /\ quota' = [quota EXCEPT !.self = @ - 1]
    <3>1. quota.self - 1 \in Nat /\ quota.self - 1 <= quota.self
      BY <1>1, <2>1
    <3> QED BY <1>1, <2>1, <3>1
  <2>2. CASE quota.admin > 0 /\ quota' = [quota EXCEPT !.admin = @ - 1]
    <3>1. quota.admin - 1 \in Nat /\ quota.self <= quota.self
      BY <1>1, <2>2
    <3> QED BY <1>1, <2>2, <3>1
  <2> QED BY <2>1, <2>2 DEF Lapse
<1>3. TablesOK'
  BY <1>1, <1>2 DEF RegistrationInv, TablesOK, Known
<1>4. Owned(Owner)' = Owned(Owner)
  BY <1>1 DEF Owned
<1>5. Room => Room'
  BY <1>2, <1>4 DEF Room
<1>6. /\ quota.self \in Nat /\ quota'.self \in Nat /\ Daily \in Nat /\ quota.highest \in Nat
  BY <1>2, Numbers DEF RegistrationInv
<1>7. RoomToday => RoomToday'
  BY <1>2, <1>6 DEF RoomToday
<1>8. SlotsKept
  BY <1>1, <1>2, <1>5, <1>6, <1>7 DEF SlotsKept, Change, RegistrationInv, StatesOK
<1>9. QuotaHolds'
  BY <1>2, <1>4, <1>6 DEF RegistrationInv, QuotaHolds
<1> QED BY <1>1, <1>3, <1>8, <1>9, ChangeStep

\* The invite or its group goes away.
LEMMA InviteStep ==
  ASSUME RegistrationInv, DropInvite \/ CountGroup \/ DropGroup
  PROVE  RegistrationInv'
<1>1. /\ UNCHANGED <<addresses, quota, sso, intake>> /\ (Change \/ tally' = tally)
      /\ TablesOK
  BY DEF DropInvite, CountGroup, DropGroup, RegistrationInv
<1>2. /\ members' \in [Member -> [way : Way, group : BOOLEAN]]
      /\ \A u \in Member : members'[u].way = members[u].way
  <2>1. members \in [Member -> [way : Way, group : BOOLEAN]]
    BY <1>1 DEF TablesOK
  <2>2. CASE DropInvite \/ CountGroup
    BY <2>1, <2>2 DEF DropInvite, CountGroup
  <2>3. CASE DropGroup
    <3>1. members' = [u \in Member |-> [members[u] EXCEPT !.group = FALSE]]
      BY <2>3 DEF DropGroup
    <3>2. \A u \in Member : /\ members'[u] \in [way : Way, group : BOOLEAN]
                            /\ members'[u].way = members[u].way
      BY <2>1, <3>1
    <3> QED BY <3>1, <3>2
  <2> QED BY <2>2, <2>3
<1>3. /\ invite' \in [kept : BOOLEAN, used : 0 .. MaxUses, group : BOOLEAN, counted : BOOLEAN,
                      needed : BOOLEAN]
      /\ invite'.used = invite.used
  BY <1>1 DEF DropInvite, CountGroup, DropGroup, TablesOK
<1>4. TablesOK'
  <2>1. Known(Owner)'
    BY <1>1, <1>2, RegistrationAssumption DEF TablesOK, Known, RegistrationAssumption
  <2> QED BY <1>1, <1>2, <1>3, <2>1 DEF TablesOK
<1>5. Owned(Owner)' = Owned(Owner) /\ quota.highest \in Nat
  BY <1>1, Numbers DEF Owned, RegistrationInv
<1>6. (Room => Room') /\ (RoomToday => RoomToday')
  BY <1>1, <1>5 DEF Room, RoomToday
<1>7. SlotsKept
  BY <1>1, <1>2, <1>3, <1>5, <1>6 DEF SlotsKept, Change, RegistrationInv, StatesOK
<1>8. QuotaHolds'
  BY <1>1, <1>5 DEF RegistrationInv, QuotaHolds
<1> QED BY <1>1, <1>4, <1>7, <1>8, ChangeStep

-----------------------------------------------------------------------------
(* Registration: the commit *)

LEMMA EndKeeps ==
  ASSUME SlotInv, NEW s \in Applicant, Done(s),
         \A t \in Others(s) : \A y \in Slot : intake[t] = y => Fits(y)'
  PROVE  SlotInv'
<1>1. intake \in [Applicant -> Slot] /\ IdleSlot \in Slot
  BY IdleSlotFits DEF SlotInv
<1>2. /\ intake' \in [Applicant -> Slot]
      /\ \A t \in Applicant : intake'[t] = IF t = s THEN IdleSlot ELSE intake[t]
  BY <1>1 DEF Done
<1>3. ASSUME NEW t \in Applicant, NEW y \in Slot, intake'[t] = y
      PROVE  Fits(y)'
  BY <1>2, <1>3, IdleSlotFits DEF Others
<1>4. ASSUME NEW t \in Applicant, NEW v \in Applicant, t # v
      PROVE  Apart(intake'[t], intake'[v])
  <2>1. CASE t # s /\ v # s
    BY <1>2, <1>4, <2>1 DEF SlotInv
  <2>2. CASE t = s
    BY <1>1, <1>2, <1>4, <2>2, IdleSlotFits
  <2>3. CASE v = s
    <3>1. intake'[v] = IdleSlot
      BY <1>2, <2>3
    <3>2. IdleSlot.pc = "idle" /\ ~IdleSlot.coded
      BY DEF IdleSlot
    <3> QED BY <3>1, <3>2 DEF Apart, Making, Holding
  <2> QED BY <2>1, <2>2, <2>3
<1>5. (\A t, v \in Applicant : t # v => Apart(intake[t], intake[v]))'
  BY <1>4 DEF Apart, Making, Holding
<1> QED BY <1>2, <1>3, <1>5 DEF SlotInv

\* An account is made: its row is new, and so is whoever uses the invite.
LEMMA CommitNew ==
  ASSUME RegistrationInv, NEW s \in Applicant, Commit(s),
         intake[s].kind \in {"register", "external"}
  PROVE  RegistrationInv'
<1> DEFINE u == intake[s].who
           b == intake[s].box
           k == intake[s].kind
           coded == intake[s].coded
           way == IF k = "external" THEN k ELSE IF coded THEN "code" ELSE "open"
<1>1. /\ intake[s] \in Slot /\ Fits(intake[s]) /\ intake[s].pc = "commit" /\ Making(intake[s])
      /\ TablesOK /\ StatesOK
  BY SlotHere DEF Commit, Making, RegistrationInv
<1>2. /\ u \in Member /\ ~Known(u) /\ b \in Address \cup {NoOne} /\ coded \in BOOLEAN
      /\ coded => invite.used < MaxUses /\ k = "register"
      /\ way \in Way
  BY <1>1 DEF Fits, RoleFits, ClaimFits, Slot, Way
<1>3. u # Owner
  BY <1>1, <1>2 DEF TablesOK
<1>4. /\ members' = [members EXCEPT ![u] = [way |-> way, group |-> coded]]
      /\ addresses' = IF b = NoOne THEN addresses ELSE [addresses EXCEPT ![b] = u]
      /\ quota' = quota
      /\ invite' = IF coded THEN [invite EXCEPT !.used = @ + 1] ELSE invite
      /\ tally' = IF coded THEN [tally EXCEPT !.spent = @ + 1] ELSE tally
      /\ sso' = IF k = "external"
               THEN [sso EXCEPT !.identity = u, !.challenges = @ \ {intake[s].token}] ELSE sso
      /\ Done(s) /\ (k = "external" => sso.identity = NoOne)
  BY DEF Commit, ChallengeHolds
<1>5. (way = "code" <=> coded) /\ (way = "external" <=> k = "external") /\ way # "none"
  BY <1>2
<1> HIDE DEF u, b, k, coded, way
<1>6. /\ members \in [Member -> [way : Way, group : BOOLEAN]]
      /\ members' \in [Member -> [way : Way, group : BOOLEAN]]
      /\ members'[u].way = way
      /\ \A v \in Member : v # u => members'[v] = members[v]
  <2>1. members \in [Member -> [way : Way, group : BOOLEAN]]
    BY <1>1 DEF TablesOK
  <2>2. [way |-> way, group |-> coded] \in [way : Way, group : BOOLEAN]
    BY <1>2
  <2> QED BY <1>2, <1>4, <2>1, <2>2
<1>7. /\ addresses' \in [Address -> Member \cup {NoOne}]
      /\ Owned(Owner)' \subseteq Owned(Owner)
  <2>1. addresses \in [Address -> Member \cup {NoOne}]
    BY <1>1 DEF TablesOK
  <2> QED BY <1>2, <1>3, <1>4, <2>1 DEF Owned
<1>8. /\ invite' \in [kept : BOOLEAN, used : 0 .. MaxUses, group : BOOLEAN, counted : BOOLEAN,
                      needed : BOOLEAN]
      /\ invite'.used = IF coded THEN invite.used + 1 ELSE invite.used
  <2>1. invite \in [kept : BOOLEAN, used : 0 .. MaxUses, group : BOOLEAN, counted : BOOLEAN,
                    needed : BOOLEAN]
    BY <1>1 DEF TablesOK
  <2>2. coded => invite.used + 1 \in 0 .. MaxUses
    BY <1>1, <1>2, Numbers
  <2> QED BY <1>4, <2>1, <2>2
<1>9. /\ tally' \in [requests : Nat, changes : Nat, spent : Nat, issued : Nat, claimed : Nat,
                     proven : SUBSET Member, unlinked : SUBSET Member]
      /\ tally'.claimed = tally.claimed /\ tally'.issued = tally.issued
      /\ tally'.spent = (IF coded THEN tally.spent + 1 ELSE tally.spent)
      /\ tally'.proven = tally.proven /\ tally'.unlinked = tally.unlinked
  <2>1. tally \in [requests : Nat, changes : Nat, spent : Nat, issued : Nat, claimed : Nat,
                   proven : SUBSET Member, unlinked : SUBSET Member]
    BY <1>1 DEF StatesOK
  <2>2. tally.spent + 1 \in Nat
    BY <2>1
  <2> QED BY <1>4, <2>1, <2>2
<1>10. /\ sso' \in [states : SUBSET State,
                    challenges : SUBSET Challenge, identity : Member \cup {NoOne}]
       /\ sso'.states = sso.states
       /\ sso'.identity = IF k = "external" THEN u ELSE sso.identity
  <2>1. sso \in [states : SUBSET State,
                 challenges : SUBSET Challenge, identity : Member \cup {NoOne}]
    BY <1>1 DEF StatesOK
  <2> QED BY <1>2, <1>4, <2>1
<1>11. TablesOK'
  <2>1. Known(Owner)'
    BY <1>1, <1>3, <1>6, RegistrationAssumption DEF TablesOK, Known, RegistrationAssumption
  <2> QED BY <1>1, <1>4, <1>6, <1>7, <1>8, <2>1 DEF TablesOK
<1>12. StatesOK'
  BY <1>1, <1>9, <1>10 DEF StatesOK
<1>13. InviteNotOverspent'
  <2> DEFINE had == {v \in Member : members[v].way = "code"}
             has == {v \in Member : members'[v].way = "code"}
  <2>1. /\ invite.used = tally.spent /\ tally.spent <= MaxUses /\ tally.spent = Cardinality(had)
        /\ tally.spent \in Nat /\ MaxUses \in Nat
    BY <1>1, Numbers DEF RegistrationInv, InviteNotOverspent, StatesOK
  <2>2. u \notin had /\ IsFiniteSet(had)
    BY <1>2, FS_Subset, RegistrationAssumption DEF Known, RegistrationAssumption
  <2>3. has = IF coded THEN had \cup {u} ELSE had
    BY <1>2, <1>5, <1>6 DEF Known
  <2> HIDE DEF had
  <2>4. Cardinality(had \cup {u}) = Cardinality(had) + 1
    BY <2>2, FS_AddElement
  <2>5. Cardinality(has) = tally'.spent
    BY <1>9, <2>1, <2>3, <2>4
  <2>6. invite'.used = tally'.spent /\ tally'.spent <= MaxUses
    BY <1>2, <1>8, <1>9, <2>1
  <2> QED BY <2>5, <2>6 DEF InviteNotOverspent
<1>14. /\ Cardinality(Owned(Owner)) \in Nat /\ Cardinality(Owned(Owner)') \in Nat
       /\ Cardinality(Owned(Owner)') <= Cardinality(Owned(Owner))
       /\ quota.highest \in Nat /\ quota.given \in Nat
  BY <1>1, <1>7, BoxesFewer, Numbers
<1>15. QuotaHolds'
  BY <1>4, <1>14 DEF RegistrationInv, QuotaHolds
<1>16. IdentityEarned'
  <2>1. ASSUME NEW v \in Member, members'[v].way = "external"
        PROVE  sso'.identity = v \/ v \in tally'.unlinked
    <3>1. CASE v = u
      BY <1>5, <1>6, <1>10, <2>1, <3>1
    <3>2. CASE v # u
      <4>1. sso.identity = v \/ v \in tally.unlinked
        BY <1>6, <2>1, <3>2 DEF RegistrationInv, IdentityEarned
      <4>2. v # NoOne
        BY RegistrationAssumption DEF RegistrationAssumption
      <4> QED BY <1>4, <1>9, <1>10, <4>1, <4>2
    <3> QED BY <3>1, <3>2
  <2>2. ASSUME sso'.identity # NoOne
        PROVE  members'[sso'.identity].way = "external" \/ sso'.identity \in tally'.proven
    <3>1. CASE k = "external"
      BY <1>5, <1>6, <1>10, <3>1
    <3>2. CASE k # "external"
      <4>1. sso'.identity = sso.identity /\ sso.identity \in Member
        BY <1>1, <1>10, <2>2, <3>2 DEF StatesOK
      <4>2. members[sso.identity].way = "external" \/ sso.identity \in tally.proven
        BY <2>2, <4>1 DEF RegistrationInv, IdentityEarned
      <4> QED BY <1>2, <1>6, <1>9, <4>1, <4>2 DEF Known
    <3> QED BY <3>1, <3>2
  <2> QED BY <2>1, <2>2 DEF IdentityEarned
<1>17. SlotInv'
  <2>1. ASSUME NEW t \in Others(s), NEW y \in Slot, intake[t] = y
        PROVE  Fits(y)'
    <3>1. Fits(y) /\ Apart(intake[s], y) /\ y.who \in Member \cup {NoOne}
      BY <2>1, SlotHere DEF Others, Slot
    <3>2. RoleFits(y)'
      BY <1>9, <3>1 DEF Fits, RoleFits
    <3>3. ClaimFits(y)'
      <4>1. y.coded => ~coded /\ invite.used < MaxUses
        BY <3>1 DEF Apart, Fits, ClaimFits, coded
      <4>2. ASSUME Making(y)
            PROVE  y.who \in Member /\ y.who # u /\ ~Known(y.who)
        BY <1>1, <3>1, <4>2 DEF Apart, Fits, ClaimFits, RoleFits, Making, u
      <4> QED BY <1>6, <1>8, <4>1, <4>2 DEF ClaimFits, Known
    <3>4. LimitFits(y)'
      <4>1. (Room => Room') /\ (RoomToday => RoomToday')
        BY <1>4, <1>14 DEF Room, RoomToday
      <4> QED BY <1>4, <3>1, <4>1 DEF Fits, LimitFits
    <3> QED BY <3>2, <3>3, <3>4 DEF Fits
  <2> QED BY <1>4, <2>1, EndKeeps DEF RegistrationInv
<1> QED BY <1>11, <1>12, <1>13, <1>15, <1>16, <1>17 DEF RegistrationInv

\* Owner gets a mailbox, by his own application or from an administrator.
LEMMA CommitOwn ==
  ASSUME RegistrationInv, NEW s \in Applicant, Commit(s),
         intake[s].kind \in {"apply", "admin"}
  PROVE  RegistrationInv'
<1> DEFINE b == intake[s].box
           k == intake[s].kind
<1>1. /\ intake[s] \in Slot /\ Fits(intake[s]) /\ intake[s].pc = "commit" /\ Holding(intake[s])
      /\ ~intake[s].coded /\ intake[s].who = Owner /\ TablesOK /\ StatesOK
  BY SlotHere DEF Commit, Holding, RegistrationInv, Fits, RoleFits
<1>2. /\ addresses' = IF b = NoOne THEN addresses ELSE [addresses EXCEPT ![b] = Owner]
      /\ quota' = IF k = "apply" THEN [quota EXCEPT !.self = @ + 1]
                  ELSE [quota EXCEPT !.admin = @ + 1, !.given = @ + 1]
      /\ UNCHANGED <<members, invite, tally, sso>> /\ Done(s)
  BY <1>1 DEF Commit
<1>3. /\ b \in Address \cup {NoOne} /\ Owner \in Member
      /\ k = "apply" => Room /\ RoomToday
  BY <1>1, RegistrationAssumption DEF Slot, RegistrationAssumption, Fits, LimitFits
<1> HIDE DEF b, k
<1>4. addresses \in [Address -> Member \cup {NoOne}]
  BY <1>1 DEF TablesOK
<1>5. /\ addresses' \in [Address -> Member \cup {NoOne}]
      /\ Owned(Owner)' \subseteq Owned(Owner) \cup {b}
  BY <1>2, <1>3, <1>4 DEF Owned
<1>6. quota \in [limit : Cap, highest : Cap, self : Nat, admin : Nat, given : Nat]
  BY <1>1 DEF TablesOK
<1>7. /\ quota' \in [limit : Cap, highest : Cap, self : Nat, admin : Nat, given : Nat]
      /\ quota'.limit = quota.limit /\ quota'.highest = quota.highest
      /\ quota'.self = (IF k = "apply" THEN quota.self + 1 ELSE quota.self)
      /\ quota'.given = (IF k = "apply" THEN quota.given ELSE quota.given + 1)
  <2>1. quota.self + 1 \in Nat /\ quota.admin + 1 \in Nat /\ quota.given + 1 \in Nat
    BY <1>6
  <2> QED BY <1>2, <1>6, <2>1
<1>8. TablesOK'
  BY <1>1, <1>2, <1>5, <1>7 DEF TablesOK, Known
<1>9. StatesOK' /\ InviteNotOverspent' /\ IdentityEarned'
  BY <1>1, <1>2 DEF RegistrationInv, StatesOK, InviteNotOverspent, IdentityEarned
<1>10. /\ Cardinality(Owned(Owner)) \in Nat /\ Cardinality(Owned(Owner)') \in Nat
       /\ Cardinality(Owned(Owner)') <= Cardinality(Owned(Owner)) + 1
       /\ quota.highest \in Nat /\ quota.given \in Nat /\ quota.self \in Nat /\ Daily \in Nat
  BY <1>1, <1>5, BoxesOneMore, Numbers
<1>11. QuotaHolds'
  <2>1. quota.highest > 0 => Cardinality(Owned(Owner)') <= quota'.highest + quota'.given
    <3>1. CASE k = "apply"
      BY <1>3, <1>7, <1>10, <3>1 DEF Room
    <3>2. CASE k # "apply"
      BY <1>7, <1>10, <3>2 DEF RegistrationInv, QuotaHolds
    <3> QED BY <3>1, <3>2
  <2>2. Daily > 0 => quota'.self <= Daily
    <3>1. CASE k = "apply"
      BY <1>3, <1>7, <1>10, <3>1 DEF RoomToday
    <3>2. CASE k # "apply"
      BY <1>7, <1>10, <3>2 DEF RegistrationInv, QuotaHolds
    <3> QED BY <3>1, <3>2
  <2> QED BY <1>7, <2>1, <2>2 DEF QuotaHolds
<1>12. SlotInv'
  <2>1. ASSUME NEW t \in Others(s), NEW y \in Slot, intake[t] = y
        PROVE  Fits(y)'
    <3>1. Fits(y) /\ Apart(intake[s], y) /\ y.limit \in Nat /\ y.seen.boxes \in Nat /\ y.seen.day \in Nat
      BY <2>1, SlotHere, RegistrationAssumption DEF Others, Slot, RegistrationAssumption
    <3>2. RoleFits(y)' /\ ClaimFits(y)'
      BY <1>2, <3>1 DEF Fits, RoleFits, ClaimFits, Known
    <3>3. ~Holding(y)
      BY <1>1, <3>1 DEF Apart
    <3>4. ASSUME y.kind = "apply", y.pc = "update"
          PROVE  y.limit = 0 /\ Daily = 0
      BY <1>10, <3>1, <3>3, <3>4 DEF Holding
    <3>5. y.kind = "apply" => y.pc # "commit"
      BY <3>3 DEF Holding
    <3>6. ASSUME y.kind = "apply", y.pc = "update"
          PROVE  ~(y.seen.boxes < y.limit) /\ ~(y.seen.day < Daily)
      BY <3>1, <3>4, <3>6
    <3>7. LimitFits(y)'
      BY <1>7, <3>1, <3>5, <3>6 DEF Fits, LimitFits
    <3> QED BY <3>2, <3>7 DEF Fits
  <2> QED BY <1>2, <2>1, EndKeeps DEF RegistrationInv
<1> QED BY <1>8, <1>9, <1>11, <1>12 DEF RegistrationInv

LEMMA CommitStep ==
  ASSUME RegistrationInv, NEW s \in Applicant, Commit(s)
  PROVE  RegistrationInv'
<1>1. intake[s].kind \in {"register", "external", "apply", "admin"}
  BY SlotHere DEF Commit, Fits, RoleFits
<1> QED BY <1>1, CommitNew, CommitOwn

-----------------------------------------------------------------------------
(* Registration: theorems *)

LEMMA RegistrationStart ==
  ASSUME RegistrationInit
  PROVE  RegistrationInv
<1>1. SlotInv
  <2>1. intake = [s \in Applicant |-> IdleSlot]
    BY DEF RegistrationInit
  <2> QED BY <2>1, IdleSlotFits DEF SlotInv
<1>2. PICK n \in Cap : quota = [limit |-> n, highest |-> n, self |-> 0, admin |-> 0, given |-> 0]
  BY DEF RegistrationInit
<1>3. n \in Nat /\ MaxUses \in Nat \ {0} /\ Daily \in Nat /\ Owner \in Member /\ NoOne \notin Member
  BY RegistrationAssumption DEF RegistrationAssumption
<1>4. TablesOK
  <2>1. /\ members \in [Member -> [way : Way, group : BOOLEAN]]
        /\ addresses \in [Address -> Member \cup {NoOne}] /\ Known(Owner)
    BY <1>3 DEF RegistrationInit, Way, Known
  <2>2. /\ quota \in [limit : Cap, highest : Cap, self : Nat, admin : Nat, given : Nat]
        /\ quota.highest > 0 => quota.limit > 0 /\ quota.limit <= quota.highest
    BY <1>2, <1>3
  <2>3. invite \in [kept : BOOLEAN, used : 0 .. MaxUses, group : BOOLEAN, counted : BOOLEAN,
                    needed : BOOLEAN]
    <3>1. 0 \in 0 .. MaxUses
      BY <1>3
    <3> QED BY <3>1 DEF RegistrationInit
  <2> QED BY <2>1, <2>2, <2>3 DEF TablesOK
<1>5. StatesOK
  BY FS_EmptySet DEF RegistrationInit, StatesOK
<1>6. InviteNotOverspent
  <2>1. {u \in Member : members[u].way = "code"} = {}
    BY DEF RegistrationInit
  <2>2. tally.spent = 0 /\ invite.used = 0
    BY DEF RegistrationInit
  <2>3. Cardinality({u \in Member : members[u].way = "code"}) = 0 /\ 0 <= MaxUses
    BY <1>3, <2>1, FS_EmptySet
  <2> QED BY <2>2, <2>3 DEF InviteNotOverspent
<1>7. QuotaHolds
  <2>1. Owned(Owner) = {}
    BY <1>3 DEF RegistrationInit, Owned
  <2>2. Cardinality(Owned(Owner)) = 0
    BY <2>1, FS_EmptySet
  <2> QED BY <1>2, <1>3, <2>2 DEF QuotaHolds
<1>8. IdentityEarned
  BY DEF RegistrationInit, IdentityEarned
<1> QED BY <1>1, <1>4, <1>5, <1>6, <1>7, <1>8 DEF RegistrationInv

LEMMA RegistrationStep ==
  ASSUME RegistrationInv, [RegistrationNext]_registrationVars
  PROVE  RegistrationInv'
<1>1. ASSUME NEW s \in Applicant,
             \/ AskRegister(s) \/ AskApply(s) \/ AskAdmin(s) \/ AskExternal(s)
             \/ ConsumeInvite(s) \/ InsertUser(s) \/ LockUser(s) \/ Count(s) \/ CreateBox(s)
             \/ Commit(s) \/ RollBack(s)
             \/ ReadState(s) \/ TakeState(s) \/ LoseProfile(s) \/ FinishLogin(s)
             \/ CheckLink(s) \/ Bind(s)
      PROVE  RegistrationInv'
  BY <1>1, AskRegisterStep, AskApplyStep, AskAdminStep, AskExternalStep, ConsumeInviteStep,
     InsertUserStep, LockUserStep, CountStep, CreateBoxStep, CommitStep, RollBackStep,
     ReadStateStep, TakeStateStep, FinishLoginStep, CheckLinkStep, BindStep
<1>2. CASE StartState("login", NoOne)
  BY <1>2, StartStateStep
<1>3. CASE \E u \in Member : StartState("link", u)
  BY <1>3, StartStateStep
<1>4. CASE \/ Unlink \/ SetLimit \/ DropBox \/ ReceiveBox \/ Lapse
           \/ DropInvite \/ CountGroup \/ DropGroup
  BY <1>4, UnlinkStep, SetLimitStep, DropBoxStep, ReceiveBoxStep, LapseStep, InviteStep
<1>5. CASE UNCHANGED registrationVars
  <2>1. UNCHANGED <<members, addresses, quota, invite, sso, intake, tally>>
    BY <1>5 DEF registrationVars
  <2>2. TablesOK' /\ SlotsKept /\ QuotaHolds'
    BY <2>1, TablesAlone
  <2> QED BY <2>1, <2>2, ChangeStep
<1> QED BY <1>1, <1>2, <1>3, <1>4, <1>5 DEF RegistrationNext

\* Everything the requests may claim, have claimed and have promised stays in
\* order in every reachable state.
LEMMA RegistrationAlways == RegistrationSpec => []RegistrationInv
<1>1. RegistrationInit => RegistrationInv
  BY RegistrationStart
<1>2. RegistrationInv /\ [RegistrationNext]_registrationVars => RegistrationInv'
  BY RegistrationStep
<1> QED BY <1>1, <1>2, PTL DEF RegistrationSpec

\* The type invariant of registration.
THEOREM RegistrationTypeCorrect == RegistrationSpec => []RegistrationTypeOK
<1>1. RegistrationInv => RegistrationTypeOK
  BY DEF RegistrationInv, SlotInv, TablesOK, StatesOK, RegistrationTypeOK
<1> QED BY <1>1, RegistrationAlways, PTL

\* No invite is overspent, no quota exceeded but by gifts, every identity is
\* earned and every state claimed once (handleRegister,
\* consumeRegistrationInviteTx, consumeMailboxQuotaTx, handleLinuxDoCallback).
THEOREM RegistrationIsSafe == RegistrationSpec => []RegistrationSafe
<1>1. RegistrationInv => RegistrationSafe
  <2>1. ASSUME StatesOK
        PROVE  StateOnce
    <3>1. Cardinality(sso.states) \in Nat /\ tally.claimed \in Nat /\ tally.issued \in Nat
          /\ tally.claimed + Cardinality(sso.states) <= tally.issued
      BY <2>1, FS_CardinalityType DEF StatesOK
    <3> QED BY <3>1 DEF StateOnce
  <2> QED BY <2>1 DEF RegistrationInv, RegistrationSafe
<1> QED BY <1>1, RegistrationAlways, PTL
=============================================================================
