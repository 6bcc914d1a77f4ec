---------------------------- MODULE SignInProofs ----------------------------
(***************************************************************************)
(* Theorems about SignIn.  The inductive invariant adds to the properties  *)
(* what the requests under way carry: the failures they may still count,   *)
(* the era of their proof, and the secret a change of the second factor    *)
(* has read.  The last section puts SignIn beside the other components     *)
(* about accounts.                                                         *)
(***************************************************************************)
EXTENDS AccountComponents, AdministrationProofs, FiniteSetTheorems, TLAPS

-----------------------------------------------------------------------------
(* The inductive invariant *)

ActiveRequests == {r \in Request : req[r].pc # "idle"}

\* The requests behind the check of the rate limit, which may still fail.
Pending == {r \in Request : req[r].pc \in {"compare", "code", "fail"}}

\* FailuresBounded for one row, and with its pending requests while the row counts.
Bound(s) == FailureLimit[s] + Cardinality(Request) + (IF s = "account" THEN refused ELSE 0)
RowBounded(s) ==
  /\ limits[s].failures + Cardinality(ActiveRequests) <= started
  /\ limits[s].failures < Bound(s)
  /\ ~limits[s].old => limits[s].failures + Cardinality(Pending) < Bound(s)
  /\ ~limits[s].old /\ ~limits[s].locked => limits[s].failures < FailureLimit[s]
CountInv == refused <= started /\ \A s \in Subject : RowBounded(s)

\* No code of a step above the last counter was accepted.
CodeInv ==
  \A step \in Counter :
    accepted[step] <= 1 /\ (step > account.counter => accepted[step] = 0)

\* What requests and challenges carry is contained as well.
EraInv ==
  /\ \A p \in sessions : Contained(p)
  /\ \A p \in challenges : Contained(p)
  /\ token.state = "enabled" => Contained(token.proof)
  /\ Contained(account.password)
  /\ \A r \in Request : req[r].pc # "idle" => Contained(req[r].proof)

\* As long as no two overlapped, the only change of the second factor has read
\* the secret in force.
HoldsSecret(r) ==
  /\ req[r].secret = account.secret
  /\ req[r].pc \in {"enableCode", "enable"} => account.secret # 0
  /\ req[r].pc = "enable" => confirmed = account.secret
FactorInv ==
  ~overlapped =>
    /\ \A r, q \in Request : req[r].pc \in FactorPC /\ req[q].pc \in FactorPC => r = q
    /\ \A r \in Request : req[r].pc \in FactorPC => HoldsSecret(r)
    /\ account.enabled => account.secret = confirmed /\ confirmed # 0

SignInInv == SignInTypeOK /\ CountInv /\ CodeInv /\ EraInv /\ FactorInv

-----------------------------------------------------------------------------
(* Lemmas about the helpers *)

LEMMA ConstantFacts ==
  /\ {MaxStarts, MaxEarly, MaxResets, MaxSecrets, MaxSteps} \subseteq Nat
  /\ Cardinality(Request) \in Nat
  /\ \A s \in Subject : FailureLimit[s] \in Nat /\ FailureLimit[s] >= 2
  BY SignInAssumption, FS_CardinalityType DEF Subject

LEMMA ConstantsTyped ==
  /\ NoReq \in Req /\ NoRow \in Limited
  /\ NoToken \in [state : {"none", "enabled", "disabled"}, proof : Proof]
  /\ NoReq.pc = "idle" /\ NoToken.state = "none"
  /\ NoRow.failures = 0 /\ ~NoRow.locked /\ ~NoRow.old
  BY ConstantFacts DEF NoReq, Req, PC, Proof, Era, Secret, NoToken, NoRow, Limited

LEMMA NowTyped ==
  ASSUME SignInTypeOK
  PROVE  Now \in Proof /\ Now.since = era /\ ~Now.late
  BY DEF SignInTypeOK, Now, Proof

LEMMA LateTyped ==
  ASSUME NEW p \in Proof
  PROVE  Late(p) \in Proof /\ Late(p).late /\ Late(p).since = p.since
  BY DEF Late, Proof

LEMMA BeginTyped ==
  ASSUME SignInTypeOK, NEW r \in Request, NEW fresh \in Req, Begin(r, fresh)
  PROVE  req' \in [Request -> Req] /\ started' \in 0 .. MaxStarts
  BY ConstantFacts DEF SignInTypeOK, Begin

LEMMA ToTyped ==
  ASSUME SignInTypeOK, NEW r \in Request, NEW pc \in PC, To(r, pc)
  PROVE  /\ req' \in [Request -> Req]
         /\ req'[r].pc = pc /\ req'[r].proof = req[r].proof /\ req'[r].secret = req[r].secret
         /\ \A q \in Request \ {r} : req'[q] = req[q]
<1> DEFINE v == [req[r] EXCEPT !.pc = pc]
<1>1. v \in Req /\ v.pc = pc /\ v.proof = req[r].proof /\ v.secret = req[r].secret
  BY DEF SignInTypeOK, Req
<1>2. req' = [req EXCEPT ![r] = v]
  BY DEF To
<1> HIDE DEF v
<1> QED BY <1>1, <1>2 DEF SignInTypeOK

LEMMA EndTyped ==
  ASSUME SignInTypeOK, NEW r \in Request, End(r)
  PROVE  /\ req' \in [Request -> Req]
         /\ req'[r] = NoReq
         /\ \A q \in Request \ {r} : req'[q] = req[q]
  BY ConstantsTyped DEF SignInTypeOK, End

\* Beginning, as the other steps see it.
LEMMA BeginSlots ==
  ASSUME SignInTypeOK, NEW r \in Request, NEW fresh, Begin(r, fresh)
  PROVE  /\ req'[r] = fresh /\ req[r].pc = "idle"
         /\ \A q \in Request \ {r} : req'[q] = req[q]
         /\ started' = started + 1
  BY DEF SignInTypeOK, Begin

\* A row after one more failure.
LEMMA FailedRow ==
  ASSUME NEW row \in Limited, NEW limit \in Nat, limit >= 2
  PROVE  LET next == Failed(row, limit)
         IN /\ next.failures = IF row.old THEN 1 ELSE row.failures + 1
            /\ next.locked \in BOOLEAN /\ ~next.old
            /\ ~next.locked => next.failures < limit
            /\ next.failures \in 0 .. MaxStarts => next \in Limited
<1>1. row.failures \in Nat /\ row.locked \in BOOLEAN /\ row.old \in BOOLEAN
  BY ConstantFacts DEF Limited
<1>2. CASE row.old
  BY <1>1, <1>2 DEF Failed, Limited
<1>3. CASE ~row.old
  <2> DEFINE count == row.failures + 1
             lock == row.locked \/ row.failures + 1 >= limit
  <2>1. count \in Nat /\ lock \in BOOLEAN /\ (~lock => count < limit)
    BY <1>1
  <2>2. Failed(row, limit) = [failures |-> count, locked |-> lock, old |-> FALSE]
    BY <1>3 DEF Failed
  <2> HIDE DEF lock
  <2> QED BY <1>1, <1>3, <2>1, <2>2 DEF Limited
<1> QED BY <1>2, <1>3

\* A code that is accepted is newer than every accepted one.
LEMMA ConsumeCounts ==
  ASSUME SignInTypeOK, CodeInv, started >= 1, NEW step \in Counter, Consume(step)
  PROVE  /\ CodeInv'
         /\ accepted' \in [Counter -> 0 .. MaxStarts]
         /\ account' \in [password : Proof, secret : Secret, enabled : BOOLEAN, counter : Counter]
         /\ account'.password = account.password /\ account'.secret = account.secret
         /\ account'.enabled = account.enabled
<1> USE DEF Consume
<1>0. accepted[step] = 0 /\ MaxStarts \in Nat /\ 1 \in 0 .. MaxStarts
  BY ConstantFacts DEF SignInTypeOK, CodeInv
<1>1. /\ account' \in [password : Proof, secret : Secret, enabled : BOOLEAN, counter : Counter]
      /\ account'.password = account.password /\ account'.secret = account.secret
      /\ account'.enabled = account.enabled /\ account'.counter = step
  BY DEF SignInTypeOK
<1>2. accepted' = [accepted EXCEPT ![step] = 1]
  BY <1>0
<1>3. accepted' \in [Counter -> 0 .. MaxStarts]
  BY <1>0, <1>2 DEF SignInTypeOK
<1>4. \A t \in Counter : accepted'[t] <= 1 /\ (t > step => accepted'[t] = 0)
  <2> TAKE t \in Counter
  <2>1. t \in Nat /\ step \in Nat /\ account.counter \in Nat /\ step > account.counter
    BY ConstantFacts DEF Counter, SignInTypeOK
  <2>2. accepted[t] <= 1 /\ (t > account.counter => accepted[t] = 0)
    BY DEF CodeInv
  <2>3. accepted'[t] = IF t = step THEN 1 ELSE accepted[t]
    BY <1>2 DEF SignInTypeOK
  <2> QED BY <2>1, <2>2, <2>3
<1> QED BY <1>1, <1>3, <1>4 DEF CodeInv

LEMMA OneMore ==
  ASSUME NEW S, IsFiniteSet(S), NEW x, NEW n \in Nat, Cardinality(S) <= n
  PROVE  /\ IsFiniteSet(S \cup {x}) /\ Cardinality(S \cup {x}) \in Nat
         /\ Cardinality(S \cup {x}) <= n + 1
<1>1. /\ IsFiniteSet(S \cup {x})
      /\ Cardinality(S \cup {x}) = IF x \in S THEN Cardinality(S) ELSE Cardinality(S) + 1
  BY FS_AddElement
<1>2. Cardinality(S) \in Nat
  BY FS_CardinalityType
<1> QED BY <1>1, <1>2

\* There is an unused secret.
LEMMA UnusedTyped ==
  ASSUME SignInTypeOK
  PROVE  \A secret \in Unused : secret \in Secret /\ secret # 0
<1> DEFINE held == {req[r].secret : r \in Request}
           used == {0, account.secret, confirmed} \cup held
           free == Secret \ used
<1>1. IsFiniteSet(held) /\ Cardinality(held) <= Cardinality(Request)
  <2> DEFINE f == [r \in Request |-> req[r].secret]
  <2>1. f \in Surjection(Request, held)
    BY DEF Surjection
  <2> QED BY <2>1, SignInAssumption, FS_Surjection
<1>2. IsFiniteSet(used) /\ Cardinality(used) <= 3 + Cardinality(Request)
  <2> DEFINE two == {0} \cup {account.secret}
             three == two \cup {confirmed}
  <2>1. IsFiniteSet({0}) /\ Cardinality({0}) <= 1
    <3>1. IsFiniteSet({0}) /\ Cardinality({0}) = 1
      BY FS_Singleton, Zenon
    <3> QED BY <3>1, 1 <= 1
  <2>2. IsFiniteSet(two) /\ Cardinality(two) <= 1 + 1
    BY <2>1, OneMore, Zenon, 1 \in Nat
  <2>3. IsFiniteSet(three) /\ Cardinality(three) \in Nat /\ Cardinality(three) <= 2 + 1
    <3>1. Cardinality(two) <= 2 /\ 2 \in Nat
      <4> HIDE DEF two
      <4> QED BY <2>2
    <3> QED BY <2>2, <3>1, OneMore, Zenon
  <2>4. IsFiniteSet(three \cup held)
        /\ Cardinality(three \cup held) = Cardinality(three) + Cardinality(held) - Cardinality(three \cap held)
    BY <1>1, <2>3, FS_Union
  <2>5. Cardinality(three \cap held) \in Nat /\ Cardinality(held) \in Nat
    BY <1>1, FS_CardinalityType, FS_Subset, three \cap held \subseteq held
  <2>6. used = three \cup held
    OBVIOUS
  <2> HIDE DEF three, held, used
  <2> QED BY <1>1, <2>3, <2>4, <2>5, <2>6, ConstantFacts
<1>3. IsFiniteSet(Secret) /\ Cardinality(Secret) = MaxSecrets + 1
  BY ConstantFacts, FS_Interval DEF Secret
<1>4. free # {}
  <2> SUFFICES ASSUME free = {} PROVE FALSE
    OBVIOUS
  <2>1. Secret \subseteq used
    OBVIOUS
  <2>2. Cardinality(Secret) <= Cardinality(used)
    BY <1>2, <2>1, FS_Subset
  <2>3. Cardinality(used) \in Nat
    BY <1>2, FS_CardinalityType
  <2> HIDE DEF used
  <2> QED BY <1>2, <1>3, <2>2, <2>3, ConstantFacts, SignInAssumption
<1>5. Unused = {CHOOSE secret \in free : TRUE}
  BY DEF Unused
<1>6. (CHOOSE secret \in free : TRUE) \in free
  BY <1>4
<1> QED BY <1>5, <1>6

-----------------------------------------------------------------------------
(* Type correctness *)

\* An active request has been counted.
LEMMA StartedBefore ==
  ASSUME SignInTypeOK, CountInv, NEW r \in Request, req[r].pc # "idle"
  PROVE  /\ started >= 1
         /\ \A s \in Subject : limits[s].failures + 1 <= started
<1>1. IsFiniteSet(ActiveRequests) /\ r \in ActiveRequests
  BY SignInAssumption, FS_Subset DEF ActiveRequests
<1>2. Cardinality(ActiveRequests) \in Nat /\ Cardinality(ActiveRequests) # 0
  BY <1>1, FS_EmptySet, FS_CardinalityType
<1>3. \A s \in Subject : limits[s].failures \in Nat /\ limits[s].failures + Cardinality(ActiveRequests) <= started
  BY ConstantFacts DEF CountInv, RowBounded, SignInTypeOK, Limited
<1>4. "account" \in Subject /\ started \in Nat
  BY ConstantFacts DEF Subject, SignInTypeOK
<1> HIDE DEF ActiveRequests
<1> QED BY <1>2, <1>3, <1>4

LEMMA FailureTyped ==
  ASSUME SignInTypeOK, CountInv, NEW subjects \in SUBSET Subject, RecordFailure(subjects),
         \A s \in Subject : limits[s].failures + 1 <= MaxStarts
  PROVE  limits' \in [Subject -> Limited]
<1> SUFFICES ASSUME NEW s \in Subject
             PROVE  Failed(limits[s], FailureLimit[s]) \in Limited /\ limits[s] \in Limited
  BY DEF RecordFailure, SignInTypeOK
<1>1. limits[s] \in Limited /\ limits[s].failures \in Nat /\ limits[s].failures + 1 <= MaxStarts
  BY ConstantFacts DEF SignInTypeOK, Limited
<1>2. 1 \in 0 .. MaxStarts /\ limits[s].failures + 1 \in 0 .. MaxStarts
  BY <1>1, ConstantFacts
<1> QED BY <1>1, <1>2, ConstantFacts, FailedRow

LEMMA LoginTyped ==
  ASSUME SignInInv, NEW r \in Request, LoginStep(r)
  PROVE  SignInTypeOK'
<1> USE DEF SignInInv
<1>0. Now \in Proof /\ NoReq \in Req /\ req[r] \in Req /\ LoginPC \cup ExternalPC \subseteq PC
  BY NowTyped, ConstantsTyped DEF SignInTypeOK, PC
<1>1. CASE StartPassword(r)
  <2>1. [NoReq EXCEPT !.pc = "compare", !.proof = Now] \in Req
    BY <1>0 DEF Req, LoginPC
  <2>2. req' \in [Request -> Req] /\ started' \in 0 .. MaxStarts
    BY <1>1, <2>1, BeginTyped DEF StartPassword
  <2> QED BY <1>1, <2>2 DEF StartPassword, SignInTypeOK
<1>2. CASE ComparePassword(r)
  <2>1. req' \in [Request -> Req]
    BY <1>2, <1>0, ToTyped DEF ComparePassword, LoginPC
  <2> QED BY <1>2, <2>1 DEF ComparePassword, SignInTypeOK
<1>3. CASE StartCode(r)
  <2>1. PICK c \in challenges :
          LET fresh == [NoReq EXCEPT !.proof = c, !.from = c, !.secret = account.secret] IN
          IF ~account.enabled \/ account.secret = 0
          THEN /\ Begin(r, [fresh EXCEPT !.pc = "fail"])
               /\ challenges' = challenges \ {c}
               /\ refused' = refused + 1
          ELSE /\ ~Limit({"account"})
               /\ Begin(r, [fresh EXCEPT !.pc = "code"])
               /\ UNCHANGED <<challenges, refused>>
    BY <1>3 DEF StartCode
  <2> DEFINE fresh == [NoReq EXCEPT !.proof = c, !.from = c, !.secret = account.secret]
             v(pc) == [fresh EXCEPT !.pc = pc]
  <2>2. v("fail") \in Req /\ v("code") \in Req
    BY <1>0 DEF SignInTypeOK, Req, LoginPC
  <2>3. Begin(r, v("fail")) \/ Begin(r, v("code"))
    BY <2>1
  <2>4. req' \in [Request -> Req] /\ started' \in 0 .. MaxStarts
    <3> HIDE DEF v
    <3> QED BY <2>2, <2>3, BeginTyped
  <2>5. started' = started + 1
    BY <2>3 DEF Begin
  <2>6. challenges' \subseteq Proof /\ refused' \in 0 .. MaxStarts
    <3>1. refused' = refused + 1 \/ refused' = refused
      BY <2>1
    <3>2. refused <= started /\ refused \in Nat /\ started \in Nat
      BY ConstantFacts DEF CountInv, SignInTypeOK
    <3>3. challenges' \subseteq challenges
      BY <2>1
    <3> QED BY <2>4, <2>5, <3>1, <3>2, <3>3, ConstantFacts DEF SignInTypeOK
  <2> QED BY <1>3, <2>4, <2>6 DEF StartCode, SignInTypeOK
<1>4. CASE UnknownChallenge(r)
  <2>1. started' = started + 1 /\ started \in Nat /\ started < MaxStarts
    BY <1>4, ConstantFacts DEF UnknownChallenge, SignInTypeOK
  <2>2. \A s \in Subject : limits[s].failures + 1 <= MaxStarts
    <3> TAKE s \in Subject
    <3>1. Cardinality(ActiveRequests) \in Nat /\ limits[s].failures \in Nat
      BY SignInAssumption, FS_Subset, FS_CardinalityType, ConstantFacts DEF ActiveRequests, SignInTypeOK, Limited
    <3>2. limits[s].failures + Cardinality(ActiveRequests) <= started
      BY DEF CountInv, RowBounded
    <3> QED BY <2>1, <3>1, <3>2, ConstantFacts
  <2>3. limits' \in [Subject -> Limited]
    BY <1>4, <2>2, FailureTyped DEF UnknownChallenge, Subject
  <2>4. started' \in 0 .. MaxStarts
    BY <2>1, ConstantFacts
  <2> QED BY <1>4, <2>3, <2>4 DEF UnknownChallenge, SignInTypeOK
<1>5. CASE CheckCode(r)
  <2>1. req' \in [Request -> Req]
    BY <1>5, <1>0, ToTyped DEF CheckCode, LoginPC
  <2>2. /\ accepted' \in [Counter -> 0 .. MaxStarts]
        /\ account' \in [password : Proof, secret : Secret, enabled : BOOLEAN, counter : Counter]
    <3>1. started >= 1
      BY <1>5, StartedBefore DEF CheckCode
    <3> QED BY <1>5, <3>1, ConsumeCounts DEF CheckCode, SignInTypeOK
  <2>3. challenges' \subseteq Proof
    BY <1>5 DEF CheckCode, SignInTypeOK
  <2> QED BY <1>5, <2>1, <2>2, <2>3 DEF CheckCode, SignInTypeOK
<1>6. CASE FailLogin(r)
  <2>1. \A s \in Subject : limits[s].failures + 1 <= MaxStarts
    <3>1. \A s \in Subject : limits[s].failures + 1 <= started /\ limits[s].failures \in Nat
      BY <1>6, StartedBefore, ConstantFacts DEF FailLogin, SignInTypeOK, Limited
    <3>2. started \in Nat /\ started <= MaxStarts
      BY ConstantFacts DEF SignInTypeOK
    <3> QED BY <3>1, <3>2, ConstantFacts
  <2>2. limits' \in [Subject -> Limited] /\ req' \in [Request -> Req]
    BY <1>6, <2>1, FailureTyped, EndTyped DEF FailLogin
  <2> QED BY <1>6, <2>2 DEF FailLogin, SignInTypeOK
<1>7. CASE IssueChallenge(r)
  <2>1. req' \in [Request -> Req] /\ req[r].proof \in Proof
    BY <1>7, <1>0, EndTyped DEF IssueChallenge, Req
  <2> QED BY <1>7, <2>1 DEF IssueChallenge, SignInTypeOK
<1>8. CASE IssueSession(r)
  <2>1. req' \in [Request -> Req] /\ req[r].proof \in Proof
    BY <1>8, <1>0, EndTyped DEF IssueSession, Req
  <2>2. limits' \in [Subject -> Limited]
    BY <1>8, ConstantsTyped DEF IssueSession, SignInTypeOK
  <2> QED BY <1>8, <2>1, <2>2 DEF IssueSession, SignInTypeOK
<1>9. CASE FinishLinuxDoLogin(r)
  <2> DEFINE pc == IF account.enabled /\ account.secret # 0 THEN "challenge" ELSE "grant"
             v == [NoReq EXCEPT !.proof = Now, !.flag = TRUE, !.pc = pc]
  <2>1. pc \in PC
    BY DEF PC, LoginPC
  <2>2. v \in Req
    <3> HIDE DEF pc
    <3> QED BY <1>0, <2>1 DEF Req
  <2>3. req' \in [Request -> Req] /\ started' \in 0 .. MaxStarts
    BY <1>9, <2>2, BeginTyped DEF FinishLinuxDoLogin
  <2> QED BY <1>9, <2>3 DEF FinishLinuxDoLogin, SignInTypeOK
<1>10. CASE StartLinuxDoCode(r)
  <2>1. PICK c \in challenges :
          Begin(r, [NoReq EXCEPT !.pc = "externalCode", !.proof = c, !.from = c,
                                 !.secret = account.secret, !.flag = TRUE])
    BY <1>10 DEF StartLinuxDoCode
  <2>2. [NoReq EXCEPT !.pc = "externalCode", !.proof = c, !.from = c,
                      !.secret = account.secret, !.flag = TRUE] \in Req
    BY <1>0 DEF SignInTypeOK, Req, ExternalPC
  <2>3. req' \in [Request -> Req] /\ started' \in 0 .. MaxStarts
    BY <2>1, <2>2, BeginTyped
  <2> QED BY <1>10, <2>3 DEF StartLinuxDoCode, SignInTypeOK
<1>11. CASE CheckLinuxDoCode(r)
  <2>1. req' \in [Request -> Req]
    BY <1>11, <1>0, ToTyped, EndTyped DEF CheckLinuxDoCode, LoginPC
  <2>2. /\ accepted' \in [Counter -> 0 .. MaxStarts]
        /\ account' \in [password : Proof, secret : Secret, enabled : BOOLEAN, counter : Counter]
    <3>1. started >= 1
      BY <1>11, StartedBefore DEF CheckLinuxDoCode
    <3> QED BY <1>11, <3>1, ConsumeCounts DEF CheckLinuxDoCode, SignInTypeOK
  <2>3. challenges' \subseteq Proof
    BY <1>11 DEF CheckLinuxDoCode, SignInTypeOK
  <2> QED BY <1>11, <2>1, <2>2, <2>3 DEF CheckLinuxDoCode, SignInTypeOK
<1> QED BY <1>1, <1>2, <1>3, <1>4, <1>5, <1>6, <1>7, <1>8, <1>9, <1>10, <1>11 DEF LoginStep

LEMMA SignedInTyped ==
  ASSUME SignInTypeOK, NEW r \in Request, NEW pc \in PC, NEW s \in sessions, SignedIn(r, s, pc)
  PROVE  /\ req' \in [Request -> Req] /\ started' \in 0 .. MaxStarts
         /\ req'[r].pc = pc /\ req'[r].proof = Now /\ req'[r].secret = account.secret
         /\ req[r].pc = "idle" /\ started' = started + 1
         /\ \A q \in Request \ {r} : req'[q] = req[q]
<1> DEFINE v == [NoReq EXCEPT !.pc = pc, !.proof = Now, !.from = s,
                              !.secret = account.secret, !.flag = account.enabled]
<1>1. v \in Req /\ v.pc = pc /\ v.proof = Now /\ v.secret = account.secret
  BY NowTyped, ConstantsTyped DEF SignInTypeOK, Req
<1>2. Begin(r, v)
  BY DEF SignedIn
<1> HIDE DEF v
<1> QED BY <1>1, <1>2, BeginTyped, BeginSlots

LEMMA UserTyped ==
  ASSUME SignInInv, NEW r \in Request, UserStep(r)
  PROVE  SignInTypeOK'
<1> USE DEF SignInInv
<1>0. Now \in Proof /\ NoReq \in Req /\ req[r] \in Req /\ FactorPC \cup {"password", "token"} \subseteq PC
  BY NowTyped, ConstantsTyped DEF SignInTypeOK, PC
<1>1. CASE StartChangePassword(r)
  BY <1>1, <1>0, SignedInTyped DEF StartChangePassword, SignInTypeOK
<1>2. CASE SavePassword(r)
  <2>1. req' \in [Request -> Req] /\ req[r].proof \in Proof
    BY <1>2, <1>0, EndTyped DEF SavePassword, Req
  <2> QED BY <1>2, <2>1 DEF SavePassword, SignInTypeOK
<1>3. CASE StartUpdateToken(r)
  <2>1. PICK s \in sessions, flag \in BOOLEAN :
          Begin(r, [NoReq EXCEPT !.pc = "token", !.proof = Now, !.from = s, !.flag = flag])
    BY <1>3 DEF StartUpdateToken
  <2>2. [NoReq EXCEPT !.pc = "token", !.proof = Now, !.from = s, !.flag = flag] \in Req
    BY <1>0 DEF SignInTypeOK, Req
  <2>3. req' \in [Request -> Req] /\ started' \in 0 .. MaxStarts
    BY <2>1, <2>2, BeginTyped
  <2> QED BY <1>3, <2>3 DEF StartUpdateToken, SignInTypeOK
<1>4. CASE SaveToken(r)
  <2>1. req' \in [Request -> Req] /\ req[r].proof \in Proof
    BY <1>4, <1>0, EndTyped DEF SaveToken, Req
  <2>2. token' \in [state : {"none", "enabled", "disabled"}, proof : Proof]
    BY <1>4, <2>1 DEF SaveToken, SignInTypeOK
  <2> QED BY <1>4, <2>1, <2>2 DEF SaveToken, SignInTypeOK
<1>5. CASE StartSetup(r)
  BY <1>5, <1>0, SignedInTyped DEF StartSetup, FactorBegins, FactorBusy, FactorPC, SignInTypeOK
<1>6. CASE SaveSecret(r)
  <2>1. PICK secret \in Secret : account' = [account EXCEPT !.secret = secret, !.enabled = FALSE]
    BY <1>6, UnusedTyped DEF SaveSecret
  <2>2. req' \in [Request -> Req]
    BY <1>6, EndTyped DEF SaveSecret
  <2> QED BY <1>6, <2>1, <2>2 DEF SaveSecret, SignInTypeOK
<1>7. CASE StartEnable(r)
  BY <1>7, <1>0, SignedInTyped DEF StartEnable, FactorBegins, FactorBusy, FactorPC, SignInTypeOK
<1>8. CASE CheckEnableCode(r)
  <2>1. req' \in [Request -> Req]
    BY <1>8, <1>0, ToTyped, EndTyped DEF CheckEnableCode, FactorPC
  <2>2. /\ accepted' \in [Counter -> 0 .. MaxStarts]
        /\ account' \in [password : Proof, secret : Secret, enabled : BOOLEAN, counter : Counter]
    <3>1. started >= 1
      BY <1>8, StartedBefore DEF CheckEnableCode
    <3> QED BY <1>8, <3>1, ConsumeCounts DEF CheckEnableCode, SignInTypeOK
  <2>3. confirmed' \in Secret
    BY <1>8, <1>0 DEF CheckEnableCode, SignInTypeOK, Req
  <2> QED BY <1>8, <2>1, <2>2, <2>3 DEF CheckEnableCode, SignInTypeOK
<1>9. CASE SaveEnabled(r)
  BY <1>9, EndTyped DEF SaveEnabled, SignInTypeOK
<1>10. CASE StartDisable(r)
  BY <1>10, <1>0, SignedInTyped DEF StartDisable, FactorBegins, FactorBusy, FactorPC, SignInTypeOK
<1>11. CASE CheckDisableCode(r)
  <2>1. req' \in [Request -> Req]
    BY <1>11, <1>0, ToTyped, EndTyped DEF CheckDisableCode, FactorPC
  <2>2. /\ accepted' \in [Counter -> 0 .. MaxStarts]
        /\ account' \in [password : Proof, secret : Secret, enabled : BOOLEAN, counter : Counter]
    <3>1. started >= 1
      BY <1>11, StartedBefore DEF CheckDisableCode
    <3> QED BY <1>11, <3>1, ConsumeCounts DEF CheckDisableCode, SignInTypeOK
  <2> QED BY <1>11, <2>1, <2>2 DEF CheckDisableCode, SignInTypeOK
<1>12. CASE SaveDisabled(r)
  <2>1. 0 \in Secret /\ req' \in [Request -> Req]
    BY <1>12, EndTyped, ConstantFacts DEF Secret, SaveDisabled
  <2> QED BY <1>12, <2>1 DEF SaveDisabled, SignInTypeOK
<1> QED BY <1>1, <1>2, <1>3, <1>4, <1>5, <1>6, <1>7, <1>8, <1>9, <1>10, <1>11, <1>12 DEF UserStep

LEMMA ContainTyped ==
  ASSUME SignInTypeOK, Contain
  PROVE  /\ era' \in Era /\ era' = era + 1
         /\ sessions' \subseteq Proof /\ challenges' \subseteq Proof
         /\ token' \in [state : {"none", "enabled", "disabled"}, proof : Proof]
         /\ token'.state # "enabled"
         /\ req' \in [Request -> Req]
         /\ \A r \in Request : req'[r].pc = req[r].pc /\ req'[r].secret = req[r].secret
         /\ \A r \in Request : req[r].pc # "idle" => req'[r].proof.late
         /\ \A c \in challenges' : c.late
<1>0. era < MaxResets /\ era' = era + 1 /\ sessions' = {} /\ challenges' = {Late(c) : c \in challenges}
  BY Zenon DEF Contain
<1>1. era' \in Era /\ era' = era + 1
  BY <1>0, ConstantFacts DEF SignInTypeOK, Era
<1>2. sessions' \subseteq Proof /\ challenges' \subseteq Proof /\ \A c \in challenges' : c.late
  BY <1>0, LateTyped DEF SignInTypeOK
<1>3. token' \in [state : {"none", "enabled", "disabled"}, proof : Proof] /\ token'.state # "enabled"
  BY DEF SignInTypeOK, Contain
<1>4. ASSUME NEW r \in Request
      PROVE  /\ req'[r] \in Req /\ req'[r].pc = req[r].pc /\ req'[r].secret = req[r].secret
             /\ req[r].pc # "idle" => req'[r].proof.late
  <2>1. req[r] \in Req
    BY DEF SignInTypeOK
  <2> DEFINE p == Late(req[r].proof)
             f == Late(req[r].from)
  <2>2. p \in Proof /\ p.late /\ f \in Proof
    BY <2>1, LateTyped DEF Req
  <2>3. req'[r] = IF req[r].pc = "idle" THEN req[r] ELSE [req[r] EXCEPT !.proof = p, !.from = f]
    BY DEF Contain
  <2> HIDE DEF p, f
  <2>4. LET x == [req[r] EXCEPT !.proof = p, !.from = f]
        IN  x \in Req /\ x.pc = req[r].pc /\ x.secret = req[r].secret /\ x.proof = p
    BY <2>1, <2>2 DEF Req
  <2> QED BY <2>1, <2>2, <2>3, <2>4
<1>5. req' = [r \in Request |-> req'[r]]
  BY DEF Contain
<1>6. req' \in [Request -> Req]
  BY <1>4, <1>5
<1> QED BY <1>1, <1>2, <1>3, <1>4, <1>6

LEMMA OtherTyped ==
  ASSUME SignInInv, SignInNext
  PROVE  SignInTypeOK' \/ \E r \in Request : LoginStep(r) \/ UserStep(r)
<1> USE DEF SignInInv
<1>0. Now \in Proof
  BY NowTyped
<1>1. CASE \E p \in Proof : Logout(p) \/ ChallengeExpires(p)
  BY <1>1 DEF Logout, ChallengeExpires, SignInTypeOK
<1>2. ASSUME NEW s \in Subject, WindowEnds(s) PROVE SignInTypeOK'
  <2> DEFINE row == IF limits[s].old THEN [limits[s] EXCEPT !.locked = FALSE]
                    ELSE [limits[s] EXCEPT !.old = TRUE]
  <2>1. row \in Limited
    <3>1. limits[s] \in Limited
      BY DEF SignInTypeOK
    <3>2. [limits[s] EXCEPT !.locked = FALSE] \in Limited /\ [limits[s] EXCEPT !.old = TRUE] \in Limited
      BY <3>1 DEF Limited
    <3> QED BY <3>2
  <2>2. limits' = [limits EXCEPT ![s] = row]
    BY <1>2 DEF WindowEnds
  <2> HIDE DEF row
  <2>3. limits' \in [Subject -> Limited]
    BY <2>1, <2>2 DEF SignInTypeOK
  <2> QED BY <1>2, <2>3 DEF WindowEnds, SignInTypeOK
<1>3. CASE CreateToken
  BY <1>0, <1>3 DEF CreateToken, SignInTypeOK
<1>4. CASE DeleteToken
  BY <1>4, ConstantsTyped DEF DeleteToken, SignInTypeOK
<1>5. ASSUME Contain PROVE [since |-> era + 1, late |-> FALSE] \in Proof
  BY <1>5, ContainTyped DEF Proof
<1>6. CASE ResetPassword
  BY <1>5, <1>6, ContainTyped DEF ResetPassword, SignInTypeOK
<1>7. CASE ResetTwoFactor
  <2>1. 0 \in Secret
    BY ConstantFacts DEF Secret
  <2>2. account' \in [password : Proof, secret : Secret, enabled : BOOLEAN, counter : Counter]
    BY <1>5, <1>7, <2>1 DEF ResetTwoFactor, SignInTypeOK
  <2> QED BY <1>7, <2>2, ContainTyped DEF ResetTwoFactor, FactorBegins, FactorBusy, SignInTypeOK
<1>8. CASE StepPasses
  <2>1. clock' \in 1 .. MaxSteps + 1
    BY <1>8, ConstantFacts DEF StepPasses, SignInTypeOK
  <2> QED BY <1>8, <2>1 DEF StepPasses, SignInTypeOK
<1> QED BY <1>1, <1>2, <1>3, <1>4, <1>6, <1>7, <1>8 DEF SignInNext

LEMMA TypesKept ==
  ASSUME SignInInv, SignInNext
  PROVE  SignInTypeOK'
  BY LoginTyped, UserTyped, OtherTyped

-----------------------------------------------------------------------------
(* What the step of a request does to its slot *)

\* A request that begins takes Now or a challenge for its proof; one that goes
\* on keeps its proof.
Carries(r) ==
  \/ req'[r].pc = "idle"
  \/ req'[r].proof = Now
  \/ req'[r].proof \in challenges
  \/ req[r].pc # "idle" /\ req'[r].proof = req[r].proof

LEMMA LoginSlots ==
  ASSUME SignInInv, NEW r \in Request, LoginStep(r)
  PROVE  /\ \A q \in Request \ {r} : req'[q] = req[q]
         /\ req'[r].pc \notin FactorPC
         /\ Carries(r)
         /\ era' = era /\ token' = token /\ confirmed' = confirmed /\ overlapped' = overlapped
         /\ account'.secret = account.secret /\ account'.enabled = account.enabled
         /\ account'.password = account.password
<1> USE DEF SignInInv, FactorPC, LoginPC
<1>0. "idle" \notin FactorPC /\ NoReq.pc = "idle" /\ SignInTypeOK /\ LoginPC \subseteq PC
  BY ConstantsTyped DEF PC
<1>1. CASE StartPassword(r)
  <2>1. \A q \in Request \ {r} : req'[q] = req[q]
    BY <1>1, BeginSlots DEF StartPassword
  <2>2. req'[r].pc = "compare" /\ req'[r].proof = Now
    <3>1. req'[r] = [NoReq EXCEPT !.pc = "compare", !.proof = Now]
      BY <1>1, BeginSlots DEF StartPassword
    <3> QED BY <3>1 DEF NoReq
  <2> QED BY <1>1, <2>1, <2>2 DEF StartPassword, Carries
<1>2. CASE ComparePassword(r)
  <2>1. PICK pc \in {"fail", "challenge", "grant"} : To(r, pc)
    BY <1>2 DEF ComparePassword
  <2>2. /\ \A q \in Request \ {r} : req'[q] = req[q]
        /\ req'[r].pc = pc /\ req'[r].proof = req[r].proof
    BY <1>0, <2>1, ToTyped
  <2> QED BY <1>2, <2>2 DEF ComparePassword, Carries
<1>3. CASE StartCode(r)
  <2>1. PICK c \in challenges, pc \in {"fail", "code"} :
          Begin(r, [[NoReq EXCEPT !.proof = c, !.from = c, !.secret = account.secret] EXCEPT !.pc = pc])
    BY <1>3 DEF StartCode
  <2>2. \A q \in Request \ {r} : req'[q] = req[q]
    BY <2>1, BeginSlots
  <2>3. req'[r].pc = pc /\ req'[r].proof = c
    <3>1. req'[r] = [[NoReq EXCEPT !.proof = c, !.from = c, !.secret = account.secret] EXCEPT !.pc = pc]
      BY <2>1, BeginSlots
    <3> QED BY <3>1 DEF NoReq
  <2> QED BY <1>3, <2>2, <2>3 DEF StartCode, Carries
<1>4. CASE UnknownChallenge(r)
  BY <1>4 DEF UnknownChallenge, Carries
<1>5. CASE CheckCode(r)
  <2>1. PICK pc \in {"fail", "grant"} : To(r, pc)
    BY <1>5 DEF CheckCode
  <2>2. /\ \A q \in Request \ {r} : req'[q] = req[q]
        /\ req'[r].pc = pc /\ req'[r].proof = req[r].proof
    BY <1>0, <2>1, ToTyped
  <2>3. /\ account'.secret = account.secret /\ account'.enabled = account.enabled
        /\ account'.password = account.password
    BY <1>5 DEF CheckCode, Consume, SignInTypeOK
  <2> QED BY <1>5, <2>2, <2>3 DEF CheckCode, Carries
<1>6. CASE FailLogin(r)
  BY <1>0, <1>6, EndTyped DEF FailLogin, Carries
<1>7. CASE IssueChallenge(r)
  BY <1>0, <1>7, EndTyped DEF IssueChallenge, Carries
<1>8. CASE IssueSession(r)
  BY <1>0, <1>8, EndTyped DEF IssueSession, Carries
<1>9. CASE FinishLinuxDoLogin(r)
  <2>1. PICK pc \in {"challenge", "grant"} :
          Begin(r, [NoReq EXCEPT !.proof = Now, !.flag = TRUE, !.pc = pc])
    BY <1>9 DEF FinishLinuxDoLogin
  <2>2. \A q \in Request \ {r} : req'[q] = req[q]
    BY <2>1, BeginSlots
  <2>3. req'[r].pc = pc /\ req'[r].proof = Now
    <3>1. req'[r] = [NoReq EXCEPT !.proof = Now, !.flag = TRUE, !.pc = pc]
      BY <2>1, BeginSlots
    <3> QED BY <3>1 DEF NoReq
  <2> QED BY <1>9, <2>2, <2>3 DEF FinishLinuxDoLogin, Carries
<1>10. CASE StartLinuxDoCode(r)
  <2>1. PICK c \in challenges :
          Begin(r, [NoReq EXCEPT !.pc = "externalCode", !.proof = c, !.from = c,
                                 !.secret = account.secret, !.flag = TRUE])
    BY <1>10 DEF StartLinuxDoCode
  <2>2. \A q \in Request \ {r} : req'[q] = req[q]
    BY <2>1, BeginSlots
  <2>3. req'[r].pc = "externalCode" /\ req'[r].proof = c
    <3>1. req'[r] = [NoReq EXCEPT !.pc = "externalCode", !.proof = c, !.from = c,
                                  !.secret = account.secret, !.flag = TRUE]
      BY <2>1, BeginSlots
    <3> QED BY <3>1 DEF NoReq
  <2> QED BY <1>10, <2>2, <2>3 DEF StartLinuxDoCode, Carries
<1>11. CASE CheckLinuxDoCode(r)
  <2>1. End(r) \/ To(r, "grant")
    BY <1>11 DEF CheckLinuxDoCode
  <2>2. /\ \A q \in Request \ {r} : req'[q] = req[q]
        /\ req'[r].pc \in {"idle", "grant"}
        /\ req'[r].pc = "idle" \/ req'[r].proof = req[r].proof
    BY <1>0, <2>1, ToTyped, EndTyped
  <2>3. /\ account'.secret = account.secret /\ account'.enabled = account.enabled
        /\ account'.password = account.password
    BY <1>11 DEF CheckLinuxDoCode, Consume, SignInTypeOK
  <2> QED BY <1>11, <2>2, <2>3 DEF CheckLinuxDoCode, Carries
<1> QED BY <1>1, <1>2, <1>3, <1>4, <1>5, <1>6, <1>7, <1>8, <1>9, <1>10, <1>11 DEF LoginStep

LEMMA UserSlots ==
  ASSUME SignInInv, NEW r \in Request, UserStep(r)
  PROVE  /\ \A q \in Request \ {r} : req'[q] = req[q]
         /\ req'[r].pc \notin {"compare", "code", "fail"}
         /\ Carries(r)
         /\ era' = era /\ limits' = limits /\ refused' = refused
         /\ \/ started' = started + 1 /\ req[r].pc = "idle"
            \/ started' = started /\ req[r].pc # "idle"
         /\ challenges' = challenges
<1> USE DEF SignInInv
<1>0. NoReq.pc = "idle" /\ SignInTypeOK /\ FactorPC \cup {"password", "token"} \subseteq PC
  BY ConstantsTyped DEF PC
<1>1. CASE StartChangePassword(r)
  BY <1>0, <1>1, SignedInTyped DEF StartChangePassword, Carries
<1>2. CASE SavePassword(r)
  BY <1>0, <1>2, EndTyped DEF SavePassword, Carries
<1>3. CASE StartUpdateToken(r)
  <2>1. PICK s \in sessions, flag \in BOOLEAN :
          Begin(r, [NoReq EXCEPT !.pc = "token", !.proof = Now, !.from = s, !.flag = flag])
    BY <1>0, <1>3 DEF StartUpdateToken
  <2>2. req[r].pc = "idle" /\ started' = started + 1 /\ \A q \in Request \ {r} : req'[q] = req[q]
    BY <2>1, BeginSlots
  <2>3. req'[r].pc = "token" /\ req'[r].proof = Now
    <3>1. req'[r] = [NoReq EXCEPT !.pc = "token", !.proof = Now, !.from = s, !.flag = flag]
      BY <2>1, BeginSlots
    <3> QED BY <3>1 DEF NoReq
  <2> QED BY <1>3, <2>2, <2>3 DEF StartUpdateToken, Carries
<1>4. CASE SaveToken(r)
  BY <1>0, <1>4, EndTyped DEF SaveToken, Carries
<1>5. CASE StartSetup(r)
  BY <1>0, <1>5, SignedInTyped DEF StartSetup, Carries, FactorPC
<1>6. CASE SaveSecret(r)
  BY <1>0, <1>6, EndTyped DEF SaveSecret, Carries
<1>7. CASE StartEnable(r)
  BY <1>0, <1>7, SignedInTyped DEF StartEnable, Carries, FactorPC
<1>8. CASE CheckEnableCode(r)
  <2>1. End(r) \/ To(r, "enable")
    BY <1>8 DEF CheckEnableCode
  <2>2. /\ \A q \in Request \ {r} : req'[q] = req[q]
        /\ req'[r].pc \in {"idle", "enable"}
        /\ req'[r].pc = "idle" \/ req'[r].proof = req[r].proof
    BY <1>0, <2>1, ToTyped, EndTyped DEF FactorPC
  <2> QED BY <1>8, <2>2 DEF CheckEnableCode, Carries
<1>9. CASE SaveEnabled(r)
  BY <1>0, <1>9, EndTyped DEF SaveEnabled, Carries
<1>10. CASE StartDisable(r)
  BY <1>0, <1>10, SignedInTyped DEF StartDisable, Carries, FactorPC
<1>11. CASE CheckDisableCode(r)
  <2>1. End(r) \/ To(r, "disable")
    BY <1>11 DEF CheckDisableCode
  <2>2. /\ \A q \in Request \ {r} : req'[q] = req[q]
        /\ req'[r].pc \in {"idle", "disable"}
        /\ req'[r].pc = "idle" \/ req'[r].proof = req[r].proof
    BY <1>0, <2>1, ToTyped, EndTyped DEF FactorPC
  <2> QED BY <1>11, <2>2 DEF CheckDisableCode, Carries
<1>12. CASE SaveDisabled(r)
  BY <1>0, <1>12, EndTyped DEF SaveDisabled, Carries
<1> QED BY <1>1, <1>2, <1>3, <1>4, <1>5, <1>6, <1>7, <1>8, <1>9, <1>10, <1>11, <1>12 DEF UserStep

-----------------------------------------------------------------------------
(* CodeInv and EraInv *)

LEMMA CodesKept ==
  ASSUME SignInInv, SignInNext
  PROVE  CodeInv'
<1> USE DEF SignInInv
<1>1. CASE \E r \in Request : CheckCode(r) \/ CheckLinuxDoCode(r) \/ CheckEnableCode(r) \/ CheckDisableCode(r)
  <2>1. PICK r \in Request : CheckCode(r) \/ CheckLinuxDoCode(r) \/ CheckEnableCode(r) \/ CheckDisableCode(r)
    BY <1>1
  <2>2. req[r].pc # "idle" /\ (UNCHANGED <<account, accepted>> \/ \E step \in Counter : Consume(step))
    BY <2>1 DEF CheckCode, CheckLinuxDoCode, CheckEnableCode, CheckDisableCode
  <2>3. started >= 1
    BY <2>2, StartedBefore
  <2> QED BY <2>2, <2>3, ConsumeCounts DEF CodeInv
<1>2. CASE ~ \E r \in Request : CheckCode(r) \/ CheckLinuxDoCode(r) \/ CheckEnableCode(r) \/ CheckDisableCode(r)
  <2>1. accepted' = accepted /\ account'.counter = account.counter
    <3>1. CASE \E r \in Request : LoginStep(r)
      BY <1>2, <3>1 DEF LoginStep, StartPassword, ComparePassword, StartCode, UnknownChallenge,
         FailLogin, IssueChallenge, IssueSession, FinishLinuxDoLogin, StartLinuxDoCode
    <3>2. CASE \E r \in Request : UserStep(r)
      BY <1>2, <3>2 DEF UserStep, StartChangePassword, SavePassword, StartUpdateToken, SaveToken, StartSetup,
         SaveSecret, StartEnable, SaveEnabled, StartDisable, SaveDisabled, SignInTypeOK
    <3>3. CASE ~ \E r \in Request : LoginStep(r) \/ UserStep(r)
      BY <3>3 DEF SignInNext, Logout, ChallengeExpires, WindowEnds, CreateToken, DeleteToken,
         ResetPassword, ResetTwoFactor, StepPasses, SignInTypeOK
    <3> QED BY <3>1, <3>2, <3>3
  <2> QED BY <2>1 DEF CodeInv
<1> QED BY <1>1, <1>2

\* The slots of the requests, after the step of one in the same era.
LEMMA SlotsContained ==
  ASSUME SignInInv, NEW r \in Request, era' = era, Carries(r),
         \A q \in Request \ {r} : req'[q] = req[q]
  PROVE  \A q \in Request : req'[q].pc # "idle" => Contained(req[q].proof)' 
<1> SUFFICES ASSUME NEW q \in Request, req'[q].pc # "idle"
             PROVE  req'[q].proof.since = era \/ req'[q].proof.late
  BY DEF Contained
<1>1. CASE q # r
  BY <1>1 DEF SignInInv, EraInv, Contained
<1>2. CASE q = r
  <2>1. CASE req'[r].proof = Now
    BY <2>1, <1>2, NowTyped DEF SignInInv
  <2>2. CASE req'[r].proof \in challenges
    BY <2>2, <1>2 DEF SignInInv, EraInv, Contained
  <2>3. CASE req[r].pc # "idle" /\ req'[r].proof = req[r].proof
    BY <2>3, <1>2 DEF SignInInv, EraInv, Contained
  <2> QED BY <1>2, <2>1, <2>2, <2>3 DEF Carries
<1> QED BY <1>1, <1>2

LEMMA ErasKept ==
  ASSUME SignInInv, SignInNext
  PROVE  EraInv'
<1> USE DEF SignInInv
<1>1. ASSUME NEW r \in Request, LoginStep(r) PROVE EraInv'
  <2>1. /\ \A q \in Request : req'[q].pc # "idle" => Contained(req[q].proof)'
        /\ era' = era /\ token' = token /\ account'.password = account.password
    BY <1>1, LoginSlots, SlotsContained
  <2>2. /\ sessions' \subseteq sessions \cup {req[r].proof}
        /\ challenges' \subseteq challenges \cup {req[r].proof}
        /\ sessions' # sessions => req[r].pc # "idle"
        /\ challenges' \subseteq challenges \/ req[r].pc # "idle"
    BY <1>1 DEF LoginStep, StartPassword, ComparePassword, StartCode, UnknownChallenge, CheckCode,
       FailLogin, IssueChallenge, IssueSession, FinishLinuxDoLogin, StartLinuxDoCode, CheckLinuxDoCode
  <2>3. \A p \in sessions' \cup challenges' : p.since = era \/ p.late
    BY <2>2 DEF EraInv, Contained
  <2>4. /\ token.state = "enabled" => token.proof.since = era \/ token.proof.late
        /\ account.password.since = era \/ account.password.late
    BY DEF EraInv, Contained
  <2> QED BY <2>1, <2>3, <2>4 DEF EraInv, Contained
<1>2. ASSUME NEW r \in Request, UserStep(r) PROVE EraInv'
  <2>1. /\ \A q \in Request : req'[q].pc # "idle" => Contained(req[q].proof)'
        /\ era' = era /\ challenges' = challenges
    BY <1>2, UserSlots, SlotsContained
  <2>2. /\ sessions' \subseteq sessions
        /\ token' = token \/ (req[r].pc # "idle" /\ token'.proof = req[r].proof)
        /\ account'.password = account.password \/ (req[r].pc # "idle" /\ account'.password = req[r].proof)
    <3>1. CASE StartChangePassword(r) \/ StartUpdateToken(r) \/ StartSetup(r) \/ StartEnable(r) \/ StartDisable(r)
      BY <3>1 DEF StartChangePassword, StartUpdateToken, StartSetup, StartEnable, StartDisable
    <3>2. CASE SavePassword(r)
      BY <3>2 DEF SavePassword, SignInTypeOK
    <3>3. CASE SaveToken(r)
      BY <3>3 DEF SaveToken
    <3>4. CASE SaveSecret(r) \/ SaveEnabled(r) \/ SaveDisabled(r)
      BY <3>4 DEF SaveSecret, SaveEnabled, SaveDisabled, SignInTypeOK
    <3>5. CASE CheckEnableCode(r) \/ CheckDisableCode(r)
      BY <3>5 DEF CheckEnableCode, CheckDisableCode, Consume, SignInTypeOK
    <3> QED BY <1>2, <3>1, <3>2, <3>3, <3>4, <3>5 DEF UserStep
  <2>3. \A p \in sessions \cup challenges : p.since = era \/ p.late
    BY DEF EraInv, Contained
  <2>4. /\ token.state = "enabled" => token.proof.since = era \/ token.proof.late
        /\ account.password.since = era \/ account.password.late
        /\ req[r].pc # "idle" => req[r].proof.since = era \/ req[r].proof.late
    BY DEF EraInv, Contained
  <2> QED BY <2>1, <2>2, <2>3, <2>4 DEF EraInv, Contained
<1>3. ASSUME Contain, account'.password = [since |-> era + 1, late |-> FALSE] PROVE EraInv'
  <2>1. /\ sessions' = {} /\ token'.state # "enabled" /\ era' = era + 1
        /\ \A c \in challenges' : c.late
        /\ \A r \in Request : req'[r].pc # "idle" => req'[r].proof.late
    <3>1. sessions' = {}
      BY <1>3, Zenon DEF Contain
    <3> QED BY <1>3, <3>1, ContainTyped
  <2>2. account'.password.since = era'
    BY <1>3, <2>1
  <2> QED BY <2>1, <2>2 DEF EraInv, Contained
<1>4. CASE ResetPassword \/ ResetTwoFactor
  <2>1. Contain /\ account'.password = [since |-> era + 1, late |-> FALSE]
    BY <1>4 DEF ResetPassword, ResetTwoFactor, SignInTypeOK
  <2> QED BY <1>3, <2>1
<1>5. CASE CreateToken
  <2>1. token'.proof.since = era /\ UNCHANGED <<sessions, challenges, req, era, account>>
    BY <1>5, NowTyped DEF CreateToken
  <2> QED BY <2>1 DEF EraInv, Contained
<1>6. CASE DeleteToken
  <2>1. token'.state # "enabled" /\ UNCHANGED <<sessions, challenges, req, era, account>>
    BY <1>6, ConstantsTyped DEF DeleteToken
  <2> QED BY <2>1 DEF EraInv, Contained
<1>7. CASE StepPasses \/ \E s \in Subject : WindowEnds(s)
  BY <1>7 DEF StepPasses, WindowEnds, EraInv, Contained
<1>8. CASE \E p \in Proof : Logout(p) \/ ChallengeExpires(p)
  BY <1>8 DEF Logout, ChallengeExpires, EraInv, Contained
<1> QED BY <1>1, <1>2, <1>4, <1>5, <1>6, <1>7, <1>8 DEF SignInNext

-----------------------------------------------------------------------------
(* FactorInv *)

\* A step that leaves the second factor alone and adds no change of it.
LEMMA FactorUntouched ==
  ASSUME FactorInv, UNCHANGED <<confirmed, overlapped>>,
         account'.secret = account.secret, account'.enabled = account.enabled,
         \A r \in Request : req'[r].pc \in FactorPC =>
            req'[r].pc = req[r].pc /\ req'[r].secret = req[r].secret
  PROVE  FactorInv'
  BY DEF FactorInv, HoldsSecret

\* A change begins: it has read the secret in force, and any other overlaps.
LEMMA FactorStarts ==
  ASSUME SignInInv, NEW r \in Request, NEW s \in sessions, NEW pc \in {"setup", "enableCode", "disableCode"},
         pc = "enableCode" => account.secret # 0,
         SignedIn(r, s, pc), FactorBegins, UNCHANGED <<account, confirmed>>
  PROVE  FactorInv'
<1> SUFFICES ASSUME ~overlapped' PROVE FactorInv'
  BY DEF FactorInv
<1>1. ~overlapped /\ \A q \in Request : req[q].pc \notin FactorPC
  BY DEF FactorBegins, FactorBusy
<1>2. /\ req'[r].pc = pc /\ req'[r].secret = account.secret
      /\ \A q \in Request \ {r} : req'[q] = req[q]
  BY SignedInTyped DEF SignInInv, PC, FactorPC
<1>3. account.enabled => account.secret = confirmed /\ confirmed # 0
  BY <1>1 DEF SignInInv, FactorInv
<1> QED BY <1>1, <1>2, <1>3 DEF FactorInv, HoldsSecret

\* The only change has ended with what it wrote.
LEMMA FactorEnds ==
  ASSUME SignInInv, NEW r \in Request, req[r].pc \in FactorPC, End(r), overlapped' = overlapped,
         ~overlapped => (account'.enabled => account'.secret = confirmed' /\ confirmed' # 0)
  PROVE  FactorInv'
<1> SUFFICES ASSUME ~overlapped PROVE FactorInv'
  BY DEF FactorInv
<1>1. req'[r].pc = "idle" /\ \A q \in Request \ {r} : req'[q] = req[q]
  BY EndTyped, ConstantsTyped DEF SignInInv
<1>2. \A q \in Request : req'[q].pc \notin FactorPC
  BY <1>1 DEF SignInInv, FactorInv, FactorPC
<1> QED BY <1>2 DEF FactorInv

LEMMA FactorsKept ==
  ASSUME SignInInv, SignInNext
  PROVE  FactorInv'
<1> USE DEF SignInInv
<1>1. ASSUME NEW r \in Request, LoginStep(r) PROVE FactorInv'
  BY <1>1, LoginSlots, FactorUntouched
<1>2. ASSUME NEW r \in Request, UserStep(r) PROVE FactorInv'
  <2>0. "idle" \notin FactorPC /\ FactorPC \subseteq PC
    BY DEF FactorPC, PC
  <2>1. CASE StartChangePassword(r) \/ SavePassword(r) \/ StartUpdateToken(r) \/ SaveToken(r)
    <3>1. /\ UNCHANGED <<confirmed, overlapped>>
          /\ account'.secret = account.secret /\ account'.enabled = account.enabled
      BY <2>1 DEF StartChangePassword, SavePassword, StartUpdateToken, SaveToken, SignInTypeOK
    <3>2. req'[r].pc \in {"password", "token", "idle"}
      <4>1. CASE StartChangePassword(r)
        BY <4>1, SignedInTyped DEF StartChangePassword, PC
      <4>2. CASE StartUpdateToken(r)
        <5>1. PICK s \in sessions, flag \in BOOLEAN :
                req'[r] = [NoReq EXCEPT !.pc = "token", !.proof = Now, !.from = s, !.flag = flag]
          BY <4>2, BeginSlots DEF StartUpdateToken
        <5> QED BY <5>1 DEF NoReq
      <4>3. CASE SavePassword(r) \/ SaveToken(r)
        BY <4>3, EndTyped, ConstantsTyped DEF SavePassword, SaveToken
      <4> QED BY <2>1, <4>1, <4>2, <4>3
    <3>3. \A q \in Request \ {r} : req'[q] = req[q]
      BY <1>2, UserSlots
    <3> QED BY <3>1, <3>2, <3>3, FactorUntouched DEF FactorPC
  <2>2. CASE StartSetup(r)
    BY <2>2, FactorStarts DEF StartSetup
  <2>3. CASE StartEnable(r)
    BY <2>3, FactorStarts DEF StartEnable
  <2>4. CASE StartDisable(r)
    BY <2>4, FactorStarts DEF StartDisable
  <2>5. CASE SaveSecret(r) \/ SaveDisabled(r)
    <3>1. ~account'.enabled
      BY <2>5 DEF SaveSecret, SaveDisabled, SignInTypeOK
    <3> QED BY <2>5, <3>1, FactorEnds DEF SaveSecret, SaveDisabled, FactorPC
  <2>6. CASE SaveEnabled(r)
    <3>1. account'.secret = account.secret /\ confirmed' = confirmed /\ req[r].pc = "enable"
      BY <2>6 DEF SaveEnabled, SignInTypeOK
    <3>2. ~overlapped => account.secret = confirmed /\ confirmed # 0
      BY <3>1 DEF FactorInv, HoldsSecret, FactorPC
    <3> QED BY <2>6, <3>1, <3>2, FactorEnds DEF SaveEnabled, FactorPC
  <2>7. CASE CheckEnableCode(r)
    <3>1. req[r].pc = "enableCode" /\ overlapped' = overlapped
      BY <2>7 DEF CheckEnableCode
    <3>2. CASE End(r) /\ UNCHANGED <<account, accepted, confirmed>>
      <4>1. ~overlapped => (account'.enabled => account'.secret = confirmed' /\ confirmed' # 0)
        BY <3>2 DEF FactorInv
      <4> QED BY <3>1, <3>2, <4>1, FactorEnds DEF FactorPC
    <3>3. CASE (\E step \in Counter : Consume(step)) /\ confirmed' = req[r].secret /\ To(r, "enable")
      <4> SUFFICES ASSUME ~overlapped PROVE FactorInv'
        BY <3>1 DEF FactorInv
      <4>1. account'.secret = account.secret /\ account'.enabled = account.enabled
        BY <3>3 DEF Consume, SignInTypeOK
      <4>2. /\ req'[r].pc = "enable" /\ req'[r].secret = req[r].secret
            /\ \A q \in Request \ {r} : req'[q] = req[q]
        BY <3>3, ToTyped, <2>0 DEF FactorPC
      <4>3. req[r].secret = account.secret /\ account.secret # 0
        BY <3>1 DEF FactorInv, HoldsSecret, FactorPC
      <4>4. \A q \in Request : req'[q].pc \in FactorPC => q = r
        BY <3>1, <4>2 DEF FactorInv, FactorPC
      <4> QED BY <3>3, <4>1, <4>2, <4>3, <4>4 DEF FactorInv, HoldsSecret
    <3> QED BY <2>7, <3>2, <3>3 DEF CheckEnableCode
  <2>8. CASE CheckDisableCode(r)
    <3>1. req[r].pc = "disableCode" /\ UNCHANGED <<confirmed, overlapped>>
      BY <2>8 DEF CheckDisableCode
    <3>2. account'.secret = account.secret /\ account'.enabled = account.enabled
      BY <2>8 DEF CheckDisableCode, Consume, SignInTypeOK
    <3>3. CASE End(r)
      BY <3>1, <3>2, <3>3, FactorEnds DEF FactorPC, FactorInv
    <3>4. CASE To(r, "disable")
      <4>1. /\ req'[r].pc = "disable" /\ req'[r].secret = req[r].secret
            /\ \A q \in Request \ {r} : req'[q] = req[q]
        BY <3>4, ToTyped, <2>0 DEF FactorPC
      <4> QED BY <3>1, <3>2, <4>1 DEF FactorInv, HoldsSecret, FactorPC
    <3> QED BY <2>8, <3>3, <3>4 DEF CheckDisableCode
  <2> QED BY <1>2, <2>1, <2>2, <2>3, <2>4, <2>5, <2>6, <2>7, <2>8 DEF UserStep
<1>3. CASE ResetPassword
  <2>1. /\ UNCHANGED <<confirmed, overlapped>>
        /\ account'.secret = account.secret /\ account'.enabled = account.enabled
    BY <1>3 DEF ResetPassword, SignInTypeOK
  <2>2. \A r \in Request : req'[r].pc = req[r].pc /\ req'[r].secret = req[r].secret
    BY <1>3, ContainTyped DEF ResetPassword
  <2> QED BY <2>1, <2>2, FactorUntouched
<1>4. CASE ResetTwoFactor
  <2> SUFFICES ASSUME ~overlapped' PROVE FactorInv'
    BY DEF FactorInv
  <2>1. ~account'.enabled
    BY <1>4 DEF ResetTwoFactor, SignInTypeOK
  <2>2. \A r \in Request : req'[r].pc \notin FactorPC
    BY <1>4, ContainTyped DEF ResetTwoFactor, FactorBegins, FactorBusy
  <2> QED BY <2>1, <2>2 DEF FactorInv
<1>5. CASE CreateToken \/ DeleteToken \/ StepPasses \/ \E s \in Subject : WindowEnds(s)
  BY <1>5, FactorUntouched DEF CreateToken, DeleteToken, StepPasses, WindowEnds
<1>6. CASE \E p \in Proof : Logout(p) \/ ChallengeExpires(p)
  BY <1>6, FactorUntouched DEF Logout, ChallengeExpires
<1> QED BY <1>1, <1>2, <1>3, <1>4, <1>5, <1>6 DEF SignInNext

-----------------------------------------------------------------------------
(* CountInv *)

\* Two sets of requests that differ in one at most.
LEMMA OneMoves ==
  ASSUME NEW A \in SUBSET Request, NEW B \in SUBSET Request, NEW r \in Request, A \ {r} = B \ {r}
  PROVE  /\ Cardinality(A) \in Nat /\ Cardinality(B) \in Nat
         /\ Cardinality(A) <= Cardinality(Request) /\ Cardinality(B) <= Cardinality(Request)
         /\ Cardinality(B) <= Cardinality(A) + 1
         /\ r \in A \/ r \notin B => Cardinality(B) <= Cardinality(A)
         /\ r \in A /\ r \notin B => Cardinality(B) + 1 <= Cardinality(A)
         /\ r \notin A => Cardinality(A) + 1 <= Cardinality(Request)
<1>1. IsFiniteSet(A) /\ IsFiniteSet(B) /\ IsFiniteSet(Request)
  BY SignInAssumption, FS_Subset
<1>2. /\ Cardinality(A) \in Nat /\ Cardinality(B) \in Nat /\ Cardinality(Request) \in Nat
      /\ Cardinality(A) <= Cardinality(Request) /\ Cardinality(B) <= Cardinality(Request)
  BY <1>1, FS_CardinalityType, FS_Subset
<1>3. ASSUME NEW S \in SUBSET Request, IsFiniteSet(S), r \notin S
      PROVE  Cardinality(S \cup {r}) = Cardinality(S) + 1 /\ Cardinality(S) + 1 <= Cardinality(Request)
  <2>1. Cardinality(S \cup {r}) = Cardinality(S) + 1
    BY <1>3, FS_AddElement
  <2>2. Cardinality(S \cup {r}) <= Cardinality(Request)
    BY <1>1, FS_Subset
  <2> QED BY <2>1, <2>2
<1>4. CASE r \in A /\ r \notin B
  <2>1. A = B \cup {r}
    BY <1>4
  <2>2. Cardinality(A) = Cardinality(B) + 1
    BY <1>1, <1>3, <1>4, <2>1
  <2> QED BY <1>2, <1>4, <2>2
<1>5. CASE r \notin A /\ r \in B
  <2>1. B = A \cup {r}
    BY <1>5
  <2>2. Cardinality(B) = Cardinality(A) + 1 /\ Cardinality(A) + 1 <= Cardinality(Request)
    BY <1>1, <1>3, <1>5, <2>1
  <2> QED BY <1>2, <1>5, <2>2
<1>6. CASE r \in A <=> r \in B
  <2>1. A = B
    BY <1>6
  <2>2. r \notin A => Cardinality(A) + 1 <= Cardinality(Request)
    BY <1>1, <1>3
  <2> QED BY <1>2, <2>1, <2>2
<1> QED BY <1>4, <1>5, <1>6

\* ActiveRequests and pending requests after the step of one.
LEMMA RequestMoves ==
  ASSUME NEW r \in Request, \A q \in Request \ {r} : req'[q] = req[q]
  PROVE  /\ Cardinality(ActiveRequests) \in Nat /\ Cardinality(ActiveRequests') \in Nat
         /\ Cardinality(Pending) \in Nat /\ Cardinality(Pending') \in Nat
         /\ Cardinality(Pending') <= Cardinality(Request)
         /\ Cardinality(ActiveRequests') <= Cardinality(ActiveRequests) + 1
         /\ Cardinality(Pending') <= Cardinality(Pending) + 1
         /\ req[r].pc # "idle" => Cardinality(ActiveRequests') <= Cardinality(ActiveRequests)
         /\ req[r].pc # "idle" /\ req'[r].pc = "idle" => Cardinality(ActiveRequests') + 1 <= Cardinality(ActiveRequests)
         /\ req[r].pc \in {"compare", "code", "fail"} \/ req'[r].pc \notin {"compare", "code", "fail"}
              => Cardinality(Pending') <= Cardinality(Pending)
         /\ req[r].pc \in {"compare", "code", "fail"} /\ req'[r].pc \notin {"compare", "code", "fail"}
              => Cardinality(Pending') + 1 <= Cardinality(Pending)
         /\ req[r].pc = "idle" => Cardinality(Pending) + 1 <= Cardinality(Request)
<1>1. ActiveRequests \in SUBSET Request /\ ActiveRequests' \in SUBSET Request /\ ActiveRequests \ {r} = ActiveRequests' \ {r}
  BY DEF ActiveRequests
<1>2. Pending \in SUBSET Request /\ Pending' \in SUBSET Request /\ Pending \ {r} = Pending' \ {r}
  BY DEF Pending
<1>3. /\ r \in ActiveRequests <=> req[r].pc # "idle"
      /\ r \in ActiveRequests' <=> req'[r].pc # "idle"
      /\ r \in Pending <=> req[r].pc \in {"compare", "code", "fail"}
      /\ r \in Pending' <=> req'[r].pc \in {"compare", "code", "fail"}
      /\ req[r].pc = "idle" => r \notin Pending
  BY DEF ActiveRequests, Pending
<1> HIDE DEF ActiveRequests, Pending
<1>4. /\ Cardinality(ActiveRequests) \in Nat /\ Cardinality(ActiveRequests') \in Nat
      /\ Cardinality(ActiveRequests') <= Cardinality(ActiveRequests) + 1
      /\ req[r].pc # "idle" => Cardinality(ActiveRequests') <= Cardinality(ActiveRequests)
      /\ req[r].pc # "idle" /\ req'[r].pc = "idle" => Cardinality(ActiveRequests') + 1 <= Cardinality(ActiveRequests)
  BY <1>1, <1>3, OneMoves
<1>5. /\ Cardinality(Pending) \in Nat /\ Cardinality(Pending') \in Nat
      /\ Cardinality(Pending') <= Cardinality(Request)
      /\ Cardinality(Pending') <= Cardinality(Pending) + 1
      /\ r \in Pending \/ r \notin Pending' => Cardinality(Pending') <= Cardinality(Pending)
      /\ r \in Pending /\ r \notin Pending' => Cardinality(Pending') + 1 <= Cardinality(Pending)
      /\ r \notin Pending => Cardinality(Pending) + 1 <= Cardinality(Request)
  BY <1>2, OneMoves
<1> QED BY <1>3, <1>4, <1>5

LEMMA LimitRowTypes ==
  ASSUME SignInTypeOK, NEW s \in Subject
  PROVE  /\ limits[s] \in Limited
         /\ limits[s].failures \in Nat /\ limits[s].locked \in BOOLEAN /\ limits[s].old \in BOOLEAN
         /\ refused \in Nat /\ started \in Nat /\ FailureLimit[s] \in Nat /\ FailureLimit[s] >= 2
         /\ Bound(s) \in Nat /\ Bound(s) >= FailureLimit[s] + Cardinality(Request)
  BY ConstantFacts DEF SignInTypeOK, Limited, Bound

\* A row that stays is still bounded when no request joins the pending ones, when
\* the row let it pass, or when the refusal it fails with is counted.
LEMMA RowStays ==
  ASSUME SignInTypeOK, SignInTypeOK', CountInv, NEW s \in Subject,
         limits'[s] = limits[s], refused' \in {refused, refused + 1},
         Cardinality(ActiveRequests) \in Nat, Cardinality(ActiveRequests') \in Nat,
         Cardinality(Pending) \in Nat, Cardinality(Pending') \in Nat,
         Cardinality(ActiveRequests') + started <= Cardinality(ActiveRequests) + started',
         \/ Cardinality(Pending') <= Cardinality(Pending)
         \/ ~limits[s].locked /\ Cardinality(Pending') <= Cardinality(Request)
         \/ s = "account" /\ refused' = refused + 1 /\ Cardinality(Pending') <= Cardinality(Pending) + 1
  PROVE  RowBounded(s)'
<1>1. /\ limits[s].failures \in Nat /\ limits[s].locked \in BOOLEAN /\ limits[s].old \in BOOLEAN
      /\ started \in Nat /\ started' \in Nat /\ refused \in Nat /\ Cardinality(Request) \in Nat
      /\ FailureLimit[s] \in Nat
  BY LimitRowTypes, ConstantFacts DEF SignInTypeOK
<1>2. /\ Bound(s) \in Nat /\ Bound(s)' \in Nat /\ Bound(s) <= Bound(s)'
      /\ s = "account" /\ refused' = refused + 1 => Bound(s)' = Bound(s) + 1
      /\ Bound(s) >= FailureLimit[s] + Cardinality(Request)
  BY <1>1 DEF Bound
<1>3. /\ limits[s].failures + Cardinality(ActiveRequests) <= started
      /\ limits[s].failures < Bound(s)
      /\ ~limits[s].old => limits[s].failures + Cardinality(Pending) < Bound(s)
      /\ ~limits[s].old /\ ~limits[s].locked => limits[s].failures < FailureLimit[s]
  BY DEF CountInv, RowBounded
<1>4. limits[s].failures + Cardinality(ActiveRequests') <= started'
  BY <1>1, <1>3
<1>5. ~limits[s].old => limits[s].failures + Cardinality(Pending') < Bound(s)'
  BY <1>1, <1>2, <1>3
<1>6. limits[s].failures < Bound(s)'
  BY <1>1, <1>2, <1>3
<1> QED BY <1>3, <1>4, <1>5, <1>6 DEF RowBounded

\* A row that counts one more failure, of a request that was pending or that the
\* row let pass.
LEMMA RowFails ==
  ASSUME SignInTypeOK, SignInTypeOK', CountInv, NEW s \in Subject,
         limits'[s] = Failed(limits[s], FailureLimit[s]), refused' = refused,
         Cardinality(ActiveRequests) \in Nat, Cardinality(ActiveRequests') \in Nat,
         Cardinality(Pending) \in Nat, Cardinality(Pending') \in Nat,
         Cardinality(Pending') <= Cardinality(Request),
         Cardinality(ActiveRequests') + started + 1 <= Cardinality(ActiveRequests) + started',
         \/ Cardinality(Pending') + 1 <= Cardinality(Pending)
         \/ ~limits[s].locked /\ Cardinality(Pending') + 1 <= Cardinality(Request)
  PROVE  RowBounded(s)'
<1>1. /\ limits[s].failures \in Nat /\ limits[s].locked \in BOOLEAN /\ limits[s].old \in BOOLEAN
      /\ started \in Nat /\ started' \in Nat /\ Cardinality(Request) \in Nat
      /\ FailureLimit[s] \in Nat /\ FailureLimit[s] >= 2 /\ limits[s] \in Limited
  BY LimitRowTypes, ConstantFacts DEF SignInTypeOK
<1>2. /\ Bound(s) \in Nat /\ Bound(s)' = Bound(s)
      /\ Bound(s) >= FailureLimit[s] + Cardinality(Request)
  BY LimitRowTypes DEF Bound
<1>3. /\ limits[s].failures + Cardinality(ActiveRequests) <= started
      /\ limits[s].failures < Bound(s)
      /\ ~limits[s].old => limits[s].failures + Cardinality(Pending) < Bound(s)
      /\ ~limits[s].old /\ ~limits[s].locked => limits[s].failures < FailureLimit[s]
  BY DEF CountInv, RowBounded
<1>4. /\ limits'[s].failures = IF limits[s].old THEN 1 ELSE limits[s].failures + 1
      /\ ~limits'[s].old
      /\ ~limits'[s].locked => limits'[s].failures < FailureLimit[s]
  BY <1>1, FailedRow
<1>5. limits'[s].failures + Cardinality(ActiveRequests') <= started'
  BY <1>1, <1>3, <1>4
<1>6. limits'[s].failures + Cardinality(Pending') < Bound(s)
  BY <1>1, <1>2, <1>3, <1>4
<1>7. limits'[s].failures < Bound(s)
  BY <1>1, <1>2, <1>4, <1>6
<1> QED BY <1>2, <1>4, <1>5, <1>6, <1>7 DEF RowBounded

LEMMA LoginCounted ==
  ASSUME SignInInv, SignInTypeOK', NEW r \in Request, LoginStep(r)
  PROVE  CountInv'
<1> USE DEF SignInInv
<1> DEFINE others == \A q \in Request \ {r} : req'[q] = req[q]
           idle == req[r].pc = "idle"
           pending == req[r].pc \in {"compare", "code", "fail"}
<1>0. /\ others
      /\ \A s \in Subject : RowBounded(s) /\ limits[s].locked \in BOOLEAN
      /\ refused \in Nat /\ started \in Nat /\ refused <= started
      /\ "account" \in Subject /\ "ip" \in Subject
      /\ Cardinality(Request) \in Nat
  BY LoginSlots, LimitRowTypes, ConstantFacts DEF CountInv, Subject
<1>m. /\ Cardinality(ActiveRequests) \in Nat /\ Cardinality(ActiveRequests') \in Nat
      /\ Cardinality(Pending) \in Nat /\ Cardinality(Pending') \in Nat
      /\ Cardinality(Pending') <= Cardinality(Request)
      /\ Cardinality(ActiveRequests') <= Cardinality(ActiveRequests) + 1
      /\ Cardinality(Pending') <= Cardinality(Pending) + 1
      /\ ~idle => Cardinality(ActiveRequests') <= Cardinality(ActiveRequests)
      /\ ~idle /\ req'[r].pc = "idle" => Cardinality(ActiveRequests') + 1 <= Cardinality(ActiveRequests)
      /\ pending \/ req'[r].pc \notin {"compare", "code", "fail"}
              => Cardinality(Pending') <= Cardinality(Pending)
      /\ pending /\ req'[r].pc \notin {"compare", "code", "fail"}
              => Cardinality(Pending') + 1 <= Cardinality(Pending)
      /\ idle => Cardinality(Pending) + 1 <= Cardinality(Request)
  BY <1>0, RequestMoves
<1>1. CASE StartPassword(r)
  <2>1. started' = started + 1 /\ refused' = refused /\ limits' = limits
    BY <1>1 DEF StartPassword, Begin
  <2>2. \A s \in Subject : ~limits[s].locked
    BY <1>1 DEF StartPassword, Limit
  <2>3. \A s \in Subject : RowBounded(s)'
    BY <1>0, <1>m, <2>1, <2>2, RowStays
  <2> QED BY <1>0, <2>1, <2>3 DEF CountInv
<1>2. CASE ComparePassword(r) \/ CheckCode(r)
  <2>1. pending /\ started' = started /\ refused' = refused /\ limits' = limits
    BY <1>2 DEF ComparePassword, CheckCode
  <2>2. ~idle
    BY <2>1
  <2>3. \A s \in Subject : RowBounded(s)'
    BY <1>0, <1>m, <2>1, <2>2, RowStays
  <2> QED BY <1>0, <2>1, <2>3 DEF CountInv
<1>3. CASE StartCode(r)
  <2>1. started' = started + 1 /\ limits' = limits /\ ~limits["ip"].locked
    BY <1>3 DEF StartCode, Begin, Limit
  <2>2. refused' = refused + 1 \/ (refused' = refused /\ ~limits["account"].locked)
    BY <1>3 DEF StartCode, Limit
  <2>3. RowBounded("ip")'
    BY <1>0, <1>m, <2>1, <2>2, RowStays
  <2>4. RowBounded("account")'
    BY <1>0, <1>m, <2>1, <2>2, RowStays
  <2>5. refused' <= started'
    BY <1>0, <2>1, <2>2
  <2> QED BY <2>3, <2>4, <2>5 DEF CountInv, Subject
<1>4. CASE UnknownChallenge(r)
  <2>1. /\ idle /\ started' = started + 1 /\ refused' = refused /\ req' = req
        /\ ~limits["ip"].locked
        /\ limits'["ip"] = Failed(limits["ip"], FailureLimit["ip"])
        /\ limits'["account"] = limits["account"]
    BY <1>4 DEF UnknownChallenge, RecordFailure, Limit, Subject
  <2>2. Cardinality(ActiveRequests') = Cardinality(ActiveRequests) /\ Cardinality(Pending') = Cardinality(Pending)
    BY <2>1 DEF ActiveRequests, Pending
  <2>3. RowBounded("ip")'
    BY <1>0, <1>m, <2>1, <2>2, RowFails
  <2>4. RowBounded("account")'
    BY <1>0, <1>m, <2>1, <2>2, RowStays
  <2> QED BY <1>0, <2>1, <2>3, <2>4 DEF CountInv, Subject
<1>5. CASE FailLogin(r)
  <2>1. /\ pending /\ ~idle /\ started' = started /\ refused' = refused
        /\ \A s \in Subject : limits'[s] = Failed(limits[s], FailureLimit[s])
    BY <1>5 DEF FailLogin, RecordFailure
  <2>2. req'[r].pc = "idle"
    BY <1>5, EndTyped, ConstantsTyped DEF FailLogin
  <2>3. \A s \in Subject : RowBounded(s)'
    BY <1>0, <1>m, <2>1, <2>2, RowFails
  <2> QED BY <1>0, <2>1, <2>3 DEF CountInv
<1>6. CASE IssueChallenge(r) \/ CheckLinuxDoCode(r)
  <2>1. ~idle /\ started' = started /\ refused' = refused /\ limits' = limits
    BY <1>6 DEF IssueChallenge, CheckLinuxDoCode
  <2>2. End(r) \/ To(r, "grant")
    BY <1>6 DEF IssueChallenge, CheckLinuxDoCode
  <2>3. req'[r].pc \in {"idle", "grant"}
    BY <2>2, EndTyped, ToTyped, ConstantsTyped DEF PC, LoginPC
  <2>4. \A s \in Subject : RowBounded(s)'
    BY <1>0, <1>m, <2>1, <2>3, RowStays
  <2> QED BY <1>0, <2>1, <2>4 DEF CountInv
<1>7. CASE IssueSession(r)
  <2>1. /\ ~idle /\ started' = started /\ refused' = refused
        /\ \A s \in Subject : limits'[s] = limits[s] \/ limits'[s] = NoRow
    BY <1>7 DEF IssueSession, SignInTypeOK
  <2>2. req'[r].pc = "idle"
    BY <1>7, EndTyped, ConstantsTyped DEF IssueSession
  <2>3. ASSUME NEW s \in Subject PROVE RowBounded(s)'
    <3>1. CASE limits'[s] = limits[s]
      BY <1>0, <1>m, <2>1, <2>2, <3>1, RowStays
    <3>2. CASE limits'[s] = NoRow
      <4>1. limits'[s].failures = 0
        BY <3>2, ConstantsTyped
      <4>2. Cardinality(ActiveRequests) <= started
        <5>1. limits[s].failures \in Nat /\ limits[s].failures + Cardinality(ActiveRequests) <= started
          BY <1>0, LimitRowTypes DEF RowBounded
        <5> QED BY <1>0, <1>m, <5>1
      <4>3. Bound(s)' = Bound(s) /\ Bound(s) \in Nat /\ FailureLimit[s] \in Nat /\ FailureLimit[s] >= 2
            /\ Bound(s) >= FailureLimit[s] + Cardinality(Request)
        BY <2>1, LimitRowTypes DEF Bound
      <4>4. 0 + Cardinality(ActiveRequests') <= started' /\ 0 + Cardinality(Pending') < Bound(s) /\ 0 < Bound(s)
            /\ 0 < FailureLimit[s]
        BY <1>0, <1>m, <2>1, <4>2, <4>3
      <4> QED BY <4>1, <4>3, <4>4 DEF RowBounded
    <3> QED BY <2>1, <3>1, <3>2
  <2> QED BY <1>0, <2>1, <2>3 DEF CountInv
<1>8. CASE FinishLinuxDoLogin(r) \/ StartLinuxDoCode(r)
  <2>1. started' = started + 1 /\ refused' = refused /\ limits' = limits
    BY <1>8 DEF FinishLinuxDoLogin, StartLinuxDoCode, Begin
  <2>2. req'[r].pc \notin {"compare", "code", "fail"}
    <3>1. CASE FinishLinuxDoLogin(r)
      <4>1. PICK pc \in {"challenge", "grant"} :
              Begin(r, [NoReq EXCEPT !.proof = Now, !.flag = TRUE, !.pc = pc])
        BY <3>1 DEF FinishLinuxDoLogin
      <4>2. req'[r] = [NoReq EXCEPT !.proof = Now, !.flag = TRUE, !.pc = pc]
        BY <4>1, BeginSlots
      <4>3. req'[r].pc = pc
        BY <4>2 DEF NoReq
      <4> QED BY <4>3
    <3>2. CASE StartLinuxDoCode(r)
      <4>1. PICK c \in challenges :
              Begin(r, [NoReq EXCEPT !.pc = "externalCode", !.proof = c, !.from = c,
                                     !.secret = account.secret, !.flag = TRUE])
        BY <3>2 DEF StartLinuxDoCode
      <4>2. req'[r] = [NoReq EXCEPT !.pc = "externalCode", !.proof = c, !.from = c,
                                    !.secret = account.secret, !.flag = TRUE]
        BY <4>1, BeginSlots
      <4>3. req'[r].pc = "externalCode"
        BY <4>2 DEF NoReq
      <4> QED BY <4>3
    <3> QED BY <1>8, <3>1, <3>2
  <2>3. \A s \in Subject : RowBounded(s)'
    BY <1>0, <1>m, <2>1, <2>2, RowStays
  <2> QED BY <1>0, <2>1, <2>3 DEF CountInv
<1> QED BY <1>1, <1>2, <1>3, <1>4, <1>5, <1>6, <1>7, <1>8 DEF LoginStep

LEMMA CountsKept ==
  ASSUME SignInInv, SignInTypeOK', SignInNext
  PROVE  CountInv'
<1> USE DEF SignInInv
<1>0. /\ \A s \in Subject : RowBounded(s)
      /\ refused \in Nat /\ started \in Nat /\ refused <= started
  BY ConstantFacts DEF CountInv, SignInTypeOK
<1>1. ASSUME NEW r \in Request, UserStep(r) PROVE CountInv'
  <2>1. /\ \A q \in Request \ {r} : req'[q] = req[q]
        /\ req'[r].pc \notin {"compare", "code", "fail"}
        /\ limits' = limits /\ refused' = refused
        /\ \/ started' = started + 1 /\ req[r].pc = "idle"
           \/ started' = started /\ req[r].pc # "idle"
    BY <1>1, UserSlots
  <2>2. /\ Cardinality(ActiveRequests) \in Nat /\ Cardinality(ActiveRequests') \in Nat
        /\ Cardinality(Pending) \in Nat /\ Cardinality(Pending') \in Nat
        /\ Cardinality(Pending') <= Cardinality(Pending)
        /\ Cardinality(ActiveRequests') <= Cardinality(ActiveRequests) + 1
        /\ req[r].pc # "idle" => Cardinality(ActiveRequests') <= Cardinality(ActiveRequests)
    BY <2>1, RequestMoves
  <2>3. Cardinality(ActiveRequests') + started <= Cardinality(ActiveRequests) + started' /\ refused' <= started'
    BY <1>0, <2>1, <2>2
  <2>4. \A s \in Subject : RowBounded(s)'
    BY <2>1, <2>2, <2>3, RowStays
  <2> QED BY <2>3, <2>4 DEF CountInv
<1>2. ASSUME UNCHANGED <<limits, refused, started>>, \A r \in Request : req'[r].pc = req[r].pc
      PROVE  CountInv'
  <2>1. ActiveRequests' = ActiveRequests /\ Pending' = Pending
    BY <1>2 DEF ActiveRequests, Pending
  <2> QED BY <1>2, <2>1 DEF CountInv, RowBounded, Bound
<1>3. CASE ResetPassword \/ ResetTwoFactor
  BY <1>2, <1>3, ContainTyped DEF ResetPassword, ResetTwoFactor
<1>4. CASE CreateToken \/ DeleteToken \/ StepPasses \/ \E p \in Proof : Logout(p) \/ ChallengeExpires(p)
  BY <1>2, <1>4 DEF CreateToken, DeleteToken, StepPasses, Logout, ChallengeExpires
<1>5. ASSUME NEW t \in Subject, WindowEnds(t) PROVE CountInv'
  <2>1. UNCHANGED <<req, refused, started>>
    BY <1>5 DEF WindowEnds
  <2>2. ActiveRequests' = ActiveRequests /\ Pending' = Pending
    BY <2>1 DEF ActiveRequests, Pending
  <2>3. ASSUME NEW s \in Subject
        PROVE  limits'[s] = limits[s] \/ (limits'[s].failures = limits[s].failures /\ limits'[s].old)
    <3>1. limits[s] \in Limited
      BY LimitRowTypes
    <3> QED BY <1>5, <3>1 DEF WindowEnds, SignInTypeOK, Limited
  <2>4. ASSUME NEW s \in Subject PROVE RowBounded(s)'
    <3>1. Bound(s)' = Bound(s)
      BY <2>1 DEF Bound
    <3> QED BY <1>0, <2>1, <2>2, <2>3, <3>1 DEF RowBounded
  <2> QED BY <1>0, <2>1, <2>4 DEF CountInv
<1> QED BY <1>1, <1>3, <1>4, <1>5, LoginCounted DEF SignInNext

-----------------------------------------------------------------------------
(* The invariant *)

LEMMA SignInStart == SignInInit => SignInInv
<1> SUFFICES ASSUME SignInInit PROVE SignInInv
  OBVIOUS
<1> DEFINE first == [since |-> 0, late |-> FALSE]
<1>1. first \in Proof /\ 0 \in Era /\ 0 \in Secret /\ 1 \in Secret /\ 0 \in Counter
      /\ 1 \in 1 .. MaxSteps + 1 /\ 0 \in 0 .. MaxStarts
  BY ConstantFacts, SignInAssumption DEF Proof, Era, Secret, Counter
<1>2. /\ account \in [password : {first}, secret : {0, 1}, enabled : BOOLEAN, counter : {0}]
      /\ account.enabled => account.secret = 1
      /\ confirmed = account.secret
  BY DEF SignInInit
<1>3. /\ limits = [s \in Subject |-> NoRow] /\ sessions \subseteq {first} /\ challenges = {}
      /\ token = NoToken /\ req = [r \in Request |-> NoReq] /\ era = 0 /\ clock = 1
      /\ accepted = [step \in Counter |-> 0] /\ overlapped = FALSE /\ refused = 0 /\ started = 0
  BY DEF SignInInit
<1>4. SignInTypeOK
  <2>1. account \in [password : Proof, secret : Secret, enabled : BOOLEAN, counter : Counter]
    BY <1>1, <1>2
  <2>2. confirmed \in Secret
    BY <1>1, <1>2
  <2> HIDE DEF first
  <2> QED BY <1>1, <1>3, <2>1, <2>2, ConstantsTyped DEF SignInTypeOK
<1>5. \A r \in Request : req[r].pc = "idle"
  BY <1>3, ConstantsTyped
<1>6. CountInv
  <2>1. ActiveRequests = {} /\ Pending = {}
    BY <1>5 DEF ActiveRequests, Pending
  <2>2. Cardinality(ActiveRequests) = 0 /\ Cardinality(Pending) = 0
    BY <2>1, FS_EmptySet
  <2>3. ASSUME NEW s \in Subject PROVE RowBounded(s)
    <3>1. limits[s].failures = 0 /\ FailureLimit[s] \in Nat /\ FailureLimit[s] >= 2
      BY <1>3, ConstantsTyped, ConstantFacts
    <3>2. Bound(s) \in Nat /\ 0 < Bound(s)
      BY <1>3, <3>1, ConstantFacts DEF Bound
    <3> QED BY <1>3, <2>2, <3>1, <3>2 DEF RowBounded
  <2> QED BY <1>3, <2>3 DEF CountInv
<1>7. CodeInv
  BY <1>3 DEF CodeInv
<1>8. EraInv
  BY <1>2, <1>3, <1>5, ConstantsTyped DEF EraInv, Contained
<1>9. FactorInv
  BY <1>2, <1>5 DEF FactorInv, FactorPC
<1> QED BY <1>4, <1>6, <1>7, <1>8, <1>9 DEF SignInInv

LEMMA SignInStep == SignInInv /\ [SignInNext]_signInVars => SignInInv'
<1>1. ASSUME SignInInv, SignInNext PROVE SignInInv'
  BY <1>1, TypesKept, CountsKept, CodesKept, ErasKept, FactorsKept DEF SignInInv
<1>2. ASSUME SignInInv, UNCHANGED signInVars PROVE SignInInv'
  BY <1>2 DEF signInVars, SignInInv, SignInTypeOK, CountInv, RowBounded, Bound, ActiveRequests, Pending, CodeInv,
     EraInv, Contained, FactorInv, HoldsSecret
<1> QED BY <1>1, <1>2

LEMMA SignInAlways == SignInSpec => []SignInInv
  BY SignInStart, SignInStep, PTL DEF SignInSpec

\* The variables of SignIn keep their types.
THEOREM SignInTypeCorrect == SignInSpec => []SignInTypeOK
<1>1. SignInInv => SignInTypeOK
  BY DEF SignInInv
<1> QED BY <1>1, SignInAlways, PTL

\* Whatever requests of handleLogin, linuxdo_auth.go and two_factor.go run at the
\* same time, and however many: the failures of a window stay within the limit and
\* the requests behind its check, no code signs in twice, what is in force after a
\* reset was proven after it or was pending, and an enabled second factor is the
\* confirmed one.
THEOREM SignInIsSafe == SignInSpec => []SignInSafe
<1>1. SignInInv => SignInSafe
  <2> SUFFICES ASSUME SignInInv PROVE SignInSafe
    OBVIOUS
  <2>1. FailuresBounded
    BY DEF SignInInv, CountInv, RowBounded, Bound, FailuresBounded
  <2>2. CodeAcceptedOnce
    BY DEF SignInInv, CodeInv, CodeAcceptedOnce
  <2>3. ResetContains
    BY DEF SignInInv, EraInv, ResetContains
  <2>4. EnabledIsConfirmed
    BY DEF SignInInv, FactorInv, EnabledIsConfirmed
  <2> QED BY <2>1, <2>2, <2>3, <2>4 DEF SignInSafe
<1> QED BY <1>1, SignInAlways, PTL


-----------------------------------------------------------------------------
(* The components about accounts, side by side *)

\* A step of AccountsSpec is one of each component, or leaves it alone.
LEMMA AccountsStep ==
  [AccountsNext]_accountVars =>
    /\ [SignInNext]_signInVars /\ [OwnershipNext]_ownershipVars
    /\ [RegistrationNext]_registrationVars /\ [PermissionsNext]_permissionsVars
BY DEF AccountsNext, accountVars

\* Put side by side, every component keeps its types and its promises, as it does on
\* its own: for any number of requests, persons, realms, applicants, members, groups and managers.
THEOREM AccountComponentsAreSafe ==
  AccountsSpec => [](AccountsTypeOK /\ SignInSafe /\ OwnershipSafe /\ RegistrationSafe /\ PermissionsSafe)
<1>1. AccountsInit => SignInInit /\ OwnershipInit /\ RegistrationInit /\ PermissionsInit
  BY DEF AccountsInit
<1>2. AccountsSpec => SignInSpec /\ OwnershipSpec /\ RegistrationSpec /\ PermissionsSpec
  BY <1>1, AccountsStep, PTL
     DEF AccountsSpec, SignInSpec, OwnershipSpec, RegistrationSpec, PermissionsSpec
<1>3. QED
  BY <1>2, SignInTypeCorrect, SignInIsSafe, OwnershipTypeCorrect, OwnershipIsSafe, RegistrationTypeCorrect,
     RegistrationIsSafe, PermissionsTypeCorrect, PermissionsAreSafe, PTL DEF AccountsTypeOK
=============================================================================
