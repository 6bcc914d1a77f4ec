--------------------------- MODULE MailboxProofs ----------------------------
(* Theorems about what comes into a mailbox: the import of an external       *)
(* account, for any number of runs, messages and batches, and the rules and  *)
(* blocked senders that receive a message, for any rules the user has.       *)
EXTENDS ExternalImap, MailRules, FiniteSetTheorems, SequenceTheorems, WellFoundedInduction, TLAPS

-----------------------------------------------------------------------------
(* External accounts: the inductive invariant *)

Run == [pc : SyncPC, sync : BOOLEAN, mailbox : Boxes, server : Server, token : Nat, last : 0 .. MaxMails,
        items : SUBSET Item, full : BOOLEAN, count : 0 .. MaxPerRun]
Places == {"folder", "elsewhere", "deleted"}
IsImport(i) ==
  /\ i.era \in Nat /\ i.uid \in Nat /\ i.server \in Server /\ i.letter \in RemoteMail
  /\ i.mailbox \in Boxes /\ i.place \in Places
  /\ i = [era |-> i.era, uid |-> i.uid, server |-> i.server, letter |-> i.letter, copy |-> i.copy,
          mailbox |-> i.mailbox, place |-> i.place]
FolderType == [era : Nat, next : Nat, came : 0 .. MaxMails, uid : [RemoteMail -> 0 .. MaxMails]]
RemoteType == [Server -> FolderType]
Log == [steps : SUBSET {0, 1}, issued : Nat, dropped : BOOLEAN, revived : BOOLEAN, moved : BOOLEAN,
        wrongMark : BOOLEAN, turns : 0 .. MaxTurns]

ImapTypes ==
  /\ remote \in RemoteType
  /\ ximap \in [status : {"none", "here", "gone"}, enabled : BOOLEAN, local : BOOLEAN,
                mailbox : Boxes, server : Server, token : Nat, expiry : {"fresh", "near", "over"}]
  /\ progress \in [known : BOOLEAN, last : 0 .. MaxMails, mailbox : Boxes]
  /\ \A i \in imports : IsImport(i)
  /\ syncing \in [Runner -> Run]
  /\ ximapLog \in Log

\* A server gives a number once; as long as it has not numbered the folder
\* anew, the number of a message is when it came.
FolderInv(s) ==
  /\ remote[s].era > 0 /\ remote[s].next > 0 /\ remote[s].next <= remote[s].came + 1
  /\ \A l \in Present(s) : l <= remote[s].came /\ remote[s].uid[l] < remote[s].next
  /\ \A k, l \in Present(s) : remote[s].uid[k] = remote[s].uid[l] => k = l
  /\ remote[s].era = 1 => remote[s].next = remote[s].came + 1 /\ \A l \in Present(s) : remote[s].uid[l] = l
RemoteInv == \A s \in Server : FolderInv(s)

\* What a run or a key knows of a message was so when it was read.
TellsOf(x) ==
  LET s == x.server IN
  /\ s \in Server
  /\ x.era \in 1 .. remote[s].era /\ x.letter \in 1 .. remote[s].came /\ x.uid \in 1 .. MaxMails
  /\ x.era = remote[s].era => remote[s].uid[x.letter] \in {0, x.uid}
  /\ x.era = 1 => x.uid = x.letter
Told == imports \cup UNION {syncing[r].items : r \in Runner}
ToldInv ==
  /\ \A x \in Told : TellsOf(x)
  /\ \A x, y \in Told : x.server = y.server /\ x.era = y.era /\ x.letter = y.letter => x.uid = y.uid

\* Without an edit of the server, all runs and messages are of the first.
StayInv ==
  ~ximapLog.moved => /\ ximap.server = "first" /\ \A r \in Runner : syncing[r].server = "first"
                     /\ \A x \in Told : x.server = "first"

\* The items of a run: as many as it may still take.
RunOK(run) ==
  /\ run.pc \in {"open", "refresh", "token", "cached", "folder"} => run.items = {}
  /\ run.pc \in {"items", "insert"} => run.items # {}
  /\ IsFiniteSet(run.items) /\ run.count + Cardinality(run.items) <= MaxPerRun

\* Nothing is passed over while the account stays with its server and the
\* numbers there stand: not by the row of the folder, not by a run, whose items
\* leave out no message below them.
Steady == remote["first"].era = 1 /\ ~ximapLog.moved
Letters == Present("first")
Came == remote["first"].came
Imported(l) == \E i \in imports : i.letter = l /\ i.server = "first"
Covers(run) ==
  /\ run.last <= Came
  /\ \A l \in Letters : l <= run.last => Imported(l)
  /\ \A x \in run.items, l \in Letters :
       l <= x.uid => l <= run.last \/ Imported(l) \/ \E y \in run.items : y.uid = l
CoverInv ==
  /\ ~Here => progress.last = 0
  /\ ximap.status = "none" => \A r \in Runner : syncing[r] = IdleRun
  /\ Steady /\ Here =>
       /\ progress.last <= Came
       /\ \A l \in Letters : l <= progress.last => Imported(l)
       /\ \A r \in Runner : Covers(syncing[r])

\* With a provider that rotates, only the run that got the newest token has it
\* until the token is stored.
TokenInv ==
  /\ ximap.token <= ximapLog.issued /\ \A r \in Runner : syncing[r].token <= ximapLog.issued
  /\ 1 \notin ximapLog.steps \/ 0 \in ximapLog.steps => ximapLog.issued = 0
  /\ \A r \in Runner : syncing[r].pc = "token" =>
       /\ syncing[r].token = ximapLog.issued /\ ximapLog.steps \in {{0}, {1}}
       /\ ximapLog.steps = {1} => /\ ximap.token < ximapLog.issued
                                  /\ \A q \in Runner \ {r} : syncing[q].token < ximapLog.issued
  /\ \/ ximap.token = ximapLog.issued \/ ximapLog.dropped \/ ximapLog.revived \/ ximap.status = "gone"
     \/ \E r \in Runner : syncing[r].pc = "token"

ExternalImapInv ==
  /\ ImapTypes /\ RemoteInv /\ ToldInv /\ StayInv /\ (\A r \in Runner : RunOK(syncing[r]))
  /\ CoverInv /\ TokenInv /\ ImportedOnce /\ MarkReachesIts

-----------------------------------------------------------------------------
(* Lemmas about numbers and counts *)

LEMMA MinMax ==
  ASSUME NEW a \in Nat, NEW b \in Nat
  PROVE  Max({a, b}) = (IF a >= b THEN a ELSE b) /\ Min({a, b}) = (IF a <= b THEN a ELSE b)
<1>1. Max({a, b}) = (IF a >= b THEN a ELSE b)
  <2>1. \E x \in {a, b} : \A y \in {a, b} : x >= y
    OBVIOUS
  <2>2. Max({a, b}) \in {a, b} /\ \A y \in {a, b} : Max({a, b}) >= y
    BY <2>1 DEF Max
  <2> QED
    BY <2>2
<1>2. Min({a, b}) = (IF a <= b THEN a ELSE b)
  <2>1. \E x \in {a, b} : \A y \in {a, b} : x <= y
    OBVIOUS
  <2>2. Min({a, b}) \in {a, b} /\ \A y \in {a, b} : Min({a, b}) <= y
    BY <2>1 DEF Min
  <2> QED
    BY <2>2
<1> QED
  BY <1>1, <1>2

\* Of some items one has the lowest UID.
LEMMA LowestItem ==
  ASSUME NEW S \in SUBSET Item, S # {}
  PROVE  \E i \in S : \A k \in S : i.uid <= k.uid
<1> DEFINE uids == {i.uid : i \in S}
<1>1. uids \subseteq Nat /\ uids # {}
  BY DEF Item
<1>2. PICK u \in uids : \A v \in uids : <<v, u>> \notin OpToRel(<, Nat)
  <2> HIDE DEF uids
  <2> QED
    BY <1>1, NatLessThanWellFounded, WFMin
<1>3. \A v \in uids : u <= v
  <2> SUFFICES ASSUME NEW v \in uids PROVE u <= v
    OBVIOUS
  <2>1. u \in Nat /\ v \in Nat
    BY <1>1
  <2>2. ~(v < u)
    BY <2>1, <1>2 DEF OpToRel
  <2> QED
    BY <2>1, <2>2
<1> QED
  BY <1>3

\* At most n have fewer than n below them, and with one of them goes every
\* lower one.
Few(u, S, n) == {l \in S : Cardinality({k \in S : u[k] < u[l]}) < n}

LEMMA LowestFew ==
  ASSUME NEW M, NEW S \in SUBSET M, IsFiniteSet(S), NEW u \in [M -> Nat],
         \A k, l \in S : u[k] = u[l] => k = l, NEW n \in Nat
  PROVE  /\ IsFiniteSet(Few(u, S, n)) /\ Cardinality(Few(u, S, n)) <= n
         /\ \A l \in Few(u, S, n), m \in S : u[m] <= u[l] => m \in Few(u, S, n)
<1> DEFINE below(l) == {k \in S : u[k] < u[l]}
           rank(l) == Cardinality(below(l))
           few == {l \in S : rank(l) < n}
<1>1. \A l \in S : IsFiniteSet(below(l)) /\ rank(l) \in Nat
  BY FS_Subset, FS_CardinalityType
<1>2. \A l, m \in S : u[m] <= u[l] => rank(m) <= rank(l)
  <2> SUFFICES ASSUME NEW l \in S, NEW m \in S, u[m] <= u[l] PROVE rank(m) <= rank(l)
    OBVIOUS
  <2>1. u[l] \in Nat /\ u[m] \in Nat /\ \A k \in S : u[k] \in Nat
    OBVIOUS
  <2>2. below(m) \in SUBSET below(l)
    BY <2>1
  <2> HIDE DEF below
  <2> QED
    BY <1>1, <2>2, FS_Subset
<1>3. \A l, m \in S : u[m] < u[l] => rank(m) < rank(l)
  <2> SUFFICES ASSUME NEW l \in S, NEW m \in S, u[m] < u[l] PROVE rank(m) < rank(l)
    OBVIOUS
  <2>1. u[l] \in Nat /\ u[m] \in Nat /\ \A k \in S : u[k] \in Nat
    OBVIOUS
  <2>2. below(m) \in SUBSET below(l) /\ m \in below(l) /\ m \notin below(m)
    BY <2>1
  <2>3. rank(m) <= rank(l) /\ (rank(l) = rank(m) => below(l) = below(m))
    <3> HIDE DEF below
    <3> QED
      BY <1>1, <2>2, FS_Subset
  <2>4. rank(l) # rank(m)
    BY <2>2, <2>3
  <2> QED
    BY <1>1, <2>3, <2>4
<1>4. \A l, m \in S : rank(l) = rank(m) => l = m
  <2> SUFFICES ASSUME NEW l \in S, NEW m \in S, rank(l) = rank(m) PROVE l = m
    OBVIOUS
  <2>1. u[l] \in Nat /\ u[m] \in Nat /\ rank(l) \in Nat
    BY <1>1
  <2>2. u[l] = u[m]
    <3> HIDE DEF rank
    <3> QED
      BY <1>3, <2>1
  <2> QED
    BY <2>2
<1>5. few \in SUBSET S /\ IsFiniteSet(few)
  BY FS_Subset
<1>6. Cardinality(few) <= n
  <2> DEFINE f == [l \in few |-> rank(l)]
  <2>1. f \in [few -> 0 .. n - 1]
    BY <1>1
  <2>2. f \in Injection(few, 0 .. n - 1)
    <3> HIDE DEF rank
    <3> QED
      BY <2>1, <1>4 DEF Injection, IsInjective
  <2>3. IsFiniteSet(0 .. n - 1) /\ Cardinality(0 .. n - 1) = n
    BY FS_Interval
  <2> HIDE DEF f, few
  <2> QED
    BY <2>2, <2>3, FS_Injection
<1>7. \A l \in few, m \in S : u[m] <= u[l] => m \in few
  <2> SUFFICES ASSUME NEW l \in few, NEW m \in S, u[m] <= u[l] PROVE m \in few
    OBVIOUS
  <2>1. rank(m) <= rank(l) /\ rank(l) < n /\ rank(m) \in Nat /\ rank(l) \in Nat
    <3> HIDE DEF rank
    <3> QED
      BY <1>1, <1>2
  <2> QED
    BY <2>1
<1>8. few = Few(u, S, n)
  BY DEF Few
<1> HIDE DEF few
<1> QED
  BY <1>5, <1>6, <1>7, <1>8

\* The ranks of finitely many numbers are theirs alone.
LEMMA Ranks ==
  ASSUME NEW n \in Nat, NEW S \in SUBSET (1 .. n)
  PROVE  /\ IsFiniteSet(S) /\ Cardinality(S) \in 0 .. n
         /\ \A l \in S : Cardinality({k \in S : k <= l}) \in 1 .. Cardinality(S)
         /\ \A l, m \in S : Cardinality({k \in S : k <= l}) = Cardinality({k \in S : k <= m}) => l = m
<1> DEFINE upTo(l) == {k \in S : k <= l}
<1>1. IsFiniteSet(1 .. n) /\ Cardinality(1 .. n) = n
  BY FS_Interval
<1>2. IsFiniteSet(S) /\ Cardinality(S) \in 0 .. n
  <2>1. IsFiniteSet(S) /\ Cardinality(S) <= n
    BY <1>1, FS_Subset
  <2>2. Cardinality(S) \in Nat
    BY <2>1, FS_CardinalityType
  <2> QED
    BY <2>1, <2>2
<1>3. \A l \in S : IsFiniteSet(upTo(l)) /\ Cardinality(upTo(l)) \in 0 .. Cardinality(S)
  <2> SUFFICES ASSUME NEW l \in S PROVE IsFiniteSet(upTo(l)) /\ Cardinality(upTo(l)) \in 0 .. Cardinality(S)
    OBVIOUS
  <2>1. upTo(l) \in SUBSET S
    OBVIOUS
  <2> HIDE DEF upTo
  <2> QED
    BY <1>2, <2>1, FS_Subset, FS_CardinalityType
<1>4. \A l \in S : Cardinality(upTo(l)) # 0
  <2> SUFFICES ASSUME NEW l \in S PROVE Cardinality(upTo(l)) # 0
    OBVIOUS
  <2>1. l \in Nat /\ l \in upTo(l)
    OBVIOUS
  <2> HIDE DEF upTo
  <2> QED
    BY <1>3, <2>1, FS_EmptySet
<1>5. \A l, m \in S : l < m => Cardinality(upTo(l)) # Cardinality(upTo(m))
  <2> SUFFICES ASSUME NEW l \in S, NEW m \in S, l < m PROVE Cardinality(upTo(l)) # Cardinality(upTo(m))
    OBVIOUS
  <2>0. S \subseteq Nat /\ l \in Nat /\ m \in Nat
    OBVIOUS
  <2>1. upTo(l) \in SUBSET upTo(m) /\ m \in upTo(m) /\ m \notin upTo(l)
    <3>1. \A k \in S : k <= l => k <= m
      BY <2>0
    <3>2. m <= m /\ ~(m <= l)
      BY <2>0
    <3> QED
      BY <3>1, <3>2, Zenon
  <2> HIDE DEF upTo
  <2> QED
    BY <1>3, <2>1, FS_Subset
<1>6. \A l, m \in S : Cardinality(upTo(l)) = Cardinality(upTo(m)) => l = m
  <2> SUFFICES ASSUME NEW l \in S, NEW m \in S, Cardinality(upTo(l)) = Cardinality(upTo(m)) PROVE l = m
    OBVIOUS
  <2>1. ~(l < m) /\ ~(m < l)
    <3> HIDE DEF upTo
    <3> QED
      BY <1>5
  <2> QED
    BY <2>1
<1>7. \A l \in S : Cardinality(upTo(l)) \in 1 .. Cardinality(S)
  <2> HIDE DEF upTo
  <2> QED
    BY <1>2, <1>3, <1>4
<1> QED
  BY <1>2, <1>6, <1>7

-----------------------------------------------------------------------------
(* What an action does to a run *)

LEMMA Constants == MaxMails \in Nat /\ BatchSize \in Nat /\ MaxPerRun \in Nat /\ MaxTurns \in Nat
  BY ExternalImapAssumption

LEMMA IdleFacts ==
  /\ IdleRun \in Run /\ IdleRun.pc = "idle" /\ IdleRun.token = 0 /\ IdleRun.last = 0
  /\ IdleRun.items = {} /\ IdleRun.count = 0 /\ IdleRun.server = "first"
<1>1. "one" \in Boxes /\ "idle" \in SyncPC /\ "first" \in Server
  BY DEF Boxes, SyncPC, Server
<1>2. IdleRun \in Run
  BY <1>1, Constants DEF IdleRun, Run
<1> QED
  BY <1>2 DEF IdleRun

LEMMA LetterFacts ==
  ASSUME ImapTypes
  PROVE  /\ Came \in Nat /\ Came <= MaxMails
         /\ Letters \in SUBSET RemoteMail /\ \A l \in Letters : l \in Nat /\ l > 0
<1>1. remote["first"] \in FolderType
  BY DEF ImapTypes, RemoteType, Server
<1> QED
  BY <1>1, Constants DEF FolderType, Came, Letters, Present, RemoteMail

OpenRuns == {[IdleRun EXCEPT !.pc = "open", !.mailbox = ximap.mailbox, !.server = ximap.server, !.token = ximap.token],
             [IdleRun EXCEPT !.pc = "open", !.sync = FALSE, !.token = ximap.token]}

LEMMA OpenedRun ==
  ASSUME ImapTypes, NEW run \in OpenRuns
  PROVE  /\ run \in Run /\ run.pc = "open" /\ run.token = ximap.token /\ run.last = 0
         /\ run.items = {} /\ run.count = 0 /\ run.server \in {"first", ximap.server}
<1>1. PICK sync \in BOOLEAN, box \in Boxes, server \in {"first", ximap.server} :
        run = [pc |-> "open", sync |-> sync, mailbox |-> box, server |-> server, token |-> ximap.token,
               last |-> 0, items |-> {}, full |-> FALSE, count |-> 0]
  <2>1. ximap.mailbox \in Boxes /\ "one" \in Boxes
    BY DEF ImapTypes, Boxes
  <2>2. CASE run = [IdleRun EXCEPT !.pc = "open", !.mailbox = ximap.mailbox, !.server = ximap.server, !.token = ximap.token]
    <3>1. run = [pc |-> "open", sync |-> TRUE, mailbox |-> ximap.mailbox, server |-> ximap.server,
                 token |-> ximap.token, last |-> 0, items |-> {}, full |-> FALSE, count |-> 0]
      BY <2>2, Zenon DEF IdleRun
    <3> QED
      BY <2>1, <3>1
  <2>3. CASE run = [IdleRun EXCEPT !.pc = "open", !.sync = FALSE, !.token = ximap.token]
    <3>1. run = [pc |-> "open", sync |-> FALSE, mailbox |-> "one", server |-> "first",
                 token |-> ximap.token, last |-> 0, items |-> {}, full |-> FALSE, count |-> 0]
      BY <2>3, Zenon DEF IdleRun
    <3> QED
      BY <2>1, <3>1
  <2> QED
    BY <2>2, <2>3 DEF OpenRuns
<1>2. ximap.token \in Nat /\ server \in Server
  BY DEF ImapTypes, Server
<1> QED
  BY <1>1, <1>2, Constants DEF Run, SyncPC

LEMMA PutRun ==
  ASSUME ImapTypes, NEW r \in Runner, NEW run \in Run, Put(r, run)
  PROVE  /\ syncing' \in [Runner -> Run] /\ syncing'[r] = run
         /\ \A q \in Runner \ {r} : syncing'[q] = syncing[q]
  BY DEF Put, ImapTypes

LEMMA GoToRun ==
  ASSUME NEW run \in Run, NEW pc \in SyncPC
  PROVE  LET next == [run EXCEPT !.pc = pc]
         IN  /\ next \in Run /\ next.pc = pc /\ next.token = run.token /\ next.last = run.last
             /\ next.items = run.items /\ next.count = run.count /\ next.server = run.server
  BY DEF Run

LEMMA NextItemIs ==
  ASSUME ImapTypes, NEW r \in Runner, syncing[r].items # {}
  PROVE  /\ NextItem(r) \in syncing[r].items /\ NextItem(r) \in Item
         /\ \A k \in syncing[r].items : NextItem(r).uid <= k.uid
<1>1. syncing[r].items \in SUBSET Item
  BY DEF ImapTypes, Run
<1>2. \E i \in syncing[r].items : \A k \in syncing[r].items : i.uid <= k.uid
  BY <1>1, LowestItem
<1>3. NextItem(r) \in syncing[r].items /\ \A k \in syncing[r].items : NextItem(r).uid <= k.uid
  BY <1>2 DEF NextItem
<1> QED
  BY <1>1, <1>3

\* Nobody runs for an account that was not made yet.
LEMMA BusyHasAccount ==
  ASSUME ExternalImapInv, NEW r \in Runner, syncing[r].pc # "idle"
  PROVE  ximap.status # "none"
  BY IdleFacts DEF ExternalImapInv, CoverInv

\* A run that goes on with what it had, or stops.
GoesOn(old, new) ==
  /\ new.items \in {{}, old.items} /\ new.last \in {0, old.last} /\ new.count \in {0, old.count}
  /\ new.items # {} => new.last = old.last /\ new.count = old.count
  /\ new.pc \in {"open", "refresh", "token", "cached", "folder"} => new.items = {}
  /\ new.pc \in {"items", "insert"} => new.items # {}

LEMMA GoesOnOK ==
  ASSUME NEW old \in Run, NEW new \in Run, GoesOn(old, new), RunOK(old)
  PROVE  RunOK(new)
<1>1. IsFiniteSet({}) /\ Cardinality({}) = 0
  BY FS_EmptySet
<1>2. IsFiniteSet(new.items)
  BY <1>1, Zenon DEF GoesOn, RunOK
<1>3. new.count + Cardinality(new.items) <= MaxPerRun
  <2>1. CASE new.items = {}
    <3>1. new.count \in 0 .. MaxPerRun
      BY DEF Run
    <3>2. Cardinality(new.items) = 0
      BY <1>1, <2>1, Zenon
    <3> QED
      BY <3>1, <3>2, Constants
  <2>2. CASE new.items # {}
    BY <2>2, Zenon DEF GoesOn, RunOK
  <2> QED
    BY <2>1, <2>2
<1> QED
  BY <1>2, <1>3, Zenon DEF GoesOn, RunOK

LEMMA GoesOnCovers ==
  ASSUME ImapTypes, RemoteInv, NEW old \in Run, NEW new \in Run, GoesOn(old, new), Covers(old)
  PROVE  Covers(new)
<1>1. Came \in Nat /\ \A l \in Letters : l \in Nat /\ l > 0
  BY LetterFacts
<1>2. old.last \in Nat /\ new.last \in Nat
  BY DEF Run
<1>3. new.last \in {0, old.last} /\ (new.items = {} \/ (new.items = old.items /\ new.last = old.last))
  <2>1. new.last \in {0, old.last} /\ new.items \in {{}, old.items} /\ (new.items # {} => new.last = old.last)
    BY Zenon DEF GoesOn
  <2> QED
    BY <2>1, Zenon
<1>4. new.last <= Came
  BY <1>1, <1>2, <1>3 DEF Covers
<1>5. \A l \in Letters : l <= new.last => Imported(l)
  <2>1. CASE new.last = 0
    BY <1>1, <2>1
  <2>2. CASE new.last = old.last
    BY <2>2, Zenon DEF Covers
  <2> QED
    BY <1>3, <2>1, <2>2
<1>6. ASSUME NEW x \in new.items, NEW l \in Letters, l <= x.uid
      PROVE  l <= new.last \/ Imported(l) \/ \E y \in new.items : y.uid = l
  BY <1>3, <1>6, Zenon DEF Covers
<1> QED
  BY <1>4, <1>5, <1>6, Zenon DEF Covers

LEMMA CoversFrame ==
  ASSUME remote' = remote, \A l \in Letters : Imported(l) => Imported(l)', NEW run, Covers(run)
  PROVE  Covers(run)'
<1>1. Letters' = Letters /\ Came' = Came
  BY DEF Letters, Present, Came
<1> QED
  BY <1>1 DEF Covers

\* A step of a run that neither takes, skips nor stores an item.
Plain(r) ==
  /\ UNCHANGED <<remote, imports, progress>>
  /\ ximap'.status = ximap.status /\ ximap'.server = ximap.server
  /\ ximapLog'.wrongMark = ximapLog.wrongMark /\ ximapLog'.moved = ximapLog.moved
  /\ ximap.status # "none"
  /\ syncing'[r].server \in {"first", syncing[r].server, ximap.server}
  /\ syncing' \in [Runner -> Run] /\ \A q \in Runner \ {r} : syncing'[q] = syncing[q]
  /\ GoesOn(syncing[r], syncing'[r])

LEMMA ToIdle ==
  ASSUME ExternalImapInv, NEW r \in Runner, Put(r, IdleRun), UNCHANGED <<remote, imports, progress>>,
         ximap'.status = ximap.status, ximap'.server = ximap.server, ximap.status # "none",
         ximapLog'.wrongMark = ximapLog.wrongMark, ximapLog'.moved = ximapLog.moved
  PROVE  Plain(r)
<1>1. /\ syncing' \in [Runner -> Run] /\ syncing'[r] = IdleRun
      /\ \A q \in Runner \ {r} : syncing'[q] = syncing[q]
  BY IdleFacts, PutRun DEF ExternalImapInv
<1> QED
  BY <1>1, IdleFacts DEF Plain, GoesOn

LEMMA ToPC ==
  ASSUME ExternalImapInv, NEW r \in Runner, NEW pc \in SyncPC, GoTo(r, pc), UNCHANGED <<remote, imports, progress>>,
         ximap'.status = ximap.status, ximap'.server = ximap.server, ximap.status # "none",
         ximapLog'.wrongMark = ximapLog.wrongMark, ximapLog'.moved = ximapLog.moved,
         pc \in {"open", "refresh", "token", "cached", "folder"} => syncing[r].items = {},
         pc \in {"items", "insert"} => syncing[r].items # {}
  PROVE  Plain(r) /\ syncing'[r].token = syncing[r].token /\ syncing'[r].pc = pc
<1> DEFINE next == [syncing[r] EXCEPT !.pc = pc]
<1>1. syncing[r] \in Run
  BY DEF ExternalImapInv, ImapTypes
<1>2. /\ next \in Run /\ next.pc = pc /\ next.last = syncing[r].last /\ next.token = syncing[r].token
      /\ next.items = syncing[r].items /\ next.count = syncing[r].count /\ next.server = syncing[r].server
  BY <1>1, GoToRun
<1>3. Put(r, next)
  BY DEF GoTo
<1> HIDE DEF next
<1>4. /\ syncing' \in [Runner -> Run] /\ syncing'[r] = next
      /\ \A q \in Runner \ {r} : syncing'[q] = syncing[q]
  BY <1>2, <1>3, PutRun DEF ExternalImapInv
<1> QED
  BY <1>2, <1>4 DEF Plain, GoesOn

\* What TokenInv asks of a step that stores and asks for no token.
TokenCalm ==
  /\ \/ ximap'.token = ximap.token
     \/ ximapLog'.revived /\ \E r \in Runner : syncing[r].pc = "cached" /\ ximap'.token = syncing[r].token
  /\ (ximap.status = "gone" => ximap'.status = "gone")
  /\ ximapLog'.steps = ximapLog.steps /\ ximapLog'.issued = ximapLog.issued
  /\ (ximapLog.dropped => ximapLog'.dropped) /\ (ximapLog.revived => ximapLog'.revived)
  /\ \A r \in Runner : /\ syncing'[r].token \in {0, ximap.token, syncing[r].token}
                       /\ syncing'[r].pc = "token" => syncing[r].pc = "token" /\ syncing'[r].token = syncing[r].token
                       /\ syncing[r].pc = "token" => syncing'[r].pc = "token" \/ ximapLog'.dropped

LEMMA CalmKeepsToken ==
  ASSUME ExternalImapInv, TokenCalm
  PROVE  TokenInv'
<1>1. /\ ximap.token \in Nat /\ ximapLog.issued \in Nat /\ \A r \in Runner : syncing[r].token \in Nat
      /\ ximapLog.steps \in SUBSET {0, 1}
  BY DEF ExternalImapInv, ImapTypes, Run, Log
<1>2. ximap'.token <= ximapLog'.issued /\ \A r \in Runner : syncing'[r].token <= ximapLog'.issued
  BY <1>1 DEF TokenCalm, ExternalImapInv, TokenInv
<1>3. 1 \notin ximapLog'.steps \/ 0 \in ximapLog'.steps => ximapLog'.issued = 0
  BY DEF TokenCalm, ExternalImapInv, TokenInv
<1>4. ASSUME NEW r \in Runner, syncing'[r].pc = "token"
      PROVE  /\ syncing'[r].token = ximapLog'.issued /\ ximapLog'.steps \in {{0}, {1}}
             /\ ximapLog'.steps = {1} => /\ ximap'.token < ximapLog'.issued
                                         /\ \A q \in Runner \ {r} : syncing'[q].token < ximapLog'.issued
  <2>1. syncing[r].pc = "token" /\ syncing'[r].token = syncing[r].token
    BY <1>4 DEF TokenCalm
  <2>2. syncing'[r].token = ximapLog'.issued /\ ximapLog'.steps \in {{0}, {1}}
    BY <2>1 DEF TokenCalm, ExternalImapInv, TokenInv
  <2>3. ASSUME ximapLog.steps = {1}, NEW q \in Runner \ {r}
        PROVE  syncing'[q].token < ximapLog.issued
    <3>1. ximap.token < ximapLog.issued /\ syncing[q].token < ximapLog.issued
      BY <2>1, <2>3 DEF ExternalImapInv, TokenInv
    <3>2. syncing'[q].token \in {0, ximap.token, syncing[q].token}
      BY DEF TokenCalm
    <3> QED
      BY <3>1, <3>2, <1>1
  <2>4. ASSUME ximapLog.steps = {1} PROVE ximap'.token < ximapLog.issued
    <3>1. ximap.token < ximapLog.issued /\ \A q \in Runner \ {r} : syncing[q].token < ximapLog.issued
      BY <2>1, <2>4 DEF ExternalImapInv, TokenInv
    <3>2. ximap'.token = ximap.token \/ \E q \in Runner : syncing[q].pc = "cached" /\ ximap'.token = syncing[q].token
      BY DEF TokenCalm
    <3> QED
      BY <2>1, <3>1, <3>2
  <2> QED
    BY <2>2, <2>3, <2>4 DEF TokenCalm
<1>5. \/ ximap'.token = ximapLog'.issued \/ ximapLog'.dropped \/ ximapLog'.revived \/ ximap'.status = "gone"
      \/ \E r \in Runner : syncing'[r].pc = "token"
  BY DEF TokenCalm, ExternalImapInv, TokenInv
<1> QED
  BY <1>2, <1>3, <1>4, <1>5 DEF TokenInv

-----------------------------------------------------------------------------
(* Steps that learn nothing of the server *)

LEMMA ToldFrame ==
  ASSUME ToldInv, remote' = remote,
         \A x \in Told' : \E y \in Told : x.server = y.server /\ x.era = y.era /\ x.uid = y.uid /\ x.letter = y.letter
  PROVE  ToldInv'
<1>1. ASSUME NEW x \in Told' PROVE TellsOf(x)'
  <2>1. PICK y \in Told : x.server = y.server /\ x.era = y.era /\ x.uid = y.uid /\ x.letter = y.letter
    OBVIOUS
  <2>2. TellsOf(y)
    BY DEF ToldInv
  <2> QED
    BY <2>1, <2>2 DEF TellsOf
<1>2. ASSUME NEW x \in Told', NEW y \in Told', x.server = y.server, x.era = y.era, x.letter = y.letter PROVE x.uid = y.uid
  <2>1. PICK v \in Told : x.server = v.server /\ x.era = v.era /\ x.uid = v.uid /\ x.letter = v.letter
    OBVIOUS
  <2>2. PICK w \in Told : y.server = w.server /\ y.era = w.era /\ y.uid = w.uid /\ y.letter = w.letter
    OBVIOUS
  <2>3. v.server = w.server /\ v.era = w.era /\ v.letter = w.letter
    BY <1>2, <2>1, <2>2
  <2>4. v.uid = w.uid
    BY <2>3 DEF ToldInv
  <2> QED
    BY <2>1, <2>2, <2>4
<1> QED
  BY <1>1, <1>2 DEF ToldInv

LEMMA RemoteFrame ==
  ASSUME RemoteInv, remote' = remote
  PROVE  RemoteInv' /\ Letters' = Letters /\ Came' = Came
<1>1. \A s : Present(s)' = Present(s)
  BY DEF Present
<1> QED
  BY <1>1 DEF RemoteInv, FolderInv, Letters, Came

LEMMA PlainKeeps ==
  ASSUME ExternalImapInv, NEW r \in Runner, Plain(r)
  PROVE  /\ RemoteInv' /\ ToldInv' /\ StayInv' /\ (\A q \in Runner : RunOK(syncing'[q])) /\ CoverInv'
         /\ ImportedOnce' /\ MarkReachesIts'
<1> DEFINE old == syncing[r]
           new == syncing'[r]
<1>1. /\ UNCHANGED <<remote, imports, progress>> /\ ximap'.status = ximap.status
      /\ \A q \in Runner \ {r} : syncing'[q] = syncing[q]
      /\ Steady' = Steady
  BY DEF Plain, Steady
<1>2. RemoteInv' /\ Letters' = Letters /\ Came' = Came
  BY <1>1, RemoteFrame DEF ExternalImapInv
<1>3. new.items \subseteq old.items
  BY DEF Plain, GoesOn
<1>4. Told' \subseteq Told
  BY <1>1, <1>3 DEF Told
<1>5. ToldInv'
  BY <1>1, <1>4, ToldFrame DEF ExternalImapInv
<1>6. ASSUME NEW q \in Runner PROVE RunOK(syncing'[q])
  <2>1. CASE q # r
    BY <1>1, <2>1 DEF ExternalImapInv
  <2>2. CASE q = r
    <3>1. RunOK(old) /\ old \in Run /\ new \in Run /\ GoesOn(old, new)
      BY Zenon DEF ExternalImapInv, ImapTypes, Plain
    <3> HIDE DEF old, new
    <3>2. RunOK(new)
      BY <3>1, GoesOnOK, Zenon
    <3> QED
      BY <2>2, <3>2 DEF new
  <2> QED
    BY <2>1, <2>2
<1>7. CoverInv'
  <2>1. ASSUME Steady, Here PROVE \A q \in Runner : Covers(syncing[q])'
    <3> SUFFICES ASSUME NEW q \in Runner PROVE Covers(syncing[q])'
      OBVIOUS
    <3>1. PICK run : run = syncing'[q]
      OBVIOUS
    <3>2. Covers(syncing[q]) /\ syncing[q] \in Run
      BY <2>1 DEF ExternalImapInv, CoverInv, ImapTypes
    <3>3. syncing[q] = run \/ (GoesOn(syncing[q], run) /\ run \in Run)
      BY <3>1 DEF Plain
    <3>4. Covers(run)
      BY <3>2, <3>3, GoesOnCovers DEF ExternalImapInv
    <3>5. Covers(run)'
      BY <1>1, <3>4, CoversFrame DEF Imported
    <3> QED
      BY <3>1, <3>5 DEF Covers
  <2>2. Here' = Here
    BY <1>1 DEF Here
  <2>3. /\ ~Here' => progress'.last = 0
        /\ ximap'.status = "none" => \A q \in Runner : syncing'[q] = IdleRun
    BY <1>1, <2>2 DEF ExternalImapInv, CoverInv, Plain
  <2>4. Steady' /\ Here' => progress'.last <= Came' /\ \A l \in Letters' : l <= progress'.last => Imported(l)'
    BY <1>1, <1>2, <2>2 DEF ExternalImapInv, CoverInv, Imported
  <2> QED
    BY <1>1, <2>1, <2>2, <2>3, <2>4 DEF CoverInv
<1>8. ImportedOnce' /\ MarkReachesIts'
  BY DEF Plain, ExternalImapInv, ImportedOnce, MarkReachesIts, Renumbered
<1>9. StayInv'
  BY <1>1, <1>4 DEF Plain, ExternalImapInv, StayInv
<1> QED
  BY <1>2, <1>5, <1>6, <1>7, <1>8, <1>9

\* The types, when one run moves and the log may change.
LEMMA RunTypes ==
  ASSUME ExternalImapInv, syncing' \in [Runner -> Run], UNCHANGED <<remote, ximap, progress, imports>>,
         ximapLog' \in Log
  PROVE  ImapTypes'
  BY DEF ExternalImapInv, ImapTypes

LEMMA TurnTypes ==
  ASSUME ImapTypes, Turn
  PROVE  /\ ximapLog' \in Log
         /\ ximapLog'.steps = ximapLog.steps /\ ximapLog'.issued = ximapLog.issued
         /\ ximapLog'.dropped = ximapLog.dropped /\ ximapLog'.revived = ximapLog.revived
         /\ ximapLog'.wrongMark = ximapLog.wrongMark /\ ximapLog'.moved = ximapLog.moved
<1>1. ximapLog.turns + 1 \in 0 .. MaxTurns
  BY Constants DEF ImapTypes, Turn, Log
<1> QED
  BY <1>1 DEF ImapTypes, Turn, Log

LEMMA StartStep ==
  ASSUME ExternalImapInv, NEW r \in Runner, StartSync(r) \/ StartLook(r)
  PROVE  ImapTypes' /\ Plain(r) /\ TokenCalm
<1>1. PICK run \in OpenRuns : Put(r, run)
  BY DEF StartSync, StartLook, OpenRuns
<1>2. /\ run \in Run /\ run.pc = "open" /\ run.token = ximap.token /\ run.last = 0
      /\ run.items = {} /\ run.count = 0 /\ run.server \in {"first", ximap.server}
  BY OpenedRun DEF ExternalImapInv
<1>3. /\ syncing' \in [Runner -> Run] /\ syncing'[r] = run
      /\ \A q \in Runner \ {r} : syncing'[q] = syncing[q]
  BY <1>1, <1>2, PutRun DEF ExternalImapInv
<1>4. /\ ximapLog' \in Log
      /\ ximapLog'.steps = ximapLog.steps /\ ximapLog'.issued = ximapLog.issued
      /\ ximapLog'.dropped = ximapLog.dropped /\ ximapLog'.revived = ximapLog.revived
      /\ ximapLog'.wrongMark = ximapLog.wrongMark /\ ximapLog'.moved = ximapLog.moved
  BY TurnTypes DEF StartSync, StartLook, ExternalImapInv, ImapTypes
<1>5. UNCHANGED <<remote, ximap, progress, imports>> /\ ximap.status = "here" /\ syncing[r].pc = "idle"
  BY DEF StartSync, StartLook, Here
<1>6. Plain(r)
  BY <1>2, <1>3, <1>4, <1>5 DEF Plain, GoesOn, GoesOn
<1>7. TokenCalm
  BY <1>2, <1>3, <1>4, <1>5 DEF TokenCalm
<1> QED
  BY <1>3, <1>4, <1>5, <1>6, <1>7, RunTypes

LEMMA StopStep ==
  ASSUME ExternalImapInv, NEW r \in Runner, Put(r, IdleRun), UNCHANGED <<remote, ximap, progress, imports>>,
         syncing[r].pc # "idle",
         \/ ximapLog' = ximapLog /\ syncing[r].pc # "token"
         \/ ximapLog' = [ximapLog EXCEPT !.dropped = @ \/ syncing[r].pc = "token"]
  PROVE  ImapTypes' /\ Plain(r) /\ TokenCalm
<1>1. /\ syncing' \in [Runner -> Run] /\ syncing'[r] = IdleRun
      /\ \A q \in Runner \ {r} : syncing'[q] = syncing[q]
  BY IdleFacts, PutRun DEF ExternalImapInv
<1>2. /\ ximapLog' \in Log
      /\ ximapLog'.steps = ximapLog.steps /\ ximapLog'.issued = ximapLog.issued
      /\ (ximapLog.dropped => ximapLog'.dropped) /\ ximapLog'.revived = ximapLog.revived
      /\ ximapLog'.wrongMark = ximapLog.wrongMark /\ ximapLog'.moved = ximapLog.moved
      /\ syncing[r].pc = "token" => ximapLog'.dropped
  BY DEF ExternalImapInv, ImapTypes, Log
<1>3. Plain(r)
  BY <1>2, BusyHasAccount, ToIdle
<1>4. TokenCalm
  BY <1>1, <1>2, IdleFacts DEF TokenCalm
<1> QED
  BY <1>1, <1>2, <1>3, <1>4, RunTypes

LEMMA GoOnStep ==
  ASSUME ExternalImapInv, NEW r \in Runner, NEW pc \in SyncPC \ {"token"}, GoTo(r, pc),
         UNCHANGED <<remote, ximap, progress, imports, ximapLog>>, syncing[r].pc \notin {"idle", "token"},
         pc \in {"open", "refresh", "token", "cached", "folder"} => syncing[r].items = {},
         pc \in {"items", "insert"} => syncing[r].items # {}
  PROVE  ImapTypes' /\ Plain(r) /\ TokenCalm
<1>1. Plain(r) /\ syncing'[r].token = syncing[r].token /\ syncing'[r].pc = pc
  BY BusyHasAccount, ToPC
<1>2. TokenCalm
  BY <1>1 DEF TokenCalm, Plain
<1> QED
  BY <1>1, <1>2, RunTypes DEF Plain, GoesOn, ExternalImapInv, ImapTypes

LEMMA OpenStep ==
  ASSUME ExternalImapInv, NEW r \in Runner, OpenClient(r)
  PROVE  ImapTypes' /\ Plain(r) /\ TokenCalm
<1>1. /\ syncing[r].pc = "open" /\ UNCHANGED <<remote, ximap, progress, imports, ximapLog>>
      /\ Put(r, IdleRun) \/ GoTo(r, "folder") \/ GoTo(r, "refresh") \/ GoTo(r, "cached")
  BY DEF OpenClient, Opened
<1>2. syncing[r].items = {}
  BY <1>1 DEF ExternalImapInv, RunOK
<1> QED
  BY <1>1, <1>2, StopStep, GoOnStep DEF SyncPC

LEMMA FailStep ==
  ASSUME ExternalImapInv, NEW r \in Runner, ClientFails(r) \/ FetchFails(r) \/ CutOff(r)
  PROVE  ImapTypes' /\ Plain(r) /\ TokenCalm
<1>1. CASE ClientFails(r) \/ CutOff(r)
  BY <1>1, StopStep DEF ClientFails, CutOff
<1>2. CASE FetchFails(r)
  <2>1. /\ syncing[r].pc = "fetch" /\ UNCHANGED <<remote, ximap, progress, imports, ximapLog>>
        /\ Put(r, IdleRun) \/ GoTo(r, "save")
    BY <1>2 DEF FetchFails
  <2> QED
    BY <2>1, StopStep, GoOnStep DEF SyncPC
<1> QED
  BY <1>1, <1>2

LEMMA ItemFailsStep ==
  ASSUME ExternalImapInv, NEW r \in Runner, ItemFails(r)
  PROVE  ImapTypes' /\ Plain(r) /\ TokenCalm
<1> DEFINE run == [syncing[r] EXCEPT !.pc = "save", !.items = {}, !.last = syncing[r].last]
<1>1. syncing[r] \in Run
  BY DEF ExternalImapInv, ImapTypes
<1>2. /\ run \in Run /\ run.pc = "save" /\ run.items = {} /\ run.last = syncing[r].last
      /\ run.count = syncing[r].count /\ run.token = syncing[r].token /\ run.server = syncing[r].server
  BY <1>1 DEF Run, SyncPC
<1>3. Put(r, run) /\ UNCHANGED <<remote, ximap, progress, imports, ximapLog>> /\ syncing[r].pc \in {"items", "insert"}
  BY DEF ItemFails, FailedStops
<1> HIDE DEF run
<1>4. /\ syncing' \in [Runner -> Run] /\ syncing'[r] = run
      /\ \A q \in Runner \ {r} : syncing'[q] = syncing[q]
  BY <1>2, <1>3, PutRun DEF ExternalImapInv
<1>5. Plain(r)
  BY <1>2, <1>3, <1>4, BusyHasAccount DEF Plain, GoesOn, GoesOn
<1>6. TokenCalm
  BY <1>2, <1>3, <1>4 DEF TokenCalm
<1> QED
  BY <1>3, <1>4, <1>5, <1>6, RunTypes DEF ExternalImapInv, ImapTypes

-----------------------------------------------------------------------------
(* The tokens *)

LEMMA TokenFacts ==
  ASSUME ExternalImapInv
  PROVE  /\ ximap.token \in Nat /\ ximapLog.issued \in Nat /\ \A q \in Runner : syncing[q].token \in Nat
         /\ ximapLog.steps \in SUBSET {0, 1}
         /\ ximap.token <= ximapLog.issued /\ \A q \in Runner : syncing[q].token <= ximapLog.issued
  BY DEF ExternalImapInv, ImapTypes, Run, TokenInv, Log

LEMMA ZeroIsNotOne == {0} # {1}
<1>1. 0 \in {0} /\ 0 \notin {1}
  OBVIOUS
<1> QED
  BY <1>1, Zenon

\* Two runs with an answer have the same token: the provider does not rotate.
LEMMA TwoAnswers ==
  ASSUME ExternalImapInv, NEW r \in Runner, NEW q \in Runner \ {r}, syncing[q].pc = "token",
         syncing[r].token = ximapLog.issued
  PROVE  ximapLog.steps = {0} /\ syncing[q].token = ximapLog.issued
<1>1. syncing[q].token = ximapLog.issued /\ ximapLog.steps \in {{0}, {1}}
  BY DEF ExternalImapInv, TokenInv
<1>2. ximapLog.steps = {1} => syncing[r].token < ximapLog.issued
  BY DEF ExternalImapInv, TokenInv
<1>3. ~(ximapLog.issued < ximapLog.issued)
  BY TokenFacts
<1> QED
  BY <1>1, <1>2, <1>3

LEMMA RefreshStep ==
  ASSUME ExternalImapInv, NEW r \in Runner, NEW step \in ximapLog.steps, RefreshToken(r, step)
  PROVE  ImapTypes' /\ Plain(r) /\ TokenInv'
<1> DEFINE run == [syncing[r] EXCEPT !.pc = "token", !.token = @ + step]
           log == [ximapLog EXCEPT !.issued = @ + step, !.steps = {step}]
<1>1. syncing[r] \in Run /\ ximapLog \in Log
  BY DEF ExternalImapInv, ImapTypes
<1>2. /\ syncing[r].pc = "refresh" /\ syncing[r].token = ximapLog.issued /\ ximapLog' = log
      /\ Put(r, run) /\ UNCHANGED <<remote, ximap, progress, imports>> /\ step \in {0, 1}
      /\ ximapLog.issued + step \in Nat
  BY TokenFacts DEF RefreshToken
<1>3. /\ run \in Run /\ run.pc = "token" /\ run.token = ximapLog.issued + step /\ run.last = syncing[r].last
      /\ run.items = syncing[r].items /\ run.count = syncing[r].count /\ run.server = syncing[r].server
  BY <1>1, <1>2 DEF Run, SyncPC
<1>4. /\ log \in Log /\ log.issued = ximapLog.issued + step /\ log.steps = {step}
      /\ log.wrongMark = ximapLog.wrongMark /\ log.moved = ximapLog.moved
  BY <1>1, <1>2 DEF Log
<1>5. syncing[r].items = {}
  BY <1>2 DEF ExternalImapInv, RunOK
<1> HIDE DEF run, log
<1>6. /\ syncing' \in [Runner -> Run] /\ syncing'[r] = run
      /\ \A q \in Runner \ {r} : syncing'[q] = syncing[q]
  BY <1>2, <1>3, PutRun DEF ExternalImapInv
<1>7. Plain(r)
  BY <1>2, <1>3, <1>4, <1>5, <1>6, BusyHasAccount DEF Plain, GoesOn
<1>8. ximap'.token <= ximapLog'.issued /\ \A q \in Runner : syncing'[q].token <= ximapLog'.issued
  BY <1>2, <1>3, <1>4, <1>6, TokenFacts
<1>9. 1 \notin ximapLog'.steps \/ 0 \in ximapLog'.steps => ximapLog'.issued = 0
  <2>1. step = 0 => ximapLog.issued = 0
    BY DEF ExternalImapInv, TokenInv
  <2> QED
    BY <1>2, <1>4, <2>1
<1>10. ASSUME NEW q \in Runner, syncing'[q].pc = "token"
       PROVE  /\ syncing'[q].token = ximapLog'.issued /\ ximapLog'.steps \in {{0}, {1}}
              /\ ximapLog'.steps = {1} => /\ ximap'.token < ximapLog'.issued
                                          /\ \A p \in Runner \ {q} : syncing'[p].token < ximapLog'.issued
  <2>1. CASE q = r
    <3>1. syncing'[q].token = ximapLog'.issued /\ ximapLog'.steps \in {{0}, {1}}
      BY <1>2, <1>3, <1>4, <1>6, <2>1
    <3>2. ASSUME ximapLog'.steps = {1}, NEW p \in Runner \ {q}
          PROVE  ximap'.token < ximapLog'.issued /\ syncing'[p].token < ximapLog'.issued
      <4>1. step = 1
        BY <1>2, <1>4, <3>2
      <4> QED
        BY <1>2, <1>4, <1>6, <2>1, <4>1, TokenFacts
    <3>3. ximapLog'.steps = {1} => ximap'.token < ximapLog'.issued
      <4>1. ximapLog'.steps = {1} => step = 1
        BY <1>2, <1>4
      <4>2. ximap'.token = ximap.token /\ ximapLog'.issued = ximapLog.issued + step
        BY <1>2, <1>4
      <4>3. ximap.token \in Nat /\ ximapLog.issued \in Nat /\ ximap.token <= ximapLog.issued
        BY TokenFacts
      <4> QED
        BY <4>1, <4>2, <4>3
    <3> QED
      BY <3>1, <3>2, <3>3
  <2>2. CASE q # r
    <3>1. ximapLog.steps = {0} /\ syncing[q].token = ximapLog.issued
      BY <1>2, <1>6, <1>10, <2>2, TwoAnswers
    <3>2. step = 0
      BY <3>1
    <3>3. syncing'[q].token = ximapLog'.issued /\ ximapLog'.steps = {0}
      <4>1. ximapLog.issued + step = ximapLog.issued
        BY <3>2, TokenFacts
      <4> QED
        BY <1>2, <1>4, <1>6, <2>2, <3>1, <3>2, <4>1, Zenon
    <3> QED
      BY <3>3, ZeroIsNotOne
  <2> QED
    BY <2>1, <2>2
<1>11. syncing'[r].pc = "token"
  BY <1>3, <1>6
<1> QED
  BY <1>2, <1>4, <1>6, <1>7, <1>8, <1>9, <1>10, <1>11, RunTypes DEF TokenInv, Log

LEMMA SaveTokenStep ==
  ASSUME ExternalImapInv, NEW r \in Runner, NEW saved \in BOOLEAN, SaveToken(r, saved)
  PROVE  ImapTypes' /\ Plain(r) /\ TokenInv'
<1>1. /\ syncing[r].pc = "token" /\ UNCHANGED <<remote, progress, imports>>
      /\ ximap' = (IF saved /\ Here THEN [ximap EXCEPT !.token = syncing[r].token, !.expiry = "fresh"] ELSE ximap)
      /\ ximapLog' = (IF saved THEN ximapLog ELSE [ximapLog EXCEPT !.dropped = TRUE])
      /\ Put(r, IdleRun) \/ GoTo(r, "folder")
  BY DEF SaveToken, Opened, TokenReceived
<1>2. syncing[r].token = ximapLog.issued /\ syncing[r].items = {} /\ ximap.status # "none"
  BY <1>1, BusyHasAccount DEF ExternalImapInv, TokenInv, RunOK
<1>3. /\ ximap' \in [status : {"none", "here", "gone"}, enabled : BOOLEAN, local : BOOLEAN,
                     mailbox : Boxes, server : Server, token : Nat, expiry : {"fresh", "near", "over"}]
      /\ ximap'.status = ximap.status /\ ximap'.server = ximap.server
      /\ ximap'.token = (IF saved /\ Here THEN ximapLog.issued ELSE ximap.token)
  BY <1>1, <1>2, TokenFacts DEF ExternalImapInv, ImapTypes
<1>4. /\ ximapLog' \in Log /\ ximapLog'.issued = ximapLog.issued /\ ximapLog'.steps = ximapLog.steps
      /\ ximapLog'.wrongMark = ximapLog.wrongMark /\ ximapLog'.moved = ximapLog.moved
      /\ (~saved => ximapLog'.dropped)
  BY <1>1 DEF ExternalImapInv, ImapTypes, Log
<1>5. Plain(r) /\ syncing'[r].token \in {0, syncing[r].token} /\ syncing'[r].pc # "token"
  <2>1. CASE Put(r, IdleRun)
    BY <1>1, <1>2, <1>3, <1>4, <2>1, ToIdle, IdleFacts, PutRun DEF ExternalImapInv
  <2>2. CASE GoTo(r, "folder")
    BY <1>1, <1>2, <1>3, <1>4, <2>2, ToPC DEF SyncPC
  <2> QED
    BY <1>1, <2>1, <2>2
<1>6. syncing' \in [Runner -> Run] /\ \A q \in Runner \ {r} : syncing'[q] = syncing[q]
  BY <1>5 DEF Plain
<1>7. ximap'.token <= ximapLog'.issued /\ \A q \in Runner : syncing'[q].token <= ximapLog'.issued
  BY <1>3, <1>4, <1>5, <1>6, TokenFacts
<1>8. 1 \notin ximapLog'.steps \/ 0 \in ximapLog'.steps => ximapLog'.issued = 0
  BY <1>4 DEF ExternalImapInv, TokenInv
<1>9. ASSUME NEW q \in Runner, syncing'[q].pc = "token"
      PROVE  syncing'[q].token = ximapLog'.issued /\ ximapLog'.steps = {0}
  BY <1>2, <1>4, <1>5, <1>6, <1>9, TwoAnswers
<1>10. ximap'.token = ximapLog'.issued \/ ximapLog'.dropped \/ ximap'.status = "gone"
  <2>1. Here \/ ximap.status = "gone"
    BY <1>2 DEF ExternalImapInv, ImapTypes, Here
  <2> QED
    BY <1>3, <1>4, <2>1
<1>11. TokenInv'
  BY <1>7, <1>8, <1>9, <1>10, ZeroIsNotOne DEF TokenInv
<1>12. ImapTypes'
  BY <1>1, <1>3, <1>4, <1>6 DEF ExternalImapInv, ImapTypes, Log
<1> QED
  BY <1>5, <1>11, <1>12

LEMMA SaveCachedStep ==
  ASSUME ExternalImapInv, NEW r \in Runner, NEW saved \in BOOLEAN, SaveCached(r, saved)
  PROVE  ImapTypes' /\ Plain(r) /\ TokenCalm
<1> DEFINE stored == saved /\ Here
           revived == stored /\ syncing[r].token # ximap.token
<1>1. /\ syncing[r].pc = "cached" /\ UNCHANGED <<remote, progress, imports>>
      /\ \E expiry \in {"near", "over"} :
           ximap' = (IF stored THEN [ximap EXCEPT !.token = syncing[r].token, !.expiry = expiry] ELSE ximap)
      /\ ximapLog' = [ximapLog EXCEPT !.revived = @ \/ revived]
      /\ Put(r, IdleRun) \/ GoTo(r, "folder")
  BY DEF SaveCached, Opened
<1>2. stored \in BOOLEAN /\ revived \in BOOLEAN /\ (~revived => ~stored \/ syncing[r].token = ximap.token)
  OBVIOUS
<1>3. syncing[r].items = {} /\ ximap.status # "none"
  BY <1>1, BusyHasAccount DEF ExternalImapInv, RunOK
<1> HIDE DEF stored, revived
<1>4. /\ ximap' \in [status : {"none", "here", "gone"}, enabled : BOOLEAN, local : BOOLEAN,
                     mailbox : Boxes, server : Server, token : Nat, expiry : {"fresh", "near", "over"}]
      /\ ximap'.status = ximap.status /\ ximap'.server = ximap.server
      /\ ximap'.token = (IF stored THEN syncing[r].token ELSE ximap.token)
  <2>1. /\ ximap \in [status : {"none", "here", "gone"}, enabled : BOOLEAN, local : BOOLEAN, mailbox : Boxes,
                      server : Server, token : Nat, expiry : {"fresh", "near", "over"}]
        /\ syncing[r].token \in Nat
    BY TokenFacts DEF ExternalImapInv, ImapTypes
  <2>2. CASE stored
    <3>1. PICK expiry \in {"near", "over"} :
            ximap' = [ximap EXCEPT !.token = syncing[r].token, !.expiry = expiry]
      BY <1>1, <2>2
    <3> QED
      BY <2>1, <2>2, <3>1
  <2>3. CASE ~stored
    <3>1. ximap' = ximap
      BY <1>1, <2>3
    <3> QED
      BY <2>1, <2>3, <3>1
  <2> QED
    BY <1>2, <2>2, <2>3
<1>5. /\ ximapLog' \in Log /\ ximapLog'.issued = ximapLog.issued /\ ximapLog'.steps = ximapLog.steps
      /\ ximapLog'.dropped = ximapLog.dropped /\ ximapLog'.revived = (ximapLog.revived \/ revived)
      /\ ximapLog'.wrongMark = ximapLog.wrongMark /\ ximapLog'.moved = ximapLog.moved
  BY <1>1, <1>2 DEF ExternalImapInv, ImapTypes, Log
<1>6. Plain(r) /\ syncing'[r].token \in {0, syncing[r].token} /\ syncing'[r].pc # "token"
  <2>1. CASE Put(r, IdleRun)
    BY <1>1, <1>3, <1>4, <1>5, <2>1, ToIdle, IdleFacts, PutRun DEF ExternalImapInv
  <2>2. CASE GoTo(r, "folder")
    BY <1>1, <1>3, <1>4, <1>5, <2>2, ToPC DEF SyncPC
  <2> QED
    BY <1>1, <2>1, <2>2
<1>7. syncing' \in [Runner -> Run] /\ \A q \in Runner \ {r} : syncing'[q] = syncing[q]
  BY <1>6 DEF Plain
<1>8. \/ ximap'.token = ximap.token
      \/ ximapLog'.revived /\ \E q \in Runner : syncing[q].pc = "cached" /\ ximap'.token = syncing[q].token
  <2>1. CASE revived
    <3>1. ximapLog'.revived
      BY <1>5, <2>1, Zenon
    <3> QED
      BY <1>1, <1>4, <3>1
  <2>2. CASE ~revived
    BY <1>2, <1>4, <2>2
  <2> QED
    BY <2>1, <2>2
<1>9. TokenCalm
  <2>1. ximapLog.revived => ximapLog'.revived
    BY <1>5, Zenon
  <2>2. /\ (ximap.status = "gone" => ximap'.status = "gone") /\ (ximapLog.dropped => ximapLog'.dropped)
        /\ ximapLog'.steps = ximapLog.steps /\ ximapLog'.issued = ximapLog.issued
    BY <1>4, <1>5
  <2>3. ASSUME NEW q \in Runner
        PROVE  /\ syncing'[q].token \in {0, ximap.token, syncing[q].token}
               /\ syncing'[q].pc = "token" => syncing[q].pc = "token" /\ syncing'[q].token = syncing[q].token
               /\ syncing[q].pc = "token" => syncing'[q].pc = "token" \/ ximapLog'.dropped
    <3>1. CASE q = r
      BY <1>1, <1>6, <3>1
    <3>2. CASE q # r
      BY <1>7, <3>2
    <3> QED
      BY <3>1, <3>2
  <2> QED
    BY <1>8, <2>1, <2>2, <2>3 DEF TokenCalm
<1>10. ImapTypes'
  BY <1>1, <1>4, <1>5, <1>7 DEF ExternalImapInv, ImapTypes
<1> QED
  BY <1>6, <1>9, <1>10

-----------------------------------------------------------------------------
(* Steps that learn of the server, or store what was learned *)

Known(x) == \E y \in Told : x.server = y.server /\ x.era = y.era /\ x.uid = y.uid /\ x.letter = y.letter
ReadNow(x) ==
  LET s == x.server
  IN  s \in Server /\ x.era = remote[s].era /\ x.letter \in Present(s) /\ x.uid = remote[s].uid[x.letter]

LEMMA FolderFacts ==
  ASSUME ImapTypes, NEW s \in Server
  PROVE  /\ remote[s] \in FolderType /\ remote[s].era \in Nat /\ remote[s].next \in Nat /\ remote[s].came \in Nat
         /\ remote[s].came <= MaxMails /\ remote[s].uid \in [RemoteMail -> 0 .. MaxMails]
         /\ Present(s) \in SUBSET RemoteMail
         /\ \A l \in Present(s) : l \in 1 .. MaxMails /\ remote[s].uid[l] \in 1 .. MaxMails
<1>1. remote[s] \in FolderType
  BY DEF ImapTypes, RemoteType
<1> QED
  BY <1>1, Constants DEF FolderType, Present, RemoteMail

LEMMA ReadTells ==
  ASSUME ImapTypes, RemoteInv, NEW x, ReadNow(x)
  PROVE  TellsOf(x)
<1>1. PICK s : s = x.server
  OBVIOUS
<1>2. s \in Server /\ FolderInv(s) /\ x.era = remote[s].era /\ x.letter \in Present(s) /\ x.uid = remote[s].uid[x.letter]
  BY <1>1 DEF ReadNow, RemoteInv
<1>3. x.letter \in 1 .. remote[s].came /\ x.era \in 1 .. remote[s].era
  BY <1>2, FolderFacts DEF FolderInv
<1>4. x.uid \in 1 .. MaxMails /\ remote[s].uid[x.letter] = x.uid
  BY <1>2, FolderFacts
<1>5. x.era = 1 => x.uid = x.letter
  BY <1>2 DEF FolderInv
<1> QED
  BY <1>1, <1>2, <1>3, <1>4, <1>5 DEF TellsOf

LEMMA Learned ==
  ASSUME ImapTypes, RemoteInv, ToldInv, remote' = remote, \A x \in Told' : Known(x) \/ ReadNow(x)
  PROVE  ToldInv'
<1>1. ASSUME NEW x \in Told' PROVE TellsOf(x)
  <2>1. CASE Known(x)
    <3>1. PICK y \in Told : x.server = y.server /\ x.era = y.era /\ x.uid = y.uid /\ x.letter = y.letter
      BY <2>1 DEF Known
    <3>2. TellsOf(y)
      BY DEF ToldInv
    <3> QED
      BY <3>1, <3>2 DEF TellsOf
  <2>2. CASE ReadNow(x)
    BY <2>2, ReadTells
  <2> QED
    BY <1>1, <2>1, <2>2
<1>2. \A x \in Told' : TellsOf(x)'
  BY <1>1 DEF TellsOf
<1>3. ASSUME NEW x, NEW y \in Told, ReadNow(x), x.server = y.server, x.era = y.era, x.letter = y.letter
      PROVE  x.uid = y.uid
  <2>1. PICK s : s = x.server
    OBVIOUS
  <2>2. remote[s].uid[y.letter] \in {0, y.uid}
    BY <1>3, <2>1 DEF ToldInv, TellsOf, ReadNow
  <2>3. s \in Server /\ remote[s].uid[y.letter] = x.uid /\ y.letter \in Present(s)
    BY <1>3, <2>1 DEF ReadNow
  <2>4. x.uid # 0
    BY <2>3, FolderFacts
  <2> QED
    BY <2>2, <2>3, <2>4
<1>4. ASSUME NEW x \in Told', NEW y \in Told', x.server = y.server, x.era = y.era, x.letter = y.letter PROVE x.uid = y.uid
  <2>1. CASE ReadNow(x) /\ ReadNow(y)
    BY <1>4, <2>1 DEF ReadNow
  <2>2. CASE ReadNow(x) /\ Known(y)
    BY <1>3, <1>4, <2>2 DEF Known
  <2>3. CASE Known(x) /\ ReadNow(y)
    <3>1. PICK v \in Told : x.server = v.server /\ x.era = v.era /\ x.uid = v.uid /\ x.letter = v.letter
      BY <2>3 DEF Known
    <3>2. y.uid = v.uid
      BY <1>3, <1>4, <2>3, <3>1
    <3> QED
      BY <3>1, <3>2
  <2>4. CASE Known(x) /\ Known(y)
    <3>1. PICK v \in Told : x.server = v.server /\ x.era = v.era /\ x.uid = v.uid /\ x.letter = v.letter
      BY <2>4 DEF Known
    <3>2. PICK w \in Told : y.server = w.server /\ y.era = w.era /\ y.uid = w.uid /\ y.letter = w.letter
      BY <2>4 DEF Known
    <3> QED
      BY <1>4, <3>1, <3>2 DEF ToldInv
  <2> QED
    BY <1>4, <2>1, <2>2, <2>3, <2>4
<1> QED
  BY <1>2, <1>4 DEF ToldInv

\* Imports that stay the same but for their place.
SameMessage(i, j) ==
  IsImport(j) /\ j.server = i.server /\ j.era = i.era /\ j.uid = i.uid /\ j.letter = i.letter

LEMMA Refiled ==
  ASSUME ExternalImapInv, NEW f, imports' = {f[i] : i \in imports},
         \A i \in imports : SameMessage(i, f[i])
  PROVE  /\ ImportedOnce' /\ (\A i \in imports' : IsImport(i)) /\ \A l : Imported(l) <=> Imported(l)'
         /\ \A x \in imports' : Known(x)
<1>1. ASSUME NEW x \in imports', NEW y \in imports', x.server = y.server, x.letter = y.letter
      PROVE  x.era # y.era \/ x = y
  <2>1. PICK i \in imports, k \in imports : x = f[i] /\ y = f[k]
    OBVIOUS
  <2>2. i.server = k.server /\ i.letter = k.letter /\ x.era = i.era /\ y.era = k.era
    BY <1>1, <2>1 DEF SameMessage
  <2>3. i.era # k.era \/ i = k
    BY <2>2 DEF ExternalImapInv, ImportedOnce
  <2> QED
    BY <2>1, <2>2, <2>3
<1>2. ImportedOnce'
  BY <1>1 DEF ImportedOnce
<1>3. \A i \in imports' : IsImport(i)
  BY DEF SameMessage
<1>4. ASSUME NEW x \in imports' PROVE Known(x)
  <2>1. PICK i \in imports : x = f[i]
    OBVIOUS
  <2>2. i \in Told
    BY DEF Told
  <2> QED
    BY <2>1, <2>2 DEF Known, SameMessage
<1>5. \A l : Imported(l) <=> Imported(l)'
  BY DEF Imported, SameMessage
<1> QED
  BY <1>2, <1>3, <1>4, <1>5

\* A step of a run at the server or the tables of the import.
ReadBy(r, x) == ReadNow(x) /\ x.server = syncing[r].server

LEMMA RunStep ==
  ASSUME ExternalImapInv, NEW r \in Runner, NEW run \in Run, Put(r, run), UNCHANGED <<remote, ximap, ximapLog>>,
         syncing[r].pc \notin {"idle", "token"}, run.pc # "token", run.token \in {0, syncing[r].token}, RunOK(run),
         run.server \in {"first", syncing[r].server},
         \A x \in imports' \cup run.items : Known(x) \/ ReadBy(r, x),
         \A i \in imports' : IsImport(i), ImportedOnce', \A l \in Letters : Imported(l) => Imported(l)',
         progress' \in [known : BOOLEAN, last : 0 .. MaxMails, mailbox : Boxes], ~Here => progress'.last = 0,
         Steady /\ Here =>
           /\ progress'.last <= Came
           /\ \A l \in Letters : l <= progress'.last => Imported(l)'
           /\ Covers(run)'
  PROVE  ExternalImapInv'
<1>1. /\ syncing' \in [Runner -> Run] /\ syncing'[r] = run
      /\ \A q \in Runner \ {r} : syncing'[q] = syncing[q]
  BY PutRun DEF ExternalImapInv
<1>2. ImapTypes'
  BY <1>1 DEF ExternalImapInv, ImapTypes
<1>3. RemoteInv' /\ Letters' = Letters /\ Came' = Came /\ Here' = Here /\ Steady' = Steady
  BY RemoteFrame DEF ExternalImapInv, Here, Steady
<1>4. ToldInv'
  <2>1. ASSUME NEW x \in Told' PROVE Known(x) \/ ReadNow(x)
    <3>1. CASE x \in imports' \cup run.items
      BY <3>1 DEF ReadBy
    <3>2. CASE x \notin imports' \cup run.items
      <4>1. PICK q \in Runner : x \in syncing'[q].items
        BY <3>2 DEF Told
      <4>2. x \in syncing[q].items
        BY <1>1, <3>2, <4>1
      <4>3. x \in Told
        BY <4>2 DEF Told
      <4> QED
        BY <4>3 DEF Known
    <3> QED
      BY <3>1, <3>2
  <2> QED
    BY <2>1, Learned DEF ExternalImapInv
<1>5. \A q \in Runner : RunOK(syncing'[q])
  BY <1>1 DEF ExternalImapInv
<1>6. CoverInv'
  <2>1. ASSUME Steady, Here PROVE \A q \in Runner : Covers(syncing[q])'
    <3> SUFFICES ASSUME NEW q \in Runner PROVE Covers(syncing[q])'
      OBVIOUS
    <3>1. PICK new : new = syncing'[q]
      OBVIOUS
    <3>2. Covers(new)'
      <4>1. CASE q = r
        <5>1. new = run /\ Covers(run)'
          BY <1>1, <2>1, <3>1, <4>1
        <5> QED
          BY <5>1 DEF Covers
      <4>2. CASE q # r
        <5>1. Covers(syncing[q]) /\ syncing[q] = new
          BY <1>1, <2>1, <3>1, <4>2 DEF ExternalImapInv, CoverInv
        <5> QED
          BY <5>1, CoversFrame
      <4> QED
        BY <4>1, <4>2
    <3> QED
      BY <3>1, <3>2 DEF Covers
  <2>2. ximap'.status # "none"
    BY BusyHasAccount
  <2> QED
    BY <1>3, <2>1, <2>2 DEF CoverInv
<1>7. TokenInv'
  <2>1. TokenCalm
    BY <1>1 DEF TokenCalm
  <2> QED
    BY <2>1, CalmKeepsToken
<1>8. MarkReachesIts'
  BY DEF ExternalImapInv, MarkReachesIts, Renumbered
<1>9. StayInv'
  <2>1. ASSUME ~ximapLog.moved, NEW x \in Told' PROVE x.server = "first"
    <3>1. x \in imports' \/ x \in run.items \/ \E q \in Runner : x \in syncing[q].items
      BY <1>1 DEF Told
    <3>2. CASE x \in imports' \cup run.items
      BY <2>1, <3>2 DEF ReadBy, Known, ExternalImapInv, StayInv
    <3>3. CASE \E q \in Runner : x \in syncing[q].items
      BY <2>1, <3>3 DEF ExternalImapInv, StayInv, Told
    <3> QED
      BY <3>1, <3>2, <3>3
  <2> QED
    BY <1>1, <2>1 DEF ExternalImapInv, StayInv
<1> QED
  BY <1>2, <1>3, <1>4, <1>5, <1>6, <1>7, <1>8, <1>9 DEF ExternalImapInv

LEMMA Placed ==
  ASSUME NEW i, IsImport(i), NEW place \in Places
  PROVE  LET j == [i EXCEPT !.place = place]
         IN  SameMessage(i, j)
<1>1. PICK era, uid, server, letter, copy, mailbox, old :
        /\ i = [era |-> era, uid |-> uid, server |-> server, letter |-> letter, copy |-> copy,
                mailbox |-> mailbox, place |-> old]
        /\ era \in Nat /\ uid \in Nat /\ server \in Server /\ letter \in RemoteMail /\ mailbox \in Boxes
  BY DEF IsImport
<1>2. [i EXCEPT !.place = place]
        = [era |-> era, uid |-> uid, server |-> server, letter |-> letter, copy |-> copy,
           mailbox |-> mailbox, place |-> place]
  BY <1>1
<1> QED
  BY <1>1, <1>2 DEF IsImport, SameMessage

LEMMA OpenFolderStep ==
  ASSUME ExternalImapInv, NEW r \in Runner, OpenFolder(r)
  PROVE  ExternalImapInv'
<1> DEFINE last == IF progress.known THEN progress.last ELSE 0
           moves(i) == /\ progress.known /\ progress.mailbox # syncing[r].mailbox
                       /\ i.mailbox = syncing[r].mailbox /\ i.place = "elsewhere"
           f == [i \in imports |-> IF moves(i) THEN [i EXCEPT !.place = "folder"] ELSE i]
<1>1. /\ syncing[r].pc = "folder" /\ UNCHANGED <<remote, ximap, progress, ximapLog>>
      /\ imports' = {f[i] : i \in imports}
      /\ Put(r, [syncing[r] EXCEPT !.pc = "fetch", !.last = last])
  BY DEF OpenFolder
<1>2. last \in 0 .. MaxMails /\ (last = 0 \/ last = progress.last)
  BY Constants DEF ExternalImapInv, ImapTypes
<1>3. PICK run : run = [syncing[r] EXCEPT !.pc = "fetch", !.last = last]
  OBVIOUS
<1>4. syncing[r] \in Run /\ syncing[r].items = {} /\ RunOK(syncing[r])
  BY <1>1 DEF ExternalImapInv, ImapTypes, RunOK
<1>5. /\ run \in Run /\ run.pc = "fetch" /\ run.last = last /\ run.items = {} /\ run.count = syncing[r].count
      /\ run.token = syncing[r].token /\ run.server = syncing[r].server
  BY <1>2, <1>3, <1>4 DEF Run, SyncPC
<1>6. RunOK(run)
  BY <1>4, <1>5 DEF RunOK
<1>7. \A i \in imports : SameMessage(i, f[i])
  <2> SUFFICES ASSUME NEW i \in imports
               PROVE  SameMessage(i, f[i])
    OBVIOUS
  <2>1. IsImport(i) /\ SameMessage(i, i) /\ "folder" \in Places
    BY DEF ExternalImapInv, ImapTypes, Places, SameMessage
  <2>2. f[i] = i \/ f[i] = [i EXCEPT !.place = "folder"]
    OBVIOUS
  <2> HIDE DEF f
  <2> QED
    <3>1. CASE f[i] = i
      BY <2>1, <3>1
    <3>2. CASE f[i] = [i EXCEPT !.place = "folder"]
      <4>1. LET j == [i EXCEPT !.place = "folder"]
            IN  SameMessage(i, j)
        BY <2>1, Placed
      <4> QED
        BY <3>2, <4>1
    <3> QED
      BY <2>2, <3>1, <3>2
<1> HIDE DEF f, last
<1>8. /\ ImportedOnce' /\ (\A i \in imports' : IsImport(i)) /\ \A l : Imported(l) <=> Imported(l)'
      /\ \A x \in imports' : Known(x)
  BY <1>1, <1>7, Refiled
<1>9. progress' \in [known : BOOLEAN, last : 0 .. MaxMails, mailbox : Boxes] /\ (~Here => progress'.last = 0)
  BY <1>1 DEF ExternalImapInv, ImapTypes, CoverInv
<1>10. ASSUME Steady, Here
       PROVE  /\ progress'.last <= Came
              /\ \A l \in Letters : l <= progress'.last => Imported(l)'
              /\ Covers(run)'
  <2>1. progress.last <= Came /\ \A l \in Letters : l <= progress.last => Imported(l)
    BY <1>10 DEF ExternalImapInv, CoverInv
  <2>2. Came \in Nat /\ \A l \in Letters : l \in Nat /\ l > 0
    BY LetterFacts DEF ExternalImapInv
  <2>3. last <= Came /\ \A l \in Letters : l <= last => Imported(l)
    BY <1>2, <2>1, <2>2
  <2>4. Covers(run)
    BY <1>5, <2>3 DEF Covers
  <2> QED
    BY <1>1, <1>8, <2>1, <2>4, CoversFrame
<1> QED
  BY <1>1, <1>3, <1>4, <1>5, <1>6, <1>8, <1>9, <1>10, RunStep

LEMMA FetchBatchStep ==
  ASSUME ExternalImapInv, NEW r \in Runner, NEW bare, FetchBatch(r, bare)
  PROVE  ExternalImapInv'
<1> DEFINE last == syncing[r].last
           s == syncing[r].server
           above == Above(r)
           limit == BatchLimit(r)
           found == {l \in above : Cardinality({k \in above : remote[s].uid[k] < remote[s].uid[l]}) < limit}
           item(l) == [era |-> remote[s].era, uid |-> remote[s].uid[l], server |-> s, letter |-> l, raw |-> l \notin bare]
           items == {item(l) : l \in found}
           pc == IF found = {} THEN "save" ELSE "items"
           full == Cardinality(found) = limit
<1>1. /\ syncing[r].pc = "fetch" /\ UNCHANGED <<remote, ximap, progress, imports, ximapLog>>
      /\ Put(r, [syncing[r] EXCEPT !.pc = pc, !.full = full, !.items = items])
  BY DEF FetchBatch, Numbers
<1>2. PICK run : run = [syncing[r] EXCEPT !.pc = pc, !.full = full, !.items = items]
  OBVIOUS
<1>3. syncing[r] \in Run /\ syncing[r].count \in 0 .. MaxPerRun /\ s \in Server
  BY DEF ExternalImapInv, ImapTypes, Run
<1>4. limit \in Nat /\ syncing[r].count + limit <= MaxPerRun
  <2>1. MaxPerRun - syncing[r].count \in Nat
    BY <1>3, Constants
  <2>2. PICK n : n = MaxPerRun - syncing[r].count
    OBVIOUS
  <2>3. limit = (IF BatchSize <= n THEN BatchSize ELSE n)
    BY <2>1, <2>2, MinMax, Constants, Zenon DEF BatchLimit
  <2> QED
    BY <1>3, <2>1, <2>2, <2>3, Constants
<1>5. /\ remote[s].uid \in [RemoteMail -> Nat] /\ Present(s) \in SUBSET RemoteMail /\ above \in SUBSET Present(s)
      /\ IsFiniteSet(above)
  <2>1. remote[s].uid \in [RemoteMail -> Nat] /\ above \in SUBSET RemoteMail
    BY <1>3, FolderFacts, Constants DEF ExternalImapInv, Above
  <2>2. IsFiniteSet(RemoteMail)
    BY Constants, FS_Interval DEF RemoteMail
  <2>3. IsFiniteSet(above)
    BY <2>1, <2>2, FS_Subset
  <2>4. Present(s) \in SUBSET RemoteMail /\ above \in SUBSET Present(s)
    BY DEF Above, Present
  <2> QED
    BY <2>1, <2>3, <2>4
<1>6. /\ IsFiniteSet(found) /\ Cardinality(found) <= limit
      /\ \A l \in found, m \in above : remote[s].uid[m] <= remote[s].uid[l] => m \in found
  <2>1. \A k, l \in above : remote[s].uid[k] = remote[s].uid[l] => k = l
    BY <1>3, <1>5 DEF ExternalImapInv, RemoteInv, FolderInv
  <2>2. above \in SUBSET RemoteMail
    BY <1>5
  <2>3. PICK u, S, n : u = remote[s].uid /\ S = above /\ n = limit
    OBVIOUS
  <2>4. /\ S \in SUBSET RemoteMail /\ IsFiniteSet(S) /\ u \in [RemoteMail -> Nat] /\ n \in Nat
        /\ \A k, l \in S : u[k] = u[l] => k = l
    <3> HIDE DEF last, limit, above, s
    <3> QED
      BY <1>4, <1>5, <2>1, <2>2, <2>3
  <2>5. /\ IsFiniteSet(Few(u, S, n)) /\ Cardinality(Few(u, S, n)) <= n
        /\ \A l \in Few(u, S, n), m \in S : u[m] <= u[l] => m \in Few(u, S, n)
    BY <2>4, LowestFew
  <2>6. found = Few(u, S, n)
    BY <2>3 DEF Few
  <2> HIDE DEF found, last, limit, above, s
  <2> QED
    BY <2>3, <2>5, <2>6
<1>7. found \in SUBSET Present(s)
  BY <1>5
<1>8. IsFiniteSet(items) /\ Cardinality(items) <= limit
  <2> HIDE DEF item, found
  <2>1. IsFiniteSet(items) /\ Cardinality(items) <= Cardinality(found)
    <3> DEFINE g == [l \in found |-> item(l)]
    <3>1. g \in Surjection(found, items)
      BY DEF Surjection
    <3> HIDE DEF g, items
    <3> QED
      BY <1>6, <3>1, FS_Surjection
  <2>2. Cardinality(items) \in Nat /\ Cardinality(found) \in Nat
    BY <1>6, <2>1, FS_CardinalityType
  <2> QED
    BY <1>4, <1>6, <2>1, <2>2
<1>9. items \in SUBSET Item /\ \A x \in items : ReadBy(r, x)
  <2> SUFFICES ASSUME NEW l \in found PROVE item(l) \in Item /\ ReadBy(r, item(l))
    OBVIOUS
  <2>1. l \in RemoteMail /\ l \in Present(s) /\ remote[s].uid[l] \in Nat /\ remote[s].era \in Nat
    BY <1>3, <1>5, <1>7, FolderFacts DEF ExternalImapInv
  <2> HIDE DEF found
  <2> QED
    BY <1>3, <2>1 DEF Item, ReadNow, ReadBy
<1>10. items = {} <=> found = {}
  OBVIOUS
<1>11. pc \in {"save", "items"} /\ (pc = "items" => items # {}) /\ full \in BOOLEAN
  BY <1>10
<1>12. \A x \in items, m \in above : remote[s].uid[m] <= x.uid => \E y \in items : y.uid = remote[s].uid[m]
  <2> SUFFICES ASSUME NEW x \in items, NEW m \in above, remote[s].uid[m] <= x.uid
               PROVE  \E y \in items : y.uid = remote[s].uid[m]
    OBVIOUS
  <2> HIDE DEF found
  <2>1. PICK l \in found : x = item(l)
    OBVIOUS
  <2>2. m \in found
    BY <1>6, <2>1
  <2>3. item(m) \in items /\ item(m).uid = remote[s].uid[m]
    BY <2>2
  <2> QED
    BY <2>3
<1> HIDE DEF items, pc, full, found
<1>13. /\ run \in Run /\ run.pc = pc /\ run.last = last /\ run.items = items /\ run.count = syncing[r].count
       /\ run.token = syncing[r].token /\ run.server = s
  BY <1>2, <1>3, <1>9, <1>11 DEF Run, SyncPC
<1>14. RunOK(run)
  <2>1. Cardinality(items) \in Nat
    BY <1>8, FS_CardinalityType
  <2>2. run.count + Cardinality(run.items) <= MaxPerRun
    BY <1>3, <1>4, <1>8, <1>13, <2>1, Constants
  <2> QED
    BY <1>8, <1>11, <1>13, <2>2 DEF RunOK
<1>15. ASSUME Steady, Here PROVE Covers(run)
  <2>0. s = "first" /\ Letters = Present(s)
    BY <1>15 DEF ExternalImapInv, StayInv, Steady, Letters
  <2>1. Covers(syncing[r]) /\ \A l \in Letters : remote[s].uid[l] = l /\ l \in Nat
    BY <1>15, <1>3, <2>0, LetterFacts DEF ExternalImapInv, CoverInv, RemoteInv, FolderInv, Steady
  <2>2. last \in Nat
    BY <1>3 DEF Run
  <2>3. ASSUME NEW x \in items, NEW l \in Letters, l <= x.uid PROVE l <= last \/ \E y \in items : y.uid = l
    <3>1. CASE ~(l <= last)
      <4>1. l \in above
        BY <2>0, <2>1, <2>2, <3>1 DEF Above, Numbers
      <4> QED
        BY <1>12, <2>1, <2>3, <4>1
    <3> QED
      BY <3>1
  <2> QED
    BY <1>13, <2>1, <2>3 DEF Covers
<1>16. ASSUME Steady, Here
       PROVE  /\ progress'.last <= Came
              /\ \A l \in Letters : l <= progress'.last => Imported(l)'
              /\ Covers(run)'
  BY <1>1, <1>15, <1>16, CoversFrame DEF ExternalImapInv, CoverInv, Imported
<1>17. ASSUME NEW x \in imports' \cup run.items PROVE Known(x) \/ ReadBy(r, x)
  BY <1>1, <1>9, <1>13 DEF Known, Told
<1>18. /\ \A i \in imports' : IsImport(i)
       /\ ImportedOnce'
       /\ \A l \in Letters : Imported(l) => Imported(l)'
       /\ progress' \in [known : BOOLEAN, last : 0 .. MaxMails, mailbox : Boxes]
       /\ ~Here => progress'.last = 0
  BY <1>1 DEF ExternalImapInv, ImapTypes, ImportedOnce, Imported, CoverInv
<1> QED
  BY <1>1, <1>2, <1>11, <1>13, <1>14, <1>16, <1>17, <1>18, RunStep

LEMMA ItemIsTold ==
  ASSUME ExternalImapInv, NEW r \in Runner, NEW x \in syncing[r].items
  PROVE  x \in Told /\ TellsOf(x) /\ Known(x) /\ x \in Item
  BY DEF ExternalImapInv, Told, ToldInv, Known, ImapTypes, Run

LEMMA KeyIsImported ==
  ASSUME ExternalImapInv, NEW item \in Told, KeyKnown(item), Steady
  PROVE  Imported(item.letter)
<1>1. PICK i \in imports : i.era = item.era /\ i.uid = item.uid
  BY DEF KeyKnown
<1>2. i \in Told
  BY DEF Told
<1>3. /\ item.era \in 1 .. 1 /\ i.era \in 1 .. 1 /\ TellsOf(i) /\ TellsOf(item)
      /\ i.server = "first" /\ item.server = "first"
  BY <1>2 DEF ExternalImapInv, ToldInv, TellsOf, StayInv, Steady
<1>4. i.era = 1 /\ item.era = 1
  BY <1>3
<1>5. i.letter = i.uid /\ item.letter = item.uid
  BY <1>3, <1>4 DEF TellsOf
<1> QED
  BY <1>1, <1>3, <1>5 DEF Imported

\* An item that is stored, or was, is behind the run.
LEMMA PastStep ==
  ASSUME ExternalImapInv, NEW r \in Runner, syncing[r].pc \in {"items", "insert"}, PastItem(r, NextItem(r)),
         UNCHANGED <<remote, ximap, progress, ximapLog>>,
         \A i \in imports' : IsImport(i) /\ Known(i), ImportedOnce', \A l \in Letters : Imported(l) => Imported(l)',
         Steady => \E i \in imports' : i.letter = NextItem(r).letter /\ i.server = "first"
  PROVE  ExternalImapInv'
<1> DEFINE item == NextItem(r)
           rest == syncing[r].items \ {item}
           count == syncing[r].count + 1
           pc == IF rest # {} THEN "items" ELSE IF syncing[r].full /\ count < MaxPerRun THEN "fetch" ELSE "save"
<1>1. Put(r, [syncing[r] EXCEPT !.last = item.uid, !.count = count, !.items = rest, !.pc = pc])
  BY DEF PastItem
<1>2. PICK run : run = [syncing[r] EXCEPT !.last = item.uid, !.count = count, !.items = rest, !.pc = pc]
  OBVIOUS
<1>3. syncing[r] \in Run /\ RunOK(syncing[r]) /\ syncing[r].items # {}
  BY DEF ExternalImapInv, ImapTypes, RunOK
<1>4. item \in syncing[r].items /\ \A k \in syncing[r].items : item.uid <= k.uid
  BY <1>3, NextItemIs DEF ExternalImapInv
<1>5. item \in Told /\ TellsOf(item)
  BY <1>4, ItemIsTold
<1>6. item.uid \in 0 .. MaxMails /\ item.uid \in Nat
  BY <1>5, Constants DEF TellsOf
<1>7. /\ IsFiniteSet(rest) /\ Cardinality(rest) \in Nat /\ count + Cardinality(rest) <= MaxPerRun
      /\ count \in 0 .. MaxPerRun
  <2>1. /\ IsFiniteSet(syncing[r].items) /\ Cardinality(syncing[r].items) \in Nat
        /\ syncing[r].count + Cardinality(syncing[r].items) <= MaxPerRun
    BY <1>3, FS_CardinalityType DEF RunOK
  <2>2. IsFiniteSet(rest) /\ Cardinality(rest) = Cardinality(syncing[r].items) - 1
    BY <1>4, <2>1, FS_RemoveElement
  <2>3. Cardinality(rest) \in Nat
    BY <2>2, FS_CardinalityType
  <2>4. syncing[r].count \in Nat
    BY <1>3, Constants DEF Run
  <2> QED
    BY <2>1, <2>2, <2>3, <2>4, Constants
<1>8. pc \in {"items", "fetch", "save"} /\ (pc = "items" => rest # {})
  OBVIOUS
<1>9. rest \in SUBSET syncing[r].items
  OBVIOUS
<1> HIDE DEF pc, count
<1>10. /\ run \in Run /\ run.pc = pc /\ run.last = item.uid /\ run.items = rest /\ run.count = count
       /\ run.token = syncing[r].token /\ run.server = syncing[r].server
  <2> HIDE DEF item, rest
  <2> QED
    BY <1>2, <1>3, <1>6, <1>7, <1>8, <1>9 DEF Run, SyncPC
<1>11. RunOK(run)
  BY <1>7, <1>8, <1>10 DEF RunOK
<1>12. ASSUME Steady, Here PROVE Covers(run)'
  <2>1. Covers(syncing[r]) /\ Came \in Nat /\ \A l \in Letters : l \in Nat
    BY <1>12, LetterFacts DEF ExternalImapInv, CoverInv
  <2>2. item.era = 1 /\ item.letter = item.uid /\ item.letter \in 1 .. Came
    <3>1. item.server = "first"
      BY <1>5, <1>12 DEF ExternalImapInv, StayInv, Steady
    <3>2. item.era \in 1 .. 1
      BY <1>5, <1>12, <3>1 DEF TellsOf, Steady
    <3> QED
      BY <1>5, <3>1, <3>2 DEF TellsOf, Came
  <2>3. run.last <= Came
    BY <1>10, <2>1, <2>2
  <2>4. \A y \in syncing[r].items : y.uid \in Nat
    BY ItemIsTold DEF Item
  <2>5. ASSUME NEW l \in Letters, l <= item.uid PROVE Imported(l)'
    <3>1. l <= syncing[r].last \/ Imported(l) \/ \E y \in syncing[r].items : y.uid = l
      BY <1>4, <2>1, <2>5 DEF Covers
    <3>2. CASE l <= syncing[r].last \/ Imported(l)
      BY <2>1, <3>2 DEF Covers
    <3>3. CASE \E y \in syncing[r].items : y.uid = l
      <4>1. item.uid <= l
        BY <1>4, <3>3
      <4>2. l = item.uid
        BY <1>6, <2>1, <2>5, <4>1
      <4> QED
        BY <1>12, <2>2, <4>2 DEF Imported
    <3> QED
      BY <3>1, <3>2, <3>3
  <2>6. ASSUME NEW x \in rest, NEW l \in Letters, l <= x.uid
        PROVE  l <= item.uid \/ Imported(l)' \/ \E y \in rest : y.uid = l
    <3>1. l <= syncing[r].last \/ Imported(l) \/ \E y \in syncing[r].items : y.uid = l
      BY <2>1, <2>6 DEF Covers
    <3>2. CASE l <= syncing[r].last \/ Imported(l)
      BY <2>1, <3>2 DEF Covers
    <3>3. CASE \E y \in syncing[r].items : y.uid = l
      <4>1. PICK y \in syncing[r].items : y.uid = l
        BY <3>3
      <4>2. CASE y = item
        BY <1>6, <4>1, <4>2
      <4>3. CASE y # item
        BY <4>1, <4>3
      <4> QED
        BY <4>2, <4>3
    <3> QED
      BY <3>1, <3>2, <3>3
  <2>7. Letters' = Letters /\ Came' = Came
    BY DEF Letters, Present, Came
  <2> HIDE DEF item, rest
  <2> QED
    BY <1>10, <2>3, <2>5, <2>6, <2>7 DEF Covers
<1>13. ASSUME NEW x \in imports' \cup run.items PROVE Known(x) \/ ReadBy(r, x)
  BY <1>9, <1>10, ItemIsTold
<1>14. /\ progress' \in [known : BOOLEAN, last : 0 .. MaxMails, mailbox : Boxes]
       /\ ~Here => progress'.last = 0
       /\ Steady /\ Here => /\ progress'.last <= Came
                           /\ \A l \in Letters : l <= progress'.last => Imported(l)'
  BY DEF ExternalImapInv, ImapTypes, CoverInv
<1> HIDE DEF item, rest
<1>15. syncing[r].pc \notin {"idle", "token"} /\ run.pc # "token" /\ run.token \in {0, syncing[r].token}
  BY <1>8, <1>10
<1> QED
  BY <1>1, <1>2, <1>10, <1>11, <1>12, <1>13, <1>14, <1>15, RunStep

LEMMA SkipStep ==
  ASSUME ExternalImapInv, NEW r \in Runner, SkipKnown(r)
  PROVE  ExternalImapInv'
<1>1. /\ syncing[r].pc = "items" /\ KeyKnown(NextItem(r)) /\ PastItem(r, NextItem(r))
      /\ UNCHANGED <<remote, ximap, progress, imports, ximapLog>>
  BY DEF SkipKnown
<1>2. NextItem(r) \in syncing[r].items
  BY <1>1, NextItemIs DEF ExternalImapInv, RunOK
<1>3. NextItem(r) \in Told
  BY <1>2, ItemIsTold
<1>4. Steady => Imported(NextItem(r).letter)
  BY <1>1, <1>3, KeyIsImported
<1>5. /\ \A i \in imports' : IsImport(i) /\ Known(i)
      /\ ImportedOnce' /\ \A l : Imported(l) => Imported(l)'
  BY <1>1 DEF ExternalImapInv, ImapTypes, Known, Told, ImportedOnce, Imported
<1>6. Steady => \E i \in imports' : i.letter = NextItem(r).letter /\ i.server = "first"
  BY <1>1, <1>4 DEF Imported
<1> QED
  BY <1>1, <1>5, <1>6, PastStep

LEMMA InsertStep ==
  ASSUME ExternalImapInv, NEW r \in Runner, NEW place \in {"folder", "elsewhere"}, InsertOnce(r, place)
  PROVE  ExternalImapInv'
<1>1. PICK item : item = NextItem(r)
  OBVIOUS
<1>2. /\ syncing[r].pc = "insert" /\ PastItem(r, NextItem(r)) /\ UNCHANGED <<remote, ximap, progress, ximapLog>>
      /\ imports' = (IF KeyKnown(item) THEN imports ELSE
           imports \cup {[era |-> item.era, uid |-> item.uid, server |-> item.server, letter |-> item.letter,
                          copy |-> Cardinality({i \in imports : i.letter = item.letter}),
                          mailbox |-> syncing[r].mailbox, place |-> place]})
  BY <1>1 DEF InsertOnce, InsertIgnored
<1>3. item \in syncing[r].items
  BY <1>1, <1>2, NextItemIs DEF ExternalImapInv, RunOK
<1>4. item \in Told /\ item \in Item /\ Known(item) /\ syncing[r].mailbox \in Boxes
  BY <1>3, ItemIsTold DEF ExternalImapInv, ImapTypes, Run
<1>5. CASE KeyKnown(item)
  <2>1. Steady => Imported(item.letter)
    BY <1>4, <1>5, KeyIsImported
  <2>2. /\ \A i \in imports' : IsImport(i) /\ Known(i)
        /\ ImportedOnce' /\ \A l : Imported(l) <=> Imported(l)'
    BY <1>2, <1>5 DEF ExternalImapInv, ImapTypes, Known, Told, ImportedOnce, Imported
  <2>3. Steady => \E i \in imports' : i.letter = NextItem(r).letter /\ i.server = "first"
    BY <1>1, <1>2, <1>5, <2>1 DEF Imported
  <2> QED
    BY <1>2, <2>2, <2>3, PastStep
<1>6. CASE ~KeyKnown(item)
  <2>1. PICK new : /\ imports' = imports \cup {new}
                   /\ new = [era |-> item.era, uid |-> item.uid, server |-> item.server, letter |-> item.letter,
                             copy |-> Cardinality({i \in imports : i.letter = item.letter}),
                             mailbox |-> syncing[r].mailbox, place |-> place]
    BY <1>2, <1>6
  <2>2. IsImport(new)
    BY <1>4, <2>1 DEF IsImport, Item, Places
  <2>3. Known(new)
    BY <1>4, <2>1 DEF Known
  <2>4. \A i \in imports' : IsImport(i) /\ Known(i)
    BY <2>1, <2>2, <2>3 DEF ExternalImapInv, ImapTypes, Known, Told
  <2>5. \A i \in imports : i.server = new.server /\ i.letter = new.letter => i.era # new.era
    <3> SUFFICES ASSUME NEW i \in imports, i.server = item.server, i.letter = item.letter, i.era = item.era PROVE FALSE
      BY <2>1
    <3>1. i \in Told
      BY DEF Told
    <3>2. i.uid = item.uid
      BY <1>4, <3>1 DEF ExternalImapInv, ToldInv
    <3> QED
      BY <1>6, <3>2 DEF KeyKnown
  <2>6. ImportedOnce'
    BY <2>1, <2>5 DEF ExternalImapInv, ImportedOnce
  <2>7. \A l : Imported(l) => Imported(l)'
    BY <2>1 DEF Imported
  <2>8. Steady => \E i \in imports' : i.letter = item.letter /\ i.server = "first"
    BY <1>4, <2>1 DEF Steady, ExternalImapInv, StayInv
  <2> QED
    BY <1>1, <1>2, <2>4, <2>6, <2>7, <2>8, PastStep
<1> QED
  BY <1>5, <1>6

LEMMA FetchItemStep ==
  ASSUME ExternalImapInv, NEW r \in Runner, FetchItem(r)
  PROVE  ExternalImapInv' \/ (ImapTypes' /\ Plain(r) /\ TokenCalm)
<1>1. PICK item : item = NextItem(r)
  OBVIOUS
<1>2. syncing[r].pc = "items" /\ UNCHANGED <<remote, ximap, progress, imports, ximapLog>>
  BY DEF FetchItem
<1>3. /\ syncing[r].items # {} /\ syncing[r] \in Run /\ RunOK(syncing[r])
  BY <1>2 DEF ExternalImapInv, RunOK, ImapTypes
<1>4. item \in syncing[r].items
  BY <1>1, <1>3, NextItemIs DEF ExternalImapInv
<1>5. CASE GoTo(r, "insert")
  BY <1>2, <1>3, <1>5, GoOnStep DEF SyncPC
<1>6. CASE ~GoTo(r, "insert")
  <2>0. PICK s : s = syncing[r].server
    OBVIOUS
  <2>1. PICK l \in Present(s) :
          /\ remote[s].uid[l] = item.uid
          /\ Put(r, [syncing[r] EXCEPT !.pc = "insert", !.items = (@ \ {item}) \cup
               {[era |-> remote[s].era, uid |-> item.uid, server |-> s, letter |-> l, raw |-> TRUE]}])
    BY <1>1, <1>6, <2>0 DEF FetchItem, Numbers
  <2>2. PICK now : now = [era |-> remote[s].era, uid |-> item.uid, server |-> s, letter |-> l, raw |-> TRUE]
    OBVIOUS
  <2>3. PICK items : items = (syncing[r].items \ {item}) \cup {now}
    OBVIOUS
  <2>4. PICK run : run = [syncing[r] EXCEPT !.pc = "insert", !.items = items]
    OBVIOUS
  <2>5. Put(r, run)
    BY <2>1, <2>2, <2>3, <2>4
  <2>6. item \in Item /\ now \in Item /\ ReadBy(r, now) /\ now.uid = item.uid
    <3>1. item \in Item /\ s \in Server
      BY <1>3, <1>4, <2>0, ItemIsTold DEF Run
    <3>2. remote[s].era \in Nat /\ l \in RemoteMail
      BY <3>1, FolderFacts DEF ExternalImapInv
    <3> QED
      BY <2>0, <2>1, <2>2, <3>1, <3>2 DEF Item, ReadNow, ReadBy
  <2>7. items \in SUBSET Item /\ items # {}
    BY <1>3, <2>3, <2>6 DEF Run
  <2>8. IsFiniteSet(items) /\ syncing[r].count + Cardinality(items) <= MaxPerRun
    <3>1. /\ IsFiniteSet(syncing[r].items) /\ Cardinality(syncing[r].items) \in Nat
          /\ syncing[r].count + Cardinality(syncing[r].items) <= MaxPerRun /\ syncing[r].count \in Nat
      BY <1>3, FS_CardinalityType, Constants DEF RunOK, Run
    <3>2. PICK rest : rest = syncing[r].items \ {item}
      OBVIOUS
    <3>3. IsFiniteSet(rest) /\ Cardinality(rest) = Cardinality(syncing[r].items) - 1
      BY <1>4, <3>1, <3>2, FS_RemoveElement
    <3>4. items = rest \cup {now}
      BY <2>3, <3>2
    <3>5. /\ IsFiniteSet(items) /\ Cardinality(rest) \in Nat
          /\ Cardinality(items) \in {Cardinality(rest), Cardinality(rest) + 1}
      BY <3>3, <3>4, FS_AddElement, FS_CardinalityType
    <3> QED
      BY <3>1, <3>3, <3>5, Constants
  <2>9. /\ run \in Run /\ run.pc = "insert" /\ run.last = syncing[r].last /\ run.items = items
        /\ run.count = syncing[r].count /\ run.token = syncing[r].token /\ run.server = syncing[r].server
    BY <1>3, <2>4, <2>7 DEF Run, SyncPC
  <2>10. RunOK(run)
    BY <2>7, <2>8, <2>9 DEF RunOK
  <2>11. /\ \A y \in items : \E x \in syncing[r].items : x.uid = y.uid
         /\ \A x \in syncing[r].items : \E y \in items : x.uid = y.uid
    BY <1>4, <2>3, <2>6
  <2>12. ASSUME Steady, Here
         PROVE  /\ progress'.last <= Came
                /\ \A k \in Letters : k <= progress'.last => Imported(k)'
                /\ Covers(run)'
    <3>1. Covers(syncing[r])
      BY <2>12 DEF ExternalImapInv, CoverInv
    <3>2. ASSUME NEW x \in items, NEW k \in Letters, k <= x.uid
          PROVE  k <= syncing[r].last \/ Imported(k) \/ \E y \in items : y.uid = k
      <4>1. PICK v \in syncing[r].items : v.uid = x.uid
        BY <2>11
      <4>2. k <= syncing[r].last \/ Imported(k) \/ \E w \in syncing[r].items : w.uid = k
        BY <3>1, <3>2, <4>1 DEF Covers
      <4> QED
        BY <2>11, <4>2
    <3>3. Covers(run)
      BY <2>9, <3>1, <3>2 DEF Covers
    <3> QED
      BY <1>2, <2>12, <3>3, CoversFrame DEF ExternalImapInv, CoverInv, Imported
  <2>13. ASSUME NEW x \in imports' \cup run.items PROVE Known(x) \/ ReadBy(r, x)
    <3>1. x \in imports \/ x \in syncing[r].items \/ x = now
      BY <1>2, <2>3, <2>9
    <3> QED
      BY <2>6, <3>1 DEF Known, Told
  <2>14. /\ \A i \in imports' : IsImport(i)
         /\ ImportedOnce'
         /\ \A k \in Letters : Imported(k) => Imported(k)'
         /\ progress' \in [known : BOOLEAN, last : 0 .. MaxMails, mailbox : Boxes]
         /\ ~Here => progress'.last = 0
    BY <1>2 DEF ExternalImapInv, ImapTypes, ImportedOnce, Imported, CoverInv
  <2> QED
    BY <1>2, <2>5, <2>9, <2>10, <2>12, <2>13, <2>14, RunStep
<1> QED
  BY <1>5, <1>6

LEMMA SaveStep ==
  ASSUME ExternalImapInv, NEW r \in Runner, SaveProgress(r)
  PROVE  ExternalImapInv'
<1> DEFINE last == Max({progress.last, syncing[r].last})
<1>1. /\ syncing[r].pc = "save" /\ UNCHANGED <<remote, ximap, imports, ximapLog>> /\ Put(r, IdleRun)
      /\ progress' = (IF ~Here THEN progress ELSE [known |-> TRUE, last |-> last, mailbox |-> syncing[r].mailbox])
  BY DEF SaveProgress
<1>2. /\ progress.last \in 0 .. MaxMails /\ syncing[r].last \in 0 .. MaxMails /\ syncing[r].mailbox \in Boxes
      /\ Came \in Nat /\ \A l \in Letters : l \in Nat /\ l > 0
  BY LetterFacts, Constants DEF ExternalImapInv, ImapTypes, Run
<1>3. last = (IF progress.last >= syncing[r].last THEN progress.last ELSE syncing[r].last)
  <2>1. progress.last \in Nat /\ syncing[r].last \in Nat
    BY <1>2
  <2> QED
    BY <2>1, MinMax
<1>4. last \in 0 .. MaxMails /\ (last = progress.last \/ last = syncing[r].last)
  BY <1>2, <1>3
<1> HIDE DEF last
<1>5. /\ progress' \in [known : BOOLEAN, last : 0 .. MaxMails, mailbox : Boxes]
      /\ ~Here => progress'.last = 0
      /\ Here => progress'.last = last
  BY <1>1, <1>2, <1>4 DEF ExternalImapInv, ImapTypes, CoverInv
<1>6. ASSUME Steady, Here
      PROVE  /\ progress'.last <= Came
             /\ \A l \in Letters : l <= progress'.last => Imported(l)'
             /\ Covers(IdleRun)'
  <2>1. /\ progress.last <= Came /\ (\A l \in Letters : l <= progress.last => Imported(l))
        /\ syncing[r].last <= Came /\ \A l \in Letters : l <= syncing[r].last => Imported(l)
    BY <1>6 DEF ExternalImapInv, CoverInv, Covers
  <2>2. last <= Came /\ \A l \in Letters : l <= last => Imported(l)
    BY <1>4, <2>1
  <2>3. \A l \in Letters : ~(l <= 0)
    BY <1>2
  <2>4. Covers(IdleRun)
    BY <1>2, <2>3, IdleFacts DEF Covers
  <2> QED
    BY <1>1, <1>5, <1>6, <2>2, <2>4, CoversFrame DEF Imported
<1>7. RunOK(IdleRun)
  BY IdleFacts, FS_EmptySet, Constants DEF RunOK
<1>8. \A x \in imports' \cup IdleRun.items : Known(x)
  BY <1>1, IdleFacts DEF Known, Told
<1>9. /\ \A i \in imports' : IsImport(i)
      /\ ImportedOnce'
      /\ \A k \in Letters : Imported(k) => Imported(k)'
  BY <1>1 DEF ExternalImapInv, ImapTypes, ImportedOnce, Imported
<1>10. /\ IdleRun \in Run /\ IdleRun.pc # "token" /\ IdleRun.server = "first" /\ IdleRun.token \in {0, syncing[r].token}
       /\ syncing[r].pc \notin {"idle", "token"}
  BY <1>1, IdleFacts
<1> QED
  BY <1>1, <1>5, <1>6, <1>7, <1>8, <1>9, <1>10, RunStep

-----------------------------------------------------------------------------
(* The server *)

\* A step of the server alone.
LEMMA ServerFrame ==
  ASSUME ExternalImapInv, UNCHANGED <<ximap, progress, imports, syncing>>, remote' \in RemoteType, RemoteInv',
         ximapLog' = ximapLog \/ Turn,
         \A s \in Server : remote[s].era <= remote'[s].era /\ remote[s].came <= remote'[s].came,
         \A x \in Told : TellsOf(x)',
         \A s \in Server : remote'[s].era = 1 =>
           remote[s].era = 1 /\ \A l \in Present(s)' : l \in Present(s) \/ l > remote[s].came
  PROVE  ExternalImapInv'
<1>1. /\ ximapLog' \in Log /\ ximapLog'.steps = ximapLog.steps /\ ximapLog'.issued = ximapLog.issued
      /\ ximapLog'.dropped = ximapLog.dropped /\ ximapLog'.revived = ximapLog.revived
      /\ ximapLog'.wrongMark = ximapLog.wrongMark /\ ximapLog'.moved = ximapLog.moved
  BY TurnTypes DEF ExternalImapInv, ImapTypes, Log
<1>2. ImapTypes'
  BY <1>1 DEF ExternalImapInv, ImapTypes
<1>3. Told' = Told /\ Here' = Here
  BY DEF Told, Here
<1>0. /\ Came <= Came'
      /\ Steady' => Steady /\ \A l \in Letters' : l \in Letters \/ l > Came
  <2>1. "first" \in Server
    BY DEF Server
  <2> QED
    BY <1>1, <2>1 DEF Came, Steady, Letters
<1>4. ToldInv'
  BY <1>3 DEF ExternalImapInv, ToldInv
<1>5. \A r \in Runner : RunOK(syncing'[r])
  BY DEF ExternalImapInv
<1>6. \A l : Imported(l) <=> Imported(l)'
  BY DEF Imported
<1>7. /\ Came \in Nat /\ Came' \in Nat /\ progress.last \in Nat
      /\ \A r \in Runner : syncing[r].last \in Nat
      /\ \A l \in Letters' : l \in Nat
  <2>1. ImapTypes
    BY DEF ExternalImapInv
  <2>2. progress.last \in Nat /\ \A r \in Runner : syncing[r].last \in Nat
    BY <2>1, Constants DEF ImapTypes, Run
  <2>3. Came' \in Nat
    BY <1>2, Constants DEF ImapTypes, RemoteType, FolderType, Server, Came
  <2>4. \A l \in Letters' : l \in Nat
    BY Constants DEF Letters, Present, RemoteMail
  <2> QED
    BY <2>1, <2>2, <2>3, <2>4, LetterFacts
<1>8. ASSUME Steady', Here
      PROVE  /\ progress.last <= Came'
             /\ \A l \in Letters' : l <= progress.last => Imported(l)
             /\ \A r \in Runner : Covers(syncing[r])'
  <2>1. /\ progress.last <= Came /\ (\A l \in Letters : l <= progress.last => Imported(l))
        /\ \A r \in Runner : Covers(syncing[r])
    BY <1>0, <1>8 DEF ExternalImapInv, CoverInv
  <2>2. progress.last <= Came'
    BY <1>0, <1>7, <2>1
  <2>3. ASSUME NEW l \in Letters', l <= progress.last PROVE Imported(l)
    BY <1>0, <1>7, <1>8, <2>1, <2>3
  <2>4. ASSUME NEW r \in Runner PROVE Covers(syncing[r])'
    <3>1. syncing[r].last <= Came'
      BY <1>0, <1>7, <2>1 DEF Covers
    <3>2. ASSUME NEW l \in Letters', l <= syncing[r].last PROVE Imported(l)
      BY <1>0, <1>7, <1>8, <2>1, <3>2 DEF Covers
    <3>3. ASSUME NEW x \in syncing[r].items, NEW l \in Letters', l <= x.uid
          PROVE  l <= syncing[r].last \/ Imported(l) \/ \E y \in syncing[r].items : y.uid = l
      <4>1. x.uid \in Nat /\ x.uid <= Came
        <5>1. TellsOf(x)
          BY ItemIsTold
        <5>2. x.server = "first" /\ Steady
          BY <1>0, <1>8 DEF ExternalImapInv, StayInv, Told, Steady
        <5>3. x.era \in 1 .. 1
          BY <5>1, <5>2 DEF TellsOf, Steady
        <5> QED
          BY <1>7, <5>1, <5>2, <5>3 DEF TellsOf, Came
      <4>2. l \in Letters
        BY <1>0, <1>7, <1>8, <3>3, <4>1
      <4> QED
        BY <2>1, <3>3, <4>2 DEF Covers
    <3> QED
      BY <1>6, <3>1, <3>2, <3>3 DEF Covers
  <2> QED
    BY <2>2, <2>3, <2>4
<1>9. CoverInv'
  <2>1. /\ ~Here' => progress'.last = 0
        /\ ximap'.status = "none" => \A r \in Runner : syncing'[r] = IdleRun
    BY <1>3 DEF ExternalImapInv, CoverInv
  <2> QED
    BY <1>3, <1>6, <1>8, <2>1 DEF CoverInv
<1>10. TokenInv'
  <2>1. TokenCalm
    BY <1>1 DEF TokenCalm
  <2> QED
    BY <2>1, CalmKeepsToken
<1>11. ImportedOnce'
  BY DEF ExternalImapInv, ImportedOnce
<1>12. MarkReachesIts'
  <2>1. \A s \in Server : remote[s].era \in Nat /\ remote'[s].era \in Nat
    BY DEF ExternalImapInv, ImapTypes, RemoteType, FolderType
  <2> QED
    BY <1>1, <2>1 DEF ExternalImapInv, MarkReachesIts, Renumbered
<1>13. StayInv'
  BY <1>1, <1>3 DEF ExternalImapInv, StayInv
<1> QED
  BY <1>2, <1>4, <1>5, <1>9, <1>10, <1>11, <1>12, <1>13 DEF ExternalImapInv

\* One server changes its folder.
LEMMA FolderChanges ==
  ASSUME ExternalImapInv, UNCHANGED <<ximap, progress, imports, syncing>>, ximapLog' = ximapLog \/ Turn,
         NEW s \in Server, NEW folder \in FolderType, PutFolder(s, folder),
         FolderInv(s)', remote[s].era <= folder.era, remote[s].came <= folder.came,
         \A x \in Told : x.server = s => TellsOf(x)',
         folder.era = 1 => remote[s].era = 1 /\ \A l \in Present(s)' : l \in Present(s) \/ l > remote[s].came
  PROVE  ExternalImapInv'
<1>1. remote \in RemoteType
  BY DEF ExternalImapInv, ImapTypes
<1>2. remote' \in RemoteType /\ remote'[s] = folder /\ \A t \in Server \ {s} : remote'[t] = remote[t]
  BY <1>1 DEF RemoteType, PutFolder
<1>3. \A t \in Server \ {s} : Present(t)' = Present(t)
  BY <1>2 DEF Present
<1>4. \A t \in Server \ {s} : FolderInv(t)'
  BY <1>2, <1>3 DEF ExternalImapInv, RemoteInv, FolderInv
<1>5. RemoteInv'
  BY <1>4 DEF RemoteInv
<1>6. \A t \in Server : remote[t].era \in Nat /\ remote[t].came \in Nat
  BY <1>1 DEF RemoteType, FolderType
<1>7. \A t \in Server : remote[t].era <= remote'[t].era /\ remote[t].came <= remote'[t].came
  BY <1>2, <1>6
<1>8. ASSUME NEW x \in Told PROVE TellsOf(x)'
  <2>1. TellsOf(x)
    BY DEF ExternalImapInv, ToldInv
  <2>2. CASE x.server # s
    <3>1. x.server \in Server \ {s}
      BY <2>1, <2>2 DEF TellsOf
    <3>2. remote'[x.server] = remote[x.server]
      BY <1>2, <3>1
    <3> QED
      BY <2>1, <3>2 DEF TellsOf
  <2> QED
    BY <2>2
<1>9. \A t \in Server : remote'[t].era = 1 =>
        remote[t].era = 1 /\ \A l \in Present(t)' : l \in Present(t) \/ l > remote[t].came
  BY <1>2, <1>3
<1> QED
  BY <1>2, <1>5, <1>7, <1>8, <1>9, ServerFrame

LEMMA ServerFacts ==
  ASSUME ExternalImapInv, NEW s \in Server
  PROVE  /\ remote[s] \in FolderType /\ remote[s].era \in Nat /\ remote[s].next \in Nat /\ remote[s].came \in Nat
         /\ remote[s].came <= MaxMails /\ remote[s].uid \in [RemoteMail -> 0 .. MaxMails]
         /\ Present(s) \in SUBSET (1 .. remote[s].came) /\ Present(s) \in SUBSET RemoteMail
         /\ \A l \in RemoteMail : remote[s].uid[l] \in Nat /\ (l \notin Present(s) => remote[s].uid[l] = 0)
         /\ FolderInv(s)
         /\ \A x \in Told : x.server = s =>
              /\ TellsOf(x) /\ x.letter \in RemoteMail /\ x.uid \in 1 .. MaxMails
              /\ x.letter \in 1 .. remote[s].came /\ x.era \in Nat /\ x.era <= remote[s].era
<1>1. /\ remote[s] \in FolderType /\ remote[s].era \in Nat /\ remote[s].next \in Nat /\ remote[s].came \in Nat
      /\ remote[s].came <= MaxMails /\ remote[s].uid \in [RemoteMail -> 0 .. MaxMails]
      /\ Present(s) \in SUBSET RemoteMail
  BY FolderFacts DEF ExternalImapInv
<1>2. FolderInv(s)
  BY DEF ExternalImapInv, RemoteInv
<1>3. \A l \in RemoteMail : remote[s].uid[l] \in Nat /\ (l \notin Present(s) => remote[s].uid[l] = 0)
  BY <1>1, Constants DEF Present
<1>4. Present(s) \in SUBSET (1 .. remote[s].came)
  BY <1>1, <1>2, Constants DEF FolderInv, RemoteMail
<1>5. ASSUME NEW x \in Told, x.server = s
      PROVE  /\ TellsOf(x) /\ x.letter \in RemoteMail /\ x.uid \in 1 .. MaxMails
             /\ x.letter \in 1 .. remote[s].came /\ x.era \in Nat /\ x.era <= remote[s].era
  <2>1. TellsOf(x)
    BY DEF ExternalImapInv, ToldInv
  <2>2. /\ x.era \in 1 .. remote[s].era /\ x.letter \in 1 .. remote[s].came /\ x.uid \in 1 .. MaxMails
    BY <1>5, <2>1 DEF TellsOf
  <2>3. remote[s].era \in Nat /\ remote[s].came \in Nat /\ remote[s].came <= MaxMails
    BY <1>1
  <2>4. x.era \in Nat /\ x.era <= remote[s].era
    BY <2>2, <2>3
  <2>5. x.letter \in RemoteMail
    BY <2>2, <2>3, Constants DEF RemoteMail
  <2> QED
    BY <2>1, <2>2, <2>4, <2>5
<1> QED
  BY <1>1, <1>2, <1>3, <1>4, <1>5

LEMMA ArriveStep ==
  ASSUME ExternalImapInv, NEW s \in Server, Arrive(s)
  PROVE  ExternalImapInv'
<1> DEFINE new == remote[s].came + 1
           folder == [remote[s] EXCEPT !.came = @ + 1, !.next = @ + 1,
                                       !.uid = [@ EXCEPT ![remote[s].came + 1] = remote[s].next]]
<1>1. /\ remote[s].came < MaxMails
      /\ PutFolder(s, folder)
      /\ UNCHANGED <<ximap, progress, imports, syncing, ximapLog>>
  <2>1. /\ remote["first"].came + remote["second"].came < MaxMails
        /\ PutFolder(s, folder)
        /\ UNCHANGED <<ximap, progress, imports, syncing, ximapLog>>
    BY DEF Arrive
  <2>2. \A t \in Server : remote[t].came \in Nat
    BY ServerFacts
  <2> QED
    BY <2>1, <2>2, Constants DEF Server
<1>2. /\ new \in RemoteMail /\ new \in 0 .. MaxMails /\ remote[s].next \in 0 .. MaxMails /\ remote[s].next > 0
      /\ new \in Nat /\ new > remote[s].came
  BY <1>1, ServerFacts, Constants DEF FolderInv, RemoteMail
<1>3. /\ folder \in FolderType /\ remote'[s] = folder
      /\ remote'[s].era = remote[s].era /\ remote'[s].came = new /\ remote'[s].next = remote[s].next + 1
      /\ remote'[s].uid[new] = remote[s].next /\ \A l \in RemoteMail \ {new} : remote'[s].uid[l] = remote[s].uid[l]
  <2>1. PICK uid : uid = [remote[s].uid EXCEPT ![new] = remote[s].next]
    OBVIOUS
  <2>2. /\ uid \in [RemoteMail -> 0 .. MaxMails] /\ uid[new] = remote[s].next
        /\ \A l \in RemoteMail \ {new} : uid[l] = remote[s].uid[l]
    BY <1>2, <2>1, ServerFacts
  <2>3. folder = [era |-> remote[s].era, next |-> remote[s].next + 1, came |-> new, uid |-> uid]
    <3>1. PICK grown : grown = folder
      OBVIOUS
    <3>2. grown = [era |-> remote[s].era, next |-> remote[s].next + 1, came |-> new,
                   uid |-> [remote[s].uid EXCEPT ![new] = remote[s].next]]
      BY <3>1, ServerFacts DEF FolderType
    <3> HIDE DEF folder
    <3> QED
      BY <2>1, <3>1, <3>2
  <2>4. remote[s].next + 1 \in Nat
    BY <1>2, Constants
  <2>5. remote'[s] = folder
    BY <1>1 DEF PutFolder, ExternalImapInv, ImapTypes, RemoteType
  <2> HIDE DEF folder
  <2> QED
    BY <1>2, <2>2, <2>3, <2>4, <2>5, ServerFacts DEF FolderType
<1> HIDE DEF folder
<1>4. Present(s)' = Present(s) \cup {new} /\ new \notin Present(s)
  <2>1. new \in Present(s)'
    BY <1>2, <1>3 DEF Present
  <2>2. new \notin Present(s)
    BY <1>2, ServerFacts
  <2>3. \A l \in RemoteMail \ {new} : l \in Present(s)' <=> l \in Present(s)
    BY <1>3 DEF Present
  <2>4. Present(s)' \in SUBSET RemoteMail /\ Present(s) \in SUBSET RemoteMail
    BY DEF Present
  <2> QED
    BY <2>1, <2>2, <2>3, <2>4
<1>5. /\ remote[s].era > 0 /\ remote[s].next > 0 /\ remote[s].next <= remote[s].came + 1
      /\ \A l \in Present(s) : l <= remote[s].came /\ remote[s].uid[l] < remote[s].next /\ remote[s].uid[l] \in Nat /\ l \in Nat
      /\ \A k, l \in Present(s) : remote[s].uid[k] = remote[s].uid[l] => k = l
      /\ remote[s].era = 1 => remote[s].next = remote[s].came + 1 /\ \A l \in Present(s) : remote[s].uid[l] = l
  BY ServerFacts DEF FolderInv, RemoteMail
<1>6. \A l \in Present(s) : l \in RemoteMail \ {new}
  BY <1>4, ServerFacts
<1>7. FolderInv(s)'
  <2>1. remote'[s].era > 0 /\ remote'[s].next > 0 /\ remote'[s].next <= remote'[s].came + 1
    BY <1>3, <1>5, <1>2, ServerFacts
  <2>2. \A l \in Present(s)' : l <= remote'[s].came /\ remote'[s].uid[l] < remote'[s].next
    <3>1. ASSUME NEW l \in Present(s) PROVE l <= remote'[s].came /\ remote'[s].uid[l] < remote'[s].next
      BY <1>3, <1>5, <1>6, ServerFacts
    <3>2. new <= remote'[s].came /\ remote'[s].uid[new] < remote'[s].next
      BY <1>2, <1>3, ServerFacts
    <3> QED
      BY <1>4, <3>1, <3>2
  <2>3. \A k, l \in Present(s)' : remote'[s].uid[k] = remote'[s].uid[l] => k = l
    <3>1. \A l \in Present(s) : remote'[s].uid[l] = remote[s].uid[l] /\ remote[s].uid[l] # remote[s].next
      BY <1>3, <1>5, <1>6, ServerFacts
    <3> QED
      BY <1>3, <1>4, <1>5, <3>1
  <2>4. ASSUME remote'[s].era = 1 PROVE remote'[s].next = remote'[s].came + 1 /\ \A l \in Present(s)' : remote'[s].uid[l] = l
    <3>1. remote[s].next = new /\ \A l \in Present(s) : remote'[s].uid[l] = l
      BY <1>3, <1>5, <1>6, <2>4
    <3> QED
      BY <1>3, <1>4, <3>1
  <2> QED
    BY <2>1, <2>2, <2>3, <2>4 DEF FolderInv
<1>8. ASSUME NEW x \in Told, x.server = s PROVE TellsOf(x)'
  <2>1. TellsOf(x) /\ x.letter \in 1 .. remote[s].came /\ x.letter \in RemoteMail
    BY <1>8, ServerFacts
  <2>2. x.letter # new
    BY <1>2, <2>1, ServerFacts
  <2>3. remote'[s].uid[x.letter] = remote[s].uid[x.letter] /\ x.letter \in 1 .. remote'[s].came
    BY <1>2, <1>3, <2>1, <2>2, ServerFacts
  <2> QED
    BY <1>3, <1>8, <2>1, <2>3 DEF TellsOf
<1>9. remote[s].era <= folder.era /\ remote[s].came <= folder.came
  BY <1>2, <1>3, ServerFacts
<1>10. folder.era = 1 => remote[s].era = 1 /\ \A l \in Present(s)' : l \in Present(s) \/ l > remote[s].came
  BY <1>2, <1>3, <1>4
<1> QED
  BY <1>1, <1>3, <1>7, <1>8, <1>9, <1>10, FolderChanges

LEMMA ExpungeStep ==
  ASSUME ExternalImapInv, NEW s \in Server, NEW l \in RemoteMail, Expunge(s, l)
  PROVE  ExternalImapInv'
<1> DEFINE folder == [remote[s] EXCEPT !.uid[l] = 0]
<1>1. Turn /\ PutFolder(s, folder) /\ UNCHANGED <<ximap, progress, imports, syncing>>
  BY DEF Expunge
<1>2. /\ folder \in FolderType /\ remote'[s] = folder
      /\ remote'[s].era = remote[s].era /\ remote'[s].came = remote[s].came /\ remote'[s].next = remote[s].next
      /\ remote'[s].uid[l] = 0 /\ \A k \in RemoteMail \ {l} : remote'[s].uid[k] = remote[s].uid[k]
  <2>1. remote'[s] = folder
    BY <1>1 DEF PutFolder, ExternalImapInv, ImapTypes, RemoteType
  <2>2. /\ folder \in FolderType /\ folder.era = remote[s].era /\ folder.came = remote[s].came
        /\ folder.next = remote[s].next /\ folder.uid[l] = 0
        /\ \A k \in RemoteMail \ {l} : folder.uid[k] = remote[s].uid[k]
    BY ServerFacts, Constants DEF FolderType
  <2> HIDE DEF folder
  <2> QED
    BY <2>1, <2>2
<1> HIDE DEF folder
<1>3. Present(s)' = Present(s) \ {l}
  <2>1. l \notin Present(s)'
    BY <1>2 DEF Present
  <2>2. \A k \in RemoteMail \ {l} : k \in Present(s)' <=> k \in Present(s)
    BY <1>2 DEF Present
  <2>3. Present(s)' \in SUBSET RemoteMail /\ Present(s) \in SUBSET RemoteMail
    BY DEF Present
  <2> QED
    BY <2>1, <2>2, <2>3
<1>4. \A k \in Present(s)' : k \in Present(s) /\ remote'[s].uid[k] = remote[s].uid[k]
  BY <1>2, <1>3, ServerFacts
<1>5. FolderInv(s)'
  BY <1>2, <1>4, ServerFacts DEF FolderInv
<1>6. ASSUME NEW x \in Told, x.server = s PROVE TellsOf(x)'
  <2>1. TellsOf(x) /\ x.letter \in RemoteMail
    BY <1>6, ServerFacts
  <2>2. remote'[s].uid[x.letter] \in {0, remote[s].uid[x.letter]}
    BY <1>2, <2>1
  <2> QED
    BY <1>2, <1>6, <2>1, <2>2 DEF TellsOf
<1>7. /\ remote[s].era <= folder.era /\ remote[s].came <= folder.came
      /\ folder.era = 1 => remote[s].era = 1 /\ \A k \in Present(s)' : k \in Present(s) \/ k > remote[s].came
  BY <1>2, <1>4, ServerFacts
<1> QED
  BY <1>1, <1>2, <1>5, <1>6, <1>7, FolderChanges

LEMMA RenumberStep ==
  ASSUME ExternalImapInv, NEW s \in Server, Renumber(s)
  PROVE  ExternalImapInv'
<1> DEFINE rank(l) == Cardinality({k \in Present(s) : k <= l})
           uid == [l \in RemoteMail |-> IF l \in Present(s) THEN rank(l) ELSE 0]
           size == Cardinality(Present(s))
           folder == [remote[s] EXCEPT !.era = @ + 1, !.next = size + 1, !.uid = uid]
<1>1. /\ Turn /\ UNCHANGED <<ximap, progress, imports, syncing>>
      /\ PutFolder(s, folder)
  BY DEF Renumber
<1>2. /\ size \in 0 .. remote[s].came /\ (\A l \in Present(s) : rank(l) \in 1 .. size)
      /\ \A l, m \in Present(s) : rank(l) = rank(m) => l = m
  <2>1. PICK S, n : S = Present(s) /\ n = remote[s].came
    OBVIOUS
  <2>2. n \in Nat /\ S \in SUBSET (1 .. n)
    BY <2>1, ServerFacts
  <2>3. /\ Cardinality(S) \in 0 .. n
        /\ \A l \in S : Cardinality({k \in S : k <= l}) \in 1 .. Cardinality(S)
        /\ \A l, m \in S : Cardinality({k \in S : k <= l}) = Cardinality({k \in S : k <= m}) => l = m
    BY <2>2, Ranks
  <2> QED
    BY <2>1, <2>3
<1> HIDE DEF rank, size
<1>3. /\ size \in Nat /\ size <= remote[s].came /\ size <= MaxMails
      /\ \A l \in Present(s) : rank(l) \in Nat /\ rank(l) > 0 /\ rank(l) <= size
  BY <1>2, ServerFacts, Constants
<1>4. uid \in [RemoteMail -> 0 .. MaxMails]
  BY <1>3, Constants
<1>5. \A l \in RemoteMail : uid[l] = (IF l \in Present(s) THEN rank(l) ELSE 0)
  OBVIOUS
<1> HIDE DEF uid
<1>6. /\ folder \in FolderType /\ remote'[s] = folder
      /\ remote'[s].era = remote[s].era + 1 /\ remote'[s].came = remote[s].came
      /\ remote'[s].next = size + 1 /\ remote'[s].uid = uid
  <2>1. folder = [era |-> remote[s].era + 1, next |-> size + 1, came |-> remote[s].came, uid |-> uid]
    <3>1. PICK next : next = folder
      OBVIOUS
    <3>2. next = [era |-> remote[s].era + 1, next |-> size + 1, came |-> remote[s].came, uid |-> uid]
      BY <3>1, ServerFacts DEF FolderType
    <3> HIDE DEF folder
    <3> QED
      BY <3>1, <3>2
  <2>2. remote[s].era + 1 \in Nat /\ size + 1 \in Nat /\ remote[s].came \in 0 .. MaxMails
    BY <1>3, ServerFacts, Constants
  <2>3. remote'[s] = folder
    BY <1>1 DEF PutFolder, ExternalImapInv, ImapTypes, RemoteType
  <2> HIDE DEF folder
  <2> QED
    BY <1>4, <2>1, <2>2, <2>3 DEF FolderType
<1> HIDE DEF folder
<1>7. Present(s)' = Present(s)
  <2>1. \A l \in RemoteMail : l \in Present(s)' <=> l \in Present(s)
    <3>1. \A l \in RemoteMail : uid[l] > 0 <=> l \in Present(s)
      BY <1>3, <1>5
    <3> QED
      BY <1>6, <3>1 DEF Present
  <2>2. Present(s)' \in SUBSET RemoteMail /\ Present(s) \in SUBSET RemoteMail
    BY DEF Present
  <2> QED
    BY <2>1, <2>2
<1>8. remote[s].era \in Nat /\ remote[s].era > 0 /\ remote'[s].era # 1
  <2>1. remote[s].era \in Nat /\ remote[s].era > 0
    BY ServerFacts DEF FolderInv
  <2> QED
    BY <1>6, <2>1
<1>9. FolderInv(s)'
  <2>1. remote'[s].era > 0 /\ remote'[s].next > 0 /\ remote'[s].next <= remote'[s].came + 1
    BY <1>3, <1>6, <1>8, ServerFacts
  <2>2. \A l \in Present(s) : remote'[s].uid[l] = rank(l) /\ l <= remote'[s].came
    BY <1>5, <1>6, ServerFacts
  <2>3. \A l \in Present(s)' : l <= remote'[s].came /\ remote'[s].uid[l] < remote'[s].next
    BY <1>3, <1>6, <1>7, <2>2
  <2>4. \A k, l \in Present(s)' : remote'[s].uid[k] = remote'[s].uid[l] => k = l
    BY <1>2, <1>7, <2>2
  <2> QED
    BY <1>8, <2>1, <2>3, <2>4 DEF FolderInv
<1>10. ASSUME NEW x \in Told, x.server = s PROVE TellsOf(x)'
  <2>1. TellsOf(x) /\ x.era \in Nat /\ x.era <= remote[s].era
    BY <1>10, ServerFacts
  <2>2. x.era \in 1 .. remote'[s].era /\ x.era # remote'[s].era
    BY <1>6, <1>8, <1>10, <2>1 DEF TellsOf
  <2> QED
    BY <1>6, <1>10, <2>1, <2>2 DEF TellsOf
<1>11. remote[s].era <= folder.era /\ remote[s].came <= folder.came /\ folder.era # 1
  BY <1>6, <1>8, ServerFacts
<1> QED
  BY <1>1, <1>6, <1>9, <1>10, <1>11, FolderChanges

-----------------------------------------------------------------------------
(* The user *)

AccountType == [status : {"none", "here", "gone"}, enabled : BOOLEAN, local : BOOLEAN,
                mailbox : Boxes, server : Server, token : Nat, expiry : {"fresh", "near", "over"}]

\* A step that changes the row of the account alone.
LEMMA AccountFrame ==
  ASSUME ExternalImapInv, UNCHANGED <<remote, progress, imports, syncing>>,
         ximap' \in AccountType, ximap'.token = ximap.token,
         ximap'.status = ximap.status \/ (ximap.status = "none" /\ ximap'.status = "here"),
         ximapLog' \in Log, ximapLog'.steps = ximapLog.steps, ximapLog'.issued = ximapLog.issued,
         ximapLog'.dropped = ximapLog.dropped, ximapLog'.revived = ximapLog.revived,
         ximapLog.moved => ximapLog'.moved, ximapLog'.moved \/ ximap'.server = ximap.server,
         ximapLog'.wrongMark => ximapLog.wrongMark \/ Renumbered \/ ximapLog'.moved
  PROVE  ExternalImapInv'
<1>1. ImapTypes'
  BY DEF ExternalImapInv, ImapTypes, AccountType, Log
<1>2. RemoteInv' /\ Letters' = Letters /\ Came' = Came /\ (Steady' => Steady)
  BY RemoteFrame DEF ExternalImapInv, Steady
<1>3. ToldInv'
  <2>1. Told' = Told
    BY DEF Told
  <2> QED
    BY <2>1, ToldFrame DEF ExternalImapInv
<1>4. \A r \in Runner : RunOK(syncing'[r])
  BY DEF ExternalImapInv
<1>5. CoverInv'
  <2>1. CASE ximap'.status = ximap.status
    BY <1>2, <2>1 DEF ExternalImapInv, CoverInv, Here, Covers, Imported
  <2>2. CASE ximap.status = "none" /\ ximap'.status = "here"
    <3>1. /\ progress.last = 0 /\ \A r \in Runner : syncing[r] = IdleRun
      BY <2>2 DEF ExternalImapInv, CoverInv, Here
    <3>2. Came \in Nat /\ \A l \in Letters : ~(l <= 0)
      BY LetterFacts DEF ExternalImapInv
    <3>3. Covers(IdleRun)
      BY <3>2, IdleFacts DEF Covers
    <3>4. \A r \in Runner : Covers(syncing[r])'
      BY <1>2, <3>1, <3>3 DEF Covers, Imported
    <3> QED
      BY <1>2, <2>2, <3>1, <3>2, <3>4 DEF CoverInv, Here
  <2> QED
    BY <2>1, <2>2
<1>6. TokenInv'
  <2>1. TokenCalm
    BY DEF TokenCalm
  <2> QED
    BY <2>1, CalmKeepsToken
<1>7. ImportedOnce' /\ MarkReachesIts'
  BY DEF ExternalImapInv, ImportedOnce, MarkReachesIts, Renumbered
<1>8. StayInv'
  BY DEF ExternalImapInv, StayInv, Told
<1> QED
  BY <1>1, <1>2, <1>3, <1>4, <1>5, <1>6, <1>7, <1>8 DEF ExternalImapInv

\* UpdateAccount counts as a turn, and as a move when the server is another.
LEMMA EditTypes ==
  ASSUME ExternalImapInv, NEW field, NEW value, UpdateAccount(field, value)
  PROVE  /\ UNCHANGED <<remote, progress, imports, syncing>> /\ ximap' = [ximap EXCEPT ![field] = value]
         /\ ximapLog' \in Log /\ ximapLog'.steps = ximapLog.steps /\ ximapLog'.issued = ximapLog.issued
         /\ ximapLog'.dropped = ximapLog.dropped /\ ximapLog'.revived = ximapLog.revived
         /\ ximapLog'.wrongMark = ximapLog.wrongMark
         /\ ximapLog'.moved = (ximapLog.moved \/ field = "server")
<1>1. /\ UNCHANGED <<remote, progress, imports, syncing>> /\ ximap' = [ximap EXCEPT ![field] = value]
      /\ ximapLog.turns < MaxTurns
      /\ ximapLog' = [ximapLog EXCEPT !.turns = @ + 1, !.moved = @ \/ field = "server"]
  BY DEF UpdateAccount
<1>2. ximapLog.turns + 1 \in 0 .. MaxTurns /\ ximapLog \in Log
  BY <1>1, Constants DEF ExternalImapInv, ImapTypes, Log
<1>3. PICK moved \in BOOLEAN : moved = (ximapLog.moved \/ field = "server")
  OBVIOUS
<1>4. ximapLog' = [ximapLog EXCEPT !.turns = @ + 1, !.moved = moved]
  BY <1>1, <1>3, Zenon
<1>5. /\ ximapLog' \in Log /\ ximapLog'.steps = ximapLog.steps /\ ximapLog'.issued = ximapLog.issued
      /\ ximapLog'.dropped = ximapLog.dropped /\ ximapLog'.revived = ximapLog.revived
      /\ ximapLog'.wrongMark = ximapLog.wrongMark /\ ximapLog'.moved = moved
  BY <1>2, <1>4 DEF Log
<1> QED
  BY <1>1, <1>3, <1>5

LEMMA AccountStep ==
  ASSUME ExternalImapInv,
         \/ TokenNearsExpiry \/ TokenExpires \/ CreateAccount
         \/ \E value \in BOOLEAN : UpdateAccount("enabled", value) \/ UpdateAccount("local", value)
         \/ \E box \in Boxes : UpdateAccount("mailbox", box)
         \/ \E s \in Server \ {ximap.server} : UpdateAccount("server", s)
  PROVE  ExternalImapInv'
<1>1. ximap \in AccountType /\ ximapLog \in Log
  BY DEF ExternalImapInv, ImapTypes, AccountType
<1>2. CASE TokenNearsExpiry \/ TokenExpires \/ CreateAccount
  <2>1. /\ UNCHANGED <<remote, progress, imports, syncing>>
        /\ ximapLog' = ximapLog \/ Turn
    BY <1>2 DEF TokenNearsExpiry, TokenExpires, CreateAccount
  <2>2. /\ ximapLog' \in Log /\ ximapLog'.steps = ximapLog.steps /\ ximapLog'.issued = ximapLog.issued
        /\ ximapLog'.dropped = ximapLog.dropped /\ ximapLog'.revived = ximapLog.revived
        /\ ximapLog'.wrongMark = ximapLog.wrongMark /\ ximapLog'.moved = ximapLog.moved
    BY <1>1, <2>1, TurnTypes DEF ExternalImapInv
  <2>3. /\ ximap' \in AccountType /\ ximap'.token = ximap.token /\ ximap'.server = ximap.server
        /\ ximap'.status = ximap.status \/ (ximap.status = "none" /\ ximap'.status = "here")
    BY <1>1, <1>2 DEF TokenNearsExpiry, TokenExpires, CreateAccount, AccountType
  <2> QED
    BY <2>1, <2>2, <2>3, AccountFrame
<1>3. CASE \/ \E value \in BOOLEAN : UpdateAccount("enabled", value) \/ UpdateAccount("local", value)
           \/ \E box \in Boxes : UpdateAccount("mailbox", box)
           \/ \E s \in Server \ {ximap.server} : UpdateAccount("server", s)
  <2>1. PICK field, value :
          /\ UpdateAccount(field, value) /\ field \in {"enabled", "local", "mailbox", "server"}
          /\ field \in {"enabled", "local"} => value \in BOOLEAN
          /\ field = "mailbox" => value \in Boxes
          /\ field = "server" => value \in Server
    BY <1>3
  <2>2. /\ UNCHANGED <<remote, progress, imports, syncing>> /\ ximap' = [ximap EXCEPT ![field] = value]
        /\ ximapLog' \in Log /\ ximapLog'.steps = ximapLog.steps /\ ximapLog'.issued = ximapLog.issued
        /\ ximapLog'.dropped = ximapLog.dropped /\ ximapLog'.revived = ximapLog.revived
        /\ ximapLog'.wrongMark = ximapLog.wrongMark
        /\ ximapLog'.moved = (ximapLog.moved \/ field = "server")
    BY <2>1, EditTypes
  <2>3. CASE field = "enabled"
    BY <1>1, <2>1, <2>2, <2>3, AccountFrame DEF AccountType
  <2>4. CASE field = "local"
    BY <1>1, <2>1, <2>2, <2>4, AccountFrame DEF AccountType
  <2>5. CASE field = "mailbox"
    BY <1>1, <2>1, <2>2, <2>5, AccountFrame DEF AccountType
  <2>6. CASE field = "server"
    BY <1>1, <2>1, <2>2, <2>6, AccountFrame DEF AccountType
  <2> QED
    BY <2>1, <2>3, <2>4, <2>5, <2>6
<1> QED
  BY <1>2, <1>3

LEMMA MarkStep ==
  ASSUME ExternalImapInv, NEW i \in imports, MarkImport(i)
  PROVE  ExternalImapInv'
<1> DEFINE wrong == \E l \in Present(ximap.server) :
                      /\ remote[ximap.server].uid[l] = i.uid
                      /\ l # i.letter \/ ximap.server # i.server
<1>1. /\ UNCHANGED <<remote, ximap, progress, imports, syncing>> /\ ximapLog.turns < MaxTurns
      /\ ximapLog' = [ximapLog EXCEPT !.turns = @ + 1, !.wrongMark = @ \/ wrong]
  BY DEF MarkImport
<1>2. wrong => Renumbered \/ ximapLog.moved
  <2> SUFFICES ASSUME ~Renumbered, ~ximapLog.moved, NEW l \in Present("first"), remote["first"].uid[l] = i.uid
               PROVE  l = i.letter
    <3>1. i \in Told
      BY DEF Told
    <3>2. ~ximapLog.moved => ximap.server = "first" /\ i.server = "first"
      BY <3>1 DEF ExternalImapInv, StayInv
    <3> QED
      BY <3>2
  <2>1. TellsOf(i) /\ i.server = "first"
    BY DEF ExternalImapInv, ToldInv, StayInv, Told
  <2>2. remote["first"].era = 1
    <3>1. "first" \in Server
      BY DEF Server
    <3>2. remote["first"].era \in Nat /\ remote["first"].era > 0
      BY <3>1, ServerFacts DEF FolderInv
    <3>3. ~(remote["first"].era > 1)
      BY <3>1 DEF Renumbered
    <3> QED
      BY <3>2, <3>3
  <2>3. i.era \in 1 .. 1
    BY <2>1, <2>2 DEF TellsOf
  <2>4. i.uid = i.letter
    BY <2>1, <2>3 DEF TellsOf
  <2>5. remote["first"].uid[l] = l
    BY <2>2 DEF ExternalImapInv, RemoteInv, FolderInv, Server
  <2> QED
    BY <2>4, <2>5
<1>3. wrong \in BOOLEAN
  OBVIOUS
<1> HIDE DEF wrong
<1>4. ximapLog.turns + 1 \in 0 .. MaxTurns /\ ximapLog \in Log
  BY <1>1, Constants DEF ExternalImapInv, ImapTypes, Log
<1>5. /\ ximapLog' \in Log /\ ximapLog'.steps = ximapLog.steps /\ ximapLog'.issued = ximapLog.issued
      /\ ximapLog'.dropped = ximapLog.dropped /\ ximapLog'.revived = ximapLog.revived
      /\ ximapLog'.moved = ximapLog.moved /\ (ximapLog'.wrongMark => ximapLog.wrongMark \/ wrong)
  BY <1>1, <1>3, <1>4 DEF Log
<1>6. ximap' \in AccountType
  BY <1>1 DEF ExternalImapInv, ImapTypes, AccountType
<1> QED
  BY <1>1, <1>2, <1>5, <1>6, AccountFrame

LEMMA DeleteStep ==
  ASSUME ExternalImapInv, DeleteAccount
  PROVE  ExternalImapInv'
<1>1. /\ UNCHANGED <<remote, syncing>> /\ imports' = {} /\ ximap' = [ximap EXCEPT !.status = "gone"]
      /\ progress' = [progress EXCEPT !.known = FALSE, !.last = 0] /\ Turn
  BY DEF DeleteAccount
<1>2. /\ ximapLog' \in Log /\ ximapLog'.steps = ximapLog.steps /\ ximapLog'.issued = ximapLog.issued
      /\ ximapLog'.dropped = ximapLog.dropped /\ ximapLog'.revived = ximapLog.revived
      /\ ximapLog'.wrongMark = ximapLog.wrongMark /\ ximapLog'.moved = ximapLog.moved
  BY <1>1, TurnTypes DEF ExternalImapInv
<1>3. ximap' \in AccountType /\ ximap'.status = "gone" /\ ximap'.token = ximap.token /\ ximap'.server = ximap.server
  BY <1>1 DEF ExternalImapInv, ImapTypes, AccountType
<1>4. progress' \in [known : BOOLEAN, last : 0 .. MaxMails, mailbox : Boxes] /\ progress'.last = 0
  <2>1. progress \in [known : BOOLEAN, last : 0 .. MaxMails, mailbox : Boxes] /\ 0 \in 0 .. MaxMails
    BY Constants DEF ExternalImapInv, ImapTypes
  <2> QED
    BY <1>1, <2>1
<1>5. ImapTypes'
  BY <1>1, <1>2, <1>3, <1>4 DEF ExternalImapInv, ImapTypes, AccountType, Log
<1>6. RemoteInv' /\ Letters' = Letters
  BY <1>1, RemoteFrame DEF ExternalImapInv
<1>7. ToldInv'
  <2>1. Told' \in SUBSET Told
    BY <1>1 DEF Told
  <2> QED
    BY <1>1, <2>1, ToldFrame DEF ExternalImapInv
<1>8. \A r \in Runner : RunOK(syncing'[r])
  BY <1>1 DEF ExternalImapInv
<1>9. CoverInv'
  BY <1>3, <1>4 DEF CoverInv, Here
<1>10. TokenInv'
  <2>1. TokenCalm
    BY <1>1, <1>2, <1>3 DEF TokenCalm
  <2> QED
    BY <2>1, CalmKeepsToken
<1>11. ImportedOnce' /\ MarkReachesIts'
  BY <1>1, <1>2 DEF ExternalImapInv, ImportedOnce, MarkReachesIts, Renumbered
<1>12. StayInv'
  BY <1>1, <1>2, <1>3 DEF ExternalImapInv, StayInv, Told
<1> QED
  BY <1>5, <1>6, <1>7, <1>8, <1>9, <1>10, <1>11, <1>12 DEF ExternalImapInv

LEMMA RefileStep ==
  ASSUME ExternalImapInv, NEW i \in imports, NEW place \in {"elsewhere", "deleted"}, RefileImport(i, place)
  PROVE  ExternalImapInv'
<1> DEFINE f == [k \in imports |-> IF k = i THEN [i EXCEPT !.place = place] ELSE k]
<1>1. /\ UNCHANGED <<remote, ximap, progress, syncing>> /\ Turn
      /\ imports' = (imports \ {i}) \cup {[i EXCEPT !.place = place]}
  BY DEF RefileImport
<1>2. imports' = {f[k] : k \in imports}
  BY <1>1
<1>3. \A k \in imports : SameMessage(k, f[k])
  <2> SUFFICES ASSUME NEW k \in imports
               PROVE  SameMessage(k, f[k])
    OBVIOUS
  <2>1. IsImport(k) /\ SameMessage(k, k) /\ place \in Places
    BY DEF ExternalImapInv, ImapTypes, Places, SameMessage
  <2>2. LET j == [k EXCEPT !.place = place]
        IN  SameMessage(k, j)
    BY <2>1, Placed
  <2>3. f[k] = k \/ f[k] = [k EXCEPT !.place = place]
    OBVIOUS
  <2> HIDE DEF f
  <2>4. CASE f[k] = k
    BY <2>1, <2>4
  <2>5. CASE f[k] = [k EXCEPT !.place = place]
    BY <2>2, <2>5
  <2> QED
    BY <2>3, <2>4, <2>5
<1> HIDE DEF f
<1>4. /\ ImportedOnce' /\ (\A k \in imports' : IsImport(k)) /\ (\A l : Imported(l) <=> Imported(l)')
      /\ \A x \in imports' : Known(x)
  BY <1>2, <1>3, Refiled
<1>5. /\ ximapLog' \in Log /\ ximapLog'.steps = ximapLog.steps /\ ximapLog'.issued = ximapLog.issued
      /\ ximapLog'.dropped = ximapLog.dropped /\ ximapLog'.revived = ximapLog.revived
      /\ ximapLog'.wrongMark = ximapLog.wrongMark /\ ximapLog'.moved = ximapLog.moved
  BY <1>1, TurnTypes DEF ExternalImapInv
<1>6. ImapTypes'
  BY <1>1, <1>4, <1>5 DEF ExternalImapInv, ImapTypes, Log
<1>7. RemoteInv' /\ Letters' = Letters /\ Came' = Came /\ Steady' = Steady
  BY <1>1, <1>5, RemoteFrame DEF ExternalImapInv, Steady
<1>13. ASSUME NEW x \in Told' PROVE Known(x)
  <2>1. CASE x \in imports'
    BY <1>4, <2>1
  <2>2. CASE x \notin imports'
    <3>1. x \in Told
      BY <1>1, <2>2 DEF Told
    <3> QED
      BY <3>1 DEF Known
  <2> QED
    BY <2>1, <2>2
<1>8. ToldInv'
  BY <1>1, <1>13, ToldFrame DEF ExternalImapInv, Known
<1>9. \A r \in Runner : RunOK(syncing'[r])
  BY <1>1 DEF ExternalImapInv
<1>10. CoverInv'
  <2>1. ASSUME NEW r \in Runner, Covers(syncing[r]) PROVE Covers(syncing[r])'
    BY <1>1, <1>4, <1>7, <2>1 DEF Covers
  <2> QED
    BY <1>1, <1>4, <1>7, <2>1 DEF ExternalImapInv, CoverInv, Here
<1>11. TokenInv'
  <2>1. TokenCalm
    BY <1>1, <1>5 DEF TokenCalm
  <2> QED
    BY <2>1, CalmKeepsToken
<1>12. MarkReachesIts'
  BY <1>1, <1>5 DEF ExternalImapInv, MarkReachesIts, Renumbered
<1>14. StayInv'
  BY <1>1, <1>5, <1>13 DEF ExternalImapInv, StayInv, Known
<1> QED
  BY <1>4, <1>6, <1>7, <1>8, <1>9, <1>10, <1>11, <1>12, <1>14 DEF ExternalImapInv

-----------------------------------------------------------------------------
(* The theorem *)

LEMMA ExternalImapStart == ExternalImapInit => ExternalImapInv
<1> SUFFICES ASSUME ExternalImapInit PROVE ExternalImapInv
  OBVIOUS
<1>1. /\ remote = [s \in Server |-> [era |-> 1, next |-> 1, came |-> 0, uid |-> [l \in RemoteMail |-> 0]]]
      /\ ximap = [status |-> "none", enabled |-> TRUE, local |-> TRUE, mailbox |-> "one",
                  server |-> "first", token |-> 0, expiry |-> "fresh"]
      /\ progress = [known |-> FALSE, last |-> 0, mailbox |-> "one"]
      /\ imports = {} /\ syncing = [r \in Runner |-> IdleRun]
      /\ ximapLog = [steps |-> {0, 1}, issued |-> 0, dropped |-> FALSE, revived |-> FALSE,
                     moved |-> FALSE, wrongMark |-> FALSE, turns |-> 0]
  BY DEF ExternalImapInit
<1>2. ImapTypes
  <2>1. remote \in RemoteType
    BY <1>1, Constants DEF RemoteType, FolderType
  <2> QED
    BY <1>1, <2>1, IdleFacts, Constants DEF ImapTypes, Boxes, Server, Log
<1>3. \A s \in Server : Present(s) = {}
  BY <1>1 DEF Present
<1>4. RemoteInv
  BY <1>1, <1>3 DEF RemoteInv, FolderInv
<1>5. Told = {}
  BY <1>1, IdleFacts DEF Told
<1>6. ToldInv
  BY <1>5 DEF ToldInv
<1>7. \A r \in Runner : RunOK(syncing[r])
  <2>1. RunOK(IdleRun)
    BY IdleFacts, FS_EmptySet, Constants DEF RunOK
  <2> QED
    BY <1>1, <2>1
<1>8. CoverInv
  BY <1>1 DEF CoverInv, Here
<1>9. TokenInv
  BY <1>1, IdleFacts DEF TokenInv
<1>10. ImportedOnce /\ MarkReachesIts
  BY <1>1 DEF ImportedOnce, MarkReachesIts
<1>11. StayInv
  BY <1>1, <1>5, IdleFacts DEF StayInv
<1> QED
  BY <1>2, <1>4, <1>6, <1>7, <1>8, <1>9, <1>10, <1>11 DEF ExternalImapInv

LEMMA PlainStep ==
  ASSUME ExternalImapInv, NEW r \in Runner, ImapTypes', Plain(r), TokenCalm \/ TokenInv'
  PROVE  ExternalImapInv'
BY PlainKeeps, CalmKeepsToken DEF ExternalImapInv

LEMMA SyncKeeps ==
  ASSUME ExternalImapInv, NEW r \in Runner, SyncStep(r)
  PROVE  ExternalImapInv'
<1>1. CASE StartSync(r) \/ StartLook(r)
  BY <1>1, StartStep, PlainStep
<1>2. CASE OpenClient(r)
  BY <1>2, OpenStep, PlainStep
<1>3. CASE ClientFails(r) \/ FetchFails(r) \/ CutOff(r)
  BY <1>3, FailStep, PlainStep
<1>4. CASE ItemFails(r)
  BY <1>4, ItemFailsStep, PlainStep
<1>5. CASE \E step \in ximapLog.steps : RefreshToken(r, step)
  BY <1>5, RefreshStep, PlainStep
<1>6. CASE \E saved \in BOOLEAN : SaveToken(r, saved)
  BY <1>6, SaveTokenStep, PlainStep
<1>13. CASE \E saved \in BOOLEAN : SaveCached(r, saved)
  BY <1>13, SaveCachedStep, PlainStep
<1>7. CASE OpenFolder(r)
  BY <1>7, OpenFolderStep
<1>8. CASE \E bare \in SUBSET RemoteMail : FetchBatch(r, bare)
  BY <1>8, FetchBatchStep
<1>9. CASE SkipKnown(r)
  BY <1>9, SkipStep
<1>10. CASE FetchItem(r)
  BY <1>10, FetchItemStep, PlainStep
<1>11. CASE SaveProgress(r)
  BY <1>11, SaveStep
<1>12. CASE \E place \in {"folder", "elsewhere"} : InsertOnce(r, place)
  BY <1>12, InsertStep
<1> QED
  BY <1>1, <1>2, <1>3, <1>4, <1>5, <1>6, <1>7, <1>8, <1>9, <1>10, <1>11, <1>12, <1>13 DEF SyncStep

LEMMA ExternalImapStep == ExternalImapInv /\ [ExternalImapNext]_externalImapVars => ExternalImapInv'
<1> SUFFICES ASSUME ExternalImapInv, [ExternalImapNext]_externalImapVars PROVE ExternalImapInv'
  OBVIOUS
<1>1. CASE \E s \in Server : Arrive(s)
  BY <1>1, ArriveStep
<1>2. CASE \E s \in Server, l \in RemoteMail : Expunge(s, l)
  BY <1>2, ExpungeStep
<1>3. CASE \E s \in Server : Renumber(s)
  BY <1>3, RenumberStep
<1>4. CASE \/ TokenNearsExpiry \/ TokenExpires \/ CreateAccount
           \/ \E value \in BOOLEAN : UpdateAccount("enabled", value) \/ UpdateAccount("local", value)
           \/ \E box \in Boxes : UpdateAccount("mailbox", box)
           \/ \E s \in Server \ {ximap.server} : UpdateAccount("server", s)
  BY <1>4, AccountStep
<1>5. CASE DeleteAccount
  BY <1>5, DeleteStep
<1>6. CASE \E i \in imports : MarkImport(i) \/ \E place \in {"elsewhere", "deleted"} : RefileImport(i, place)
  BY <1>6, MarkStep, RefileStep
<1>7. CASE \E r \in Runner : SyncStep(r)
  BY <1>7, SyncKeeps
<1>8. CASE UNCHANGED externalImapVars
  <2>1. UNCHANGED <<remote, ximap, progress, imports, syncing, ximapLog>>
    BY <1>8 DEF externalImapVars
  <2>2. ximap \in AccountType /\ ximapLog \in Log
    BY DEF ExternalImapInv, ImapTypes, AccountType, Log
  <2> QED
    BY <2>1, <2>2, AccountFrame
<1> QED
  BY <1>1, <1>2, <1>3, <1>4, <1>5, <1>6, <1>7, <1>8 DEF ExternalImapNext

LEMMA ExternalImapAlways == ExternalImapSpec => []ExternalImapInv
BY ExternalImapStart, ExternalImapStep, PTL DEF ExternalImapSpec

\* The folder, the rows of the account and what the runs carry keep their types,
\* and a run never takes more than MaxPerRun messages
\* (syncExternalIMAPFolder).
THEOREM ExternalImapTypeCorrect == ExternalImapSpec => []ExternalImapTypeOK
<1>1. ExternalImapInv => ExternalImapTypeOK
  BY DEF ExternalImapInv, ImapTypes, ExternalImapTypeOK, RemoteType, FolderType, Log, Run, IsImport, Places
<1>2. QED
  BY <1>1, ExternalImapAlways, PTL

\* However many runs overlap, fail or are cut off, while the user changes or
\* deletes the account and its server gets and loses mail: while the server
\* keeps its numbers, no message is imported twice; while the account also stays
\* with its server, none is passed over and none but the right one is marked;
\* and the newest token is on the row, under way, lost before it was stored or
\* overwritten by a run that asked for none (syncExternalIMAPFolder,
\* insertMessageOnce, externalIMAPOAuthAccessToken, handleExternalIMAPMarkRead).
THEOREM ExternalImapIsSafe == ExternalImapSpec => []ExternalImapSafe
<1>1. ExternalImapInv => ExternalImapSafe
  <2> SUFFICES ASSUME ExternalImapInv PROVE ExternalImapSafe
    OBVIOUS
  <2>1. NoneSkipped
    <3> SUFFICES ASSUME ~Renumbered, ~ximapLog.moved, NEW l \in Letters, remote["first"].uid[l] <= progress.last
                 PROVE  Imported(l)
      BY DEF NoneSkipped, ExternalImapInv, StayInv, Letters, Imported
    <3>1. Steady
      <4>1. "first" \in Server
        BY DEF Server
      <4>2. remote["first"].era \in Nat /\ remote["first"].era > 0
        BY <4>1, ServerFacts DEF FolderInv
      <4> QED
        BY <4>1, <4>2 DEF Renumbered, Steady
    <3>2. remote["first"].uid[l] = l /\ l \in Nat /\ l > 0
      BY <3>1, LetterFacts DEF ExternalImapInv, RemoteInv, FolderInv, Server, Steady, Letters
    <3>3. Here
      BY <3>2 DEF ExternalImapInv, CoverInv
    <3> QED
      BY <3>1, <3>2, <3>3 DEF ExternalImapInv, CoverInv
  <2>2. GrantKept
    BY DEF ExternalImapInv, TokenInv, GrantKept, Here
  <2> QED
    BY <2>1, <2>2 DEF ExternalImapInv, ExternalImapSafe
<1>2. QED
  BY <1>1, ExternalImapAlways, PTL

-----------------------------------------------------------------------------
(* Mail rules: the inductive invariant.  It is written over the values of   *)
(* the variables, so that a step relates two instances of it.               *)

StepsIn(r) == Steps(r, TRUE)
Stops(r) == RuleMatches(r) /\ Definition[r].stop

\* The places of a pass: a rule of the list it works through, and a step of it;
\* those it has passed when it is at step m of rule n.
StepAt(s, p) == StepsIn(s[p[1]])[p[2]]
Before(p, q) == p[1] < q[1] \/ (p[1] = q[1] /\ p[2] <= q[2])
Passed(s, n, m) ==
  {p \in (1 .. n) \X Nat : /\ RuleMatches(s[p[1]])
                           /\ p[2] \in 1 .. Len(StepsIn(s[p[1]]))
                           /\ (p[1] < n \/ p[2] <= m)}

\* What the steps at these places have done.
Does(x, a) == x # "forward" /\ Sent(x) = a
FolderAfter(s, places, f) ==
  \/ f = "Inbox" /\ \A p \in places : StepAt(s, p) \notin FolderAction
  \/ \E p \in places : /\ StepAt(s, p) \in FolderAction /\ f = Target(StepAt(s, p))
                       /\ \A q \in places : StepAt(s, q) \in FolderAction => Before(q, p)
MarksAfter(s, places, marks) == marks = {a \in MarkAction : \E p \in places : StepAt(s, p) = a}
QueuedAfter(s, places, q) ==
  \A a \in OutAction : q[a] = {r \in Rule : \E p \in places : s[p[1]] = r /\ Does(StepAt(s, p), a)}
Effect(ml, q, s, places) ==
  FolderAfter(s, places, ml.folder) /\ MarksAfter(s, places, ml.marks) /\ QueuedAfter(s, places, q)

\* The pass is at step m of rule n of the list s it read.
PassAt(pass, s, n, m) ==
  /\ \A j \in 1 .. n - 1 : ~Stops(s[j])
  /\ IF n > 0 /\ Stops(s[n]) THEN pass.todo = <<>>
     ELSE Len(pass.todo) = Len(s) - n /\ \A i \in 1 .. Len(s) - n : pass.todo[i] = s[n + i]
  /\ n > 0 => pass.rule = s[n]
  /\ IF n > 0 /\ RuleMatches(s[n])
     THEN /\ m <= Len(StepsIn(s[n])) /\ Len(pass.acts) = Len(StepsIn(s[n])) - m
          /\ \A i \in 1 .. Len(StepsIn(s[n])) - m : pass.acts[i] = StepsIn(s[n])[m + i]
     ELSE pass.acts = <<>>

\* RulesSafe, over values.
DueOf(s) == {i \in DOMAIN s : RuleMatches(s[i]) /\ ~\E j \in 1 .. i - 1 : Stops(s[j])}
RulesOf(s) == {s[i] : i \in DueOf(s)}
MovesAt(s, i) == {<<i, k>> : k \in {k \in DOMAIN ActionsOf(s[i]) : ActionsOf(s[i])[k] \in FolderAction}}
MovesOf(s) == UNION {MovesAt(s, i) : i \in DueOf(s)}
IsLast(d, moves) == \A n \in moves : n[1] < d[1] \/ (n[1] = d[1] /\ n[2] <= d[2])
FolderOf(s) ==
  IF MovesOf(s) = {} THEN "Inbox"
  ELSE LET last == CHOOSE d \in MovesOf(s) : IsLast(d, MovesOf(s)) IN Target(ActionsOf(s[last[1]])[last[2]])
OnlyDue(q, s) == \A a \in OutAction : q[a] \subseteq {r \in RulesOf(s) : Has(r, a)}
Complete(ml, q, log) ==
  (log.ended /\ ~log.disturbed) =>
    /\ ml.folder = IF log.refused THEN "Spam" ELSE FolderOf(log.snapshot)
    /\ ml.marks = {a \in MarkAction : \E r \in RulesOf(log.snapshot) : Has(r, a)}
    /\ \A a \in OutAction : q[a] = {r \in RulesOf(log.snapshot) : Has(r, a)}

NewOK(ml, q, log) ==
  /\ log.snapshot = <<>> /\ ~log.ended /\ ~log.refused
  /\ \A a \in OutAction : q[a] = {}
  /\ ~log.disturbed => ml.folder = "Inbox" /\ ml.marks = {}
UnderWayOK(ml, q, pass, log) ==
  /\ ~log.ended /\ ~log.refused
  /\ \E n \in 0 .. Len(log.snapshot), m \in Nat :
       /\ PassAt(pass, log.snapshot, n, m)
       /\ ~log.disturbed => Effect(ml, q, log.snapshot, Passed(log.snapshot, n, m))
PassOK(ml, q, pass, log) ==
  /\ pass.pc \in {"new", "load"} => NewOK(ml, q, log) /\ pass.acts = <<>>
  /\ pass.pc = "rules" => UnderWayOK(ml, q, pass, log)
  /\ OnlyDue(q, log.snapshot)
  /\ Complete(ml, q, log)
  /\ ml.gone => log.disturbed

RulesInv ==
  /\ MailRulesTypeOK
  /\ PassOK(mail, queued, inbound, ruleLog)
  /\ \A i \in DOMAIN existing.acts : existing.acts[i] # "forwards"

-----------------------------------------------------------------------------
(* Lemmas about the steps of a rule *)

LEMMA StepsAre ==
  ASSUME NEW r \in Rule
  PROVE  /\ ActionsOf(r) \in Seq(RuleAction) /\ StepsIn(r) \in Seq(StepKind)
         /\ Len(StepsIn(r)) >= Len(ActionsOf(r))
         /\ \A k \in 1 .. Len(ActionsOf(r)) : StepsIn(r)[k] = ActionsOf(r)[k]
         /\ \A k \in 1 .. Len(StepsIn(r)) : k > Len(ActionsOf(r)) =>
              Has(r, "forward") /\ StepsIn(r)[k] = "forwards"
         /\ Has(r, "forward") => \E k \in 1 .. Len(StepsIn(r)) : StepsIn(r)[k] = "forwards"
<1>1. ActionsOf(r) \in Seq(RuleAction)
  BY MailRulesAssumption DEF ActionsOf
<1>2. PICK t : t = IF Has(r, "forward") THEN <<"forwards">> ELSE <<>>
  OBVIOUS
<1>3. StepsIn(r) = ActionsOf(r) \o t
  BY <1>2 DEF StepsIn, Steps
<1>4. PICK a : a = ActionsOf(r)
  OBVIOUS
<1>0. RuleAction \subseteq StepKind /\ "forwards" \in StepKind
  BY DEF StepKind
<1>5. ActionsOf(r) \in Seq(StepKind) /\ t \in Seq(StepKind)
  <2> HIDE DEF StepKind, RuleAction
  <2>1. ActionsOf(r) \in Seq(StepKind)
    BY <1>0, <1>1
  <2>2. <<"forwards">> \in Seq(StepKind) /\ <<>> \in Seq(StepKind)
    BY <1>0
  <2> QED
    BY <1>2, <2>1, <2>2
<1>6. CASE Has(r, "forward")
  <2>1. t = <<"forwards">>
    BY <1>2, <1>6
  <2>2. Len(a \o t) = Len(a) + 1 /\ (a \o t)[Len(a) + 1] = "forwards"
        /\ \A k \in 1 .. Len(a) : (a \o t)[k] = a[k]
    BY <1>4, <1>5, <2>1
  <2> QED
    BY <1>1, <1>3, <1>4, <1>5, <1>6, <2>2
<1>7. CASE ~(Has(r, "forward"))
  <2>1. t = <<>>
    BY <1>2, <1>7
  <2>2. a \o t = a
    BY <1>4, <1>5, <2>1
  <2> QED
    BY <1>1, <1>3, <1>4, <1>5, <1>7, <2>2
<1> QED
  BY <1>6, <1>7

\* What a rule marks or sends is among its steps, and nothing else.
LEMMA StepsDo ==
  ASSUME NEW r \in Rule, NEW a \in MarkAction \cup OutAction
  PROVE  Has(r, a) <=> \E k \in 1 .. Len(StepsIn(r)) : Does(StepsIn(r)[k], a)
<1> DEFINE S == StepsIn(r)
           A == ActionsOf(r)
<1>1. A \in Seq(RuleAction) /\ S \in Seq(StepKind) /\ Len(S) >= Len(A) /\ Len(A) \in Nat /\ Len(S) \in Nat
  BY StepsAre
<1>2. \A k \in 1 .. Len(A) : S[k] = A[k]
  BY StepsAre
<1>3. \A k \in 1 .. Len(S) : k > Len(A) => Has(r, "forward") /\ S[k] = "forwards"
  BY StepsAre
<1>4. Has(r, "forward") => \E k \in 1 .. Len(S) : S[k] = "forwards"
  BY StepsAre
<1>5. \A b : Has(r, b) <=> \E k \in 1 .. Len(A) : A[k] = b
  BY <1>1 DEF Has, Range
<1>6. \A k \in 1 .. Len(A) : A[k] \in RuleAction /\ A[k] # "forwards"
  BY <1>1 DEF RuleAction, FolderAction, MarkAction, OutAction
<1> HIDE DEF S, A
<1>7. CASE a = "forward"
  <2>1. \A x : Does(x, a) <=> x = "forwards"
    BY <1>7 DEF Does, Sent
  <2> QED
    BY <1>1, <1>2, <1>3, <1>4, <1>6, <1>7, <2>1 DEF S
<1>8. CASE a # "forward"
  <2>1. a # "forwards"
    BY DEF MarkAction, OutAction
  <2>2. \A x : Does(x, a) <=> x = a
    BY <1>8, <2>1 DEF Does, Sent
  <2>3. \A k \in 1 .. Len(S) : S[k] = a => k \in 1 .. Len(A) /\ A[k] = a
    BY <1>1, <1>2, <1>3, <2>1
  <2>4. \A k \in 1 .. Len(A) : A[k] = a => k \in 1 .. Len(S) /\ S[k] = a
    BY <1>1, <1>2
  <2> QED
    BY <1>5, <2>2, <2>3, <2>4 DEF S
<1> QED
  BY <1>7, <1>8

\* The folder actions among the steps are those among the actions.
LEMMA StepsMove ==
  ASSUME NEW r \in Rule, NEW k
  PROVE  (k \in 1 .. Len(StepsIn(r)) /\ StepsIn(r)[k] \in FolderAction)
           <=> (k \in DOMAIN ActionsOf(r) /\ ActionsOf(r)[k] \in FolderAction)
<1>1. "forwards" \notin FolderAction
  BY DEF FolderAction
<1>2. ActionsOf(r) \in Seq(RuleAction) /\ StepsIn(r) \in Seq(StepKind) /\ DOMAIN ActionsOf(r) = 1 .. Len(ActionsOf(r))
  BY StepsAre
<1>3. Len(ActionsOf(r)) \in Nat /\ Len(StepsIn(r)) \in Nat
  BY <1>2
<1> QED
  BY <1>1, <1>2, <1>3, StepsAre

-----------------------------------------------------------------------------
(* Lemmas about the places of a pass *)

LEMMA PlacesAre ==
  ASSUME NEW s \in Seq(Rule), NEW n \in 0 .. Len(s), NEW m \in Nat, NEW p \in Passed(s, n, m)
  PROVE  /\ p = <<p[1], p[2]>> /\ p[1] \in 1 .. n /\ p[1] \in 1 .. Len(s) /\ s[p[1]] \in Rule
         /\ RuleMatches(s[p[1]]) /\ p[2] \in 1 .. Len(StepsIn(s[p[1]]))
         /\ (p[1] < n \/ p[2] <= m)
BY DEF Passed

LEMMA PlaceThere ==
  ASSUME NEW s \in Seq(Rule), NEW n \in 0 .. Len(s), NEW m \in Nat,
         NEW i \in 1 .. n, NEW k \in 1 .. Len(StepsIn(s[i])), RuleMatches(s[i]), i < n \/ k <= m
  PROVE  <<i, k>> \in Passed(s, n, m)
<1>1. Len(StepsIn(s[i])) \in Nat
  BY StepsAre
<1> QED
  BY <1>1 DEF Passed

\* A step of a rule adds its place, after all the others.
LEMMA NextPlace ==
  ASSUME NEW s \in Seq(Rule), NEW n \in 1 .. Len(s), NEW m \in Nat,
         RuleMatches(s[n]), m + 1 <= Len(StepsIn(s[n]))
  PROVE  /\ Passed(s, n, m + 1) = Passed(s, n, m) \cup {<<n, m + 1>>}
         /\ \A p \in Passed(s, n, m) : Before(p, <<n, m + 1>>)
         /\ StepAt(s, <<n, m + 1>>) = StepsIn(s[n])[m + 1]
<1>0. Len(StepsIn(s[n])) \in Nat
  BY StepsAre
<1>1. <<n, m + 1>> \in Passed(s, n, m + 1)
  BY <1>0, PlaceThere
<1>2. \A p \in Passed(s, n, m) : p \in Passed(s, n, m + 1)
  BY DEF Passed
<1>3. ASSUME NEW p \in Passed(s, n, m + 1), p \notin Passed(s, n, m)
      PROVE  p = <<n, m + 1>>
  <2>1. p = <<p[1], p[2]>> /\ p[1] \in 1 .. n /\ p[2] \in Nat /\ (p[1] < n \/ p[2] <= m + 1)
    BY <1>3 DEF Passed
  <2>2. ~(p[1] < n \/ p[2] <= m)
    BY <1>3 DEF Passed
  <2>3. p[1] = n /\ p[2] = m + 1
    BY <2>1, <2>2
  <2> QED
    BY <2>1, <2>3
<1>4. \A p \in Passed(s, n, m) : Before(p, <<n, m + 1>>)
  BY DEF Passed, Before
<1>5. Passed(s, n, m + 1) = Passed(s, n, m) \cup {<<n, m + 1>>}
  BY <1>1, <1>2, <1>3
<1> QED
  BY <1>4, <1>5 DEF StepAt

\* The next rule begins where the last one ended.
LEMMA NextRule ==
  ASSUME NEW s \in Seq(Rule), NEW n \in 0 .. Len(s) - 1, NEW m \in Nat,
         n > 0 /\ RuleMatches(s[n]) => m = Len(StepsIn(s[n]))
  PROVE  Passed(s, n + 1, 0) = Passed(s, n, m)
<1>1. ASSUME NEW p \in Passed(s, n + 1, 0)
      PROVE  p \in Passed(s, n, m)
  <2>1. /\ p = <<p[1], p[2]>> /\ p[1] \in 1 .. n + 1 /\ p[2] \in Nat /\ RuleMatches(s[p[1]])
        /\ p[2] \in 1 .. Len(StepsIn(s[p[1]])) /\ (p[1] < n + 1 \/ p[2] <= 0) /\ p \in (1 .. n + 1) \X Nat
    BY <1>1 DEF Passed
  <2>2. s[p[1]] \in Rule
    BY <2>1
  <2>3. Len(StepsIn(s[p[1]])) \in Nat
    BY <2>2, StepsAre
  <2>4. p[1] < n + 1
    BY <2>1, <2>3
  <2>5. p[1] \in 1 .. n
    BY <2>1, <2>4
  <2>6. p[1] < n \/ p[2] <= m
    <3>1. CASE p[1] = n
      BY <2>1, <2>3, <2>5, <3>1
    <3>2. CASE p[1] # n
      BY <2>5, <3>2
    <3> QED
      BY <3>1, <3>2
  <2> QED
    BY <2>1, <2>5, <2>6 DEF Passed
<1>2. ASSUME NEW p \in Passed(s, n, m)
      PROVE  p \in Passed(s, n + 1, 0)
  BY <1>2 DEF Passed
<1> QED
  BY <1>1, <1>2

LEMMA NothingPassed ==
  ASSUME NEW s, NEW m
  PROVE  Passed(s, 0, m) = {}
BY DEF Passed

\* What one more step does to the folder, the marks and what is queued.
LEMMA FolderStep ==
  ASSUME NEW s, NEW places, NEW d, NEW f, NEW g, FolderAfter(s, places, f),
         \A p \in places : Before(p, d), Before(d, d),
         g = IF StepAt(s, d) \in FolderAction THEN Target(StepAt(s, d)) ELSE f
  PROVE  FolderAfter(s, places \cup {d}, g)
<1>1. CASE StepAt(s, d) \in FolderAction
  <2>1. g = Target(StepAt(s, d))
    BY <1>1
  <2>2. \A q \in places \cup {d} : Before(q, d)
    OBVIOUS
  <2> QED
    BY <1>1, <2>1, <2>2 DEF FolderAfter
<1>2. CASE StepAt(s, d) \notin FolderAction
  <2>1. g = f
    BY <1>2
  <2>2. CASE f = "Inbox" /\ \A p \in places : StepAt(s, p) \notin FolderAction
    BY <1>2, <2>1, <2>2 DEF FolderAfter
  <2>3. CASE \E p \in places : /\ StepAt(s, p) \in FolderAction /\ f = Target(StepAt(s, p))
                               /\ \A q \in places : StepAt(s, q) \in FolderAction => Before(q, p)
    <3>1. PICK p \in places : /\ StepAt(s, p) \in FolderAction /\ f = Target(StepAt(s, p))
                              /\ \A q \in places : StepAt(s, q) \in FolderAction => Before(q, p)
      BY <2>3
    <3>2. \A q \in places \cup {d} : StepAt(s, q) \in FolderAction => Before(q, p)
      BY <1>2, <3>1
    <3> QED
      BY <2>1, <3>1, <3>2 DEF FolderAfter
  <2> QED
    BY <2>2, <2>3 DEF FolderAfter
<1> QED
  BY <1>1, <1>2

LEMMA MarksStep ==
  ASSUME NEW s, NEW places, NEW d, NEW marks, NEW after, MarksAfter(s, places, marks),
         after = IF StepAt(s, d) \in MarkAction THEN marks \cup {StepAt(s, d)} ELSE marks
  PROVE  MarksAfter(s, places \cup {d}, after)
BY DEF MarksAfter

LEMMA QueuedStep ==
  ASSUME NEW s, NEW places, NEW d, NEW q, NEW after, QueuedAfter(s, places, q), s[d[1]] \in Rule,
         \A a \in OutAction : after[a] = IF Does(StepAt(s, d), a) THEN q[a] \cup {s[d[1]]} ELSE q[a]
  PROVE  QueuedAfter(s, places \cup {d}, after)
<1> SUFFICES ASSUME NEW a \in OutAction
             PROVE  after[a] = {r \in Rule : \E p \in places \cup {d} : s[p[1]] = r /\ Does(StepAt(s, p), a)}
  BY DEF QueuedAfter
<1>1. q[a] = {r \in Rule : \E p \in places : s[p[1]] = r /\ Does(StepAt(s, p), a)}
  BY DEF QueuedAfter
<1>2. CASE Does(StepAt(s, d), a)
  BY <1>1, <1>2
<1>3. CASE ~Does(StepAt(s, d), a)
  BY <1>1, <1>3
<1> QED
  BY <1>2, <1>3

-----------------------------------------------------------------------------
(* Lemmas about the end of a pass *)

LEMMA SafeOverValues ==
  RulesSafe <=> (Complete(mail, queued, ruleLog) /\ OnlyDue(queued, ruleLog.snapshot))
<1>1. Due = DueOf(ruleLog.snapshot)
  BY DEF Due, DueOf, Stops
<1>2. DueRules = RulesOf(ruleLog.snapshot)
  BY <1>1 DEF DueRules, RulesOf
<1>3. DueFolder = FolderOf(ruleLog.snapshot)
  BY <1>1 DEF DueFolder, FolderOf, MovesOf, MovesAt, IsLast
<1> QED
  BY <1>2, <1>3, Zenon DEF RulesSafe, PassComplete, OnlyDueLeaves, Complete, OnlyDue

\* Where a pass has come, it has come by rules that are due.
LEMMA PassedAreDue ==
  ASSUME NEW s \in Seq(Rule), NEW n \in 0 .. Len(s), NEW i \in 1 .. n,
         \A j \in 1 .. n - 1 : ~Stops(s[j]), RuleMatches(s[i])
  PROVE  i \in DueOf(s) /\ s[i] \in RulesOf(s)
<1>1. \A j \in 1 .. i - 1 : j \in 1 .. n - 1
  OBVIOUS
<1>2. i \in DOMAIN s
  OBVIOUS
<1> QED
  BY <1>1, <1>2 DEF DueOf, RulesOf

\* At its end it has come by all of them.
Ended(s, n, m) ==
  /\ \A j \in 1 .. n - 1 : ~Stops(s[j])
  /\ n = Len(s) \/ (n > 0 /\ Stops(s[n]))
  /\ n > 0 /\ RuleMatches(s[n]) => m = Len(StepsIn(s[n]))

LEMMA DueArePassed ==
  ASSUME NEW s \in Seq(Rule), NEW n \in 0 .. Len(s), NEW m \in Nat, Ended(s, n, m), NEW i \in DueOf(s)
  PROVE  /\ i \in 1 .. n /\ RuleMatches(s[i]) /\ s[i] \in Rule
         /\ \A k \in 1 .. Len(StepsIn(s[i])) : <<i, k>> \in Passed(s, n, m)
<1>1. i \in 1 .. Len(s) /\ RuleMatches(s[i]) /\ \A j \in 1 .. i - 1 : ~Stops(s[j])
  BY DEF DueOf
<1>2. i \in 1 .. n
  <2>1. CASE n = Len(s)
    BY <1>1, <2>1
  <2>2. CASE n > 0 /\ Stops(s[n])
    <3>1. n \notin 1 .. i - 1
      BY <1>1, <2>2
    <3> QED
      BY <1>1, <2>2, <3>1
  <2> QED
    BY <2>1, <2>2 DEF Ended
<1>3. ASSUME NEW k \in 1 .. Len(StepsIn(s[i]))
      PROVE  <<i, k>> \in Passed(s, n, m)
  <2>0. Len(StepsIn(s[i])) \in Nat
    BY <1>1, StepsAre
  <2>1. i < n \/ k <= m
    <3>1. CASE i = n
      BY <1>1, <1>2, <2>0, <3>1 DEF Ended
    <3>2. CASE i # n
      BY <1>2, <3>2
    <3> QED
      BY <3>1, <3>2
  <2> QED
    BY <1>1, <1>2, <2>1, PlaceThere
<1> QED
  BY <1>1, <1>2, <1>3

\* The folder actions at the places are the moves of the rules that are due.
LEMMA MovesArePassed ==
  ASSUME NEW s \in Seq(Rule), NEW n \in 0 .. Len(s), NEW m \in Nat, Ended(s, n, m), NEW p
  PROVE  /\ (p \in Passed(s, n, m) /\ StepAt(s, p) \in FolderAction) <=> p \in MovesOf(s)
         /\ p \in MovesOf(s) => ActionsOf(s[p[1]])[p[2]] = StepAt(s, p) /\ p = <<p[1], p[2]>> /\ p[1] \in Nat /\ p[2] \in Nat
<1>1. ASSUME p \in Passed(s, n, m), StepAt(s, p) \in FolderAction
      PROVE  p \in MovesOf(s)
  <2>1. /\ p = <<p[1], p[2]>> /\ p[1] \in 1 .. n /\ s[p[1]] \in Rule
        /\ RuleMatches(s[p[1]]) /\ p[2] \in 1 .. Len(StepsIn(s[p[1]]))
    BY <1>1, PlacesAre
  <2>2. p[1] \in DueOf(s)
    BY <2>1, PassedAreDue DEF Ended
  <2>3. p[2] \in DOMAIN ActionsOf(s[p[1]]) /\ ActionsOf(s[p[1]])[p[2]] \in FolderAction
    BY <1>1, <2>1, StepsMove DEF StepAt, StepsIn
  <2>4. PICK i, k : i = p[1] /\ k = p[2]
    OBVIOUS
  <2>5. k \in {x \in DOMAIN ActionsOf(s[i]) : ActionsOf(s[i])[x] \in FolderAction} /\ p = <<i, k>> /\ i \in DueOf(s)
    BY <2>1, <2>2, <2>3, <2>4
  <2>6. p \in MovesAt(s, i)
    BY <2>5, Zenon DEF MovesAt
  <2> QED
    BY <2>5, <2>6, Zenon DEF MovesOf
<1>2. ASSUME p \in MovesOf(s)
      PROVE  /\ p \in Passed(s, n, m) /\ StepAt(s, p) \in FolderAction
             /\ ActionsOf(s[p[1]])[p[2]] = StepAt(s, p) /\ p = <<p[1], p[2]>> /\ p[1] \in Nat /\ p[2] \in Nat
  <2>at. PICK i \in DueOf(s) : p \in MovesAt(s, i)
    BY <1>2, Zenon DEF MovesOf
  <2>1. PICK k \in DOMAIN ActionsOf(s[i]) : p = <<i, k>> /\ ActionsOf(s[i])[k] \in FolderAction
    BY <2>at, Zenon DEF MovesAt
  <2>2. i \in 1 .. n /\ s[i] \in Rule /\ \A x \in 1 .. Len(StepsIn(s[i])) : <<i, x>> \in Passed(s, n, m)
    BY DueArePassed
  <2>3. k \in 1 .. Len(StepsIn(s[i])) /\ StepsIn(s[i])[k] \in FolderAction
    BY <2>1, <2>2, StepsMove
  <2>0. ActionsOf(s[i]) \in Seq(RuleAction)
    BY <2>2, StepsAre
  <2>4. k \in 1 .. Len(ActionsOf(s[i])) /\ StepsIn(s[i])[k] = ActionsOf(s[i])[k]
    <3>1. k \in 1 .. Len(ActionsOf(s[i]))
      BY <2>0, <2>1
    <3> QED
      BY <2>2, <3>1, StepsAre
  <2>5. p[1] = i /\ p[2] = k
    BY <2>1
  <2>6. <<i, k>> \in Passed(s, n, m)
    BY <2>2, <2>3
  <2>7. k \in Nat
    BY <2>4
  <2> QED
    BY <2>1, <2>2, <2>3, <2>4, <2>5, <2>6, <2>7 DEF StepAt
<1> QED
  BY <1>1, <1>2

LEMMA FolderAtEnd ==
  ASSUME NEW s \in Seq(Rule), NEW n \in 0 .. Len(s), NEW m \in Nat, Ended(s, n, m),
         NEW f, FolderAfter(s, Passed(s, n, m), f)
  PROVE  f = FolderOf(s)
<1>1. \A p : (p \in Passed(s, n, m) /\ StepAt(s, p) \in FolderAction) <=> p \in MovesOf(s)
  BY MovesArePassed
<1>2. \A p \in MovesOf(s) : ActionsOf(s[p[1]])[p[2]] = StepAt(s, p) /\ p = <<p[1], p[2]>> /\ p[1] \in Nat /\ p[2] \in Nat
  BY MovesArePassed
<1>3. CASE MovesOf(s) = {}
  <2>1. f = "Inbox"
    BY <1>1, <1>3 DEF FolderAfter
  <2> QED
    BY <1>3, <2>1 DEF FolderOf
<1>4. CASE MovesOf(s) # {}
  <2>1. PICK p \in MovesOf(s) : f = Target(StepAt(s, p)) /\ \A q \in MovesOf(s) : Before(q, p)
    BY <1>1, <1>4, Zenon DEF FolderAfter
  <2>2. IsLast(p, MovesOf(s))
    BY <2>1 DEF IsLast, Before
  <2>3. PICK last : last = CHOOSE d \in MovesOf(s) : IsLast(d, MovesOf(s))
    OBVIOUS
  <2>4. last \in MovesOf(s) /\ IsLast(last, MovesOf(s))
    BY <2>1, <2>2, <2>3
  <2>5. (p[1] < last[1] \/ (p[1] = last[1] /\ p[2] <= last[2])) /\ (last[1] < p[1] \/ (last[1] = p[1] /\ last[2] <= p[2]))
    BY <2>1, <2>2, <2>4 DEF IsLast
  <2>6. last[1] = p[1] /\ last[2] = p[2]
    BY <1>2, <2>1, <2>4, <2>5
  <2>7. FolderOf(s) = Target(ActionsOf(s[last[1]])[last[2]])
    BY <1>4, <2>3 DEF FolderOf
  <2> QED
    BY <1>2, <2>1, <2>6, <2>7
<1> QED
  BY <1>3, <1>4

\* What the steps at the places do is what the rules that are due have.
LEMMA DoneAtEnd ==
  ASSUME NEW s \in Seq(Rule), NEW n \in 0 .. Len(s), NEW m \in Nat, Ended(s, n, m),
         NEW a \in MarkAction \cup OutAction, NEW r
  PROVE  (r \in RulesOf(s) /\ Has(r, a)) <=> (r \in Rule /\ \E p \in Passed(s, n, m) : s[p[1]] = r /\ Does(StepAt(s, p), a))
<1>1. ASSUME r \in RulesOf(s), Has(r, a)
      PROVE  r \in Rule /\ \E p \in Passed(s, n, m) : s[p[1]] = r /\ Does(StepAt(s, p), a)
  <2>1. PICK i \in DueOf(s) : r = s[i]
    BY <1>1 DEF RulesOf
  <2>2. s[i] \in Rule /\ \A k \in 1 .. Len(StepsIn(s[i])) : <<i, k>> \in Passed(s, n, m)
    BY DueArePassed
  <2>3. PICK k \in 1 .. Len(StepsIn(r)) : Does(StepsIn(r)[k], a)
    BY <1>1, <2>1, <2>2, StepsDo
  <2>4. StepAt(s, <<i, k>>) = StepsIn(r)[k] /\ s[<<i, k>>[1]] = r
    BY <2>1 DEF StepAt
  <2> QED
    BY <2>1, <2>2, <2>3, <2>4
<1>2. ASSUME r \in Rule, NEW p \in Passed(s, n, m), s[p[1]] = r, Does(StepAt(s, p), a)
      PROVE  r \in RulesOf(s) /\ Has(r, a)
  <2>1. p[1] \in 1 .. n /\ RuleMatches(s[p[1]]) /\ p[2] \in 1 .. Len(StepsIn(s[p[1]]))
    BY PlacesAre
  <2>2. r \in RulesOf(s)
    BY <1>2, <2>1, PassedAreDue DEF Ended
  <2>3. Has(r, a)
    BY <1>2, <2>1, StepsDo DEF StepAt
  <2> QED
    BY <2>2, <2>3
<1> QED
  BY <1>1, <1>2

LEMMA EffectAtEnd ==
  ASSUME NEW s \in Seq(Rule), NEW n \in 0 .. Len(s), NEW m \in Nat, Ended(s, n, m),
         NEW ml, NEW q, Effect(ml, q, s, Passed(s, n, m))
  PROVE  /\ ml.folder = FolderOf(s)
         /\ ml.marks = {a \in MarkAction : \E r \in RulesOf(s) : Has(r, a)}
         /\ \A a \in OutAction : q[a] = {r \in RulesOf(s) : Has(r, a)}
<1>1. ml.folder = FolderOf(s)
  BY FolderAtEnd DEF Effect
<1>2. ASSUME NEW a \in MarkAction
      PROVE  (\E p \in Passed(s, n, m) : StepAt(s, p) = a) <=> \E r \in RulesOf(s) : Has(r, a)
  <2>1. \A x : Does(x, a) <=> x = a
    BY DEF MarkAction, Does, Sent
  <2>2. \A p \in Passed(s, n, m) : s[p[1]] \in Rule
    BY PlacesAre
  <2>3. \A r : (r \in RulesOf(s) /\ Has(r, a)) <=> (r \in Rule /\ \E p \in Passed(s, n, m) : s[p[1]] = r /\ Does(StepAt(s, p), a))
    BY DoneAtEnd
  <2> QED
    BY <2>1, <2>2, <2>3
<1>3. ml.marks = {a \in MarkAction : \E r \in RulesOf(s) : Has(r, a)}
  BY <1>2 DEF Effect, MarksAfter
<1>4. ASSUME NEW a \in OutAction
      PROVE  q[a] = {r \in RulesOf(s) : Has(r, a)}
  <2>1. q[a] = {r \in Rule : \E p \in Passed(s, n, m) : s[p[1]] = r /\ Does(StepAt(s, p), a)}
    BY DEF Effect, QueuedAfter
  <2>2. \A r : (r \in RulesOf(s) /\ Has(r, a)) <=> (r \in Rule /\ \E p \in Passed(s, n, m) : s[p[1]] = r /\ Does(StepAt(s, p), a))
    BY DoneAtEnd
  <2> QED
    BY <2>1, <2>2
<1> QED
  BY <1>1, <1>3, <1>4

-----------------------------------------------------------------------------
(* The steps *)

LEMMA ExistingSteps ==
  ASSUME NEW r \in Rule
  PROVE  Steps(r, FALSE) \in Seq(StepKind) /\ \A i \in DOMAIN Steps(r, FALSE) : Steps(r, FALSE)[i] # "forwards"
<1>1. ActionsOf(r) \in Seq(RuleAction)
  BY StepsAre
<1>2. Steps(r, FALSE) = ActionsOf(r) \o <<>>
  BY DEF Steps
<1>3. Steps(r, FALSE) = ActionsOf(r)
  <2>1. PICK a : a = ActionsOf(r)
    OBVIOUS
  <2>2. a \in Seq(RuleAction)
    BY <1>1, <2>1
  <2> HIDE DEF RuleAction
  <2>3. a \o <<>> = a
    BY <2>2, ConcatEmptySeq
  <2> QED
    BY <1>2, <2>1, <2>3
<1>4. RuleAction \subseteq StepKind /\ "forwards" \notin RuleAction
  BY DEF StepKind, RuleAction, FolderAction, MarkAction, OutAction
<1> HIDE DEF StepKind, RuleAction
<1>5. ActionsOf(r) \in Seq(StepKind)
  BY <1>1, <1>4
<1>6. \A i \in DOMAIN ActionsOf(r) : ActionsOf(r)[i] \in RuleAction
  BY <1>1
<1> QED
  BY <1>3, <1>4, <1>5, <1>6

LEMMA RulesInit == MailRulesInit => RulesInv
<1> SUFFICES ASSUME MailRulesInit
             PROVE  RulesInv
  OBVIOUS
<1>1. rules \in Seq(Rule)
  <2>0. OwnRule \subseteq Rule
    BY MailRulesAssumption
  <2>1. ASSUME NEW p \in OwnRule \X OwnRule
        PROVE  p \in Seq(Rule)
    <3>1. PICK a \in Rule, b \in Rule : p = <<a, b>>
      BY <2>0
    <3>2. <<a, b>> \in Seq(Rule)
      OBVIOUS
    <3> QED
      BY <3>1, <3>2
  <2>2. ASSUME NEW p \in OwnRule \X OwnRule \X OwnRule
        PROVE  p \in Seq(Rule)
    <3>1. PICK a \in Rule, b \in Rule, c \in Rule : p = <<a, b, c>>
      BY <2>0
    <3>2. <<a, b, c>> \in Seq(Rule)
      OBVIOUS
    <3> QED
      BY <3>1, <3>2
  <2>3. \A r \in OwnRule : <<r>> \in Seq(Rule)
    BY <2>0
  <2>4. <<>> \in Seq(Rule)
    OBVIOUS
  <2>5. \/ rules = <<>> \/ \E r \in OwnRule : rules = <<r>>
        \/ rules \in OwnRule \X OwnRule \/ rules \in OwnRule \X OwnRule \X OwnRule
    BY Zenon DEF MailRulesInit
  <2> QED
    BY <2>1, <2>2, <2>3, <2>4, <2>5, Zenon
<1>2. AtRest \in Pass
  <2>1. <<>> \in Seq(Rule) /\ <<>> \in Seq(StepKind)
    OBVIOUS
  <2> HIDE DEF StepKind
  <2> QED
    BY <2>1, Zenon DEF AtRest, Pass
<1>3. MailRulesTypeOK
  <2>1. mail \in [folder : Folder, marks : SUBSET MarkAction, gone : BOOLEAN]
    BY DEF MailRulesInit, Folder
  <2>2. queued \in [OutAction -> SUBSET Rule]
    BY DEF MailRulesInit
  <2>3. <<>> \in Seq(Rule) /\ 0 \in 0 .. MaxWishes
    BY MailRulesAssumption
  <2>4. ruleLog \in [snapshot : Seq(Rule), refused : BOOLEAN, ended : BOOLEAN, disturbed : BOOLEAN, wishes : 0 .. MaxWishes]
    BY <2>3, Zenon DEF MailRulesInit
  <2> QED
    BY <1>1, <1>2, <2>1, <2>2, <2>4, Zenon DEF MailRulesInit, MailRulesTypeOK
<1>4. inbound.pc = "new" /\ inbound.acts = <<>> /\ existing.acts = <<>>
  BY DEF MailRulesInit, AtRest
<1>5. PassOK(mail, queued, inbound, ruleLog)
  BY <1>4 DEF MailRulesInit, PassOK, NewOK, OnlyDue, Complete
<1> QED
  BY <1>3, <1>4, <1>5 DEF RulesInv

\* A step that leaves the pass alone, and the message too or disturbs it.
LEMMA Aside ==
  ASSUME NEW ml, NEW q, NEW pass, NEW log, NEW after, NEW next, PassOK(ml, q, pass, log),
         next.snapshot = log.snapshot, next.ended = log.ended, next.refused = log.refused,
         next.disturbed \/ (after = ml /\ next.disturbed = log.disturbed),
         after.gone => next.disturbed
  PROVE  PassOK(after, q, pass, next)
<1>1. pass.pc \in {"new", "load"} => NewOK(after, q, next) /\ pass.acts = <<>>
  BY DEF PassOK, NewOK
<1>2. ASSUME pass.pc = "rules"
      PROVE  UnderWayOK(after, q, pass, next)
  <2>1. UnderWayOK(ml, q, pass, log)
    BY <1>2 DEF PassOK
  <2>2. PICK n \in 0 .. Len(log.snapshot), m \in Nat :
          /\ PassAt(pass, log.snapshot, n, m)
          /\ ~log.disturbed => Effect(ml, q, log.snapshot, Passed(log.snapshot, n, m))
    BY <2>1 DEF UnderWayOK
  <2>3. ~next.ended /\ ~next.refused
    BY <2>1 DEF UnderWayOK
  <2>4. ~next.disturbed => Effect(after, q, next.snapshot, Passed(next.snapshot, n, m))
    BY <2>2
  <2> QED
    BY <2>2, <2>3, <2>4 DEF UnderWayOK
<1>3. OnlyDue(q, next.snapshot)
  BY DEF PassOK
<1>4. Complete(after, q, next)
  BY DEF PassOK, Complete
<1> QED
  BY <1>1, <1>2, <1>3, <1>4 DEF PassOK

LEMMA CheckStep ==
  ASSUME RulesInv, InboundCheck
  PROVE  PassOK(mail, queued, inbound, ruleLog)'
<1>1. NewOK(mail, queued, ruleLog) /\ inbound.acts = <<>> /\ (mail.gone => ruleLog.disturbed)
  BY DEF InboundCheck, RulesInv, PassOK
<1>2. mail \in [folder : Folder, marks : SUBSET MarkAction, gone : BOOLEAN] /\ rules \in Seq(Rule) /\ inbound \in Pass
  BY DEF RulesInv, MailRulesTypeOK
<1>3. ruleLog \in [snapshot : Seq(Rule), refused : BOOLEAN, ended : BOOLEAN, disturbed : BOOLEAN, wishes : 0 .. MaxWishes]
  BY DEF RulesInv, MailRulesTypeOK
<1>4. queued' = queued /\ \A a \in OutAction : queued'[a] = {}
  BY <1>1 DEF InboundCheck, NewOK
<1>5. OnlyDue(queued', ruleLog'.snapshot)
  BY <1>4 DEF OnlyDue
<1>6. CASE blocked
  <2>1. inbound' = [inbound EXCEPT !.pc = "done"] /\ ruleLog' = [ruleLog EXCEPT !.refused = TRUE, !.ended = TRUE]
        /\ mail' = IF mail.gone THEN mail ELSE [mail EXCEPT !.folder = "Spam"]
    BY <1>6 DEF InboundCheck
  <2>2. inbound'.pc = "done"
    BY <1>2, <2>1 DEF Pass
  <2>3. ruleLog'.snapshot = <<>> /\ ruleLog'.refused /\ ruleLog'.disturbed = ruleLog.disturbed
    BY <1>1, <1>3, <2>1 DEF NewOK
  <2>4. mail'.marks = mail.marks /\ mail'.gone = mail.gone /\ (~mail.gone => mail'.folder = "Spam")
    BY <1>2, <2>1
  <2>5. RulesOf(<<>>) = {}
    BY DEF RulesOf, DueOf
  <2>6. Complete(mail', queued', ruleLog')
    <3>1. ASSUME ~ruleLog'.disturbed
          PROVE  mail'.folder = "Spam" /\ mail'.marks = {}
      BY <1>1, <2>3, <2>4, <3>1 DEF NewOK
    <3>2. {a \in MarkAction : \E r \in {} : Has(r, a)} = {}
      OBVIOUS
    <3>3. \A a \in OutAction : queued'[a] = {r \in {} : Has(r, a)}
      BY <1>4
    <3> QED
      BY <2>3, <2>5, <3>1, <3>2, <3>3 DEF Complete
  <2> QED
    BY <1>1, <1>5, <2>2, <2>3, <2>4, <2>6 DEF PassOK
<1>7. CASE ~blocked
  <2>1. inbound' = [inbound EXCEPT !.pc = "load"] /\ ruleLog' = ruleLog /\ mail' = mail
    BY <1>7 DEF InboundCheck
  <2>2. inbound'.pc = "load" /\ inbound'.acts = inbound.acts
    BY <1>2, <2>1 DEF Pass
  <2>3. Complete(mail', queued', ruleLog')
    BY <1>1, <2>1 DEF NewOK, Complete
  <2> QED
    BY <1>1, <1>4, <1>5, <2>1, <2>2, <2>3 DEF PassOK
<1> QED
  BY <1>6, <1>7

\* The pass begins with the list it has read, whole or not.
LEMMA ListStep ==
  ASSUME RulesInv, inbound.pc = "load", NEW s \in Seq(Rule), WorkThrough(s), UNCHANGED <<mail, queued>>,
         ruleLog'.snapshot = s, ruleLog'.ended = ruleLog.ended, ruleLog'.refused = ruleLog.refused,
         ruleLog'.disturbed \/ ruleLog'.disturbed = ruleLog.disturbed
  PROVE  PassOK(mail, queued, inbound, ruleLog)'
<1>1. NewOK(mail, queued, ruleLog) /\ inbound.acts = <<>> /\ (mail.gone => ruleLog.disturbed)
  BY DEF RulesInv, PassOK
<1>2. inbound \in Pass
  BY DEF RulesInv, MailRulesTypeOK
<1>3. inbound'.pc = "rules" /\ inbound'.todo = s /\ inbound'.acts = <<>>
  BY <1>1, <1>2 DEF WorkThrough, Pass
<1>4. /\ ruleLog'.snapshot = s /\ (ruleLog.disturbed => ruleLog'.disturbed)
      /\ ~ruleLog'.ended /\ ~ruleLog'.refused
  BY <1>1 DEF NewOK, RulesInv, MailRulesTypeOK
<1>5. \A a \in OutAction : queued'[a] = {}
  BY <1>1 DEF NewOK
<1>6. OnlyDue(queued', s)
  BY <1>5 DEF OnlyDue
<1>7. PassAt(inbound', s, 0, 0)
  BY <1>3 DEF PassAt
<1>8. Passed(s, 0, 0) = {}
  BY NothingPassed
<1>9. ~ruleLog'.disturbed => Effect(mail', queued', s, Passed(s, 0, 0))
  <2>1. QueuedAfter(s, {}, queued')
    BY <1>5 DEF QueuedAfter
  <2>2. ASSUME ~ruleLog'.disturbed
        PROVE  FolderAfter(s, {}, mail'.folder) /\ MarksAfter(s, {}, mail'.marks)
    BY <1>1, <1>4, <2>2 DEF NewOK, FolderAfter, MarksAfter
  <2> QED
    BY <1>8, <2>1, <2>2 DEF Effect
<1>10. UnderWayOK(mail', queued', inbound', ruleLog')
  <2>1. 0 \in 0 .. Len(s) /\ 0 \in Nat
    OBVIOUS
  <2> QED
    BY <1>4, <1>7, <1>9, <2>1 DEF UnderWayOK
<1>11. Complete(mail', queued', ruleLog')
  BY <1>4 DEF Complete
<1>12. mail'.gone => ruleLog'.disturbed
  BY <1>1, <1>4
<1> QED
  BY <1>3, <1>4, <1>6, <1>10, <1>11, <1>12 DEF PassOK

\* What is left of the list when its rows end early, or the message is not known.
LEMMA PartOfList ==
  ASSUME rules \in Seq(Rule), NEW n \in 0 .. Len(rules), NEW bare \in BOOLEAN
  PROVE  [i \in 1 .. n |-> IF bare THEN Bare[rules[i]] ELSE rules[i]] \in Seq(Rule)
<1>1. Bare \in [Rule -> Rule]
  BY MailRulesAssumption
<1>2. \A i \in 1 .. n : rules[i] \in Rule
  OBVIOUS
<1>3. \A i \in 1 .. n : (IF bare THEN Bare[rules[i]] ELSE rules[i]) \in Rule
  BY <1>1, <1>2
<1> QED
  BY <1>3

LEMMA LoadStep ==
  ASSUME RulesInv, LoadRules \/ LoadPartly
  PROVE  PassOK(mail, queued, inbound, ruleLog)'
<1>1. rules \in Seq(Rule) /\ ruleLog \in [snapshot : Seq(Rule), refused : BOOLEAN, ended : BOOLEAN,
                                        disturbed : BOOLEAN, wishes : 0 .. MaxWishes]
  BY DEF RulesInv, MailRulesTypeOK
<1>2. inbound.pc = "load" /\ UNCHANGED <<mail, queued>>
  BY DEF LoadRules, LoadPartly
<1>3. CASE LoadRules
  <2>1. WorkThrough(rules) /\ ruleLog' = [ruleLog EXCEPT !.snapshot = rules]
    BY <1>3 DEF LoadRules
  <2> QED
    BY <1>1, <1>2, <2>1, ListStep
<1>4. CASE LoadPartly
  <2> DEFINE part(n, bare) == [i \in 1 .. n |-> IF bare THEN Bare[rules[i]] ELSE rules[i]]
             wishes(n) == IF mail.gone /\ n = Len(rules) THEN ruleLog.wishes ELSE Spent
             read(n, bare) == /\ WorkThrough(part(n, bare))
                              /\ ruleLog' = [ruleLog EXCEPT !.snapshot = part(n, bare), !.disturbed = TRUE,
                                                            !.wishes = wishes(n)]
  <2>1. \E n \in 0 .. Len(rules), bare \in BOOLEAN : read(n, bare)
    BY <1>4, Zenon DEF LoadPartly
  <2>2. PICK list \in Seq(Rule) :
          /\ WorkThrough(list)
          /\ \E w : ruleLog' = [ruleLog EXCEPT !.snapshot = list, !.disturbed = TRUE, !.wishes = w]
    <3>1. PICK n \in 0 .. Len(rules), bare \in BOOLEAN : read(n, bare)
      BY <2>1, Zenon
    <3>2. part(n, bare) \in Seq(Rule)
      BY <1>1, PartOfList, Zenon
    <3>3. \E w : ruleLog' = [ruleLog EXCEPT !.snapshot = part(n, bare), !.disturbed = TRUE, !.wishes = w]
      BY <3>1, Zenon
    <3> HIDE DEF part, wishes
    <3> QED
      BY <3>1, <3>2, <3>3, Zenon
  <2>3. /\ ruleLog'.snapshot = list /\ ruleLog'.disturbed
        /\ ruleLog'.ended = ruleLog.ended /\ ruleLog'.refused = ruleLog.refused
    BY <1>1, <2>2
  <2> QED
    BY <1>2, <2>2, <2>3, ListStep
<1> QED
  BY <1>3, <1>4

\* A pass that gives up leaves the message as it is and promises nothing.
LEMMA GivesUp ==
  ASSUME RulesInv, CheckFails \/ LoadFails \/ EndFails
  PROVE  PassOK(mail, queued, inbound, ruleLog)'
<1>1. ruleLog \in [snapshot : Seq(Rule), refused : BOOLEAN, ended : BOOLEAN, disturbed : BOOLEAN, wishes : 0 .. MaxWishes]
      /\ inbound \in Pass
  BY DEF RulesInv, MailRulesTypeOK
<1>2. UNCHANGED <<mail, queued>> /\ OnlyDue(queued, ruleLog.snapshot)
  BY DEF CheckFails, LoadFails, EndFails, RulesInv, PassOK
<1>3. ruleLog'.snapshot = ruleLog.snapshot /\ ruleLog'.disturbed
  BY <1>1 DEF CheckFails, LoadFails, EndFails, Marred
<1>4. \/ inbound'.pc = "done"
      \/ /\ inbound.pc = "new" /\ inbound'.pc = "load" /\ inbound'.acts = inbound.acts
         /\ ruleLog'.ended = ruleLog.ended /\ ruleLog'.refused = ruleLog.refused
  BY <1>1 DEF CheckFails, LoadFails, EndFails, Marred, Pass
<1>5. inbound'.pc = "load" => NewOK(mail', queued', ruleLog') /\ inbound'.acts = <<>>
  BY <1>2, <1>3, <1>4 DEF RulesInv, PassOK, NewOK
<1>6. Complete(mail', queued', ruleLog')
  BY <1>3 DEF Complete
<1> QED
  BY <1>2, <1>3, <1>4, <1>5, <1>6 DEF PassOK

\* What a step of the pass has in hand.
InHand(s, n, m) ==
  /\ s = ruleLog.snapshot /\ PassAt(inbound, s, n, m)
  /\ ~ruleLog.disturbed => Effect(mail, queued, s, Passed(s, n, m))
  /\ ~ruleLog.ended /\ ~ruleLog.refused /\ OnlyDue(queued, s) /\ (mail.gone => ruleLog.disturbed)

LEMMA UnderWay ==
  ASSUME RulesInv, inbound.pc = "rules"
  PROVE  \E s \in Seq(Rule) : \E n \in 0 .. Len(s), m \in Nat : InHand(s, n, m)
<1>1. UnderWayOK(mail, queued, inbound, ruleLog) /\ OnlyDue(queued, ruleLog.snapshot) /\ (mail.gone => ruleLog.disturbed)
  BY DEF RulesInv, PassOK
<1>2. PICK s \in Seq(Rule) : s = ruleLog.snapshot
  BY DEF RulesInv, MailRulesTypeOK
<1> QED
  BY <1>1, <1>2 DEF UnderWayOK, InHand

LEMMA RuleStep ==
  ASSUME RulesInv, InboundRule
  PROVE  PassOK(mail, queued, inbound, ruleLog)'
<1>1. inbound.pc = "rules" /\ inbound.acts = <<>> /\ inbound.todo # <<>>
  BY DEF InboundRule
<1>0. PICK s \in Seq(Rule) : \E n \in 0 .. Len(s), m \in Nat : InHand(s, n, m)
  BY <1>1, UnderWay
<1>2. PICK n \in 0 .. Len(s), m \in Nat :
        /\ s = ruleLog.snapshot /\ PassAt(inbound, s, n, m)
        /\ ~ruleLog.disturbed => Effect(mail, queued, s, Passed(s, n, m))
        /\ ~ruleLog.ended /\ ~ruleLog.refused /\ OnlyDue(queued, s) /\ (mail.gone => ruleLog.disturbed)
  BY <1>0 DEF InHand
<1>3. inbound \in Pass /\ inbound.todo \in Seq(Rule)
  BY DEF RulesInv, MailRulesTypeOK, Pass
<1>4. PICK todo \in Seq(Rule) : todo = inbound.todo
  BY <1>3
<1>5. ~(n > 0 /\ Stops(s[n])) /\ Len(todo) = Len(s) - n /\ \A i \in 1 .. Len(s) - n : todo[i] = s[n + i]
  BY <1>1, <1>2, <1>4 DEF PassAt
<1>6. n \in 0 .. Len(s) - 1 /\ n + 1 \in 1 .. Len(s)
  BY <1>1, <1>4, <1>5
<1>7. PICK r : r = s[n + 1]
  OBVIOUS
<1>8. r \in Rule /\ Head(todo) = r
  BY <1>4, <1>5, <1>6, <1>7
<1>9. inbound' = [inbound EXCEPT !.rule = r, !.todo = Rest(r, Tail(todo)), !.acts = IF RuleMatches(r) THEN StepsIn(r) ELSE <<>>]
  BY <1>4, <1>8 DEF InboundRule, StepsIn
<1>10. inbound'.pc = "rules" /\ inbound'.rule = r /\ inbound'.todo = Rest(r, Tail(todo))
       /\ inbound'.acts = IF RuleMatches(r) THEN StepsIn(r) ELSE <<>>
  BY <1>1, <1>3, <1>9 DEF Pass
<1>11. Len(StepsIn(r)) \in Nat
  BY <1>8, StepsAre
<1>12. \A j \in 1 .. (n + 1) - 1 : ~Stops(s[j])
  <2>1. \A j \in 1 .. n - 1 : ~Stops(s[j])
    BY <1>2 DEF PassAt
  <2> QED
    BY <1>5, <2>1
<1>13. IF n + 1 > 0 /\ Stops(s[n + 1]) THEN inbound'.todo = <<>>
       ELSE Len(inbound'.todo) = Len(s) - (n + 1) /\ \A i \in 1 .. Len(s) - (n + 1) : inbound'.todo[i] = s[(n + 1) + i]
  <2>1. CASE Stops(r)
    BY <1>7, <1>10, <2>1 DEF Rest, Stops
  <2>2. CASE ~Stops(r)
    <3>1. inbound'.todo = Tail(todo)
      BY <1>10, <2>2 DEF Rest, Stops
    <3>2. Len(Tail(todo)) = Len(todo) - 1 /\ \A i \in 1 .. Len(todo) - 1 : Tail(todo)[i] = todo[i + 1]
      BY <1>1, <1>4
    <3>3. \A i \in 1 .. Len(s) - (n + 1) : i + 1 \in 1 .. Len(s) - n /\ n + (i + 1) = (n + 1) + i
      OBVIOUS
    <3> QED
      BY <1>5, <1>7, <2>2, <3>1, <3>2, <3>3
  <2> QED
    BY <2>1, <2>2
<1>14. PassAt(inbound', s, n + 1, 0)
  <2>1. RuleMatches(r) => Len(inbound'.acts) = Len(StepsIn(r)) - 0 /\ \A i \in 1 .. Len(StepsIn(r)) - 0 : inbound'.acts[i] = StepsIn(r)[0 + i]
    BY <1>10, <1>11
  <2> QED
    BY <1>6, <1>7, <1>10, <1>11, <1>12, <1>13, <2>1 DEF PassAt
<1>15. n > 0 /\ RuleMatches(s[n]) => m = Len(StepsIn(s[n]))
  <2>1. ASSUME n > 0, RuleMatches(s[n])
        PROVE  m = Len(StepsIn(s[n]))
    <3>1. m <= Len(StepsIn(s[n])) /\ Len(inbound.acts) = Len(StepsIn(s[n])) - m
      BY <1>2, <2>1 DEF PassAt
    <3>2. Len(StepsIn(s[n])) \in Nat
      BY <1>6, <2>1, StepsAre
    <3> QED
      BY <1>1, <3>1, <3>2
  <2> QED
    BY <2>1
<1>16. Passed(s, n + 1, 0) = Passed(s, n, m)
  BY <1>6, <1>15, NextRule
<1>17. mail' = mail /\ queued' = queued /\ ruleLog' = ruleLog
  BY DEF InboundRule
<1>18. UnderWayOK(mail', queued', inbound', ruleLog')
  <2>1. n + 1 \in 0 .. Len(s) /\ 0 \in Nat
    BY <1>6
  <2> QED
    BY <1>2, <1>14, <1>16, <1>17, <2>1 DEF UnderWayOK
<1> QED
  BY <1>2, <1>10, <1>17, <1>18 DEF PassOK, Complete

\* The next step of the rule in hand, and the pass after it.
LEMMA NextStep ==
  ASSUME RulesInv, NEW s \in Seq(Rule), NEW n \in 0 .. Len(s), NEW m \in Nat, PassAt(inbound, s, n, m), inbound.acts # <<>>
  PROVE  /\ n \in 1 .. Len(s) /\ RuleMatches(s[n]) /\ s[n] \in Rule /\ inbound.rule = s[n]
         /\ m + 1 \in 1 .. Len(StepsIn(s[n])) /\ Head(inbound.acts) = StepsIn(s[n])[m + 1]
         /\ Len(StepsIn(s[n])) \in Nat
         /\ PassAt([inbound EXCEPT !.acts = Tail(@)], s, n, m + 1)
         /\ PassAt([inbound EXCEPT !.acts = <<>>], s, n, Len(StepsIn(s[n])))
<1>1. inbound \in Pass
  BY DEF RulesInv, MailRulesTypeOK
<1>2. PICK acts \in Seq(StepKind) : acts = inbound.acts
  BY <1>1 DEF Pass
<1>3. n \in 1 .. Len(s) /\ RuleMatches(s[n])
  BY DEF PassAt
<1>4. s[n] \in Rule /\ inbound.rule = s[n]
  BY <1>3 DEF PassAt
<1>5. PICK S : S = StepsIn(s[n])
  OBVIOUS
<1>6. Len(S) \in Nat
  BY <1>4, <1>5, StepsAre
<1>7. m <= Len(S) /\ Len(acts) = Len(S) - m /\ \A i \in 1 .. Len(S) - m : acts[i] = S[m + i]
  BY <1>2, <1>3, <1>5 DEF PassAt
<1>8. m + 1 \in 1 .. Len(S) /\ Head(acts) = S[m + 1]
  BY <1>2, <1>6, <1>7
<1>9. Len(Tail(acts)) = Len(S) - (m + 1) /\ \A i \in 1 .. Len(S) - (m + 1) : Tail(acts)[i] = S[(m + 1) + i]
  <2>1. Len(Tail(acts)) = Len(acts) - 1 /\ \A i \in 1 .. Len(acts) - 1 : Tail(acts)[i] = acts[i + 1]
    BY <1>2
  <2>2. ASSUME NEW i \in 1 .. Len(S) - (m + 1)
        PROVE  Tail(acts)[i] = S[(m + 1) + i]
    <3>1. i + 1 \in 1 .. Len(S) - m /\ m + (i + 1) = (m + 1) + i /\ i \in 1 .. Len(acts) - 1
      BY <1>6, <1>7
    <3>2. acts[i + 1] = S[m + (i + 1)]
      BY <1>7, <3>1
    <3> QED
      BY <2>1, <3>1, <3>2
  <2> QED
    BY <1>6, <1>7, <2>1, <2>2
<1>11. PassAt([inbound EXCEPT !.acts = Tail(@)], s, n, m + 1)
  <2>1. PICK pass : pass = [inbound EXCEPT !.acts = Tail(@)]
    OBVIOUS
  <2>2. pass.todo = inbound.todo /\ pass.rule = inbound.rule /\ pass.acts = Tail(acts)
    BY <1>1, <1>2, <2>1 DEF Pass
  <2>3. m + 1 <= Len(S)
    BY <1>8
  <2>4. PassAt(pass, s, n, m + 1)
    BY <1>3, <1>5, <1>9, <2>2, <2>3 DEF PassAt
  <2> QED
    BY <2>1, <2>4
<1>12. PassAt([inbound EXCEPT !.acts = <<>>], s, n, Len(S))
  <2>1. PICK pass : pass = [inbound EXCEPT !.acts = <<>>]
    OBVIOUS
  <2>2. pass.todo = inbound.todo /\ pass.rule = inbound.rule /\ pass.acts = <<>>
    BY <1>1, <2>1 DEF Pass
  <2>3. Len(S) <= Len(S) /\ Len(<<>>) = Len(S) - Len(S) /\ 1 .. Len(S) - Len(S) = {}
    BY <1>6
  <2>4. PassAt(pass, s, n, Len(S))
    BY <1>3, <1>5, <2>2, <2>3 DEF PassAt
  <2> QED
    BY <2>1, <2>4
<1> QED
  BY <1>2, <1>3, <1>4, <1>5, <1>6, <1>8, <1>11, <1>12

LEMMA ActStep ==
  ASSUME RulesInv, InboundAct
  PROVE  PassOK(mail, queued, inbound, ruleLog)'
<1>1. inbound.pc = "rules" /\ inbound.acts # <<>> /\ ruleLog' = ruleLog /\ inbound' = [inbound EXCEPT !.acts = Tail(@)]
  BY DEF InboundAct, Act
<1>0. PICK s \in Seq(Rule) : \E n \in 0 .. Len(s), m \in Nat : InHand(s, n, m)
  BY <1>1, UnderWay
<1>2. PICK n \in 0 .. Len(s), m \in Nat :
        /\ s = ruleLog.snapshot /\ PassAt(inbound, s, n, m)
        /\ ~ruleLog.disturbed => Effect(mail, queued, s, Passed(s, n, m))
        /\ ~ruleLog.ended /\ ~ruleLog.refused /\ OnlyDue(queued, s) /\ (mail.gone => ruleLog.disturbed)
  BY <1>0 DEF InHand
<1>3. /\ n \in 1 .. Len(s) /\ RuleMatches(s[n]) /\ s[n] \in Rule /\ inbound.rule = s[n]
      /\ m + 1 \in 1 .. Len(StepsIn(s[n])) /\ Head(inbound.acts) = StepsIn(s[n])[m + 1] /\ Len(StepsIn(s[n])) \in Nat
      /\ PassAt(inbound', s, n, m + 1)
  BY <1>1, <1>2, NextStep
<1>4. PICK x : x = Head(inbound.acts)
  OBVIOUS
<1>5. PICK d : d = <<n, m + 1>>
  OBVIOUS
<1>6. d[1] = n /\ StepAt(s, d) = x /\ Passed(s, n, m + 1) = Passed(s, n, m) \cup {d}
      /\ (\A p \in Passed(s, n, m) : Before(p, d)) /\ Before(d, d)
  <2>1. m + 1 <= Len(StepsIn(s[n]))
    BY <1>3
  <2>2. Before(d, d)
    BY <1>5 DEF Before
  <2> QED
    BY <1>3, <1>4, <1>5, <2>1, <2>2, NextPlace
<1>7. mail \in [folder : Folder, marks : SUBSET MarkAction, gone : BOOLEAN] /\ queued \in [OutAction -> SUBSET Rule]
  BY DEF RulesInv, MailRulesTypeOK
<1>8. \/ x = "forward" /\ UNCHANGED <<mail, queued>>
      \/ /\ x # "forward"
         /\ mail' = IF x \in FolderAction THEN [mail EXCEPT !.folder = Target(x)]
                    ELSE IF x \in MarkAction THEN [mail EXCEPT !.marks = @ \cup {x}]
                    ELSE mail
         /\ queued' = IF Sent(x) \in OutAction THEN [queued EXCEPT ![Sent(x)] = @ \cup {s[n]}] ELSE queued
  <2>1. \/ Skipped(x, TRUE) /\ UNCHANGED <<mail, queued>>
        \/ /\ ~Skipped(x, TRUE)
           /\ mail' = IF x \in FolderAction THEN [mail EXCEPT !.folder = Target(x)]
                      ELSE IF x \in MarkAction THEN [mail EXCEPT !.marks = @ \cup {x}]
                      ELSE mail
           /\ queued' = IF Sent(x) \in OutAction THEN [queued EXCEPT ![Sent(x)] = @ \cup {s[n]}] ELSE queued
    BY <1>3, <1>4, Zenon DEF InboundAct, Act
  <2>2. Skipped(x, TRUE) <=> x = "forward"
    BY DEF Skipped
  <2> QED
    BY <2>1, <2>2, Zenon
<1>9. FolderAction \cap MarkAction = {} /\ "forward" \notin FolderAction /\ "forward" \notin MarkAction
  BY DEF FolderAction, MarkAction
<1>10. mail'.folder = IF x \in FolderAction THEN Target(x) ELSE mail.folder
  BY <1>7, <1>8, <1>9
<1>11. mail'.marks = IF x \in MarkAction THEN mail.marks \cup {x} ELSE mail.marks
  BY <1>7, <1>8, <1>9
<1>12. mail'.gone = mail.gone
  BY <1>7, <1>8
<1>13. \A a \in OutAction : queued'[a] = IF Does(x, a) THEN queued[a] \cup {s[n]} ELSE queued[a]
  <2>1. CASE x = "forward"
    BY <1>8, <2>1 DEF Does
  <2>2. CASE x # "forward" /\ Sent(x) \in OutAction
    <3>1. queued' = [queued EXCEPT ![Sent(x)] = @ \cup {s[n]}]
      BY <1>8, <2>2
    <3> QED
      BY <1>7, <2>2, <3>1 DEF Does
  <2>3. CASE x # "forward" /\ Sent(x) \notin OutAction
    <3>1. queued' = queued
      BY <1>8, <2>3
    <3> QED
      BY <2>3, <3>1 DEF Does
  <2> QED
    BY <2>1, <2>2, <2>3
<1>14. ~ruleLog'.disturbed => Effect(mail', queued', s, Passed(s, n, m + 1))
  <2> SUFFICES ASSUME ~ruleLog.disturbed
               PROVE  Effect(mail', queued', s, Passed(s, n, m) \cup {d})
    BY <1>1, <1>6
  <2>1. FolderAfter(s, Passed(s, n, m), mail.folder) /\ MarksAfter(s, Passed(s, n, m), mail.marks) /\ QueuedAfter(s, Passed(s, n, m), queued)
    BY <1>2 DEF Effect
  <2>2. FolderAfter(s, Passed(s, n, m) \cup {d}, mail'.folder)
    BY <1>6, <1>10, <2>1, FolderStep
  <2>3. MarksAfter(s, Passed(s, n, m) \cup {d}, mail'.marks)
    BY <1>6, <1>11, <2>1, MarksStep
  <2>4. QueuedAfter(s, Passed(s, n, m) \cup {d}, queued')
    <3>1. s[d[1]] \in Rule
      BY <1>3, <1>6
    <3>2. \A a \in OutAction : queued'[a] = IF Does(StepAt(s, d), a) THEN queued[a] \cup {s[d[1]]} ELSE queued[a]
      BY <1>6, <1>13
    <3> QED
      BY <2>1, <3>1, <3>2, QueuedStep
  <2> QED
    BY <2>2, <2>3, <2>4 DEF Effect
<1>15. UnderWayOK(mail', queued', inbound', ruleLog')
  <2>1. m + 1 \in Nat
    OBVIOUS
  <2> QED
    BY <1>1, <1>2, <1>3, <1>14, <2>1 DEF UnderWayOK
<1>16. OnlyDue(queued', s)
  <2> SUFFICES ASSUME NEW a \in OutAction, Does(x, a)
               PROVE  s[n] \in {r \in RulesOf(s) : Has(r, a)}
    BY <1>2, <1>13 DEF OnlyDue
  <2>1. s[n] \in RulesOf(s)
    <3>1. \A j \in 1 .. n - 1 : ~Stops(s[j])
      BY <1>2 DEF PassAt
    <3>2. n \in 1 .. n
      BY <1>3
    <3> QED
      BY <1>3, <3>1, <3>2, PassedAreDue
  <2>2. Has(s[n], a)
    BY <1>3, <1>4, StepsDo
  <2> QED
    BY <2>1, <2>2
<1>17. inbound'.pc = "rules"
  BY <1>1 DEF RulesInv, MailRulesTypeOK, Pass
<1>18. Complete(mail', queued', ruleLog')
  BY <1>1, <1>2 DEF Complete
<1> QED
  BY <1>1, <1>2, <1>12, <1>15, <1>16, <1>17, <1>18 DEF PassOK

LEMMA FailsStep ==
  ASSUME RulesInv, InboundFails
  PROVE  PassOK(mail, queued, inbound, ruleLog)'
<1>1. inbound.pc = "rules" /\ inbound.acts # <<>> /\ mail' = mail /\ queued' = queued
  BY DEF InboundFails
<1>0. PICK s \in Seq(Rule) : \E n \in 0 .. Len(s), m \in Nat : InHand(s, n, m)
  BY <1>1, UnderWay
<1>2. PICK n \in 0 .. Len(s), m \in Nat :
        /\ s = ruleLog.snapshot /\ PassAt(inbound, s, n, m)
        /\ ~ruleLog.disturbed => Effect(mail, queued, s, Passed(s, n, m))
        /\ ~ruleLog.ended /\ ~ruleLog.refused /\ OnlyDue(queued, s) /\ (mail.gone => ruleLog.disturbed)
  BY <1>0 DEF InHand
<1>3. /\ Len(StepsIn(s[n])) \in Nat
      /\ PassAt([inbound EXCEPT !.acts = Tail(@)], s, n, m + 1)
      /\ PassAt([inbound EXCEPT !.acts = <<>>], s, n, Len(StepsIn(s[n])))
  BY <1>1, <1>2, NextStep
<1>4. ruleLog'.disturbed /\ ruleLog'.snapshot = s /\ ~ruleLog'.ended /\ ~ruleLog'.refused
  BY <1>2 DEF InboundFails, RulesInv, MailRulesTypeOK
<1>5. inbound' = [inbound EXCEPT !.acts = <<>>] \/ inbound' = [inbound EXCEPT !.acts = Tail(@)]
  <2>1. PICK acts \in AfterFailure(inbound.acts) : inbound' = [inbound EXCEPT !.acts = acts]
    BY DEF InboundFails
  <2>2. acts = <<>> \/ acts = Tail(inbound.acts)
    BY <2>1 DEF AfterFailure
  <2> QED
    BY <2>1, <2>2
<1>6. inbound'.pc = "rules"
  BY <1>1, <1>5 DEF RulesInv, MailRulesTypeOK, Pass
<1>7. \E k \in Nat : PassAt(inbound', s, n, k)
  <2>1. m + 1 \in Nat
    OBVIOUS
  <2>2. CASE inbound' = [inbound EXCEPT !.acts = <<>>]
    BY <1>3, <2>2
  <2>3. CASE inbound' = [inbound EXCEPT !.acts = Tail(@)]
    <3>1. PassAt(inbound', s, n, m + 1)
      BY <1>3, <2>3
    <3> QED
      BY <2>1, <3>1
  <2> QED
    BY <1>5, <2>2, <2>3
<1>8. UnderWayOK(mail', queued', inbound', ruleLog')
  BY <1>4, <1>7 DEF UnderWayOK
<1> QED
  BY <1>1, <1>2, <1>4, <1>6, <1>8 DEF PassOK, Complete

LEMMA EndStep ==
  ASSUME RulesInv, InboundEnd
  PROVE  PassOK(mail, queued, inbound, ruleLog)'
<1>1. inbound.pc = "rules" /\ inbound.acts = <<>> /\ inbound.todo = <<>> /\ queued' = queued
      /\ mail' = IF blocked /\ ~mail.gone THEN [mail EXCEPT !.folder = "Spam"] ELSE mail
  BY DEF InboundEnd, BlockedNow
<1>0. PICK s \in Seq(Rule) : \E n \in 0 .. Len(s), m \in Nat : InHand(s, n, m)
  BY <1>1, UnderWay
<1>2. PICK n \in 0 .. Len(s), m \in Nat :
        /\ s = ruleLog.snapshot /\ PassAt(inbound, s, n, m)
        /\ ~ruleLog.disturbed => Effect(mail, queued, s, Passed(s, n, m))
        /\ ~ruleLog.ended /\ ~ruleLog.refused /\ OnlyDue(queued, s) /\ (mail.gone => ruleLog.disturbed)
  BY <1>0 DEF InHand
<1>3. Ended(s, n, m)
  <2>1. n = Len(s) \/ (n > 0 /\ Stops(s[n]))
    BY <1>1, <1>2 DEF PassAt
  <2>2. ASSUME n > 0, RuleMatches(s[n])
        PROVE  m = Len(StepsIn(s[n]))
    <3>1. m <= Len(StepsIn(s[n])) /\ Len(inbound.acts) = Len(StepsIn(s[n])) - m
      BY <1>2, <2>2 DEF PassAt
    <3>2. s[n] \in Rule
      BY <2>2
    <3>3. Len(StepsIn(s[n])) \in Nat
      BY <3>2, StepsAre
    <3> QED
      BY <1>1, <3>1, <3>3
  <2> QED
    BY <1>2, <2>1, <2>2 DEF Ended, PassAt
<1>4. mail \in [folder : Folder, marks : SUBSET MarkAction, gone : BOOLEAN] /\ blocked \in BOOLEAN
  BY DEF RulesInv, MailRulesTypeOK
<1>5. ruleLog'.snapshot = s /\ ruleLog'.disturbed = ruleLog.disturbed /\ ruleLog'.refused = blocked
  BY <1>2 DEF InboundEnd, RulesInv, MailRulesTypeOK
<1>6. mail'.marks = mail.marks /\ mail'.gone = mail.gone
      /\ (~mail.gone => mail'.folder = IF blocked THEN "Spam" ELSE mail.folder)
  BY <1>1, <1>4
<1>7. Complete(mail', queued', ruleLog')
  <2> SUFFICES ASSUME ~ruleLog.disturbed
               PROVE  /\ mail'.folder = IF ruleLog'.refused THEN "Spam" ELSE FolderOf(s)
                      /\ mail'.marks = {a \in MarkAction : \E r \in RulesOf(s) : Has(r, a)}
                      /\ \A a \in OutAction : queued'[a] = {r \in RulesOf(s) : Has(r, a)}
    BY <1>5 DEF Complete
  <2>1. Effect(mail, queued, s, Passed(s, n, m)) /\ ~mail.gone
    BY <1>2
  <2>2. /\ mail.folder = FolderOf(s)
        /\ mail.marks = {a \in MarkAction : \E r \in RulesOf(s) : Has(r, a)}
        /\ \A a \in OutAction : queued[a] = {r \in RulesOf(s) : Has(r, a)}
    BY <1>3, <2>1, EffectAtEnd
  <2> QED
    BY <1>1, <1>5, <1>6, <2>1, <2>2
<1>8. inbound'.pc = "done"
  BY DEF InboundEnd, RulesInv, MailRulesTypeOK, Pass
<1> QED
  BY <1>1, <1>2, <1>5, <1>6, <1>7, <1>8 DEF PassOK

-----------------------------------------------------------------------------
(* Types and the steps of the user *)

LogType == [snapshot : Seq(Rule), refused : BOOLEAN, ended : BOOLEAN, disturbed : BOOLEAN, wishes : 0 .. MaxWishes]
MailType == [folder : Folder, marks : SUBSET MarkAction, gone : BOOLEAN]

\* One more request, or failure, within the bound.
LEMMA SpentWish == ASSUME MailRulesTypeOK, Wish PROVE Spent \in 0 .. MaxWishes
BY MailRulesAssumption DEF MailRulesTypeOK, Wish, Spent

LEMMA PassActs ==
  ASSUME NEW pass \in Pass, NEW acts \in Seq(StepKind)
  PROVE  [pass EXCEPT !.acts = acts] \in Pass
BY DEF Pass

\* What a pass has left after a step of it, done or failed.
LEMMA Shorter ==
  ASSUME NEW pass \in Pass, pass.acts # <<>>, NEW acts \in AfterFailure(pass.acts) \cup {Tail(pass.acts)}
  PROVE  /\ acts \in Seq(StepKind) /\ [pass EXCEPT !.acts = acts] \in Pass
         /\ \A i \in DOMAIN acts : \E j \in DOMAIN pass.acts : acts[i] = pass.acts[j]
<1>1. PICK a \in Seq(StepKind) : a = pass.acts
  BY DEF Pass
<1>2. acts = <<>> \/ acts = Tail(a)
  BY <1>1 DEF AfterFailure
<1>3. CASE acts = <<>>
  <2>1. acts \in Seq(StepKind) /\ DOMAIN acts = {}
    BY <1>3
  <2> QED
    BY <2>1, PassActs
<1>4. CASE acts = Tail(a)
  <2> HIDE DEF StepKind
  <2>1. a # <<>>
    BY <1>1
  <2>2. acts \in Seq(StepKind) /\ Len(acts) = Len(a) - 1 /\ \A i \in 1 .. Len(a) - 1 : acts[i] = a[i + 1]
    BY <1>1, <1>4, <2>1
  <2>3. \A i \in DOMAIN acts : i \in 1 .. Len(a) - 1 /\ i + 1 \in DOMAIN a
    BY <1>1, <2>2
  <2> QED
    BY <1>1, <2>2, <2>3, PassActs
<1> QED
  BY <1>2, <1>3, <1>4

LEMMA ActTypes ==
  ASSUME mail \in MailType, queued \in [OutAction -> SUBSET Rule], NEW pass \in Pass,
         NEW external \in BOOLEAN, Act(pass, external)
  PROVE  /\ mail' \in MailType /\ mail'.gone = mail.gone
         /\ pass.rule \in Rule => queued' \in [OutAction -> SUBSET Rule]
<1>1. PICK x : x = Head(pass.acts)
  OBVIOUS
<1>2. \/ UNCHANGED <<mail, queued>>
      \/ /\ mail' = IF x \in FolderAction THEN [mail EXCEPT !.folder = Target(x)]
                    ELSE IF x \in MarkAction THEN [mail EXCEPT !.marks = @ \cup {x}]
                    ELSE mail
         /\ queued' = IF Sent(x) \in OutAction THEN [queued EXCEPT ![Sent(x)] = @ \cup {pass.rule}] ELSE queued
  BY <1>1, Zenon DEF Act
<1>3. Target(x) \in Folder
  BY DEF Target, Folder
<1>4. mail' \in MailType /\ mail'.gone = mail.gone
  BY <1>2, <1>3 DEF MailType
<1>5. pass.rule \in Rule => queued' \in [OutAction -> SUBSET Rule]
  BY <1>2
<1> QED
  BY <1>4, <1>5

\* The pass over existing mail changes the message and queues nothing.
LEMMA NothingQueued ==
  ASSUME NEW pass \in Pass, Act(pass, FALSE), \A i \in DOMAIN pass.acts : pass.acts[i] # "forwards"
  PROVE  queued' = queued
<1>1. PICK x : x = Head(pass.acts)
  OBVIOUS
<1>2. x \in StepKind /\ x # "forwards"
  <2>1. PICK a \in Seq(StepKind) : a = pass.acts
    BY DEF Pass
  <2> HIDE DEF StepKind
  <2>2. a # <<>>
    BY <2>1 DEF Act
  <2>3. Head(a) = a[1] /\ 1 \in DOMAIN a /\ a[1] \in StepKind
    BY <2>1, <2>2
  <2> QED
    BY <1>1, <2>1, <2>3
<1>3. \/ queued' = queued
      \/ /\ ~Skipped(x, FALSE)
         /\ queued' = IF Sent(x) \in OutAction THEN [queued EXCEPT ![Sent(x)] = @ \cup {pass.rule}] ELSE queued
  BY <1>1, Zenon DEF Act
<1>4. ~Skipped(x, FALSE) => x # "forward" /\ x # "telegram"
  BY DEF Skipped
<1>5. ~Skipped(x, FALSE) => Sent(x) \notin OutAction
  BY <1>2, <1>4 DEF Sent, OutAction
<1> QED
  BY <1>3, <1>5

\* A step that leaves the pass over the message alone.
LEMMA AsideStep ==
  ASSUME RulesInv, MailRulesTypeOK', inbound' = inbound, queued' = queued,
         ruleLog'.snapshot = ruleLog.snapshot, ruleLog'.ended = ruleLog.ended, ruleLog'.refused = ruleLog.refused,
         ruleLog'.disturbed \/ (mail' = mail /\ ruleLog'.disturbed = ruleLog.disturbed),
         \A i \in DOMAIN existing'.acts : existing'.acts[i] # "forwards"
  PROVE  RulesInv'
<1>1. PassOK(mail, queued, inbound, ruleLog)
  BY DEF RulesInv
<1>2. mail'.gone => ruleLog'.disturbed
  BY <1>1 DEF PassOK
<1>3. PassOK(mail', queued, inbound, ruleLog')
  BY <1>1, <1>2, Aside
<1> QED
  BY <1>3 DEF RulesInv

\* The steps of the pass.
InboundPass ==
  \/ InboundCheck \/ CheckFails \/ LoadRules \/ LoadPartly \/ LoadFails
  \/ InboundRule \/ InboundAct \/ InboundFails \/ InboundEnd \/ EndFails

LEMMA InboundTypes ==
  ASSUME RulesInv, InboundPass
  PROVE  MailRulesTypeOK' /\ existing' = existing
<1>1. /\ mail \in MailType /\ rules \in Seq(Rule) /\ blocked \in BOOLEAN /\ inbound \in Pass /\ existing \in Pass
      /\ sweep \in Folder \cup {"none"} /\ queued \in [OutAction -> SUBSET Rule] /\ ruleLog \in LogType
  BY DEF RulesInv, MailRulesTypeOK, MailType, LogType
<1>2. rules' = rules /\ blocked' = blocked /\ existing' = existing /\ sweep' = sweep
  BY DEF InboundPass, InboundCheck, CheckFails, LoadRules, LoadPartly, LoadFails, InboundRule, InboundAct,
         InboundFails, InboundEnd, EndFails
<1>3. "Spam" \in Folder
  BY DEF Folder
<1> SUFFICES /\ mail' \in MailType /\ inbound' \in Pass
             /\ queued' \in [OutAction -> SUBSET Rule] /\ ruleLog' \in LogType
  BY <1>1, <1>2 DEF MailRulesTypeOK, MailType, LogType
<1>4. CASE InboundCheck
  <2>1. mail' = mail \/ mail' = [mail EXCEPT !.folder = "Spam"]
    BY <1>4 DEF InboundCheck
  <2>2. mail' \in MailType
    BY <1>1, <1>3, <2>1 DEF MailType
  <2>3. inbound' = [inbound EXCEPT !.pc = "done"] \/ inbound' = [inbound EXCEPT !.pc = "load"]
    BY <1>4 DEF InboundCheck
  <2>4. inbound' \in Pass
    BY <1>1, <2>3 DEF Pass
  <2>5. ruleLog' = [ruleLog EXCEPT !.refused = TRUE, !.ended = TRUE] \/ ruleLog' = ruleLog
    BY <1>4 DEF InboundCheck
  <2>6. ruleLog' \in LogType
    BY <1>1, <2>5 DEF LogType
  <2>7. queued' = queued
    BY <1>4 DEF InboundCheck
  <2> QED
    BY <1>1, <2>2, <2>4, <2>6, <2>7
<1>5. CASE InboundRule
  <2>1. PICK todo \in Seq(Rule) : todo = inbound.todo
    BY <1>1 DEF Pass
  <2>2. todo # <<>>
    BY <1>5, <2>1 DEF InboundRule
  <2>3. PICK q \in Rule : q = Head(todo)
    BY <2>2
  <2>4. Tail(todo) \in Seq(Rule)
    BY <2>2
  <2>5. Rest(q, Tail(todo)) \in Seq(Rule)
    BY <2>4 DEF Rest
  <2>6. PICK acts : acts = IF RuleMatches(q) THEN Steps(q, TRUE) ELSE <<>>
    OBVIOUS
  <2>7. acts \in Seq(StepKind)
    <3>1. StepsIn(q) \in Seq(StepKind) /\ <<>> \in Seq(StepKind)
      BY StepsAre
    <3> QED
      BY <2>6, <3>1 DEF StepsIn
  <2>8. inbound' = [inbound EXCEPT !.rule = q, !.todo = Rest(q, Tail(todo)), !.acts = acts]
    BY <1>5, <2>1, <2>3, <2>6 DEF InboundRule
  <2>9. inbound' \in Pass
    BY <1>1, <2>5, <2>7, <2>8 DEF Pass
  <2>10. mail' = mail /\ queued' = queued /\ ruleLog' = ruleLog
    BY <1>5 DEF InboundRule
  <2> QED
    BY <1>1, <2>9, <2>10
<1>6. CASE InboundAct
  <2>1. inbound.pc = "rules" /\ inbound.acts # <<>> /\ Act(inbound, TRUE) /\ inbound' = [inbound EXCEPT !.acts = Tail(inbound.acts)]
        /\ ruleLog' = ruleLog
    BY <1>6 DEF InboundAct, Act
  <2>2. inbound' \in Pass
    BY <1>1, <2>1, Shorter
  <2>3. inbound.rule \in Rule
    <3>1. PICK s \in Seq(Rule) : \E n \in 0 .. Len(s), m \in Nat : InHand(s, n, m)
      BY <2>1, UnderWay
    <3>2. PICK n \in 0 .. Len(s), m \in Nat : PassAt(inbound, s, n, m)
      BY <3>1 DEF InHand
    <3> QED
      BY <2>1, <3>2, NextStep
  <2>4. mail' \in MailType /\ queued' \in [OutAction -> SUBSET Rule]
    BY <1>1, <2>1, <2>3, ActTypes
  <2> QED
    BY <1>1, <2>1, <2>2, <2>4
<1>7. CASE InboundFails
  <2>1. PICK acts \in AfterFailure(inbound.acts) : inbound' = [inbound EXCEPT !.acts = acts]
    BY <1>7 DEF InboundFails
  <2>2. inbound.acts # <<>> /\ mail' = mail /\ queued' = queued
    BY <1>7 DEF InboundFails
  <2>3. inbound' \in Pass
    BY <1>1, <2>1, <2>2, Shorter
  <2>4. PICK w \in 0 .. MaxWishes : ruleLog' = [ruleLog EXCEPT !.disturbed = TRUE, !.wishes = w]
    <3>1. mail.gone \/ Wish
      BY <1>7 DEF InboundFails
    <3>2. (IF mail.gone THEN ruleLog.wishes ELSE Spent) \in 0 .. MaxWishes
      BY <1>1, <3>1, SpentWish DEF LogType, RulesInv
    <3> QED
      BY <1>7, <3>2 DEF InboundFails
  <2>5. ruleLog' \in LogType
    BY <1>1, <2>4 DEF LogType
  <2> QED
    BY <1>1, <2>2, <2>3, <2>5
<1>8. CASE InboundEnd
  <2>1. mail' = mail \/ mail' = [mail EXCEPT !.folder = "Spam"]
    BY <1>8 DEF InboundEnd
  <2>2. mail' \in MailType
    BY <1>1, <1>3, <2>1 DEF MailType
  <2>3. inbound' = [inbound EXCEPT !.pc = "done"] /\ ruleLog' = [ruleLog EXCEPT !.refused = blocked, !.ended = TRUE] /\ queued' = queued
    BY <1>8 DEF InboundEnd
  <2>4. inbound' \in Pass
    BY <1>1, <2>3 DEF Pass
  <2>5. ruleLog' \in LogType
    BY <1>1, <2>3 DEF LogType
  <2> QED
    BY <1>1, <2>2, <2>3, <2>4, <2>5
<1>9. CASE LoadRules \/ LoadPartly
  <2>1. PICK list \in Seq(Rule) : WorkThrough(list) /\ ruleLog' \in LogType
    <3>1. CASE LoadRules
      <4>1. WorkThrough(rules) /\ ruleLog' = [ruleLog EXCEPT !.snapshot = rules]
        BY <3>1 DEF LoadRules
      <4>2. ruleLog' \in LogType
        BY <1>1, <4>1 DEF LogType
      <4> QED
        BY <1>1, <4>1, <4>2
    <3>2. CASE LoadPartly
      <4>1. PICK n \in 0 .. Len(rules), bare \in BOOLEAN :
              LET list == [i \in 1 .. n |-> IF bare THEN Bare[rules[i]] ELSE rules[i]]
                  expected == mail.gone /\ n = Len(rules)
              IN  /\ expected \/ Wish
                  /\ WorkThrough(list)
                  /\ ruleLog' = [ruleLog EXCEPT !.snapshot = list, !.disturbed = TRUE,
                                                !.wishes = IF expected THEN @ ELSE Spent]
        BY <3>2, Zenon DEF LoadPartly
      <4>2. PICK list \in Seq(Rule), w \in {ruleLog.wishes, Spent} :
              /\ w = ruleLog.wishes \/ (Wish /\ w = Spent)
              /\ WorkThrough(list)
              /\ ruleLog' = [ruleLog EXCEPT !.snapshot = list, !.disturbed = TRUE, !.wishes = w]
        BY <1>1, <4>1, PartOfList
      <4>3. w \in 0 .. MaxWishes
        BY <1>1, <4>2, SpentWish DEF LogType, RulesInv
      <4> QED
        BY <1>1, <4>2, <4>3 DEF LogType
    <3> QED
      BY <1>9, <3>1, <3>2
  <2>2. inbound' \in Pass
    BY <1>1, <2>1 DEF WorkThrough, Pass
  <2>3. UNCHANGED <<mail, queued>>
    BY <1>9 DEF LoadRules, LoadPartly
  <2> QED
    BY <1>1, <2>1, <2>2, <2>3
<1>10. CASE CheckFails \/ LoadFails \/ EndFails
  <2>1. UNCHANGED <<mail, queued>> /\ Wish
    BY <1>10 DEF CheckFails, LoadFails, EndFails
  <2>2. inbound' = [inbound EXCEPT !.pc = "done"] \/ inbound' = [inbound EXCEPT !.pc = "load"]
    BY <1>10 DEF CheckFails, LoadFails, EndFails
  <2>3. inbound' \in Pass
    BY <1>1, <2>2 DEF Pass
  <2>4. PICK w \in 0 .. MaxWishes : w = Spent
    BY <2>1, SpentWish DEF RulesInv
  <2>5. ruleLog' \in LogType
    BY <1>1, <1>10, <2>4 DEF CheckFails, LoadFails, EndFails, Marred, LogType
  <2> QED
    BY <1>1, <2>1, <2>3, <2>5
<1> QED
  BY <1>4, <1>5, <1>6, <1>7, <1>8, <1>9, <1>10 DEF InboundPass

LEMMA InboundStep ==
  ASSUME RulesInv, InboundPass
  PROVE  RulesInv'
<1>1. MailRulesTypeOK' /\ existing' = existing
  BY InboundTypes
<1>2. PassOK(mail, queued, inbound, ruleLog)'
  BY CheckStep, LoadStep, GivesUp, RuleStep, ActStep, FailsStep, EndStep DEF InboundPass
<1> QED
  BY <1>1, <1>2 DEF RulesInv

LEMMA UserStep ==
  ASSUME RulesInv,
         \/ \E r \in Rule, apply \in BOOLEAN : CreateRule(r, apply)
         \/ ExistingAct \/ ExistingFails
         \/ \E r \in Rule : DeleteRule(r)
         \/ SetBlocked
         \/ \E f \in Folder : MoveMessage(f) \/ ListSweep(f)
         \/ Sweep
  PROVE  RulesInv'
<1>1. /\ mail \in MailType /\ rules \in Seq(Rule) /\ blocked \in BOOLEAN /\ inbound \in Pass /\ existing \in Pass
      /\ sweep \in Folder \cup {"none"} /\ queued \in [OutAction -> SUBSET Rule] /\ ruleLog \in LogType
  BY DEF RulesInv, MailRulesTypeOK, MailType, LogType
<1>2. \A i \in DOMAIN existing.acts : existing.acts[i] # "forwards"
  BY DEF RulesInv
<1>3. ASSUME mail' \in MailType, rules' \in Seq(Rule), blocked' \in BOOLEAN, inbound' = inbound, existing' \in Pass,
             sweep' \in Folder \cup {"none"}, queued' = queued, ruleLog' \in LogType,
             ruleLog'.snapshot = ruleLog.snapshot, ruleLog'.ended = ruleLog.ended, ruleLog'.refused = ruleLog.refused,
             ruleLog'.disturbed \/ (mail' = mail /\ ruleLog'.disturbed = ruleLog.disturbed),
             \A i \in DOMAIN existing'.acts : existing'.acts[i] # "forwards"
      PROVE  RulesInv'
  <2>1. MailRulesTypeOK'
    BY <1>1, <1>3 DEF MailRulesTypeOK, MailType, LogType
  <2> QED
    BY <1>3, <2>1, AsideStep
<1>4. ASSUME Wish, Quietly
      PROVE  /\ ruleLog' \in LogType /\ ruleLog'.snapshot = ruleLog.snapshot /\ ruleLog'.ended = ruleLog.ended
             /\ ruleLog'.refused = ruleLog.refused /\ ruleLog'.disturbed = ruleLog.disturbed
  BY <1>1, <1>4, SpentWish DEF Quietly, LogType, RulesInv
<1>5. ASSUME NEW r \in Rule, NEW apply \in BOOLEAN, CreateRule(r, apply)
      PROVE  RulesInv'
  <2>1. Wish /\ Quietly /\ rules' = Append(rules, r) /\ mail' = mail /\ blocked' = blocked /\ inbound' = inbound
        /\ sweep' = sweep /\ queued' = queued
        /\ (existing' = existing \/ existing' = [existing EXCEPT !.rule = r, !.acts = Steps(r, FALSE)])
    BY <1>5 DEF CreateRule
  <2>2. rules' \in Seq(Rule)
    BY <1>1, <2>1
  <2>3. PICK acts \in Seq(StepKind) : acts = Steps(r, FALSE) /\ \A i \in DOMAIN acts : acts[i] # "forwards"
    BY ExistingSteps
  <2>4. existing' \in Pass /\ (existing'.acts = existing.acts \/ existing'.acts = acts)
    BY <1>1, <2>1, <2>3 DEF Pass
  <2> QED
    BY <1>1, <1>2, <1>3, <1>4, <2>1, <2>2, <2>3, <2>4
<1>6. CASE ExistingAct
  <2>1. Act(existing, FALSE) /\ existing.acts # <<>> /\ existing' = [existing EXCEPT !.acts = Tail(existing.acts)]
        /\ ruleLog' = [ruleLog EXCEPT !.disturbed = TRUE] /\ rules' = rules /\ blocked' = blocked /\ inbound' = inbound /\ sweep' = sweep
    BY <1>6 DEF ExistingAct, Act
  <2>2. PICK acts : acts = Tail(existing.acts)
    OBVIOUS
  <2>3. existing' \in Pass /\ \A i \in DOMAIN acts : \E j \in DOMAIN existing.acts : acts[i] = existing.acts[j]
    <3>1. acts \in AfterFailure(existing.acts) \cup {Tail(existing.acts)}
      BY <2>2
    <3> QED
      BY <1>1, <2>1, <2>2, <3>1, Shorter, Zenon
  <2>4. existing'.acts = acts
    BY <1>1, <2>1, <2>2 DEF Pass
  <2>5. mail' \in MailType
    BY <1>1, <2>1, ActTypes
  <2>6. queued' = queued
    BY <1>1, <1>2, <2>1, NothingQueued
  <2>7. ruleLog' \in LogType /\ ruleLog'.disturbed /\ ruleLog'.snapshot = ruleLog.snapshot
        /\ ruleLog'.ended = ruleLog.ended /\ ruleLog'.refused = ruleLog.refused
    BY <1>1, <2>1 DEF LogType
  <2>8. \A i \in DOMAIN existing'.acts : existing'.acts[i] # "forwards"
    BY <1>2, <2>3, <2>4
  <2> QED
    BY <1>1, <1>3, <2>1, <2>3, <2>5, <2>6, <2>7, <2>8
<1>7. CASE ExistingFails
  <2>1. existing.acts # <<>> /\ (mail.gone \/ Wish) /\ mail' = mail /\ rules' = rules /\ blocked' = blocked /\ inbound' = inbound
        /\ sweep' = sweep /\ queued' = queued
    BY <1>7 DEF ExistingFails
  <2>2. PICK acts \in AfterFailure(existing.acts) : existing' = [existing EXCEPT !.acts = acts]
    BY <1>7 DEF ExistingFails
  <2>3. existing' \in Pass /\ \A i \in DOMAIN acts : \E j \in DOMAIN existing.acts : acts[i] = existing.acts[j]
    <3>1. acts \in AfterFailure(existing.acts) \cup {Tail(existing.acts)}
      BY <2>2
    <3> QED
      BY <1>1, <2>1, <2>2, <3>1, Shorter, Zenon
  <2>4. existing'.acts = acts
    BY <1>1, <2>2 DEF Pass
  <2>5. PICK w \in 0 .. MaxWishes : ruleLog' = [ruleLog EXCEPT !.wishes = w]
    <3>1. (IF mail.gone THEN ruleLog.wishes ELSE Spent) \in 0 .. MaxWishes
      BY <1>1, <2>1, SpentWish DEF LogType, RulesInv
    <3> QED
      BY <1>7, <3>1 DEF ExistingFails
  <2>6. ruleLog' \in LogType /\ ruleLog'.disturbed = ruleLog.disturbed /\ ruleLog'.snapshot = ruleLog.snapshot
        /\ ruleLog'.ended = ruleLog.ended /\ ruleLog'.refused = ruleLog.refused
    BY <1>1, <2>5 DEF LogType
  <2>7. \A i \in DOMAIN existing'.acts : existing'.acts[i] # "forwards"
    BY <1>2, <2>3, <2>4
  <2> QED
    BY <1>1, <1>3, <2>1, <2>3, <2>6, <2>7
<1>8. ASSUME NEW r \in Rule, DeleteRule(r)
      PROVE  RulesInv'
  <2>1. PICK i \in DOMAIN rules : rules' = RemoveAt(rules, i)
    BY <1>8 DEF DeleteRule
  <2>2. rules' \in Seq(Rule)
    <3>1. i \in 1 .. Len(rules) /\ Len(rules) \in Nat
      BY <1>1
    <3>2. SubSeq(rules, 1, i - 1) \in Seq(Rule) /\ SubSeq(rules, i + 1, Len(rules)) \in Seq(Rule)
      BY <1>1, <3>1, SubSeqProperties
    <3> QED
      BY <2>1, <3>2 DEF RemoveAt
  <2>3. Wish /\ Quietly /\ UNCHANGED <<mail, blocked, inbound, existing, sweep, queued>>
    BY <1>8 DEF DeleteRule
  <2> QED
    BY <1>1, <1>2, <1>3, <1>4, <2>2, <2>3
<1>9. CASE SetBlocked
  BY <1>1, <1>2, <1>3, <1>4, <1>9 DEF SetBlocked
<1>10. ASSUME NEW f \in Folder, MoveMessage(f)
       PROVE  RulesInv'
  <2>1. Wish /\ Disturb /\ mail' = [mail EXCEPT !.folder = f] /\ UNCHANGED <<rules, blocked, inbound, existing, sweep, queued>>
    BY <1>10 DEF MoveMessage
  <2>2. mail' \in MailType
    BY <1>1, <2>1 DEF MailType
  <2>3. ruleLog' \in LogType /\ ruleLog'.disturbed /\ ruleLog'.snapshot = ruleLog.snapshot
        /\ ruleLog'.ended = ruleLog.ended /\ ruleLog'.refused = ruleLog.refused
    BY <1>1, <2>1, SpentWish DEF Disturb, Marred, LogType, RulesInv
  <2> QED
    BY <1>1, <1>2, <1>3, <2>1, <2>2, <2>3
<1>11. ASSUME NEW f \in Folder, ListSweep(f)
       PROVE  RulesInv'
  BY <1>1, <1>2, <1>3, <1>4, <1>11 DEF ListSweep
<1>12. CASE Sweep
  <2>1. mail' \in MailType
    <3>1. mail' = mail \/ mail' = [mail EXCEPT !.folder = "Archive"] \/ mail' = [mail EXCEPT !.gone = TRUE]
      BY <1>12 DEF Sweep
    <3> QED
      BY <1>1, <3>1 DEF MailType, Folder
  <2>2. sweep' = "none" /\ ruleLog' = [ruleLog EXCEPT !.disturbed = TRUE] /\ UNCHANGED <<rules, blocked, inbound, existing, queued>>
    BY <1>12 DEF Sweep
  <2>3. ruleLog' \in LogType /\ ruleLog'.disturbed /\ ruleLog'.snapshot = ruleLog.snapshot
        /\ ruleLog'.ended = ruleLog.ended /\ ruleLog'.refused = ruleLog.refused
    BY <1>1, <2>2 DEF LogType
  <2> QED
    BY <1>1, <1>2, <1>3, <2>1, <2>2, <2>3
<1> QED
  BY <1>5, <1>6, <1>7, <1>8, <1>9, <1>10, <1>11, <1>12

\* What the rules and the blocked senders do to a message, whatever fails or
\* changes meanwhile: a pass of applyInboundControls that met no failure and no
\* change leaves it as the rules it read say, and whatever it met, only a rule
\* that was due sends anything out.
THEOREM RulesAreSafe == MailRulesSpec => [](MailRulesTypeOK /\ RulesSafe)
<1>1. MailRulesInit => RulesInv
  BY RulesInit
<1>2. RulesInv /\ [MailRulesNext]_mailRulesVars => RulesInv'
  <2> SUFFICES ASSUME RulesInv, [MailRulesNext]_mailRulesVars
               PROVE  RulesInv'
    OBVIOUS
  <2>1. CASE UNCHANGED mailRulesVars
    BY <2>1 DEF mailRulesVars, RulesInv, MailRulesTypeOK
  <2>2. CASE InboundPass
    BY <2>2, InboundStep
  <2>3. CASE \/ \E r \in Rule, apply \in BOOLEAN : CreateRule(r, apply)
             \/ ExistingAct \/ ExistingFails
             \/ \E r \in Rule : DeleteRule(r)
             \/ SetBlocked
             \/ \E f \in Folder : MoveMessage(f) \/ ListSweep(f)
             \/ Sweep
    BY <2>3, UserStep
  <2> QED
    BY <2>1, <2>2, <2>3, Zenon DEF MailRulesNext, InboundPass
<1>3. RulesInv => MailRulesTypeOK /\ RulesSafe
  BY SafeOverValues DEF RulesInv, PassOK
<1> QED
  BY <1>1, <1>2, <1>3, PTL DEF MailRulesSpec
====
