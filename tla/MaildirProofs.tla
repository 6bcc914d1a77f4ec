--------------------------- MODULE MaildirProofs ---------------------------
(***************************************************************************)
(* Theorems about MaildirSync.  The inductive invariant has three parts:   *)
(*   TypesInv  what every write and the scanner have in hand at each step; *)
(*   KeptInv   the file of a write that has not stored its path yet has a  *)
(*             name nobody else has heard of, so nobody removes it, and    *)
(*             what the scanner has decided about a file still fits it;    *)
(*   CalmInv   in a full pass nobody disturbs, every file is still to be   *)
(*             listed, still to be looked at, in hand, or has its row.     *)
(* The first is preserved on its own, the other two under it.              *)
(***************************************************************************)
EXTENDS MaildirSync, TLAPS

-----------------------------------------------------------------------------
(* The Maildir: types and shapes *)

\* The steps of a write and of the scanner, and the records they keep.
JobAt == {"idle", "rename", "attach", "save", "state", "put", "drop", "point", "unlink", "delete"}
JobKind == {"none", "flag", "move", "purge", "rewrite", "store"}
Job == [at : JobAt, kind : JobKind, slot : Slot \cup {NoFile}, was : Row \cup {NoFile}, to : Box,
        mark : BOOLEAN, read : BOOLEAN, star : BOOLEAN, new : File \cup {NoFile}]
ScanAt == {"update", "adopt", "copy", "import"}
Scan == [at : {"idle", "scan", "backfill", "sweep"} \cup ScanAt, full : BOOLEAN, calm : BOOLEAN, dirs : SUBSET Box,
         known : SUBSET Row, seen : SUBSET File, todo : SUBSET File, pick : File \cup {NoFile},
         hit : Slot \cup {NoFile}, list : SUBSET Slot, scanned : SUBSET Box]

\* What a write has in hand at each of its steps.
JobShape(j, us) ==
  /\ j.at # "idle" => j.slot \in us
  /\ j.at \in {"rename", "attach"} => j.kind \in {"flag", "move"} /\ j.was # NoFile
  /\ j.at = "save" => j.kind = "flag"
  /\ j.at \in {"state", "put", "drop", "point"} => j.kind \in {"move", "rewrite", "store"}
  /\ j.at \in {"put", "drop", "point"} => j.was # NoFile
  /\ j.at \in {"attach", "drop", "point"} => j.new # NoFile
  /\ j.at \in {"idle", "rename", "state", "put", "unlink", "delete"} => j.new = NoFile
  /\ j.at \in {"unlink", "delete"} => j.kind = "purge"
  /\ j.at = "idle" => j.was = NoFile
JobsTyped(jb, us) == jb \in [Writer -> Job] /\ \A w \in Writer : JobShape(jb[w], us)

\* The scanner holds a file between its look at it and what it does.
ScanShape(ps) ==
  /\ ps.at \in ScanAt => ps.pick # NoFile
  /\ ps.at \notin ScanAt => ps.pick = NoFile
  /\ ps.at \in {"update", "adopt"} => ps.hit # NoFile
ScanTyped(ps) == ps \in Scan /\ ScanShape(ps)
ScannerTurns == (Busy(Scanner) => pass.at \in {"scan", "backfill"}) /\ pass.list \subseteq issued

\* The table, and the variables of everyone else.
RowsTyped(ms, us) == ms \in [Slot -> Row \cup {NoFile}] /\ us \subseteq Slot /\ \A s \in Slot : ms[s] # NoFile => s \in us
Fates == {"unknown", "here", "removed", "clashed"}
OthersTyped(md, fd, ch, ft, nm, ev) ==
  /\ md \subseteq File /\ fd \subseteq Box /\ ch \subseteq Box
  /\ ft \in [Letter -> Fates] /\ nm \in 0 .. MaxNames /\ ev \in 0 .. MaxEvents
TypesInv ==
  /\ RowsTyped(messages, issued) /\ JobsTyped(job, issued) /\ ScanTyped(pass) /\ ScannerTurns
  /\ OthersTyped(maildir, folders, changed, fate, names, events)

\* The first part of the invariant contains the types.
LEMMA TypesGive == TypesInv => MaildirTypeOK
BY DEF TypesInv, RowsTyped, OthersTyped, MaildirTypeOK, Live, Fates

\* A write that goes on keeps the others as they are.
LEMMA JobSet ==
  ASSUME NEW jb, NEW us, NEW vs, JobsTyped(jb, us), us \subseteq vs, NEW w \in Writer, NEW j \in Job, JobShape(j, vs)
  PROVE  JobsTyped([jb EXCEPT ![w] = j], vs)
<1> DEFINE kb == [jb EXCEPT ![w] = j]
<1>1. kb \in [Writer -> Job]
  BY DEF JobsTyped
<1>2. \A v \in Writer : JobShape(jb[v], vs)
  BY DEF JobsTyped, JobShape
<1>3. \A v \in Writer : kb[v] = IF v = w THEN j ELSE jb[v]
  BY DEF JobsTyped
<1> HIDE DEF kb
<1>4. \A v \in Writer : JobShape(kb[v], vs)
  BY <1>2, <1>3
<1>5. JobsTyped(kb, vs)
  BY <1>1, <1>4 DEF JobsTyped
<1> QED
  BY <1>5 DEF kb

\* An id that was given stays given.
LEMMA JobsLater ==
  ASSUME NEW jb, NEW us, NEW vs, JobsTyped(jb, us), us \subseteq vs
  PROVE  JobsTyped(jb, vs)
BY DEF JobsTyped, JobShape

\* Nothing under way.
LEMMA IdleTyped == ASSUME NEW us PROVE Idle \in Job /\ JobShape(Idle, us)
BY MaildirAssumption DEF Idle, Job, JobAt, JobKind, JobShape

\* The writes that begin.
LEMMA NewJobs ==
  ASSUME NEW us \in SUBSET Slot, NEW s \in us
  PROVE  /\ \A r \in Row, mark, read, star \in BOOLEAN :
              LET j == [Idle EXCEPT !.at = "rename", !.kind = "flag", !.slot = s, !.was = r,
                                    !.mark = mark, !.read = read, !.star = star]
              IN j \in Job /\ JobShape(j, us)
         /\ \A r \in Row, to \in Box :
              LET j == [Idle EXCEPT !.at = "rename", !.kind = "move", !.slot = s, !.was = r, !.to = to]
              IN j \in Job /\ JobShape(j, us)
         /\ LET j == [Idle EXCEPT !.at = "unlink", !.kind = "purge", !.slot = s] IN j \in Job /\ JobShape(j, us)
         /\ \A kind \in {"rewrite", "store"} :
              LET j == [Idle EXCEPT !.at = "state", !.kind = kind, !.slot = s] IN j \in Job /\ JobShape(j, us)
<1>0. Idle \in Job /\ Idle.new = NoFile /\ NoFile \notin Row /\ s \in Slot
  BY IdleTyped, MaildirAssumption DEF Idle
<1>1. ASSUME NEW r \in Row, NEW mark \in BOOLEAN, NEW read \in BOOLEAN, NEW star \in BOOLEAN,
             NEW j, j = [Idle EXCEPT !.at = "rename", !.kind = "flag", !.slot = s, !.was = r,
                                     !.mark = mark, !.read = read, !.star = star]
      PROVE  j \in Job /\ JobShape(j, us)
  <2>0. j = [at |-> "rename", kind |-> "flag", slot |-> s, was |-> r, to |-> Inbox,
             mark |-> mark, read |-> read, star |-> star, new |-> NoFile]
    BY <1>1, Zenon DEF Idle
  <2>1. j \in Job
    <3>1. "rename" \in JobAt /\ "flag" \in JobKind /\ Inbox \in Box
      BY MaildirAssumption DEF JobAt, JobKind
    <3> QED
      BY <1>0, <2>0, <3>1 DEF Job
  <2>2. j.at = "rename" /\ j.kind = "flag" /\ j.slot = s /\ j.was = r /\ j.new = NoFile
    BY <2>0
  <2> QED
    BY <1>0, <2>1, <2>2 DEF JobShape
<1>2. ASSUME NEW r \in Row, NEW to \in Box,
             NEW j, j = [Idle EXCEPT !.at = "rename", !.kind = "move", !.slot = s, !.was = r, !.to = to]
      PROVE  j \in Job /\ JobShape(j, us)
  <2>1. j \in Job
    BY <1>0, <1>2 DEF Job, JobAt, JobKind
  <2>2. j.at = "rename" /\ j.kind = "move" /\ j.slot = s /\ j.was = r /\ j.new = NoFile
    BY <1>0, <1>2 DEF Job
  <2> QED
    BY <1>0, <2>1, <2>2 DEF JobShape
<1>3. ASSUME NEW j, j = [Idle EXCEPT !.at = "unlink", !.kind = "purge", !.slot = s]
      PROVE  j \in Job /\ JobShape(j, us)
  <2>1. j \in Job
    BY <1>0, <1>3 DEF Job, JobAt, JobKind
  <2>2. j.at = "unlink" /\ j.kind = "purge" /\ j.slot = s /\ j.new = NoFile
    BY <1>0, <1>3 DEF Job
  <2> QED
    BY <1>0, <2>1, <2>2 DEF JobShape
<1>4. ASSUME NEW kind \in {"rewrite", "store"}, NEW j, j = [Idle EXCEPT !.at = "state", !.kind = kind, !.slot = s]
      PROVE  j \in Job /\ JobShape(j, us)
  <2>1. j \in Job
    BY <1>0, <1>4 DEF Job, JobAt, JobKind
  <2>2. j.at = "state" /\ j.kind = kind /\ j.slot = s /\ j.new = NoFile
    BY <1>0, <1>4 DEF Job
  <2> QED
    BY <1>0, <2>1, <2>2 DEF JobShape
<1>5. \A r \in Row, mark, read, star \in BOOLEAN :
         LET j == [Idle EXCEPT !.at = "rename", !.kind = "flag", !.slot = s, !.was = r,
                               !.mark = mark, !.read = read, !.star = star]
         IN j \in Job /\ JobShape(j, us)
  <2> SUFFICES ASSUME NEW r \in Row, NEW mark \in BOOLEAN, NEW read \in BOOLEAN, NEW star \in BOOLEAN
               PROVE  LET j == [Idle EXCEPT !.at = "rename", !.kind = "flag", !.slot = s, !.was = r,
                                            !.mark = mark, !.read = read, !.star = star]
                      IN j \in Job /\ JobShape(j, us)
    BY Zenon
  <2> QED
    BY <1>1, Zenon
<1>6. \A r \in Row, to \in Box :
         LET j == [Idle EXCEPT !.at = "rename", !.kind = "move", !.slot = s, !.was = r, !.to = to]
         IN j \in Job /\ JobShape(j, us)
  BY <1>2, Zenon
<1>7. \A kind \in {"rewrite", "store"} :
         LET j == [Idle EXCEPT !.at = "state", !.kind = kind, !.slot = s] IN j \in Job /\ JobShape(j, us)
  BY <1>4, Zenon
<1> QED
  BY <1>3, <1>5, <1>6, <1>7, Zenon

\* A step that stirs ends the calm of a pass, and changes nothing else of it.
LEMMA StirTyped ==
  ASSUME ScanTyped(pass), Stir
  PROVE  /\ ScanTyped(pass') /\ ~pass'.calm /\ pass'.at = pass.at /\ pass'.pick = pass.pick /\ pass'.hit = pass.hit
         /\ pass'.list = pass.list
<1>1. pass' = [pass EXCEPT !.calm = FALSE] /\ pass \in Scan
  BY DEF Stir, ScanTyped
<1>2. pass' \in Scan /\ ~pass'.calm /\ pass'.at = pass.at /\ pass'.pick = pass.pick /\ pass'.hit = pass.hit /\ pass'.list = pass.list
  BY <1>1 DEF Scan
<1> QED
  BY <1>2 DEF ScanTyped, ScanShape

\* A request that begins.
LEMMA StartTypes ==
  ASSUME TypesInv, NEW e \in Editor, NEW j \in Job, JobShape(j, issued'), issued \subseteq issued', Start(e, j),
         RowsTyped(messages', issued'), folders' \subseteq Box, fate' \in [Letter -> Fates]
  PROVE  TypesInv'
<1>1. job' = [job EXCEPT ![e] = j] /\ Stir /\ maildir' = maildir /\ changed' = changed /\ names' = names /\ events' = events + 1
      /\ events < MaxEvents
  BY DEF Start, Set
<1>2. JobsTyped(job', issued')
  BY <1>1, JobSet DEF TypesInv, Writer
<1>3. ScanTyped(pass') /\ pass'.at = pass.at /\ pass'.list = pass.list
  BY <1>1, StirTyped DEF TypesInv
<1>4. job'[Scanner] = job[Scanner]
  BY <1>1, MaildirAssumption DEF TypesInv, JobsTyped, Writer
<1>5. ScannerTurns'
  BY <1>3, <1>4 DEF TypesInv, ScannerTurns, Busy
<1>6. OthersTyped(maildir', folders', changed', fate', names', events')
  BY <1>1, MaildirAssumption DEF TypesInv, OthersTyped
<1> QED
  BY <1>2, <1>3, <1>5, <1>6 DEF TypesInv

\* A step of a write.
LEMMA WriteTypes ==
  ASSUME TypesInv, NEW w \in Writer, Busy(w), NEW j \in Job, JobShape(j, issued), Set(w, j), Stir, issued' = issued,
         RowsTyped(messages', issued), maildir' \subseteq File, changed' \subseteq Box, folders' = folders,
         fate' \in [Letter -> Fates], names' \in 0 .. MaxNames, events' = events
  PROVE  TypesInv'
<1>1. job' = [job EXCEPT ![w] = j]
  BY DEF Set
<1>2. JobsTyped(job', issued')
  BY <1>1, JobSet DEF TypesInv
<1>3. ScanTyped(pass') /\ pass'.at = pass.at /\ pass'.list = pass.list
  BY StirTyped DEF TypesInv
<1>4. Busy(Scanner)' => Busy(Scanner)
  BY <1>1 DEF TypesInv, JobsTyped, Busy
<1>5. ScannerTurns'
  BY <1>3, <1>4 DEF TypesInv, ScannerTurns
<1>6. OthersTyped(maildir', folders', changed', fate', names', events')
  BY DEF TypesInv, OthersTyped
<1> QED
  BY <1>2, <1>3, <1>5, <1>6 DEF TypesInv

\* A change from outside.
LEMMA OutsideTypes ==
  ASSUME TypesInv, Outside, maildir' \subseteq File, changed' \subseteq Box, fate' \in [Letter -> Fates], names' \in 0 .. MaxNames
  PROVE  TypesInv'
<1>1. Stir /\ UNCHANGED <<messages, issued, folders, job>> /\ events < MaxEvents /\ events' = events + 1
  BY DEF Outside
<1>2. ScanTyped(pass') /\ pass'.at = pass.at /\ pass'.list = pass.list
  BY <1>1, StirTyped DEF TypesInv
<1>3. ScannerTurns'
  BY <1>1, <1>2 DEF TypesInv, ScannerTurns, Busy
<1>4. OthersTyped(maildir', folders', changed', fate', names', events')
  BY <1>1, MaildirAssumption DEF TypesInv, OthersTyped
<1> QED
  BY <1>1, <1>2, <1>3, <1>4 DEF TypesInv

\* A step of the scanner that begins no write.
LEMMA ScanTypes ==
  ASSUME TypesInv, ~Busy(Scanner), ScanTyped(pass'), pass'.list \subseteq issued', job' = job, issued \subseteq issued', RowsTyped(messages', issued'),
         maildir' \subseteq File, changed' \subseteq Box, folders' \subseteq Box, fate' \in [Letter -> Fates], names' = names, events' = events
  PROVE  TypesInv'
<1>1. JobsTyped(job', issued')
  BY JobsLater DEF TypesInv
<1>2. ScannerTurns'
  BY DEF ScannerTurns, Busy
<1>3. OthersTyped(maildir', folders', changed', fate', names', events')
  BY DEF TypesInv, OthersTyped
<1> QED
  BY <1>1, <1>2, <1>3 DEF TypesInv

-----------------------------------------------------------------------------
(* Values of the right kind *)

\* The fields of a file.
LEMMA FileIs ==
  ASSUME NEW f \in File
  PROVE  /\ f.folder \in Box /\ f.name \in 1 .. MaxNames /\ f.name \in Nat /\ f.info \subseteq {"S", "F", "R"} /\ f.letter \in Letter
         /\ f # NoFile
BY MaildirAssumption DEF File

\* The fields of a row.
LEMMA RowIs ==
  ASSUME NEW r \in Row
  PROVE  /\ r.letter \in Letter /\ r.folder \in Box /\ r.path \in File \cup {NoFile}
         /\ r.read \in BOOLEAN /\ r.star \in BOOLEAN /\ r.aged \in BOOLEAN /\ r # NoFile
BY MaildirAssumption DEF Row

\* A suffix is made of flags.
LEMMA SuffixIs ==
  ASSUME NEW info, info \subseteq {"S", "F", "R"}, NEW read, NEW star
  PROVE  Suffix(info, read, star) \subseteq {"S", "F", "R"}
BY DEF Suffix

\* The renamed file keeps its name and its message.
LEMMA RenamedIs ==
  ASSUME NEW j \in Job, j.kind \in {"flag", "move"}, j.was # NoFile, j.was.path # NoFile
  PROVE  Renamed(j) \in File /\ Renamed(j).name = j.was.path.name /\ Renamed(j).letter = j.was.path.letter
<1>1. j.was \in Row /\ j.to \in Box
  BY DEF Job
<1>2. j.was.path \in File
  BY <1>1, RowIs
<1>3. CASE j.kind = "flag"
  <2>1. PICK info : info = Suffix(j.was.path.info, IF j.mark THEN j.read ELSE j.was.read, IF j.mark THEN j.was.star ELSE j.star)
    OBVIOUS
  <2>2. Renamed(j) = [j.was.path EXCEPT !.info = info]
    BY <1>3, <2>1 DEF Renamed
  <2>3. info \subseteq {"S", "F", "R"}
    BY <1>2, <2>1, FileIs, SuffixIs
  <2> QED
    BY <1>2, <2>2, <2>3 DEF File
<1>4. CASE j.kind # "flag"
  <2>1. Renamed(j) = [j.was.path EXCEPT !.folder = j.to]
    BY <1>4 DEF Renamed
  <2> QED
    BY <1>1, <1>2, <2>1 DEF File
<1> QED
  BY <1>3, <1>4

\* The file a write puts has a name of its own.
LEMMA WrittenIs ==
  ASSUME NEW j \in Job, j.was # NoFile, names \in 0 .. MaxNames, names < MaxNames
  PROVE  Written(j) \in File /\ Written(j).name = names + 1 /\ Written(j).letter = j.was.letter
<1>1. j.was \in Row /\ j.to \in Box
  BY DEF Job
<1>2. j.was.letter \in Letter /\ j.was.folder \in Box
  BY <1>1, RowIs
<1>3. PICK info : info = Suffix({}, j.was.read, j.was.star)
  OBVIOUS
<1>4. info \subseteq {"S", "F", "R"}
  BY <1>3, SuffixIs
<1>5. PICK folder \in Box : folder = IF j.kind = "move" THEN j.to ELSE j.was.folder
  BY <1>1, <1>2
<1>6. Written(j) = [folder |-> folder, name |-> names + 1, info |-> info, letter |-> j.was.letter]
  BY <1>3, <1>5 DEF Written
<1>7. names + 1 \in 1 .. MaxNames
  BY MaildirAssumption
<1> QED
  BY <1>2, <1>4, <1>6, <1>7 DEF File

\* The row of a file says what the file shows.
LEMMA ArrivedIs ==
  ASSUME NEW f \in File
  PROVE  /\ Arrived(f.letter, f) \in Row /\ Arrived(f.letter, f).letter = f.letter /\ Arrived(f.letter, f).path = f
         /\ Arrived(f.letter, f).folder = f.folder
         /\ Arrived(f.letter, f).read = ShownRead(f) /\ Arrived(f.letter, f).star = ShownStar(f)
<1>1. ShownRead(f) \in BOOLEAN /\ ShownStar(f) \in BOOLEAN
  <2>1. (f.folder # Inbox) \in BOOLEAN /\ ("S" \in f.info) \in BOOLEAN /\ ("F" \in f.info) \in BOOLEAN
    OBVIOUS
  <2>2. ShownRead(f) = (f.folder # Inbox) \/ ShownRead(f) = ("S" \in f.info)
    BY Zenon DEF ShownRead
  <2>3. ShownStar(f) = ("F" \in f.info)
    BY Zenon DEF ShownStar
  <2> QED
    BY <2>1, <2>2, <2>3, Zenon
<1>2. f.folder \in Box /\ f.letter \in Letter
  BY FileIs
<1> QED
  BY <1>1, <1>2 DEF Arrived, Row

\* A table with one row changed, added or deleted.
LEMMA RowSet ==
  ASSUME NEW ms, NEW us, NEW vs, RowsTyped(ms, us), us \subseteq vs, vs \subseteq Slot, NEW s \in vs, NEW r \in Row \cup {NoFile}
  PROVE  /\ RowsTyped([ms EXCEPT ![s] = r], vs) /\ [ms EXCEPT ![s] = r][s] = r
         /\ \A t \in Slot : t # s => [ms EXCEPT ![s] = r][t] = ms[t]
BY DEF RowsTyped

\* The table when an id has been given.
LEMMA RowsLater ==
  ASSUME NEW ms, NEW us, NEW vs, RowsTyped(ms, us), us \subseteq vs, vs \subseteq Slot
  PROVE  RowsTyped(ms, vs)
BY DEF RowsTyped

-----------------------------------------------------------------------------
(* Types, step by step *)

\* A live slot holds a row.
LEMMA SlotRow ==
  ASSUME TypesInv, NEW s \in Slot, messages[s] # NoFile
  PROVE  messages[s] \in Row /\ s \in issued /\ issued \subseteq Slot
BY DEF TypesInv, RowsTyped

\* Requests of the web client.
LEMMA RequestTypes == ASSUME TypesInv, UserRequest PROVE TypesInv'
<1>0. /\ RowsTyped(messages, issued) /\ issued \subseteq Slot /\ folders \subseteq Box /\ fate \in [Letter -> Fates]
  BY DEF TypesInv, RowsTyped, OthersTyped
<1>1. ASSUME NEW e \in Editor, NEW s \in Live, NEW read \in BOOLEAN, NEW star \in BOOLEAN, MarkMail(e, s, read, star)
      PROVE  TypesInv'
  <2>1. messages[s] \in Row /\ s \in issued
    BY SlotRow DEF Live
  <2>2. PICK mark \in BOOLEAN : mark = (read # messages[s].read)
    BY Zenon
  <2>3. PICK r \in Row : r = messages[s]
    BY <2>1
  <2>4. PICK j : j = [Idle EXCEPT !.at = "rename", !.kind = "flag", !.slot = s, !.was = r,
                          !.mark = mark, !.read = read, !.star = star]
    OBVIOUS
  <2>5. /\ j \in Job /\ JobShape(j, issued)
        /\ Start(e, j) /\ UNCHANGED <<messages, issued, folders, fate>>
    <3>1. \A m, rd, st \in BOOLEAN :
            LET i == [Idle EXCEPT !.at = "rename", !.kind = "flag", !.slot = s, !.was = r,
                                  !.mark = m, !.read = rd, !.star = st]
            IN i \in Job /\ JobShape(i, issued)
      BY <1>0, <2>1, NewJobs, Zenon
    <3>2. j \in Job /\ JobShape(j, issued)
      BY <3>1, <2>4, Zenon
    <3>3. Start(e, j) /\ UNCHANGED <<messages, issued, folders, fate>>
      BY <1>1, <2>2, <2>3, <2>4, Zenon DEF MarkMail
    <3> QED
      BY <3>2, <3>3
  <2> QED
    BY <1>0, <2>5, StartTypes
<1>2. ASSUME NEW e \in Editor, NEW s \in Live, NEW to \in Box, MoveMail(e, s, to)
      PROVE  TypesInv'
  <2>1. messages[s] \in Row /\ s \in issued
    BY SlotRow DEF Live
  <2>2. PICK j : j = [Idle EXCEPT !.at = "rename", !.kind = "move", !.slot = s, !.was = messages[s], !.to = to]
    OBVIOUS
  <2>3. j \in Job /\ JobShape(j, issued)
    BY <1>0, <2>1, <2>2, NewJobs, Zenon
  <2>4. Start(e, j) /\ UNCHANGED <<messages, issued, fate>> /\ folders' = folders \cup {to}
    BY <1>2, <2>2, Zenon DEF MoveMail
  <2> QED
    BY <1>0, <2>3, <2>4, StartTypes
<1>3. ASSUME NEW e \in Editor, NEW s \in Live, PurgeMail(e, s)
      PROVE  TypesInv'
  <2>1. messages[s] \in Row /\ s \in issued
    BY SlotRow DEF Live
  <2>2. PICK j : j = [Idle EXCEPT !.at = "unlink", !.kind = "purge", !.slot = s]
    OBVIOUS
  <2>3. j \in Job /\ JobShape(j, issued)
    BY <1>0, <2>1, <2>2, NewJobs, Zenon
  <2>4. Start(e, j) /\ UNCHANGED <<messages, issued, folders>> /\ fate' = [fate EXCEPT ![messages[s].letter] = "removed"]
    BY <1>3, <2>2, Zenon DEF PurgeMail
  <2>5. fate' \in [Letter -> Fates]
    BY <1>0, <2>4 DEF Fates
  <2> QED
    BY <1>0, <2>3, <2>4, <2>5, StartTypes
<1>4. ASSUME NEW e \in Editor, NEW s \in Live, SaveDraft(e, s)
      PROVE  TypesInv'
  <2>1. messages[s] \in Row /\ s \in issued
    BY SlotRow DEF Live
  <2>2. PICK j : j = [Idle EXCEPT !.at = "state", !.kind = "rewrite", !.slot = s]
    OBVIOUS
  <2>3. j \in Job /\ JobShape(j, issued)
    BY <1>0, <2>1, <2>2, NewJobs, Zenon
  <2>4. PICK r : r = [messages[s] EXCEPT !.read = TRUE, !.aged = FALSE]
    OBVIOUS
  <2>5. r \in Row
    BY <2>1, <2>4 DEF Row
  <2>6. Start(e, j) /\ UNCHANGED <<issued, folders, fate>> /\ messages' = [messages EXCEPT ![s] = r]
    BY <1>4, <2>1, <2>2, <2>4 DEF SaveDraft
  <2>7. RowsTyped(messages', issued)
    BY <1>0, <2>1, <2>5, <2>6, RowSet
  <2> QED
    BY <1>0, <2>3, <2>6, <2>7, StartTypes
<1>5. ASSUME NEW e \in Editor, NEW l \in Letter, NEW f \in Box, StoreMail(e, l, f)
      PROVE  TypesInv'
  <2>1. PICK s : s = NewSlot
    OBVIOUS
  <2>2. s \in Slot /\ s \notin issued
    BY <1>5, <2>1 DEF StoreMail, NewSlot, Unused
  <2>3. PICK j : j = [Idle EXCEPT !.at = "state", !.kind = "store", !.slot = s]
    OBVIOUS
  <2>4. PICK r : r = [letter |-> l, folder |-> f, path |-> NoFile, read |-> TRUE, star |-> FALSE, aged |-> FALSE]
    OBVIOUS
  <2>5. r \in Row
    BY <2>4 DEF Row
  <2>6. Start(e, j) /\ issued' = issued \cup {s} /\ UNCHANGED folders /\ messages' = [messages EXCEPT ![s] = r]
        /\ fate' = [fate EXCEPT ![l] = "here"]
    BY <1>5, <2>1, <2>3, <2>4, Zenon DEF StoreMail
  <2>7. issued' \subseteq Slot /\ s \in issued' /\ issued \subseteq issued'
    BY <1>0, <2>2, <2>6
  <2>8. j \in Job /\ JobShape(j, issued')
    BY <2>7, <2>3, NewJobs, Zenon
  <2>9. RowsTyped(messages', issued')
    BY <1>0, <2>5, <2>6, <2>7, RowSet
  <2>10. fate' \in [Letter -> Fates]
    BY <1>0, <2>6 DEF Fates
  <2> QED
    BY <1>0, <2>6, <2>7, <2>8, <2>9, <2>10, StartTypes
<1>6. ASSUME NEW e \in Editor, NEW f \in Custom, DeleteFolder(e, f)
      PROVE  TypesInv'
  <2>1. /\ folders' = folders \ {f} /\ Stir /\ UNCHANGED <<issued, maildir, changed, job, names, fate>>
        /\ events < MaxEvents /\ events' = events + 1
    BY <1>6 DEF DeleteFolder
  <2>2. messages' = [s \in Slot |-> IF messages[s] # NoFile /\ messages[s].folder = f
                        THEN [messages[s] EXCEPT !.folder = Inbox, !.aged = FALSE] ELSE messages[s]]
    BY <1>6, Zenon DEF DeleteFolder
  <2>3. \A r \in Row : [r EXCEPT !.folder = Inbox, !.aged = FALSE] \in Row
    BY MaildirAssumption DEF Row
  <2>4. RowsTyped(messages', issued')
    BY <1>0, <2>1, <2>2, <2>3, MaildirAssumption DEF RowsTyped
  <2>5. ScanTyped(pass') /\ pass'.at = pass.at /\ pass'.list = pass.list
    BY <2>1, StirTyped DEF TypesInv
  <2>6. ScannerTurns'
    BY <2>1, <2>5 DEF TypesInv, ScannerTurns, Busy
  <2>7. OthersTyped(maildir', folders', changed', fate', names', events')
    BY <2>1, MaildirAssumption DEF TypesInv, OthersTyped
  <2> QED
    BY <2>1, <2>4, <2>5, <2>6, <2>7 DEF TypesInv
<1> QED
  BY <1>1, <1>2, <1>3, <1>4, <1>5, <1>6, Zenon DEF UserRequest

\* One field of a job that moves on.
LEMMA JobGoes ==
  ASSUME NEW j \in Job, NEW at \in JobAt
  PROVE  LET i == [j EXCEPT !.at = at]
         IN /\ i \in Job /\ i.at = at /\ i.kind = j.kind /\ i.slot = j.slot /\ i.was = j.was /\ i.to = j.to /\ i.new = j.new
            /\ i.mark = j.mark /\ i.read = j.read /\ i.star = j.star
BY DEF Job

\* The steps of a write.
LEMMA WriteTypesInv == ASSUME TypesInv, WriteStep PROVE TypesInv'
<1>0. /\ RowsTyped(messages, issued) /\ issued \subseteq Slot /\ fate \in [Letter -> Fates] /\ job \in [Writer -> Job]
      /\ maildir \subseteq File /\ changed \subseteq Box /\ names \in 0 .. MaxNames
  BY DEF TypesInv, RowsTyped, OthersTyped, JobsTyped
<1>i. Idle \in Job /\ JobShape(Idle, issued)
  BY IdleTyped
<1> SUFFICES ASSUME NEW w \in Writer,
                    \/ RenameFile(w) \/ FileMissing(w) \/ AttachFile(w) \/ SaveFlag(w)
                    \/ ReadState(w) \/ PutFile(w) \/ PutFails(w) \/ DropOld(w)
                    \/ UnlinkFile(w) \/ DeleteRow(w)
             PROVE  TypesInv'
  BY Zenon DEF WriteStep
<1>a. PICK j \in Job : j = job[w]
  BY <1>0
<1>b. JobShape(j, issued)
  BY <1>a DEF TypesInv, JobsTyped
<1>c. ASSUME NEW at \in JobAt, JobShape([j EXCEPT !.at = at], issued), j.at # "idle",
             Goto(w, at), Stir, Unstirred, RowsTyped(messages', issued), maildir' \subseteq File, changed' \subseteq Box
      PROVE  TypesInv'
  <2>1. PICK i \in Job : i = [j EXCEPT !.at = at]
    BY JobGoes
  <2>2. Set(w, i)
    BY <1>a, <1>c, <2>1 DEF Goto
  <2>3. Busy(w) /\ JobShape(i, issued) /\ issued' = issued /\ folders' = folders /\ names' = names /\ events' = events /\ fate' = fate
    BY <1>a, <1>c, <2>1 DEF Busy, Unstirred
  <2> QED
    BY <1>0, <1>c, <2>2, <2>3, WriteTypes
<1>d. ASSUME j.at # "idle", Stop(w), Stir, Unstirred, RowsTyped(messages', issued), maildir' \subseteq File, changed' \subseteq Box
      PROVE  TypesInv'
  <2>3. Busy(w) /\ issued' = issued /\ folders' = folders /\ names' = names /\ events' = events /\ fate' = fate /\ Set(w, Idle)
    BY <1>a, <1>d DEF Busy, Unstirred, Stop
  <2> QED
    BY <1>0, <1>i, <1>d, <2>3, WriteTypes
<1>s. j.at # "idle" => j.slot \in issued /\ j.slot \in Slot
  BY <1>0, <1>b DEF JobShape
<1>1. CASE RenameFile(w)
  <2>1. /\ j.at = "rename" /\ j.was.path # NoFile /\ j.was.path \in maildir /\ Stir /\ Unstirred /\ messages' = messages
        /\ maildir' = (maildir \ {j.was.path}) \cup {Renamed(j)}
        /\ (changed' = changed \/ Touch({j.was.path, Renamed(j)}))
        /\ Set(w, IF Renamed(j) = j.was.path /\ j.kind = "flag" THEN [j EXCEPT !.at = "save"]
                  ELSE [j EXCEPT !.at = "attach", !.new = Renamed(j)])
    BY <1>1, <1>a DEF RenameFile
  <2>2. j.kind \in {"flag", "move"} /\ j.was # NoFile /\ j.slot \in issued /\ j.new = NoFile
    BY <2>1, <1>b DEF JobShape
  <2>3. PICK f \in File : f = Renamed(j)
    BY <2>1, <2>2, RenamedIs
  <2>4. maildir' \subseteq File
    BY <1>0, <2>1, <2>3
  <2>5. changed' \subseteq Box
    <3>1. j.was.path.folder \in Box /\ f.folder \in Box
      BY <1>0, <2>1, FileIs
    <3> QED
      BY <1>0, <2>1, <2>3, <3>1 DEF Touch
  <2>6. PICK i : i = IF f = j.was.path /\ j.kind = "flag" THEN [j EXCEPT !.at = "save"] ELSE [j EXCEPT !.at = "attach", !.new = f]
    OBVIOUS
  <2>7. i \in Job /\ JobShape(i, issued)
    <3>1. CASE f = j.was.path /\ j.kind = "flag"
      <4>1. i = [j EXCEPT !.at = "save"]
        BY <2>6, <3>1
      <4>2. i \in Job /\ i.at = "save" /\ i.kind = "flag" /\ i.slot = j.slot /\ i.new = NoFile
        BY <2>2, <3>1, <4>1 DEF Job, JobAt
      <4> QED
        BY <2>2, <4>2 DEF JobShape
    <3>2. CASE ~(f = j.was.path /\ j.kind = "flag")
      <4>1. i = [j EXCEPT !.at = "attach", !.new = f]
        BY <2>6, <3>2, Zenon
      <4>2. i \in Job /\ i.at = "attach" /\ i.kind = j.kind /\ i.slot = j.slot /\ i.new = f /\ i.was = j.was
        BY <2>2, <4>1 DEF Job, JobAt
      <4> QED
        BY <2>2, <2>3, <4>2, FileIs DEF JobShape
    <3> QED
      BY <3>1, <3>2
  <2>8. Set(w, i) /\ Busy(w) /\ issued' = issued /\ folders' = folders /\ names' = names /\ events' = events /\ fate' = fate
    BY <2>1, <2>3, <2>6, <1>a DEF Unstirred, Busy
  <2> QED
    BY <1>0, <2>1, <2>4, <2>5, <2>7, <2>8, WriteTypes
<1>2. CASE FileMissing(w)
  <2>1. /\ j.at = "rename" /\ Stir /\ Unstirred /\ UNCHANGED <<messages, maildir, changed>>
        /\ Stop(w) \/ Goto(w, IF j.kind = "flag" THEN "save" ELSE "state")
    BY <1>2, <1>a DEF FileMissing
  <2>2. PICK at : at = IF j.kind = "flag" THEN "save" ELSE "state"
    OBVIOUS
  <2>3. at \in JobAt /\ JobShape([j EXCEPT !.at = at], issued)
    <3>1. j.kind \in {"flag", "move"} /\ j.was # NoFile /\ j.slot \in issued /\ j.new = NoFile
      BY <2>1, <1>b DEF JobShape
    <3>2. at \in JobAt
      BY <2>2 DEF JobAt
    <3>3. PICK i : i = [j EXCEPT !.at = at]
      OBVIOUS
    <3>4. i.at = at /\ i.kind = j.kind /\ i.slot = j.slot /\ i.new = j.new
      BY <3>2, <3>3, JobGoes
    <3> QED
      BY <2>2, <3>1, <3>2, <3>3, <3>4 DEF JobShape
  <2> QED
    BY <1>0, <2>1, <2>2, <2>3, <1>c, <1>d
<1>3. CASE AttachFile(w)
  <2>1. /\ j.at \in {"attach", "point"} /\ Stir /\ Unstirred /\ UNCHANGED <<maildir, changed>>
        /\ messages' = IF messages[j.slot] = NoFile THEN messages
                   ELSE [messages EXCEPT ![j.slot].path = j.new, ![j.slot].aged = FALSE,
                             ![j.slot].folder = IF j.kind = "move" THEN j.to ELSE @]
        /\ IF j.kind = "flag" THEN Goto(w, "save") ELSE Stop(w)
    BY <1>3, <1>a DEF AttachFile
  <2>2. j.new \in File /\ j.to \in Box /\ j.slot \in issued
    BY <2>1, <1>b DEF JobShape, Job
  <2>3. RowsTyped(messages', issued)
    <3>1. CASE messages[j.slot] # NoFile
      <4>1. PICK r : r = [messages[j.slot] EXCEPT !.path = j.new, !.aged = FALSE,
                             !.folder = IF j.kind = "move" THEN j.to ELSE @]
        OBVIOUS
      <4>2. r \in Row
        BY <1>s, <2>1, <2>2, <3>1, <4>1, SlotRow DEF Row
      <4>3. messages' = [messages EXCEPT ![j.slot] = r]
        BY <1>0, <2>1, <3>1, <4>1 DEF RowsTyped
      <4> QED
        BY <1>0, <2>2, <4>2, <4>3, RowSet
    <3> QED
      BY <1>0, <2>1, <3>1
  <2>4. CASE j.kind = "flag"
    <3>1. PICK i : i = [j EXCEPT !.at = "save"]
      OBVIOUS
    <3>2. i.at = "save" /\ i.kind = j.kind /\ i.slot = j.slot /\ "save" \in JobAt
      BY <3>1, JobGoes DEF JobAt
    <3>3. JobShape([j EXCEPT !.at = "save"], issued)
      BY <2>2, <2>4, <3>1, <3>2 DEF JobShape
    <3> QED
      BY <1>0, <2>1, <2>3, <2>4, <3>2, <3>3, <1>c
  <2> QED
    BY <1>0, <2>1, <2>3, <2>4, <1>d
<1>4. CASE SaveFlag(w)
  <2>1. /\ j.at = "save" /\ Stir /\ Unstirred /\ UNCHANGED <<maildir, changed>> /\ Stop(w)
        /\ messages' = IF messages[j.slot] = NoFile THEN messages
                   ELSE [messages EXCEPT ![j.slot].aged = FALSE,
                             ![j.slot].read = IF j.mark THEN j.read ELSE @,
                             ![j.slot].star = IF j.mark THEN @ ELSE j.star]
    BY <1>4, <1>a DEF SaveFlag
  <2>3. RowsTyped(messages', issued)
    <3>1. CASE messages[j.slot] # NoFile
      <4>1. PICK r : r = [messages[j.slot] EXCEPT !.aged = FALSE,
                             !.read = IF j.mark THEN j.read ELSE @,
                             !.star = IF j.mark THEN @ ELSE j.star]
        OBVIOUS
      <4>0. messages[j.slot] \in Row /\ j.read \in BOOLEAN /\ j.star \in BOOLEAN /\ j.slot \in issued
        BY <1>s, <2>1, <3>1, SlotRow DEF Job
      <4>2. r \in Row
        BY <4>0, <4>1 DEF Row
      <4>3. messages' = [messages EXCEPT ![j.slot] = r]
        BY <1>0, <2>1, <3>1, <4>1 DEF RowsTyped
      <4> QED
        BY <1>0, <4>0, <4>2, <4>3, RowSet
    <3> QED
      BY <1>0, <2>1, <3>1
  <2> QED
    BY <1>0, <2>1, <2>3, <1>d
<1>5. CASE ReadState(w)
  <2>1. /\ j.at = "state" /\ Stir /\ Unstirred /\ UNCHANGED <<messages, maildir, changed>>
        /\ Stop(w) \/ (messages[j.slot] # NoFile /\ Set(w, [j EXCEPT !.at = "put", !.was = messages[j.slot]]))
    BY <1>5, <1>a DEF ReadState
  <2>2. CASE messages[j.slot] # NoFile /\ Set(w, [j EXCEPT !.at = "put", !.was = messages[j.slot]])
    <3>1. PICK i : i = [j EXCEPT !.at = "put", !.was = messages[j.slot]]
      OBVIOUS
    <3>2. j.kind \in {"move", "rewrite", "store"} /\ j.slot \in issued /\ j.new = NoFile /\ messages[j.slot] \in Row
      BY <2>1, <2>2, <1>b, <1>s, SlotRow DEF JobShape
    <3>3. i \in Job /\ i.at = "put" /\ i.kind = j.kind /\ i.slot = j.slot /\ i.new = j.new /\ i.was # NoFile
      BY <2>2, <3>1, <3>2 DEF Job, JobAt
    <3>4. JobShape(i, issued)
      BY <3>2, <3>3 DEF JobShape
    <3>5. Set(w, i) /\ Busy(w) /\ issued' = issued /\ folders' = folders /\ names' = names /\ events' = events /\ fate' = fate
      BY <2>1, <2>2, <3>1, <1>a DEF Unstirred, Busy
    <3> QED
      BY <1>0, <2>1, <3>3, <3>4, <3>5, WriteTypes
  <2> QED
    BY <1>0, <2>1, <2>2, <1>d
<1>6. CASE PutFile(w)
  <2>1. /\ j.at = "put" /\ names < MaxNames /\ names' = names + 1 /\ maildir' = maildir \cup {Written(j)}
        /\ Touch({Written(j)}) /\ Set(w, [j EXCEPT !.at = "drop", !.new = Written(j)]) /\ Stir
        /\ UNCHANGED <<messages, issued, folders, events, fate>>
    BY <1>6, <1>a DEF PutFile
  <2>2. j.was # NoFile /\ j.kind \in {"move", "rewrite", "store"} /\ j.slot \in issued
    BY <2>1, <1>b DEF JobShape
  <2>3. PICK f \in File : f = Written(j)
    BY <1>0, <2>1, <2>2, WrittenIs
  <2>4. PICK i : i = [j EXCEPT !.at = "drop", !.new = f]
    OBVIOUS
  <2>5. i \in Job /\ i.at = "drop" /\ i.kind = j.kind /\ i.slot = j.slot /\ i.new = f /\ i.was = j.was
    BY <2>4 DEF Job, JobAt
  <2>6. JobShape(i, issued)
    BY <2>2, <2>5, FileIs DEF JobShape
  <2>7. changed' \subseteq Box /\ maildir' \subseteq File /\ names' \in 0 .. MaxNames
    BY <1>0, <2>1, <2>3, FileIs, MaildirAssumption DEF Touch
  <2>8. Busy(w) /\ Set(w, i)
    BY <2>1, <2>3, <2>4, <1>a DEF Busy
  <2> QED
    BY <1>0, <2>1, <2>5, <2>6, <2>7, <2>8, WriteTypes
<1>7. CASE PutFails(w)
  <2>1. /\ j.at = "put" /\ Stop(w) /\ Stir /\ UNCHANGED <<issued, maildir, folders, changed, names, events>>
        /\ messages' = IF j.kind = "store" THEN [messages EXCEPT ![j.slot] = NoFile] ELSE messages
        /\ fate' = IF j.kind = "store" THEN [fate EXCEPT ![j.was.letter] = "removed"] ELSE fate
    BY <1>7, <1>a DEF PutFails
  <2>2. RowsTyped(messages', issued)
    BY <1>0, <1>s, <2>1, RowSet
  <2>3. fate' \in [Letter -> Fates]
    BY <1>0, <2>1 DEF Fates
  <2>4. Busy(w) /\ Set(w, Idle)
    BY <2>1, <1>a DEF Busy, Stop
  <2> QED
    BY <1>0, <1>i, <2>1, <2>2, <2>3, <2>4, WriteTypes
<1>8. CASE DropOld(w)
  <2>1. /\ j.at = "drop" /\ maildir' = maildir \ {j.was.path} /\ Goto(w, "point") /\ Stir /\ Unstirred /\ messages' = messages
        /\ changed' = changed \/ (j.was.path \in maildir /\ Touch({j.was.path}))
    BY <1>8, <1>a DEF DropOld
  <2>2. changed' \subseteq Box
    BY <1>0, <2>1, FileIs DEF Touch
  <2>3. PICK i : i = [j EXCEPT !.at = "point"]
    OBVIOUS
  <2>4. i.at = "point" /\ i.kind = j.kind /\ i.slot = j.slot /\ i.was = j.was /\ i.new = j.new /\ "point" \in JobAt
    BY <2>3, JobGoes DEF JobAt
  <2>5. JobShape([j EXCEPT !.at = "point"], issued)
    BY <2>1, <2>3, <2>4, <1>b DEF JobShape
  <2> QED
    BY <1>0, <2>1, <2>2, <2>4, <2>5, <1>c
<1>9. CASE UnlinkFile(w)
  <2>1. PICK f : f = IF messages[j.slot] = NoFile THEN NoFile ELSE messages[j.slot].path
    OBVIOUS
  <2>2. /\ j.at = "unlink" /\ maildir' = maildir \ {f} /\ Goto(w, "delete") /\ Stir /\ Unstirred /\ messages' = messages
        /\ changed' = changed \/ (f \in maildir /\ Touch({f}))
    BY <1>9, <1>a, <2>1 DEF UnlinkFile
  <2>3. changed' \subseteq Box
    BY <1>0, <2>2, FileIs DEF Touch
  <2>4. PICK i : i = [j EXCEPT !.at = "delete"]
    OBVIOUS
  <2>5. i.at = "delete" /\ i.kind = j.kind /\ i.slot = j.slot /\ i.was = j.was /\ i.new = j.new /\ "delete" \in JobAt
    BY <2>4, JobGoes DEF JobAt
  <2>6. JobShape([j EXCEPT !.at = "delete"], issued)
    BY <2>2, <2>4, <2>5, <1>b DEF JobShape
  <2> QED
    BY <1>0, <2>2, <2>3, <2>5, <2>6, <1>c
<1>10. CASE DeleteRow(w)
  <2>1. j.at = "delete" /\ messages' = [messages EXCEPT ![j.slot] = NoFile] /\ Stop(w) /\ Stir /\ Unstirred
        /\ UNCHANGED <<maildir, changed>>
    BY <1>10, <1>a DEF DeleteRow
  <2>2. RowsTyped(messages', issued)
    BY <1>0, <1>s, <2>1, RowSet
  <2> QED
    BY <1>0, <2>1, <2>2, <1>d
<1> QED
  BY <1>1, <1>2, <1>3, <1>4, <1>5, <1>6, <1>7, <1>8, <1>9, <1>10

\* Postfix, Dovecot and the clock.
LEMMA OutsideTypesInv == ASSUME TypesInv, OutsideStep PROVE TypesInv'
<1>0. /\ RowsTyped(messages, issued) /\ issued \subseteq Slot /\ fate \in [Letter -> Fates]
      /\ maildir \subseteq File /\ changed \subseteq Box /\ names \in 0 .. MaxNames
  BY DEF TypesInv, RowsTyped, OthersTyped
<1>1. ASSUME NEW l \in Letter, Deliver(l) PROVE TypesInv'
  <2>1. PICK f : f = [folder |-> Inbox, name |-> names + 1, info |-> {}, letter |-> l]
    OBVIOUS
  <2>2. /\ names < MaxNames /\ fate' = [fate EXCEPT ![l] = "here"] /\ maildir' = maildir \cup {f} /\ Touch({f})
        /\ names' = names + 1 /\ Outside
    BY <1>1, <2>1 DEF Deliver
  <2>3. f \in File /\ names' \in 0 .. MaxNames
    BY <1>0, <2>1, <2>2, MaildirAssumption DEF File
  <2>4. changed' \subseteq Box /\ maildir' \subseteq File
    BY <1>0, <2>2, <2>3, FileIs DEF Touch
  <2>5. fate' \in [Letter -> Fates]
    BY <1>0, <2>2 DEF Fates
  <2> QED
    BY <2>2, <2>3, <2>4, <2>5, OutsideTypes
<1>2. ASSUME NEW f \in maildir, NEW to \in Box, CopyFile(f, to) PROVE TypesInv'
  <2>1. PICK g : g = [f EXCEPT !.folder = to, !.name = names + 1]
    OBVIOUS
  <2>2. /\ names < MaxNames /\ maildir' = maildir \cup {g} /\ Touch({g})
        /\ names' = names + 1 /\ Outside /\ fate' = fate
    BY <1>2, <2>1 DEF CopyFile
  <2>3. g \in File /\ names' \in 0 .. MaxNames
    <3>1. names + 1 \in 1 .. MaxNames /\ f \in File
      BY <1>0, <2>2, MaildirAssumption
    <3>2. PICK n \in 1 .. MaxNames : n = names + 1
      BY <3>1
    <3>3. g = [f EXCEPT !.folder = to, !.name = n]
      BY <2>1, <3>2
    <3>4. g \in File
      BY <3>1, <3>3 DEF File
    <3>5. names' \in 0 .. MaxNames
      BY <1>0, <2>2, MaildirAssumption
    <3> QED
      BY <3>4, <3>5
  <2>4. changed' \subseteq Box /\ maildir' \subseteq File
    BY <1>0, <2>2, <2>3, FileIs DEF Touch
  <2> QED
    BY <1>0, <2>2, <2>3, <2>4, OutsideTypes
<1>3. ASSUME NEW f \in maildir, NEW g \in File, RefileFile(f, g) PROVE TypesInv'
  <2>2. maildir' = (maildir \ {f}) \cup {g} /\ Touch({f, g}) /\ Outside /\ names' = names /\ fate' = fate
    BY <1>3 DEF RefileFile
  <2>4. changed' \subseteq Box /\ maildir' \subseteq File
    BY <1>0, <2>2, FileIs DEF Touch
  <2> QED
    BY <1>0, <2>2, <2>4, OutsideTypes
<1>4. ASSUME NEW f \in maildir, ExpungeFile(f) PROVE TypesInv'
  <2>2. maildir' = maildir \ {f} /\ Touch({f}) /\ Outside /\ names' = names /\ fate' = [fate EXCEPT ![f.letter] = "removed"]
    BY <1>4 DEF ExpungeFile
  <2>4. changed' \subseteq Box /\ maildir' \subseteq File
    BY <1>0, <2>2, FileIs DEF Touch
  <2>5. fate' \in [Letter -> Fates]
    BY <1>0, <2>2 DEF Fates
  <2> QED
    BY <1>0, <2>2, <2>4, <2>5, OutsideTypes
<1>5. ASSUME FiveMinutes PROVE TypesInv'
  <2>1. messages' = [s \in Slot |-> IF messages[s] = NoFile THEN NoFile ELSE [messages[s] EXCEPT !.aged = TRUE]]
    BY <1>5 DEF FiveMinutes
  <2>2. Stir /\ UNCHANGED <<issued, folders, maildir, changed, job, names, events, fate>>
    BY <1>5 DEF FiveMinutes
  <2>3. \A r \in Row : [r EXCEPT !.aged = TRUE] \in Row
    BY DEF Row
  <2>4. RowsTyped(messages', issued')
    BY <1>0, <2>1, <2>2, <2>3 DEF RowsTyped
  <2>5. ScanTyped(pass') /\ pass'.at = pass.at /\ pass'.list = pass.list
    BY <2>2, StirTyped DEF TypesInv
  <2>6. ScannerTurns'
    BY <2>2, <2>5 DEF TypesInv, ScannerTurns, Busy
  <2>7. OthersTyped(maildir', folders', changed', fate', names', events')
    BY <2>2 DEF TypesInv, OthersTyped
  <2> QED
    BY <2>2, <2>4, <2>5, <2>6, <2>7 DEF TypesInv
<1>6. \A f \in maildir : /\ \A to \in Box : [f EXCEPT !.folder = to] \in File
                         /\ \A flag \in {"S", "R"} : [f EXCEPT !.info = @ \cup {flag}] \in File
  BY <1>0 DEF File
<1> QED
  BY <1>1, <1>2, <1>3, <1>4, <1>5, <1>6 DEF OutsideStep

\* The steps of the scanner.
LEMMA PassTypesInv == ASSUME TypesInv, PassStep PROVE TypesInv'
<1>0. /\ RowsTyped(messages, issued) /\ issued \subseteq Slot /\ fate \in [Letter -> Fates] /\ pass \in Scan /\ ScanShape(pass)
      /\ maildir \subseteq File /\ changed \subseteq Box /\ names \in 0 .. MaxNames /\ folders \subseteq Box
      /\ job \in [Writer -> Job] /\ Scanner \in Writer /\ pass.list \subseteq issued
  BY DEF TypesInv, RowsTyped, OthersTyped, JobsTyped, ScanTyped, ScannerTurns, Writer
<1>p. /\ pass.dirs \subseteq Box /\ pass.known \subseteq Row /\ pass.seen \subseteq File /\ pass.todo \subseteq File
      /\ pass.pick \in File \cup {NoFile} /\ pass.hit \in Slot \cup {NoFile} /\ pass.list \subseteq Slot
      /\ pass.scanned \subseteq Box /\ pass.full \in BOOLEAN /\ pass.calm \in BOOLEAN
  BY <1>0 DEF Scan
<1>1. ASSUME NEW full \in BOOLEAN, BeginPass(full) PROVE TypesInv'
  <2>1. PICK dirs : dirs = IF full THEN folders ELSE folders \cap changed
    OBVIOUS
  <2>2. dirs \subseteq Box
    BY <1>0, <2>1
  <2>3. PICK known : known = IF dirs = {} THEN {} ELSE {messages[s] : s \in {t \in Live : messages[t].path # NoFile}}
    OBVIOUS
  <2>4. known \subseteq Row
    BY <1>0, <2>3, SlotRow DEF Live
  <2>5. PICK calm \in BOOLEAN : calm = (full /\ \A e \in Editor : ~Busy(e))
    OBVIOUS
  <2>6. /\ pass.at = "idle" /\ changed' = changed \ dirs /\ Scans /\ UNCHANGED <<messages, maildir, job, fate>>
        /\ pass' = [NoPass EXCEPT !.at = "scan", !.full = full, !.dirs = dirs, !.scanned = dirs, !.calm = calm, !.known = known]
    BY <1>1, <2>1, <2>3, <2>5, Zenon DEF BeginPass
  <2>7. pass' = [at |-> "scan", full |-> full, calm |-> calm, dirs |-> dirs, known |-> known, seen |-> {}, todo |-> {},
                 pick |-> NoFile, hit |-> NoFile, list |-> {}, scanned |-> dirs]
    BY <2>6, Zenon DEF NoPass
  <2>8. pass' \in Scan
    BY <2>2, <2>4, <2>7 DEF Scan
  <2>9. ScanTyped(pass')
    BY <2>7, <2>8 DEF ScanTyped, ScanShape, ScanAt
  <2>11. pass'.list \subseteq issued'
    BY <2>7
  <2>10. ~Busy(Scanner)
    BY <2>6 DEF TypesInv, ScannerTurns
  <2> QED
    BY <1>0, <2>6, <2>9, <2>10, <2>11, ScanTypes DEF Scans
<1> SUFFICES ASSUME ~Busy(Scanner),
                    \/ \E d \in pass.dirs : ListFolder(d)
                    \/ \E f \in pass.todo :
                          \/ FileGone(f)
                          \/ \E act \in {"update", "adopt", "copy", "import"}, hit \in Slot \cup {NoFile} :
                                LookAtFile(f, act, hit)
                    \/ UpdateRow \/ RemoveCopy
                    \/ \E moved \in BOOLEAN, to \in Box \ {Inbox} : ImportFile(moved, to)
                    \/ ListBackfill \/ ListMissing
                    \/ \E s \in pass.list : Backfill(s) \/ DropRow(s)
             PROVE  TypesInv'
  BY <1>1, Zenon DEF PassStep
<1>r. Resume => ScanTyped(pass') /\ pass'.list = pass.list
  <2> SUFFICES ASSUME Resume PROVE ScanTyped(pass') /\ pass'.list = pass.list
    OBVIOUS
  <2>1. pass' = [pass EXCEPT !.at = "scan", !.pick = NoFile, !.hit = NoFile]
    BY DEF Resume
  <2>2. pass' \in Scan /\ pass'.at = "scan" /\ pass'.pick = NoFile /\ pass'.list = pass.list
    BY <1>0, <2>1 DEF Scan
  <2> QED
    BY <2>2 DEF ScanTyped, ScanShape, ScanAt
<1>2. ASSUME NEW d \in pass.dirs, ListFolder(d) PROVE TypesInv'
  <2>1. PICK found : found = {f \in maildir : f.folder = d}
    OBVIOUS
  <2>2. PICK todo : todo = {f \in found : ~Agrees(f)}
    OBVIOUS
  <2>3. PICK known : known = IF pass.dirs = {d} THEN {} ELSE pass.known
    OBVIOUS
  <2>4. found \subseteq File /\ todo \subseteq File /\ known \subseteq Row
    BY <1>0, <1>p, <2>1, <2>2, <2>3
  <2>5. /\ pass.at = "scan" /\ Scans /\ UNCHANGED <<messages, maildir, changed, job, fate>>
        /\ pass' = [pass EXCEPT !.dirs = pass.dirs \ {d}, !.todo = todo, !.known = known, !.seen = pass.seen \cup found]
    BY <1>2, <2>1, <2>2, <2>3 DEF ListFolder
  <2>6. pass' \in Scan /\ pass'.at = "scan" /\ pass'.pick = pass.pick /\ pass'.list = pass.list
    BY <1>0, <1>p, <2>4, <2>5 DEF Scan
  <2>7. ScanTyped(pass')
    BY <1>0, <2>5, <2>6 DEF ScanTyped, ScanShape, ScanAt
  <2> QED
    BY <1>0, <2>5, <2>6, <2>7, ScanTypes DEF Scans
<1>3. ASSUME NEW f \in pass.todo, FileGone(f) PROVE TypesInv'
  <2>1. pass.at = "scan" /\ pass' = [pass EXCEPT !.todo = pass.todo \ {f}] /\ Touch({f}) /\ Scans
        /\ UNCHANGED <<messages, maildir, job, fate>>
    BY <1>3 DEF FileGone
  <2>2. pass' \in Scan /\ pass'.at = "scan" /\ pass'.pick = pass.pick /\ pass'.list = pass.list
    BY <1>0, <1>p, <2>1 DEF Scan
  <2>3. ScanTyped(pass')
    BY <1>0, <2>1, <2>2 DEF ScanTyped, ScanShape, ScanAt
  <2>4. changed' \subseteq Box
    BY <1>0, <1>p, <2>1, FileIs DEF Touch
  <2> QED
    BY <1>0, <2>1, <2>2, <2>3, <2>4, ScanTypes DEF Scans
<1>4. ASSUME NEW f \in pass.todo, NEW act \in ScanAt, NEW hit \in Slot \cup {NoFile}, LookAtFile(f, act, hit)
      PROVE  TypesInv'
  <2>1. /\ pass' = [pass EXCEPT !.todo = pass.todo \ {f}, !.pick = f, !.hit = hit, !.at = act] /\ Scans
        /\ UNCHANGED <<messages, maildir, changed, job>> /\ Look(f, act, hit)
        /\ fate' = fate \/ fate' = [fate EXCEPT ![f.letter] = "clashed"]
    BY <1>4 DEF LookAtFile
  <2>2. pass' \in Scan /\ pass'.at = act /\ pass'.pick = f /\ pass'.hit = hit /\ pass'.list = pass.list
    BY <1>0, <1>p, <2>1 DEF Scan
  <2>3. act \in {"update", "adopt"} => hit # NoFile
    <3>1. act \in {"update", "adopt"} => hit \in Live
      BY <2>1, Zenon DEF Look, ByPath, Candidates, Homeless, SameLetter
    <3> QED
      BY <3>1, MaildirAssumption DEF Live
  <2>4. ScanTyped(pass')
    BY <1>p, <2>2, <2>3, FileIs DEF ScanTyped, ScanShape
  <2>5. fate' \in [Letter -> Fates]
    BY <1>0, <2>1 DEF Fates
  <2> QED
    BY <1>0, <2>1, <2>2, <2>4, <2>5, ScanTypes DEF Scans
<1>5. ASSUME UpdateRow PROVE TypesInv'
  <2>1. /\ pass.at \in {"update", "adopt"} /\ Resume /\ Scans /\ UNCHANGED <<maildir, changed, job, fate>>
        /\ messages' = IF messages[pass.hit] = NoFile THEN messages
            ELSE [messages EXCEPT ![pass.hit] =
                     [@ EXCEPT !.folder = pass.pick.folder, !.path = pass.pick, !.read = ShownRead(pass.pick),
                               !.star = ShownStar(pass.pick), !.aged = FALSE]]
    BY <1>5 DEF UpdateRow
  <2>2. PICK f \in File : f = pass.pick
    BY <1>0, <1>p, <2>1 DEF ScanShape, ScanAt
  <2>3. PICK s \in Slot : s = pass.hit
    BY <1>0, <1>p, <2>1 DEF ScanShape, ScanAt
  <2>4. RowsTyped(messages', issued)
    <3>1. CASE messages[s] # NoFile
      <4>1. PICK r : r = [messages[s] EXCEPT !.folder = f.folder, !.path = f, !.read = ShownRead(f),
                               !.star = ShownStar(f), !.aged = FALSE]
        OBVIOUS
      <4>2. ShownRead(f) \in BOOLEAN /\ ShownStar(f) \in BOOLEAN /\ f.folder \in Box
        BY ArrivedIs, FileIs, RowIs
      <4>3. messages[s] \in Row /\ s \in issued
        BY <3>1, SlotRow
      <4>4. r \in Row
        BY <4>1, <4>2, <4>3 DEF Row
      <4>5. messages' = [messages EXCEPT ![s] = r]
        BY <1>0, <2>1, <2>2, <2>3, <3>1, <4>1 DEF RowsTyped
      <4> QED
        BY <1>0, <4>3, <4>4, <4>5, RowSet
    <3> QED
      BY <1>0, <2>1, <2>3, <3>1
  <2> QED
    BY <1>0, <1>r, <2>1, <2>4, ScanTypes DEF Scans
<1>6. ASSUME RemoveCopy PROVE TypesInv'
  <2>1. /\ maildir' = maildir \ {pass.pick} /\ Resume /\ Scans /\ UNCHANGED <<messages, job, fate>>
        /\ changed' = changed \/ (pass.pick \in maildir /\ Touch({pass.pick}))
    BY <1>6 DEF RemoveCopy
  <2>2. changed' \subseteq Box
    BY <1>0, <2>1, FileIs DEF Touch
  <2> QED
    BY <1>0, <1>r, <2>1, <2>2, ScanTypes DEF Scans
<1>7. ASSUME NEW moved \in BOOLEAN, NEW to \in Box \ {Inbox}, ImportFile(moved, to) PROVE TypesInv'
  <2>1. PICK s : s = NewSlot
    OBVIOUS
  <2>2. PICK f : f = pass.pick
    OBVIOUS
  <2>3. PICK row : row = Arrived(f.letter, f)
    OBVIOUS
  <2>4. PICK j : j = [Idle EXCEPT !.at = "rename", !.kind = "move", !.slot = s, !.was = row, !.to = to]
    OBVIOUS
  <2>5. /\ pass.at = "import" /\ Unused # {} /\ messages' = [messages EXCEPT ![s] = row] /\ issued' = issued \cup {s}
        /\ job' = IF moved THEN [job EXCEPT ![Scanner] = j] ELSE job
        /\ folders' = IF moved THEN folders \cup {to} ELSE folders
        /\ Resume /\ UNCHANGED <<maildir, changed, names, events, fate>>
    BY <1>7, <2>1, <2>2, <2>3, <2>4, Zenon DEF ImportFile
  <2>6. f \in File
    BY <1>0, <1>p, <2>2, <2>5 DEF ScanShape, ScanAt
  <2>7. row \in Row
    BY <2>3, <2>6, ArrivedIs
  <2>8. s \in Slot /\ s \notin issued /\ issued' \subseteq Slot /\ s \in issued' /\ issued \subseteq issued'
    BY <1>0, <2>1, <2>5 DEF NewSlot, Unused
  <2>9. RowsTyped(messages', issued')
    BY <1>0, <2>5, <2>7, <2>8, RowSet
  <2>10. j \in Job /\ JobShape(j, issued')
    BY <2>4, <2>7, <2>8, NewJobs, Zenon
  <2>11. JobsTyped(job', issued')
    BY <1>0, <2>5, <2>8, <2>10, JobSet, JobsLater DEF TypesInv
  <2>12. ScanTyped(pass') /\ pass'.at = "scan" /\ pass'.list \subseteq issued'
    BY <1>0, <1>r, <2>5, <2>8 DEF Resume, Scan
  <2>13. ScannerTurns'
    BY <2>12 DEF ScannerTurns
  <2>14. OthersTyped(maildir', folders', changed', fate', names', events')
    BY <2>5 DEF TypesInv, OthersTyped
  <2> QED
    BY <2>9, <2>11, <2>12, <2>13, <2>14 DEF TypesInv
<1>8. ASSUME ListBackfill PROVE TypesInv'
  <2>1. PICK list : list = {s \in Live : messages[s].path = NoFile}
    OBVIOUS
  <2>2. pass.at = "scan" /\ pass' = [pass EXCEPT !.at = "backfill", !.list = list] /\ Scans
        /\ UNCHANGED <<messages, maildir, changed, job, fate>>
    BY <1>8, <2>1 DEF ListBackfill
  <2>3. list \subseteq Slot /\ list \subseteq issued
    BY <2>1, SlotRow DEF Live
  <2>4. pass' \in Scan /\ pass'.at = "backfill" /\ pass'.pick = pass.pick /\ pass'.list = list
    BY <1>0, <2>2, <2>3 DEF Scan
  <2>5. ScanTyped(pass')
    BY <1>0, <2>2, <2>4 DEF ScanTyped, ScanShape, ScanAt
  <2> QED
    BY <1>0, <2>2, <2>3, <2>4, <2>5, ScanTypes DEF Scans
<1>9. ASSUME ListMissing PROVE TypesInv'
  <2>1. PICK list : list = Missing
    OBVIOUS
  <2>2. pass.at = "backfill" /\ Scans /\ UNCHANGED <<messages, maildir, changed, job, fate>>
        /\ (pass' = Finished \/ pass' = [Finished EXCEPT !.at = "sweep", !.list = list])
    BY <1>9, <2>1 DEF ListMissing
  <2>3. list \subseteq Slot /\ list \subseteq issued
    BY <2>1, SlotRow DEF Missing, Live
  <2>c. PICK calm \in BOOLEAN : calm = pass.calm
    BY <1>p
  <2>f. Finished = [NoPass EXCEPT !.calm = calm]
    BY <2>c DEF Finished
  <2>4. Finished = [at |-> "idle", full |-> FALSE, calm |-> calm, dirs |-> {}, known |-> {}, seen |-> {}, todo |-> {},
                    pick |-> NoFile, hit |-> NoFile, list |-> {}, scanned |-> {}]
    BY <2>f, Zenon DEF NoPass
  <2>5. Finished \in Scan
    BY <1>p, <2>4 DEF Scan
  <2>6. pass' \in Scan /\ pass'.at \in {"idle", "sweep"} /\ pass'.pick = NoFile /\ pass'.list \subseteq issued
    <3>1. CASE pass' = Finished
      BY <2>4, <2>5, <3>1
    <3>2. CASE pass' = [Finished EXCEPT !.at = "sweep", !.list = list]
      BY <2>3, <2>4, <2>5, <3>2 DEF Scan
    <3> QED
      BY <2>2, <3>1, <3>2
  <2>7. ScanTyped(pass')
    BY <2>6 DEF ScanTyped, ScanShape, ScanAt
  <2> QED
    BY <1>0, <2>2, <2>6, <2>7, ScanTypes DEF Scans
<1>10. ASSUME NEW s \in pass.list, Backfill(s) PROVE TypesInv'
  <2>1. PICK j : j = [Idle EXCEPT !.at = "state", !.kind = "rewrite", !.slot = s]
    OBVIOUS
  <2>2. pass.at = "backfill" /\ pass' = [pass EXCEPT !.list = pass.list \ {s}] /\ job' = [job EXCEPT ![Scanner] = j] /\ Scans
        /\ UNCHANGED <<messages, maildir, changed, fate>>
    BY <1>10, <2>1 DEF Backfill, Set
  <2>3. pass' \in Scan /\ pass'.at = pass.at /\ pass'.pick = pass.pick /\ pass'.list \subseteq issued
    BY <1>0, <1>p, <2>2 DEF Scan
  <2>4. ScanTyped(pass')
    BY <1>0, <2>2, <2>3 DEF ScanTyped, ScanShape, ScanAt
  <2>5. s \in issued
    BY <1>0
  <2>6. j \in Job /\ JobShape(j, issued)
    BY <1>0, <2>1, <2>5, NewJobs, Zenon
  <2>7. JobsTyped(job', issued')
    BY <1>0, <2>2, <2>6, JobSet DEF TypesInv, Scans
  <2>8. ScannerTurns'
    BY <2>2, <2>3 DEF ScannerTurns, Scans
  <2>9. OthersTyped(maildir', folders', changed', fate', names', events')
    BY <2>2 DEF TypesInv, OthersTyped, Scans
  <2> QED
    BY <1>0, <2>2, <2>4, <2>7, <2>8, <2>9 DEF TypesInv, Scans
<1>11. ASSUME NEW s \in pass.list, DropRow(s) PROVE TypesInv'
  <2>1. PICK at : at = IF pass.list = {s} THEN "idle" ELSE "sweep"
    OBVIOUS
  <2>2. pass.at = "sweep" /\ messages' = [messages EXCEPT ![s] = NoFile] /\ Scans /\ UNCHANGED <<maildir, changed, job, fate>>
        /\ pass' = [pass EXCEPT !.list = pass.list \ {s}, !.at = at]
    BY <1>11, <2>1, Zenon DEF DropRow
  <2>3. pass' \in Scan /\ pass'.at \in {"idle", "sweep"} /\ pass'.pick = pass.pick /\ pass'.list \subseteq issued
    BY <1>0, <1>p, <2>1, <2>2 DEF Scan
  <2>4. ScanTyped(pass')
    BY <1>0, <2>2, <2>3 DEF ScanTyped, ScanShape, ScanAt
  <2>5. s \in Slot
    BY <1>p
  <2>6. RowsTyped(messages', issued)
    BY <1>0, <2>2, <2>5 DEF RowsTyped
  <2> QED
    BY <1>0, <2>2, <2>3, <2>4, <2>6, ScanTypes DEF Scans
<1> QED
  BY <1>2, <1>3, <1>4, <1>5, <1>6, <1>7, <1>8, <1>9, <1>10, <1>11, Zenon DEF ScanAt

\* The start.
LEMMA InitTypes == MaildirInit => TypesInv
<1> SUFFICES ASSUME MaildirInit PROVE TypesInv
  OBVIOUS
<1>1. folders = Box /\ changed = {} /\ pass = NoPass /\ job = [w \in Writer |-> Idle] /\ events = 0
  BY DEF MaildirInit
<1>2. JobsTyped(job, issued)
  BY <1>1, IdleTyped DEF JobsTyped
<1>3. ScanTyped(pass)
  BY <1>1 DEF NoPass, ScanTyped, Scan, ScanShape, ScanAt
<1>4. ScannerTurns
  BY <1>1 DEF ScannerTurns, Busy, Idle, Writer, NoPass
<1>5. CASE /\ messages = [s \in Slot |-> NoFile] /\ issued = {} /\ maildir = {} /\ names = 0
           /\ fate = [l \in Letter |-> "unknown"]
  BY <1>1, <1>2, <1>3, <1>4, <1>5, MaildirAssumption DEF TypesInv, RowsTyped, OthersTyped, Fates
<1>6. ASSUME NEW f \in File, f.name = 1, maildir = {f}, names = 1, NEW s \in Slot, issued = {s},
             messages = [t \in Slot |-> IF t = s THEN Arrived(f.letter, f) ELSE NoFile],
             fate = [[l \in Letter |-> "unknown"] EXCEPT ![f.letter] = "here"]
      PROVE  TypesInv
  <2>1. RowsTyped(messages, issued)
    BY <1>6, ArrivedIs DEF RowsTyped
  <2>2. names \in 0 .. MaxNames
    BY <1>6, FileIs, MaildirAssumption
  <2>3. fate \in [Letter -> Fates]
    BY <1>6 DEF Fates
  <2> QED
    BY <1>1, <1>2, <1>3, <1>4, <1>6, <2>1, <2>2, <2>3, MaildirAssumption DEF TypesInv, OthersTyped
<1> QED
  BY <1>5, <1>6 DEF MaildirInit

-----------------------------------------------------------------------------
(* The Maildir: no letter is lost *)

\* A letter is here, or has been removed on request or clashed with.
IsHere(ft, l) == ft[l] = "here"
Gone(ft, l) == ft[l] \notin {"unknown", "here"}
\* A name belongs to one file, and has been given.
FilesOK(md, nm, ft) ==
  /\ \A f \in md : f.name <= nm /\ ft[f.letter] # "unknown"
  /\ \A f, g \in md : f.name = g.name => f = g
\* A row has a known letter, and its path names a file of that letter.
RowOK(r, nm, ft) ==
  /\ ft[r.letter] # "unknown"
  /\ r.path # NoFile => r.path.letter = r.letter /\ r.path.name <= nm

\* A write that has put its file and not stored the path yet; nobody else
\* has heard of the name it gave.
Writing(j, ft) == j.at \in {"drop", "point"} /\ IsHere(ft, j.new.letter)
Unwritten(n, jb, ft) == \A v \in Writer : Writing(jb[v], ft) => jb[v].new.name # n

\* No row names the file of a write under way.
RowsOK(ms, nm, ft, jb) ==
  \A s \in Slot : ms[s] # NoFile => RowOK(ms[s], nm, ft) /\ (ms[s].path # NoFile => Unwritten(ms[s].path.name, jb, ft))
\* What a write has read or put is of its letter.
JobOK(j, ms, nm, ft) ==
  /\ j.was # NoFile => RowOK(j.was, nm, ft)
  /\ j.was # NoFile /\ ms[j.slot] # NoFile =>
        ms[j.slot].letter = j.was.letter /\ (j.was.path # NoFile => ms[j.slot].path # NoFile)
  /\ j.new # NoFile => j.was # NoFile /\ j.new.letter = j.was.letter /\ j.new.name <= nm
  /\ j.at = "attach" => j.was.path # NoFile
  /\ j.at \in {"unlink", "delete"} /\ ms[j.slot] # NoFile => Gone(ft, ms[j.slot].letter)
\* No other write has heard of the name it gave.
Apart(w, jb, ft) ==
  /\ jb[w].was # NoFile /\ jb[w].was.path # NoFile => Unwritten(jb[w].was.path.name, jb, ft)
  /\ jb[w].new # NoFile => \A v \in Writer \ {w} : Writing(jb[v], ft) => jb[v].new.name # jb[w].new.name
\* Every write is so.
JobsOK(jb, ms, nm, ft) == \A w \in Writer : JobOK(jb[w], ms, nm, ft) /\ Apart(w, jb, ft)
\* The file a write has put is there.
WrittenOK(jb, md, ft) ==
  \A w \in Writer : Writing(jb[w], ft) => \E f \in md : f.name = jb[w].new.name /\ f.letter = jb[w].new.letter
\* What the scanner has in hand fits its row, and a copy it will remove is not
\* the only file of its letter.
PickOK(ps, ms, md, nm, ft, jb, us) ==
  /\ ps.pick # NoFile => ps.pick.name <= nm /\ ft[ps.pick.letter] # "unknown" /\ Unwritten(ps.pick.name, jb, ft)
  /\ ps.at \in {"update", "adopt"} =>
        /\ ps.hit \in us /\ (ms[ps.hit] # NoFile => ms[ps.hit].letter = ps.pick.letter)
        /\ IsHere(ft, ps.pick.letter) => \E f \in md : f.letter = ps.pick.letter
  /\ ps.at = "copy" /\ IsHere(ft, ps.pick.letter) => \E f \in md : f.letter = ps.pick.letter /\ f.name # ps.pick.name
  /\ ps.at = "sweep" => \A s \in ps.list : ms[s] # NoFile => ms[s].path # NoFile
\* A letter that is here has a file, or a row that has none yet.
Kept(ms, md, ft) ==
  \A l \in Letter : IsHere(ft, l) =>
     \/ \E f \in md : f.letter = l
     \/ \E s \in Slot : ms[s] # NoFile /\ ms[s].letter = l /\ ms[s].path = NoFile
\* The second part of the invariant.
KeptInv ==
  /\ FilesOK(maildir, names, fate) /\ RowsOK(messages, names, fate, job) /\ JobsOK(job, messages, names, fate)
  /\ WrittenOK(job, maildir, fate) /\ PickOK(pass, messages, maildir, names, fate, job, issued)
  /\ Kept(messages, maildir, fate)

\* It says that no letter is lost.
LEMMA KeptGives == KeptInv => LetterKept
BY DEF KeptInv, Kept, LetterKept, Live, IsHere

\* What every step does: names are given once, a letter's fate only gets
\* worse, a row keeps its letter and never loses its path.
Ages(ft, ft2) == \A l \in Letter : ft[l] # "unknown" => ft2[l] # "unknown" /\ (ft2[l] = "here" => ft[l] = "here")
Follows(ms, ms2, us) ==
  \A s \in us : ms2[s] # NoFile => /\ ms[s] # NoFile /\ ms2[s].letter = ms[s].letter
                                   /\ ms[s].path # NoFile => ms2[s].path # NoFile
\* What becomes of the files of a letter that is still here: each is there
\* under its name, or another one is, which the scanner has not in hand either.
Stays(md, md2, ft2) == \A f \in md : IsHere(ft2, f.letter) => \E g \in md2 : g.name = f.name /\ g.letter = f.letter
Remains(md, md2, ft2, pk) ==
  \A f \in md : IsHere(ft2, f.letter) =>
     \E g \in md2 : g.letter = f.letter /\ (pk # NoFile /\ f.name # pk.name => g.name # pk.name)

\* Files that stay remain.
LEMMA StaysRemains == ASSUME NEW md, NEW md2, NEW ft2, NEW pk, Stays(md, md2, ft2) PROVE Remains(md, md2, ft2, pk)
BY DEF Stays, Remains

\* A row and a write stay what they are when names are given and letters removed.
LEMMA RowLater ==
  ASSUME NEW r \in Row, NEW nm \in Nat, NEW nm2 \in Nat, NEW ft, NEW ft2, RowOK(r, nm, ft), nm <= nm2, Ages(ft, ft2)
  PROVE  RowOK(r, nm2, ft2)
<1>1. r.letter \in Letter /\ r.path \in File \cup {NoFile} /\ (r.path # NoFile => r.path.name \in Nat)
  BY RowIs, FileIs
<1> QED
  BY <1>1 DEF RowOK, Ages

\* A write is not disturbed by others.
LEMMA JobLater ==
  ASSUME NEW j \in Job, NEW us \in SUBSET Slot, JobShape(j, us), NEW ms, RowsTyped(ms, us), NEW ms2, NEW nm \in Nat, NEW nm2 \in Nat,
         NEW ft, NEW ft2, JobOK(j, ms, nm, ft), nm <= nm2, Ages(ft, ft2), Follows(ms, ms2, us)
  PROVE  JobOK(j, ms2, nm2, ft2)
<1>1. j.was \in Row \cup {NoFile} /\ j.new \in File \cup {NoFile}
  BY DEF Job
<1>2. j.was # NoFile => RowOK(j.was, nm2, ft2)
  BY <1>1, RowLater DEF JobOK
<1>3. j.was # NoFile \/ j.at \in {"unlink", "delete"} => j.slot \in us
  BY DEF JobShape
<1>4. j.was # NoFile /\ ms2[j.slot] # NoFile =>
        ms2[j.slot].letter = j.was.letter /\ (j.was.path # NoFile => ms2[j.slot].path # NoFile)
  BY <1>3 DEF JobOK, Follows
<1>5. j.new # NoFile => j.was # NoFile /\ j.new.letter = j.was.letter /\ j.new.name <= nm2
  BY <1>1, FileIs DEF JobOK
<1>6. j.at \in {"unlink", "delete"} /\ ms2[j.slot] # NoFile => Gone(ft2, ms2[j.slot].letter)
  <2> SUFFICES ASSUME j.at \in {"unlink", "delete"}, ms2[j.slot] # NoFile PROVE Gone(ft2, ms2[j.slot].letter)
    OBVIOUS
  <2>1. j.slot \in us /\ ms[j.slot] # NoFile /\ ms2[j.slot].letter = ms[j.slot].letter /\ Gone(ft, ms[j.slot].letter)
    BY <1>3 DEF JobOK, Follows
  <2>2. ms[j.slot].letter \in Letter
    BY <2>1, RowIs DEF RowsTyped
  <2> QED
    BY <2>1, <2>2 DEF Gone, Ages
<1> QED
  BY <1>2, <1>4, <1>5, <1>6 DEF JobOK

\* A write is under way for a letter that is here only if it was before.
LEMMA WritingBefore ==
  ASSUME NEW j \in Job, NEW us, JobShape(j, us), NEW ms, NEW nm, NEW ft, NEW ft2, JobOK(j, ms, nm, ft), Ages(ft, ft2), Writing(j, ft2)
  PROVE  Writing(j, ft)
<1>1. j.new # NoFile /\ j.new.letter = j.was.letter /\ j.was \in Row /\ ft[j.was.letter] # "unknown"
  BY DEF Writing, JobShape, JobOK, RowOK, Job
<1>2. j.was.letter \in Letter
  BY <1>1, RowIs
<1> QED
  BY <1>1, <1>2 DEF Writing, IsHere, Ages

\* A name nobody is writing stays so while no write puts a file.
LEMMA FreeLater ==
  ASSUME NEW n, NEW jb, NEW jb2, NEW ft, NEW ft2, Unwritten(n, jb, ft),
         \A v \in Writer : Writing(jb2[v], ft2) => Writing(jb[v], ft) /\ jb2[v].new = jb[v].new
  PROVE  Unwritten(n, jb2, ft2)
BY DEF Unwritten

\* Nothing in the table or in the files is worse than before.
LEMMA KeptLater ==
  ASSUME NEW ms, NEW ms2, NEW md, NEW md2, NEW ft, NEW ft2 \in [Letter -> Fates], NEW pk, Kept(ms, md, ft), Remains(md, md2, ft2, pk),
         Ages(ft, ft2), RowsTyped(ms, issued), md \subseteq File,
         \A s \in Slot : ms[s] # NoFile /\ ms[s].path = NoFile /\ IsHere(ft2, ms[s].letter) =>
            \/ ms2[s] # NoFile /\ ms2[s].letter = ms[s].letter /\ ms2[s].path = NoFile
            \/ \E f \in md2 : f.letter = ms[s].letter,
         \A l \in Letter : ft[l] = "unknown" /\ IsHere(ft2, l) =>
            \/ \E f \in md2 : f.letter = l
            \/ \E s \in Slot : ms2[s] # NoFile /\ ms2[s].letter = l /\ ms2[s].path = NoFile
  PROVE  Kept(ms2, md2, ft2)
<1> SUFFICES ASSUME NEW l \in Letter, IsHere(ft2, l)
             PROVE  \/ \E f \in md2 : f.letter = l
                    \/ \E s \in Slot : ms2[s] # NoFile /\ ms2[s].letter = l /\ ms2[s].path = NoFile
  BY DEF Kept
<1>1. CASE ft[l] = "unknown"
  BY <1>1
<1>2. CASE ft[l] # "unknown"
  <2>1. IsHere(ft, l)
    BY <1>2 DEF Ages, IsHere
  <2>2. ASSUME NEW f \in md, f.letter = l PROVE \E g \in md2 : g.letter = l
    BY <2>2 DEF Remains
  <2>3. ASSUME NEW s \in Slot, ms[s] # NoFile, ms[s].letter = l, ms[s].path = NoFile
        PROVE  \/ \E f \in md2 : f.letter = l
               \/ \E t \in Slot : ms2[t] # NoFile /\ ms2[t].letter = l /\ ms2[t].path = NoFile
    BY <2>3
  <2> QED
    BY <2>1, <2>2, <2>3 DEF Kept
<1> QED
  BY <1>1, <1>2

\* What the scanner has in hand, while it waits.
LEMMA PickLater ==
  ASSUME TypesInv, TypesInv', KeptInv, names <= names', Ages(fate, fate'), issued \subseteq issued', Follows(messages, messages', issued),
         Remains(maildir, maildir', fate', pass.pick), pass.pick # NoFile => Unwritten(pass.pick.name, job', fate'),
         pass'.at = pass.at, pass'.pick = pass.pick, pass'.hit = pass.hit, pass'.list = pass.list
  PROVE  PickOK(pass', messages', maildir', names', fate', job', issued')
<1>1. pass.pick \in File \cup {NoFile} /\ names \in Nat /\ names' \in Nat /\ pass.list \subseteq issued
      /\ (pass.at \in ScanAt => pass.pick # NoFile)
  BY DEF TypesInv, ScanTyped, ScanShape, Scan, OthersTyped, ScannerTurns
<1>2. PickOK(pass, messages, maildir, names, fate, job, issued)
  BY DEF KeptInv
<1>3. ASSUME pass.pick # NoFile
      PROVE  /\ pass.pick.name <= names' /\ fate'[pass.pick.letter] # "unknown"
             /\ IsHere(fate', pass.pick.letter) => IsHere(fate, pass.pick.letter)
  <2>1. pass.pick.name <= names /\ fate[pass.pick.letter] # "unknown"
    BY <1>2, <1>3 DEF PickOK
  <2>2. pass.pick.name \in Nat /\ pass.pick.letter \in Letter
    BY <1>1, <1>3, FileIs
  <2> QED
    BY <1>1, <2>1, <2>2 DEF Ages, IsHere
<1>4. ASSUME pass.at \in {"update", "adopt"}
      PROVE  /\ pass.hit \in issued' /\ (messages'[pass.hit] # NoFile => messages'[pass.hit].letter = pass.pick.letter)
             /\ IsHere(fate', pass.pick.letter) => \E f \in maildir' : f.letter = pass.pick.letter
  <2>1. pass.hit \in issued /\ (messages[pass.hit] # NoFile => messages[pass.hit].letter = pass.pick.letter)
    BY <1>2, <1>4 DEF PickOK
  <2>2. messages'[pass.hit] # NoFile => messages'[pass.hit].letter = pass.pick.letter
    BY <2>1 DEF Follows
  <2>3. ASSUME IsHere(fate', pass.pick.letter) PROVE \E f \in maildir' : f.letter = pass.pick.letter
    <3>1. IsHere(fate, pass.pick.letter)
      BY <1>1, <1>3, <1>4, <2>3 DEF ScanAt
    <3>2. PICK f \in maildir : f.letter = pass.pick.letter
      BY <1>2, <1>4, <3>1 DEF PickOK
    <3> QED
      BY <2>3, <3>2 DEF Remains
  <2> QED
    BY <2>1, <2>2, <2>3
<1>5. ASSUME pass.at = "copy", IsHere(fate', pass.pick.letter)
      PROVE  \E f \in maildir' : f.letter = pass.pick.letter /\ f.name # pass.pick.name
  <2>1. IsHere(fate, pass.pick.letter)
    BY <1>1, <1>3, <1>5 DEF ScanAt
  <2>2. PICK f \in maildir : f.letter = pass.pick.letter /\ f.name # pass.pick.name
    BY <1>2, <1>5, <2>1 DEF PickOK
  <2> QED
    BY <1>1, <1>5, <2>2 DEF Remains, ScanAt
<1>6. ASSUME pass.at = "sweep", NEW s \in pass.list, messages'[s] # NoFile PROVE messages'[s].path # NoFile
  <2>1. s \in issued /\ messages[s] # NoFile
    BY <1>1, <1>6 DEF Follows
  <2>2. messages[s].path # NoFile
    BY <1>2, <1>6, <2>1 DEF PickOK
  <2> QED
    BY <1>6, <2>1, <2>2 DEF Follows
<1> QED
  BY <1>3, <1>4, <1>5, <1>6 DEF PickOK

\* The file of a write under way is not lost.
LEMMA WrittenLater ==
  ASSUME NEW jb, NEW jb2, NEW md, NEW md2, NEW ft, NEW ft2, WrittenOK(jb, md, ft), Stays(md, md2, ft2),
         \A v \in Writer : Writing(jb2[v], ft2) => Writing(jb[v], ft) /\ jb2[v].new = jb[v].new
  PROVE  WrittenOK(jb2, md2, ft2)
<1> SUFFICES ASSUME NEW w \in Writer, Writing(jb2[w], ft2)
             PROVE  \E f \in md2 : f.name = jb2[w].new.name /\ f.letter = jb2[w].new.letter
  BY DEF WrittenOK
<1>1. PICK f \in md : f.name = jb2[w].new.name /\ f.letter = jb2[w].new.letter
  BY DEF WrittenOK
<1>2. IsHere(ft2, f.letter)
  BY <1>1 DEF Writing
<1> QED
  BY <1>1, <1>2 DEF Stays

\* A step that puts no file for a write.
LEMMA KeptStep ==
  ASSUME TypesInv, TypesInv', KeptInv, names <= names', Ages(fate, fate'), issued \subseteq issued', Follows(messages, messages', issued),
         FilesOK(maildir', names', fate'), WrittenOK(job', maildir', fate'), Kept(messages', maildir', fate'),
         PickOK(pass', messages', maildir', names', fate', job', issued'),
         NEW x \in Writer, \A v \in Writer \ {x} : job'[v] = job[v],
         JobOK(job'[x], messages', names', fate'),
         Writing(job'[x], fate') => Writing(job[x], fate) /\ job'[x].new = job[x].new,
         job'[x].was # NoFile /\ job'[x].was.path # NoFile =>
            Unwritten(job'[x].was.path.name, job, fate) \/ Unwritten(job'[x].was.path.name, job', fate'),
         job'[x].new # NoFile => job'[x].new = job[x].new \/ Unwritten(job'[x].new.name, job, fate),
         \A s \in Slot : messages'[s] # NoFile =>
            \/ messages[s] # NoFile /\ messages'[s].letter = messages[s].letter /\ messages'[s].path = messages[s].path
            \/ /\ RowOK(messages'[s], names', fate')
               /\ messages'[s].path # NoFile => Unwritten(messages'[s].path.name, job', fate')
  PROVE  KeptInv'
<1>1. /\ names \in Nat /\ names' \in Nat /\ job \in [Writer -> Job] /\ job' \in [Writer -> Job] /\ issued \subseteq Slot
      /\ RowsTyped(messages, issued) /\ RowsTyped(messages', issued') /\ \A v \in Writer : JobShape(job[v], issued)
  BY DEF TypesInv, OthersTyped, JobsTyped, RowsTyped
<1>2. /\ RowsOK(messages, names, fate, job) /\ JobsOK(job, messages, names, fate) /\ WrittenOK(job, maildir, fate)
  BY DEF KeptInv
<1>3. \A v \in Writer : Writing(job'[v], fate') => Writing(job[v], fate) /\ job'[v].new = job[v].new
  <2> SUFFICES ASSUME NEW v \in Writer, v # x, Writing(job'[v], fate') PROVE Writing(job[v], fate) /\ job'[v].new = job[v].new
    OBVIOUS
  <2>1. job'[v] = job[v] /\ JobOK(job[v], messages, names, fate) /\ job[v] \in Job
    BY <1>1, <1>2 DEF JobsOK
  <2> QED
    BY <1>1, <2>1, WritingBefore
<1>4. RowsOK(messages', names', fate', job')
  <2> SUFFICES ASSUME NEW s \in Slot, messages'[s] # NoFile,
                      messages[s] # NoFile, messages'[s].letter = messages[s].letter, messages'[s].path = messages[s].path
               PROVE  RowOK(messages'[s], names', fate') /\ (messages'[s].path # NoFile => Unwritten(messages'[s].path.name, job', fate'))
    BY DEF RowsOK
  <2>1. messages[s] \in Row /\ RowOK(messages[s], names, fate)
    BY <1>1, <1>2 DEF RowsOK, RowsTyped
  <2>2. RowOK(messages[s], names', fate')
    BY <1>1, <2>1, RowLater
  <2>3. messages[s].path # NoFile => Unwritten(messages[s].path.name, job', fate')
    BY <1>2, <1>3, FreeLater DEF RowsOK
  <2> QED
    BY <2>2, <2>3 DEF RowOK
<1>5. JobsOK(job', messages', names', fate')
  <2> SUFFICES ASSUME NEW w \in Writer PROVE JobOK(job'[w], messages', names', fate') /\ Apart(w, job', fate')
    BY DEF JobsOK
  <2>1. JobOK(job'[w], messages', names', fate')
    <3>1. CASE w = x
      BY <3>1
    <3>2. CASE w # x
      <4>1. job'[w] = job[w] /\ JobOK(job[w], messages, names, fate) /\ job[w] \in Job
        BY <1>1, <1>2, <3>2 DEF JobsOK
      <4> QED
        BY <1>1, <4>1, JobLater
    <3> QED
      BY <3>1, <3>2
  <2>2. ASSUME job'[w].was # NoFile, job'[w].was.path # NoFile PROVE Unwritten(job'[w].was.path.name, job', fate')
    <3>1. CASE w = x
      BY <1>3, <2>2, <3>1, FreeLater
    <3>2. CASE w # x
      BY <1>2, <1>3, <2>2, <3>2, FreeLater DEF JobsOK, Apart
    <3> QED
      BY <3>1, <3>2
  <2>3. ASSUME job'[w].new # NoFile, NEW v \in Writer, v # w, Writing(job'[v], fate') PROVE job'[v].new.name # job'[w].new.name
    <3>0. Writing(job[v], fate) /\ job'[v].new = job[v].new
      BY <1>3, <2>3
    <3>1. CASE job'[w].new = job[w].new
      BY <1>2, <2>3, <3>0, <3>1 DEF JobsOK, Apart
    <3>2. CASE w = x /\ Unwritten(job'[w].new.name, job, fate)
      BY <2>3, <3>0, <3>2 DEF Unwritten
    <3> QED
      BY <2>3, <3>1, <3>2
  <2> QED
    BY <2>1, <2>2, <2>3 DEF Apart
<1> QED
  BY <1>4, <1>5 DEF KeptInv

-----------------------------------------------------------------------------
(* Steps that lose nothing *)

\* One writer moves on: it puts no file, and has heard of no new name.
JobMoves(x) ==
  /\ \A v \in Writer \ {x} : job'[v] = job[v]
  /\ JobOK(job'[x], messages', names', fate')
  /\ Writing(job'[x], fate') => Writing(job[x], fate) /\ job'[x].new = job[x].new
  /\ job'[x].was # NoFile /\ job'[x].was.path # NoFile => Unwritten(job'[x].was.path.name, job, fate)
  /\ job'[x].new # NoFile => job'[x].new = job[x].new \/ Unwritten(job'[x].new.name, job, fate)
\* Rows change their flags and folder, or go, and what goes is not needed.
RowsQuiet ==
  \A s \in Slot :
    /\ messages'[s] # NoFile =>
         messages[s] # NoFile /\ messages'[s].letter = messages[s].letter /\ messages'[s].path = messages[s].path
    /\ messages[s] # NoFile /\ messages'[s] = NoFile => messages[s].path # NoFile \/ Gone(fate', messages[s].letter)

\* The parts of the invariant, as the steps use them.
LEMMA Parts ==
  ASSUME TypesInv, KeptInv
  PROVE  /\ names \in Nat /\ job \in [Writer -> Job] /\ issued \subseteq Slot /\ RowsTyped(messages, issued)
         /\ (\A v \in Writer : JobShape(job[v], issued)) /\ maildir \subseteq File /\ fate \in [Letter -> Fates] /\ Scanner \in Writer
         /\ FilesOK(maildir, names, fate) /\ RowsOK(messages, names, fate, job) /\ JobsOK(job, messages, names, fate)
         /\ WrittenOK(job, maildir, fate) /\ PickOK(pass, messages, maildir, names, fate, job, issued) /\ Kept(messages, maildir, fate)
BY DEF TypesInv, OthersTyped, JobsTyped, RowsTyped, KeptInv, Writer

\* A row is of the right kind and names no file of a write under way.
LEMMA RowHere ==
  ASSUME TypesInv, KeptInv, NEW s \in Slot, messages[s] # NoFile
  PROVE  /\ messages[s] \in Row /\ s \in issued /\ RowOK(messages[s], names, fate)
         /\ messages[s].path # NoFile => Unwritten(messages[s].path.name, job, fate)
BY DEF TypesInv, KeptInv, RowsOK, RowsTyped

\* Quiet rows keep their letters and paths.
LEMMA QuietRows ==
  ASSUME TypesInv, RowsQuiet
  PROVE  Follows(messages, messages', issued)
BY DEF TypesInv, RowsTyped, RowsQuiet, Follows

\* No write has put a file it had not put before.
LEMMA MovesWriting ==
  ASSUME TypesInv, KeptInv, Ages(fate, fate'), NEW x \in Writer, JobMoves(x)
  PROVE  \A v \in Writer : Writing(job'[v], fate') => Writing(job[v], fate) /\ job'[v].new = job[v].new
<1> SUFFICES ASSUME NEW v \in Writer, v # x, Writing(job'[v], fate') PROVE Writing(job[v], fate) /\ job'[v].new = job[v].new
  BY DEF JobMoves
<1>1. job'[v] = job[v]
  BY DEF JobMoves
<1>2. JobOK(job[v], messages, names, fate) /\ job[v] \in Job /\ JobShape(job[v], issued)
  BY Parts DEF JobsOK
<1> QED
  BY <1>1, <1>2, WritingBefore

\* The file the scanner has in hand is no file of a write under way.
LEMMA PickFree ==
  ASSUME TypesInv, KeptInv, Ages(fate, fate'), NEW x \in Writer, JobMoves(x), pass.pick # NoFile
  PROVE  Unwritten(pass.pick.name, job', fate')
<1>1. Unwritten(pass.pick.name, job, fate)
  BY Parts DEF PickOK
<1> QED
  BY <1>1, MovesWriting, FreeLater

\* A step in which rows are quiet, files stay, and one writer at most moves.
LEMMA QuietStep ==
  ASSUME TypesInv, TypesInv', KeptInv, names <= names', Ages(fate, fate'), issued \subseteq issued', RowsQuiet,
         FilesOK(maildir', names', fate'), Stays(maildir, maildir', fate'),
         \A l \in Letter : fate[l] = "unknown" /\ IsHere(fate', l) => \E f \in maildir' : f.letter = l,
         PickOK(pass', messages', maildir', names', fate', job', issued'),
         NEW x \in Writer, JobMoves(x)
  PROVE  KeptInv'
<1>1. Follows(messages, messages', issued)
  BY QuietRows
<1>2. Kept(messages', maildir', fate')
  <2>1. \A s \in Slot : messages[s] # NoFile /\ messages[s].path = NoFile /\ IsHere(fate', messages[s].letter) =>
            messages'[s] # NoFile /\ messages'[s].letter = messages[s].letter /\ messages'[s].path = NoFile
    BY DEF RowsQuiet, Gone, IsHere
  <2>2. fate' \in [Letter -> Fates]
    BY DEF TypesInv, OthersTyped
  <2> QED
    BY <2>1, <2>2, Parts, KeptLater, StaysRemains
<1>3. \A s \in Slot : messages'[s] # NoFile =>
          messages[s] # NoFile /\ messages'[s].letter = messages[s].letter /\ messages'[s].path = messages[s].path
  BY DEF RowsQuiet
<1>4. WrittenOK(job', maildir', fate')
  BY MovesWriting, WrittenLater, Parts
<1> QED
  BY <1>1, <1>2, <1>3, <1>4, KeptStep DEF JobMoves

\* The same, of anyone but the scanner.
LEMMA StirStep ==
  ASSUME TypesInv, TypesInv', KeptInv, Stir, names <= names', Ages(fate, fate'), issued \subseteq issued', RowsQuiet,
         FilesOK(maildir', names', fate'), Stays(maildir, maildir', fate'),
         \A l \in Letter : fate[l] = "unknown" /\ IsHere(fate', l) => \E f \in maildir' : f.letter = l,
         NEW x \in Writer, JobMoves(x)
  PROVE  KeptInv'
<1>1. pass'.at = pass.at /\ pass'.pick = pass.pick /\ pass'.hit = pass.hit /\ pass'.list = pass.list
  BY StirTyped DEF TypesInv
<1>2. PickOK(pass', messages', maildir', names', fate', job', issued')
  BY <1>1, QuietRows, PickFree, StaysRemains, PickLater
<1> QED
  BY <1>2, QuietStep

\* No write moves.
LEMMA NobodyMoves ==
  ASSUME TypesInv, TypesInv', KeptInv, names <= names', Ages(fate, fate'), Follows(messages, messages', issued), job' = job
  PROVE  JobMoves(Scanner)
<1>1. Scanner \in Writer /\ JobOK(job[Scanner], messages, names, fate) /\ Apart(Scanner, job, fate)
      /\ job[Scanner] \in Job /\ JobShape(job[Scanner], issued)
  BY Parts DEF JobsOK
<1>2. JobOK(job[Scanner], messages', names', fate')
  <2>1. names \in Nat /\ names' \in Nat /\ issued \in SUBSET Slot /\ RowsTyped(messages, issued)
    BY DEF TypesInv, OthersTyped, RowsTyped
  <2> QED
    BY <1>1, <2>1, JobLater
<1>3. Writing(job[Scanner], fate') => Writing(job[Scanner], fate)
  BY <1>1, WritingBefore
<1> QED
  BY <1>1, <1>2, <1>3 DEF JobMoves, Apart

\* A letter that is removed stays removed.
LEMMA FateAges ==
  ASSUME NEW ft \in [Letter -> Fates], NEW l \in Letter, NEW v, NEW ft2, ft2 = [ft EXCEPT ![l] = v],
         v \in {"removed", "clashed"} \/ (v = "here" /\ ft[l] = "unknown")
  PROVE  Ages(ft, ft2) /\ ft2[l] = v /\ (\A k \in Letter : k # l => ft2[k] = ft[k])
BY DEF Ages, Fates

\* Requests that begin change no file and no name.
LEMMA SameFiles ==
  ASSUME TypesInv, KeptInv, Ages(fate, fate'), maildir' = maildir, names' = names
  PROVE  FilesOK(maildir', names', fate') /\ Stays(maildir, maildir', fate')
<1>1. \A f \in maildir : f.letter \in Letter
  BY Parts, FileIs
<1> QED
  BY <1>1, Parts DEF FilesOK, Ages, Stays

\* The write a request or the scanner begins.
LEMMA JobBegins ==
  ASSUME TypesInv, KeptInv, NEW x \in Writer, NEW j, job' = [job EXCEPT ![x] = j], j.new = NoFile, j.at \notin {"attach", "drop", "point"},
         j.was # NoFile => RowOK(j.was, names', fate'),
         j.was # NoFile /\ messages'[j.slot] # NoFile =>
            messages'[j.slot].letter = j.was.letter /\ (j.was.path # NoFile => messages'[j.slot].path # NoFile),
         j.was # NoFile /\ j.was.path # NoFile => Unwritten(j.was.path.name, job, fate),
         j.at \in {"unlink", "delete"} /\ messages'[j.slot] # NoFile => Gone(fate', messages'[j.slot].letter)
  PROVE  JobMoves(x)
<1>1. job'[x] = j /\ \A v \in Writer \ {x} : job'[v] = job[v]
  BY Parts
<1>2. JobOK(j, messages', names', fate')
  BY DEF JobOK
<1>3. ~Writing(j, fate')
  BY DEF Writing
<1> QED
  BY <1>1, <1>2, <1>3 DEF JobMoves

-----------------------------------------------------------------------------
(* No letter is lost, step by step *)

\* Requests of the web client lose no letter.
LEMMA RequestKept == ASSUME TypesInv, TypesInv', KeptInv, UserRequest PROVE KeptInv'
<1>0. /\ RowsTyped(messages, issued) /\ issued \subseteq Slot /\ fate \in [Letter -> Fates] /\ names \in Nat
      /\ job \in [Writer -> Job] /\ \A e \in Editor : e \in Writer
  BY Parts DEF Writer
<1>a. Ages(fate, fate)
  BY DEF Ages
<1>b. ASSUME NEW e \in Editor, NEW j, Start(e, j)
      PROVE  /\ job' = [job EXCEPT ![e] = j] /\ Stir /\ maildir' = maildir /\ names' = names
  BY <1>b DEF Start, Set
<1>r. messages' = messages => RowsQuiet
  BY DEF RowsQuiet
<1>n. fate' = fate => \A l \in Letter : fate[l] = "unknown" /\ IsHere(fate', l) => \E f \in maildir' : f.letter = l
  BY DEF IsHere
<1>1. ASSUME NEW e \in Editor, NEW s \in Live, NEW read \in BOOLEAN, NEW star \in BOOLEAN, MarkMail(e, s, read, star)
      PROVE  KeptInv'
  <2>1. PICK j : j = [Idle EXCEPT !.at = "rename", !.kind = "flag", !.slot = s, !.was = messages[s],
                          !.mark = (read # messages[s].read), !.read = read, !.star = star]
    OBVIOUS
  <2>2. Start(e, j) /\ UNCHANGED <<messages, issued, folders, fate>>
    BY <1>1, <2>1, Zenon DEF MarkMail
  <2>3. j.at = "rename" /\ j.slot = s /\ j.was = messages[s] /\ j.new = NoFile
    BY <2>1 DEF Idle
  <2>4. messages[s] # NoFile /\ RowOK(messages[s], names, fate)
        /\ (messages[s].path # NoFile => Unwritten(messages[s].path.name, job, fate))
    BY RowHere DEF Live
  <2>5. JobMoves(e)
    BY <1>0, <1>b, <2>2, <2>3, <2>4, JobBegins
  <2> QED
    BY <1>0, <1>a, <1>b, <1>r, <1>n, <2>2, <2>5, SameFiles, StirStep
<1>2. ASSUME NEW e \in Editor, NEW s \in Live, NEW to \in Box, MoveMail(e, s, to)
      PROVE  KeptInv'
  <2>1. PICK j : j = [Idle EXCEPT !.at = "rename", !.kind = "move", !.slot = s, !.was = messages[s], !.to = to]
    OBVIOUS
  <2>2. Start(e, j) /\ UNCHANGED <<messages, issued, fate>>
    BY <1>2, <2>1, Zenon DEF MoveMail
  <2>3. j.at = "rename" /\ j.slot = s /\ j.was = messages[s] /\ j.new = NoFile
    BY <2>1 DEF Idle
  <2>4. messages[s] # NoFile /\ RowOK(messages[s], names, fate)
        /\ (messages[s].path # NoFile => Unwritten(messages[s].path.name, job, fate))
    BY RowHere DEF Live
  <2>5. JobMoves(e)
    BY <1>0, <1>b, <2>2, <2>3, <2>4, JobBegins
  <2> QED
    BY <1>0, <1>a, <1>b, <1>r, <1>n, <2>2, <2>5, SameFiles, StirStep
<1>3. ASSUME NEW e \in Editor, NEW s \in Live, PurgeMail(e, s)
      PROVE  KeptInv'
  <2>1. PICK j : j = [Idle EXCEPT !.at = "unlink", !.kind = "purge", !.slot = s]
    OBVIOUS
  <2>2. Start(e, j) /\ UNCHANGED <<messages, issued>> /\ fate' = [fate EXCEPT ![messages[s].letter] = "removed"]
    BY <1>3, <2>1, Zenon DEF PurgeMail
  <2>3. j.at = "unlink" /\ j.slot = s /\ j.was = NoFile /\ j.new = NoFile
    BY <2>1 DEF Idle
  <2>4. messages[s].letter \in Letter
    BY RowHere, RowIs DEF Live
  <2>5. Ages(fate, fate') /\ fate'[messages[s].letter] = "removed"
        /\ \A l \in Letter : l # messages[s].letter => fate'[l] = fate[l]
    <3>1. PICK k \in Letter : k = messages[s].letter
      BY <2>4
    <3>2. fate \in [Letter -> Fates] /\ fate' = [fate EXCEPT ![k] = "removed"]
      BY <1>0, <2>2, <3>1, Zenon
    <3>3. Ages(fate, fate') /\ fate'[k] = "removed" /\ \A l \in Letter : l # k => fate'[l] = fate[l]
      BY <3>2, FateAges
    <3> QED
      BY <3>1, <3>3, Zenon
  <2>6. \A l \in Letter : fate[l] = "unknown" /\ IsHere(fate', l) => \E f \in maildir' : f.letter = l
    BY <2>5 DEF IsHere
  <2>7. JobMoves(e)
    BY <1>0, <1>b, <2>2, <2>3, <2>5, JobBegins DEF Gone
  <2>8. FilesOK(maildir', names', fate') /\ Stays(maildir, maildir', fate')
    BY <1>b, <2>2, <2>5, SameFiles
  <2>9. names <= names' /\ issued \subseteq issued' /\ e \in Writer /\ RowsQuiet /\ Stir /\ Ages(fate, fate')
    BY <1>0, <1>b, <1>r, <2>2, <2>5
  <2> QED
    BY <2>6, <2>7, <2>8, <2>9, StirStep
<1>4. ASSUME NEW e \in Editor, NEW s \in Live, SaveDraft(e, s)
      PROVE  KeptInv'
  <2>1. PICK j : j = [Idle EXCEPT !.at = "state", !.kind = "rewrite", !.slot = s]
    OBVIOUS
  <2>2. PICK r : r = [messages[s] EXCEPT !.read = TRUE, !.aged = FALSE]
    OBVIOUS
  <2>3. messages[s] \in Row /\ s \in Slot /\ messages[s] # NoFile
    BY RowHere DEF Live
  <2>4. Start(e, j) /\ UNCHANGED <<issued, folders, fate>> /\ messages' = [messages EXCEPT ![s] = r]
    BY <1>4, <2>1, <2>2, <2>3 DEF SaveDraft
  <2>5. j.at = "state" /\ j.was = NoFile /\ j.new = NoFile
    BY <2>1 DEF Idle
  <2>6. r # NoFile /\ r.letter = messages[s].letter /\ r.path = messages[s].path
    <3>1. r \in Row /\ r.letter = messages[s].letter /\ r.path = messages[s].path
      BY <2>2, <2>3 DEF Row
    <3> QED
      BY <3>1, RowIs
  <2>7. RowsQuiet
    BY <1>0, <2>3, <2>4, <2>6 DEF RowsQuiet, RowsTyped
  <2>8. JobMoves(e)
    BY <1>0, <1>b, <2>4, <2>5, JobBegins
  <2> QED
    BY <1>0, <1>a, <1>b, <1>n, <2>4, <2>7, <2>8, SameFiles, StirStep
<1>5. ASSUME NEW e \in Editor, NEW l \in Letter, NEW f \in Box, StoreMail(e, l, f)
      PROVE  KeptInv'
  <2>1. PICK s : s = NewSlot
    OBVIOUS
  <2>2. s \in Slot /\ s \notin issued
    BY <1>5, <2>1 DEF StoreMail, NewSlot, Unused
  <2>3. PICK j : j = [Idle EXCEPT !.at = "state", !.kind = "store", !.slot = s]
    OBVIOUS
  <2>4. PICK r : r = [letter |-> l, folder |-> f, path |-> NoFile, read |-> TRUE, star |-> FALSE, aged |-> FALSE]
    OBVIOUS
  <2>5. Start(e, j) /\ issued' = issued \cup {s} /\ messages' = [messages EXCEPT ![s] = r]
        /\ fate[l] = "unknown" /\ fate' = [fate EXCEPT ![l] = "here"]
    BY <1>5, <2>1, <2>3, <2>4, Zenon DEF StoreMail
  <2>6. r # NoFile /\ r.letter = l /\ r.path = NoFile
    <3>1. r \in Row /\ r.letter = l /\ r.path = NoFile
      BY <2>4 DEF Row
    <3> QED
      BY <3>1, RowIs
  <2>7. j.at = "state" /\ j.was = NoFile /\ j.new = NoFile
    BY <2>3 DEF Idle
  <2>8. Ages(fate, fate') /\ fate'[l] = "here" /\ \A k \in Letter : k # l => fate'[k] = fate[k]
    BY <1>0, <2>5, FateAges
  <2>9. messages'[s] = r /\ \A t \in Slot : t # s => messages'[t] = messages[t]
    BY <1>0, <2>2, <2>5 DEF RowsTyped
  <2>10. Follows(messages, messages', issued)
    BY <1>0, <2>2, <2>9 DEF Follows
  <2>11. JobMoves(e)
    BY <1>0, <1>b, <2>5, <2>7, JobBegins
  <2>12. maildir' = maildir /\ names' = names /\ Stir
    BY <1>b, <2>5
  <2>13. FilesOK(maildir', names', fate') /\ Stays(maildir, maildir', fate')
    BY <2>8, <2>12, SameFiles
  <2>14. Kept(messages', maildir', fate')
    <3>1. \A t \in Slot : messages[t] # NoFile /\ messages[t].path = NoFile /\ IsHere(fate', messages[t].letter) =>
            messages'[t] # NoFile /\ messages'[t].letter = messages[t].letter /\ messages'[t].path = NoFile
      BY <1>0, <2>2, <2>9 DEF RowsTyped
    <3>2. \A k \in Letter : fate[k] = "unknown" /\ IsHere(fate', k) =>
            \E t \in Slot : messages'[t] # NoFile /\ messages'[t].letter = k /\ messages'[t].path = NoFile
      BY <2>2, <2>6, <2>8, <2>9 DEF IsHere
    <3>3. fate' \in [Letter -> Fates]
      BY DEF TypesInv, OthersTyped
    <3> QED
      BY <2>8, <2>13, <3>1, <3>2, <3>3, Parts, StaysRemains, KeptLater
  <2>15. PickOK(pass', messages', maildir', names', fate', job', issued')
    <3>1. pass'.at = pass.at /\ pass'.pick = pass.pick /\ pass'.hit = pass.hit /\ pass'.list = pass.list
      BY <2>12, StirTyped DEF TypesInv
    <3>2. pass.pick # NoFile => Unwritten(pass.pick.name, job', fate')
      BY <1>0, <2>8, <2>11, PickFree
    <3>3. names <= names' /\ issued \subseteq issued'
      BY <1>0, <2>5, <2>12
    <3> QED
      BY <2>8, <2>10, <2>13, <3>1, <3>2, <3>3, StaysRemains, PickLater
  <2>16. \A t \in Slot : messages'[t] # NoFile =>
            \/ messages[t] # NoFile /\ messages'[t].letter = messages[t].letter /\ messages'[t].path = messages[t].path
            \/ RowOK(messages'[t], names', fate') /\ messages'[t].path = NoFile
    BY <2>6, <2>8, <2>9 DEF RowOK
  <2>17. names <= names' /\ issued \subseteq issued' /\ e \in Writer
    BY <1>0, <2>5, <2>12
  <2>18. WrittenOK(job', maildir', fate')
    BY <2>8, <2>11, <2>13, <2>17, MovesWriting, WrittenLater, Parts
  <2> QED
    BY <2>8, <2>10, <2>11, <2>13, <2>14, <2>15, <2>16, <2>17, <2>18, KeptStep DEF JobMoves
<1>6. ASSUME NEW e \in Editor, NEW f \in Custom, DeleteFolder(e, f)
      PROVE  KeptInv'
  <2>1. Stir /\ UNCHANGED <<issued, maildir, changed, job, names, fate>>
    BY <1>6 DEF DeleteFolder
  <2>2. messages' = [s \in Slot |-> IF messages[s] # NoFile /\ messages[s].folder = f
                        THEN [messages[s] EXCEPT !.folder = Inbox, !.aged = FALSE] ELSE messages[s]]
    BY <1>6, Zenon DEF DeleteFolder
  <2>3. \A r \in Row : LET q == [r EXCEPT !.folder = Inbox, !.aged = FALSE]
                       IN q # NoFile /\ q.letter = r.letter /\ q.path = r.path
    <3>1. ASSUME NEW r \in Row, NEW q, q = [r EXCEPT !.folder = Inbox, !.aged = FALSE]
          PROVE  q \in Row /\ q.letter = r.letter /\ q.path = r.path
      BY <3>1, MaildirAssumption DEF Row
    <3> QED
      BY <3>1, RowIs, Zenon
  <2>4. RowsQuiet
    BY <1>0, <2>2, <2>3 DEF RowsQuiet, RowsTyped
  <2>5. JobMoves(Scanner) /\ Scanner \in Writer
    BY <1>0, <1>a, <2>1, <2>4, QuietRows, NobodyMoves, Parts
  <2> QED
    BY <1>0, <1>a, <1>n, <2>1, <2>4, <2>5, SameFiles, StirStep
<1> QED
  BY <1>1, <1>2, <1>3, <1>4, <1>5, <1>6, Zenon DEF UserRequest

\* Nor does what Postfix, Dovecot and the clock do.
LEMMA OutsideKept == ASSUME TypesInv, TypesInv', KeptInv, OutsideStep PROVE KeptInv'
<1>0. /\ RowsTyped(messages, issued) /\ issued \subseteq Slot /\ fate \in [Letter -> Fates] /\ names \in Nat
      /\ maildir \subseteq File /\ FilesOK(maildir, names, fate) /\ Scanner \in Writer
  BY Parts
<1>a. Ages(fate, fate)
  BY DEF Ages
<1>b. Outside => Stir /\ RowsQuiet /\ job' = job /\ issued' = issued
  BY DEF Outside, RowsQuiet
<1>n. fate' = fate => \A l \in Letter : fate[l] = "unknown" /\ IsHere(fate', l) => \E f \in maildir' : f.letter = l
  BY DEF IsHere
<1>l. \A f \in maildir : f.letter \in Letter /\ f.name \in Nat
  BY <1>0, FileIs
<1>c. ASSUME Outside, names <= names', Ages(fate, fate'), FilesOK(maildir', names', fate'), Stays(maildir, maildir', fate'),
             \A l \in Letter : fate[l] = "unknown" /\ IsHere(fate', l) => \E f \in maildir' : f.letter = l
      PROVE  KeptInv'
  <2>1. JobMoves(Scanner)
    BY <1>b, <1>c, QuietRows, NobodyMoves
  <2> QED
    BY <1>0, <1>b, <1>c, <2>1, StirStep
<1>1. ASSUME NEW l \in Letter, Deliver(l) PROVE KeptInv'
  <2>1. PICK f : f = [folder |-> Inbox, name |-> names + 1, info |-> {}, letter |-> l]
    OBVIOUS
  <2>2. /\ fate[l] = "unknown" /\ fate' = [fate EXCEPT ![l] = "here"] /\ maildir' = maildir \cup {f}
        /\ names' = names + 1 /\ Outside
    BY <1>1, <2>1 DEF Deliver
  <2>3. f.name = names + 1 /\ f.letter = l
    BY <2>1
  <2>4. Ages(fate, fate') /\ fate'[l] = "here" /\ \A k \in Letter : k # l => fate'[k] = fate[k]
    BY <1>0, <2>2, FateAges
  <2>5. FilesOK(maildir', names', fate')
    BY <1>0, <1>l, <2>2, <2>3, <2>4 DEF FilesOK, Ages
  <2>6. Stays(maildir, maildir', fate')
    BY <2>2 DEF Stays
  <2>7. \A k \in Letter : fate[k] = "unknown" /\ IsHere(fate', k) => \E g \in maildir' : g.letter = k
    BY <2>2, <2>3, <2>4 DEF IsHere
  <2>8. names <= names' /\ Outside /\ Ages(fate, fate')
    BY <1>0, <2>2, <2>4
  <2> QED
    BY <1>c, <2>5, <2>6, <2>7, <2>8
<1>2. ASSUME NEW f \in maildir, NEW to \in Box, CopyFile(f, to) PROVE KeptInv'
  <2>1. PICK g : g = [f EXCEPT !.folder = to, !.name = names + 1]
    OBVIOUS
  <2>2. maildir' = maildir \cup {g} /\ names' = names + 1 /\ Outside /\ fate' = fate
    BY <1>2, <2>1 DEF CopyFile
  <2>3. g.name = names + 1 /\ g.letter = f.letter
    BY <1>0, <2>1 DEF File
  <2>5. FilesOK(maildir', names', fate')
    BY <1>0, <1>l, <2>2, <2>3 DEF FilesOK
  <2>6. Stays(maildir, maildir', fate')
    BY <2>2 DEF Stays
  <2> QED
    BY <1>0, <1>a, <1>c, <1>n, <2>2, <2>5, <2>6
<1>3. ASSUME NEW f \in maildir, NEW g, g.name = f.name, g.letter = f.letter, RefileFile(f, g) PROVE KeptInv'
  <2>2. maildir' = (maildir \ {f}) \cup {g} /\ Outside /\ names' = names /\ fate' = fate
    BY <1>3 DEF RefileFile
  <2>5. FilesOK(maildir', names', fate')
    BY <1>0, <1>3, <1>l, <2>2 DEF FilesOK
  <2>6. Stays(maildir, maildir', fate')
    BY <1>3, <2>2 DEF Stays
  <2> QED
    BY <1>0, <1>a, <1>c, <1>n, <2>2, <2>5, <2>6
<1>4. ASSUME NEW f \in maildir, ExpungeFile(f) PROVE KeptInv'
  <2>2. maildir' = maildir \ {f} /\ Outside /\ names' = names /\ fate' = [fate EXCEPT ![f.letter] = "removed"]
    BY <1>4 DEF ExpungeFile
  <2>4. Ages(fate, fate') /\ fate'[f.letter] = "removed" /\ \A k \in Letter : k # f.letter => fate'[k] = fate[k]
    BY <1>0, <1>l, <2>2, FateAges
  <2>5. FilesOK(maildir', names', fate')
    BY <1>0, <1>l, <2>2, <2>4 DEF FilesOK, Ages
  <2>6. Stays(maildir, maildir', fate')
    BY <2>2, <2>4 DEF Stays, IsHere
  <2>7. \A k \in Letter : fate[k] = "unknown" /\ IsHere(fate', k) => \E g \in maildir' : g.letter = k
    BY <2>4 DEF IsHere
  <2>8. names <= names' /\ Outside /\ Ages(fate, fate')
    BY <1>0, <2>2, <2>4
  <2> QED
    BY <1>c, <2>5, <2>6, <2>7, <2>8
<1>5. ASSUME FiveMinutes PROVE KeptInv'
  <2>1. messages' = [s \in Slot |-> IF messages[s] = NoFile THEN NoFile ELSE [messages[s] EXCEPT !.aged = TRUE]]
    BY <1>5 DEF FiveMinutes
  <2>2. Stir /\ UNCHANGED <<issued, folders, maildir, changed, job, names, events, fate>>
    BY <1>5 DEF FiveMinutes
  <2>3. \A r \in Row : LET q == [r EXCEPT !.aged = TRUE] IN q # NoFile /\ q.letter = r.letter /\ q.path = r.path
    <3>1. ASSUME NEW r \in Row, NEW q, q = [r EXCEPT !.aged = TRUE]
          PROVE  q \in Row /\ q.letter = r.letter /\ q.path = r.path
      BY <3>1 DEF Row
    <3> QED
      BY <3>1, RowIs, Zenon
  <2>4. RowsQuiet
    BY <1>0, <2>1, <2>3 DEF RowsQuiet, RowsTyped
  <2>5. JobMoves(Scanner)
    BY <1>0, <1>a, <2>2, <2>4, QuietRows, NobodyMoves
  <2> QED
    BY <1>0, <1>a, <1>n, <2>2, <2>4, <2>5, SameFiles, StirStep
<1>6. \A f \in maildir : /\ \A to \in Box : [f EXCEPT !.folder = to].name = f.name /\ [f EXCEPT !.folder = to].letter = f.letter
                         /\ \A info : [f EXCEPT !.info = info].name = f.name /\ [f EXCEPT !.info = info].letter = f.letter
  BY <1>0 DEF File
<1>7. ASSUME NEW f \in maildir, NEW flag, RefileFile(f, [f EXCEPT !.info = @ \cup {flag}]) PROVE KeptInv'
  <2>1. [f EXCEPT !.info = @ \cup {flag}] = [f EXCEPT !.info = f.info \cup {flag}]
    OBVIOUS
  <2> QED
    BY <1>3, <1>6, <1>7, <2>1
<1> QED
  BY <1>1, <1>2, <1>3, <1>4, <1>5, <1>6, <1>7, Zenon DEF OutsideStep

\* A write that goes on with what it has.
LEMMA JobContinues ==
  ASSUME TypesInv, TypesInv', KeptInv, names <= names', Ages(fate, fate'), Follows(messages, messages', issued), NEW x \in Writer,
         NEW i, job' = [job EXCEPT ![x] = i], i.was = job[x].was, i.slot = job[x].slot, i.new = job[x].new,
         i.at # "attach", i.at \in {"unlink", "delete"} => job[x].at \in {"unlink", "delete"},
         i.at \in {"drop", "point"} => job[x].at \in {"drop", "point"}
  PROVE  JobMoves(x)
<1>1. job'[x] = i /\ \A v \in Writer \ {x} : job'[v] = job[v]
  BY Parts
<1>2. JobOK(job[x], messages, names, fate) /\ Apart(x, job, fate) /\ job[x] \in Job /\ JobShape(job[x], issued)
  BY Parts DEF JobsOK
<1>3. JobOK(job[x], messages', names', fate')
  <2>1. names \in Nat /\ names' \in Nat /\ issued \in SUBSET Slot /\ RowsTyped(messages, issued)
    BY DEF TypesInv, OthersTyped, RowsTyped
  <2> QED
    BY <1>2, <2>1, JobLater
<1>4. JobOK(i, messages', names', fate')
  BY <1>3 DEF JobOK
<1>5. Writing(i, fate') => Writing(job[x], fate)
  <2>1. Writing(i, fate') => Writing(job[x], fate')
    BY DEF Writing
  <2> QED
    BY <1>2, <2>1, WritingBefore
<1> QED
  BY <1>1, <1>2, <1>4, <1>5 DEF JobMoves, Apart

\* A write that ends.
LEMMA JobEnds ==
  ASSUME TypesInv, KeptInv, NEW x \in Writer, job' = [job EXCEPT ![x] = Idle]
  PROVE  JobMoves(x)
<1>1. Idle.new = NoFile /\ Idle.was = NoFile /\ Idle.at = "idle"
  BY DEF Idle
<1> QED
  BY <1>1, JobBegins

\* The file that was put has a name nobody has heard of.
LEMMA PutKept ==
  ASSUME TypesInv, TypesInv', KeptInv, NEW w \in Writer, PutFile(w)
  PROVE  KeptInv'
<1>0. /\ names \in Nat /\ job \in [Writer -> Job] /\ issued \in SUBSET Slot /\ RowsTyped(messages, issued) /\ maildir \subseteq File
      /\ names \in 0 .. MaxNames
      /\ FilesOK(maildir, names, fate) /\ RowsOK(messages, names, fate, job) /\ JobsOK(job, messages, names, fate)
      /\ WrittenOK(job, maildir, fate) /\ PickOK(pass, messages, maildir, names, fate, job, issued) /\ Kept(messages, maildir, fate)
  BY Parts DEF TypesInv, OthersTyped
<1>1. PICK j \in Job : j = job[w]
  BY <1>0
<1>2. /\ j.at = "put" /\ names < MaxNames /\ names' = names + 1 /\ maildir' = maildir \cup {Written(j)}
      /\ Set(w, [j EXCEPT !.at = "drop", !.new = Written(j)]) /\ Stir
      /\ UNCHANGED <<messages, issued, folders, events, fate>>
  BY <1>1 DEF PutFile
<1>3. j.was \in Row /\ j.slot \in issued /\ RowOK(j.was, names, fate) /\ JobOK(j, messages, names, fate) /\ JobShape(j, issued)
      /\ Apart(w, job, fate)
  <2>1. JobShape(j, issued) /\ JobOK(j, messages, names, fate) /\ Apart(w, job, fate)
    BY <1>0, <1>1 DEF JobsOK, TypesInv, JobsTyped
  <2>2. j.was # NoFile /\ j.slot \in issued
    BY <1>2, <2>1 DEF JobShape
  <2> QED
    BY <2>1, <2>2 DEF JobOK, Job
<1>4. PICK f \in File : f = Written(j) /\ f.name = names + 1 /\ f.letter = j.was.letter
  BY <1>0, <1>2, <1>3, WrittenIs, MaildirAssumption
<1>5. PICK i : i = [j EXCEPT !.at = "drop", !.new = f]
  OBVIOUS
<1>6. i.at = "drop" /\ i.slot = j.slot /\ i.new = f /\ i.was = j.was
  BY <1>5 DEF Job
<1>7. job'[w] = i /\ \A v \in Writer \ {w} : job'[v] = job[v]
  BY <1>0, <1>1, <1>2, <1>4, <1>5 DEF Set
<1>8. fate' = fate /\ messages' = messages /\ issued' = issued /\ maildir' = maildir \cup {f} /\ names' = names + 1
  BY <1>2, <1>4
<1>a. Ages(fate, fate) /\ Follows(messages, messages, issued)
  BY DEF Ages, Follows
<1>9. \A n \in Nat : n <= names /\ Unwritten(n, job, fate) => Unwritten(n, job', fate)
  BY <1>0, <1>4, <1>6, <1>7 DEF Unwritten
<1>10. \A r \in Row : RowOK(r, names, fate) => RowOK(r, names', fate')
  BY <1>0, <1>8, <1>a, RowLater
<1>p. ASSUME NEW r \in Row, RowOK(r, names, fate), r.path # NoFile, Unwritten(r.path.name, job, fate)
      PROVE  Unwritten(r.path.name, job', fate')
  <2>1. r.path.name \in Nat /\ r.path.name <= names
    BY <1>p, RowIs, FileIs DEF RowOK
  <2> QED
    BY <1>8, <1>9, <1>p, <2>1
<1>11. FilesOK(maildir', names', fate')
  <2>1. \A g \in maildir : g.name \in Nat
    BY <1>0, FileIs
  <2> QED
    BY <1>0, <1>3, <1>4, <1>8, <2>1 DEF FilesOK, RowOK
<1>12. RowsOK(messages', names', fate', job')
  <2> SUFFICES ASSUME NEW s \in Slot, messages[s] # NoFile
               PROVE  RowOK(messages[s], names', fate') /\ (messages[s].path # NoFile => Unwritten(messages[s].path.name, job', fate'))
    BY <1>8 DEF RowsOK
  <2>1. messages[s] \in Row /\ RowOK(messages[s], names, fate)
        /\ (messages[s].path # NoFile => Unwritten(messages[s].path.name, job, fate))
    BY RowHere
  <2> QED
    BY <1>10, <1>p, <2>1
<1>13. JobsOK(job', messages', names', fate')
  <2>1. \A v \in Writer : /\ JobOK(job[v], messages, names, fate) /\ Apart(v, job, fate) /\ job[v] \in Job /\ JobShape(job[v], issued)
                          /\ job[v].was \in Row \cup {NoFile} /\ (job[v].was # NoFile => RowOK(job[v].was, names, fate))
                          /\ job[v].new \in File \cup {NoFile}
                          /\ (job[v].new # NoFile => job[v].new.name \in Nat /\ job[v].new.name <= names)
    <3> SUFFICES ASSUME NEW v \in Writer
                 PROVE  /\ JobOK(job[v], messages, names, fate) /\ Apart(v, job, fate) /\ job[v] \in Job /\ JobShape(job[v], issued)
                        /\ job[v].was \in Row \cup {NoFile} /\ (job[v].was # NoFile => RowOK(job[v].was, names, fate))
                        /\ job[v].new \in File \cup {NoFile}
                        /\ (job[v].new # NoFile => job[v].new.name \in Nat /\ job[v].new.name <= names)
      OBVIOUS
    <3>1. JobOK(job[v], messages, names, fate) /\ Apart(v, job, fate) /\ job[v] \in Job /\ JobShape(job[v], issued)
      BY <1>0 DEF JobsOK, TypesInv, JobsTyped
    <3>2. job[v].was \in Row \cup {NoFile} /\ job[v].new \in File \cup {NoFile}
      BY <3>1 DEF Job
    <3> QED
      BY <3>1, <3>2, FileIs DEF JobOK
  <2>2. \A v \in Writer \ {w} : JobOK(job[v], messages', names', fate')
    BY <1>0, <1>8, <1>a, <2>1, JobLater
  <2>3. JobOK(i, messages', names', fate')
    <3>1. RowOK(i.was, names', fate')
      BY <1>3, <1>6, <1>10
    <3>2. messages'[i.slot] # NoFile =>
            messages'[i.slot].letter = i.was.letter /\ (i.was.path # NoFile => messages'[i.slot].path # NoFile)
      BY <1>3, <1>6, <1>8, RowIs DEF JobOK
    <3> QED
      BY <1>0, <1>3, <1>4, <1>6, <1>8, <3>1, <3>2, RowIs DEF JobOK
  <2>4. \A v \in Writer : job'[v].was = job[v].was
    BY <1>1, <1>6, <1>7
  <2>5. \A v \in Writer : job[v].was # NoFile /\ job[v].was.path # NoFile => Unwritten(job[v].was.path.name, job', fate')
    BY <1>p, <2>1 DEF Apart
  <2>6. ASSUME NEW v \in Writer, job'[v].new # NoFile, NEW u \in Writer, u # v, Writing(job'[u], fate')
        PROVE  job'[u].new.name # job'[v].new.name
    <3>1. CASE u = w
      <4>1. job'[u].new.name = names + 1 /\ job'[v].new = job[v].new
        BY <1>4, <1>6, <1>7, <2>6, <3>1
      <4> QED
        BY <1>0, <2>1, <2>6, <4>1
    <3>2. CASE v = w
      <4>1. job'[v].new.name = names + 1 /\ job'[u] = job[u]
        BY <1>4, <1>6, <1>7, <2>6, <3>2
      <4>2. job[u].new # NoFile
        BY <1>8, <2>1, <2>6, <4>1 DEF Writing, JobShape
      <4> QED
        BY <1>0, <2>1, <4>1, <4>2
    <3>3. CASE u # w /\ v # w
      BY <1>7, <1>8, <2>1, <2>6, <3>3 DEF Apart
    <3> QED
      BY <3>1, <3>2, <3>3
  <2>7. \A v \in Writer : JobOK(job'[v], messages', names', fate')
    BY <1>7, <2>2, <2>3
  <2> QED
    BY <2>4, <2>5, <2>6, <2>7 DEF JobsOK, Apart
<1>14. WrittenOK(job', maildir', fate')
  <2> SUFFICES ASSUME NEW v \in Writer, Writing(job'[v], fate')
               PROVE  \E g \in maildir' : g.name = job'[v].new.name /\ g.letter = job'[v].new.letter
    BY DEF WrittenOK
  <2>1. CASE v = w
    BY <1>6, <1>7, <1>8, <2>1
  <2>2. CASE v # w
    BY <1>0, <1>7, <1>8, <2>2 DEF WrittenOK
  <2> QED
    BY <2>1, <2>2
<1>15. Stays(maildir, maildir', fate')
  BY <1>8 DEF Stays
<1>16. PickOK(pass', messages', maildir', names', fate', job', issued')
  <2>1. pass'.at = pass.at /\ pass'.pick = pass.pick /\ pass'.hit = pass.hit /\ pass'.list = pass.list
    BY <1>2, StirTyped DEF TypesInv
  <2>2. pass.pick # NoFile => Unwritten(pass.pick.name, job', fate')
    <3>1. pass.pick \in File \cup {NoFile}
      BY DEF TypesInv, ScanTyped, Scan
    <3> QED
      BY <1>0, <1>8, <1>9, <3>1, FileIs DEF PickOK
  <2>3. names <= names' /\ issued \subseteq issued'
    BY <1>0, <1>8
  <2> QED
    BY <1>8, <1>a, <1>15, <2>1, <2>2, <2>3, StaysRemains, PickLater
<1>17. Kept(messages', maildir', fate')
  BY <1>0, <1>8 DEF Kept
<1> QED
  BY <1>11, <1>12, <1>13, <1>14, <1>16, <1>17 DEF KeptInv

\* Nor do the steps of a write: the new file is put before the old one is dropped.
LEMMA WriteKept == ASSUME TypesInv, TypesInv', KeptInv, WriteStep PROVE KeptInv'
<1>0. /\ names \in Nat /\ job \in [Writer -> Job] /\ issued \subseteq Slot /\ RowsTyped(messages, issued) /\ maildir \subseteq File
      /\ fate \in [Letter -> Fates]
      /\ FilesOK(maildir, names, fate) /\ RowsOK(messages, names, fate, job) /\ JobsOK(job, messages, names, fate)
      /\ WrittenOK(job, maildir, fate) /\ PickOK(pass, messages, maildir, names, fate, job, issued) /\ Kept(messages, maildir, fate)
  BY Parts
<1> SUFFICES ASSUME NEW w \in Writer,
                    \/ RenameFile(w) \/ FileMissing(w) \/ AttachFile(w) \/ SaveFlag(w)
                    \/ ReadState(w) \/ PutFails(w) \/ DropOld(w)
                    \/ UnlinkFile(w) \/ DeleteRow(w)
             PROVE  KeptInv'
  BY PutKept, Zenon DEF WriteStep
<1>j. PICK j \in Job : j = job[w]
  BY <1>0
<1>o. JobOK(j, messages, names, fate) /\ Apart(w, job, fate) /\ JobShape(j, issued)
  BY <1>0, <1>j DEF JobsOK, TypesInv, JobsTyped
<1>a. Ages(fate, fate)
  BY DEF Ages
<1>r. messages' = messages => RowsQuiet
  BY DEF RowsQuiet
<1>n. fate' = fate => \A l \in Letter : fate[l] = "unknown" /\ IsHere(fate', l) => \E f \in maildir' : f.letter = l
  BY DEF IsHere
<1>u. Unstirred => names' = names /\ issued' = issued /\ fate' = fate
  BY DEF Unstirred
<1>l. \A f \in maildir : f.letter \in Letter /\ f.name \in Nat
  BY <1>0, FileIs
\* A step that changes no file and ends with the write going on or over.
<1>q. ASSUME Stir, Unstirred, maildir' = maildir, RowsQuiet, JobMoves(w) PROVE KeptInv'
  BY <1>0, <1>a, <1>n, <1>u, <1>q, SameFiles, StirStep
<1>g. ASSUME NEW at, Goto(w, at), Stir, Unstirred, RowsQuiet, at # "attach",
             at \in {"unlink", "delete"} => j.at \in {"unlink", "delete"}, at \in {"drop", "point"} => j.at \in {"drop", "point"}
      PROVE  JobMoves(w)
  <2>1. PICK i : i = [j EXCEPT !.at = at]
    OBVIOUS
  <2>2. i.was = j.was /\ i.slot = j.slot /\ i.new = j.new /\ i.at = at
    BY <2>1 DEF Job
  <2>3. job' = [job EXCEPT ![w] = i]
    BY <1>g, <1>j, <2>1 DEF Goto, Set
  <2>4. names <= names' /\ Ages(fate, fate') /\ Follows(messages, messages', issued)
    BY <1>0, <1>a, <1>g, <1>u, QuietRows
  <2>5. i.at # "attach" /\ (i.at \in {"unlink", "delete"} => job[w].at \in {"unlink", "delete"})
        /\ (i.at \in {"drop", "point"} => job[w].at \in {"drop", "point"})
    BY <1>g, <1>j, <2>2
  <2>6. i.was = job[w].was /\ i.slot = job[w].slot /\ i.new = job[w].new
    BY <1>j, <2>2
  <2> QED
    BY <2>3, <2>4, <2>5, <2>6, JobContinues
<1>s. Stop(w) => JobMoves(w)
  BY JobEnds DEF Stop, Set
<1>1. CASE RenameFile(w)
  <2>1. /\ j.at = "rename" /\ j.was.path # NoFile /\ j.was.path \in maildir /\ Stir /\ Unstirred /\ messages' = messages
        /\ maildir' = (maildir \ {j.was.path}) \cup {Renamed(j)}
        /\ Set(w, IF Renamed(j) = j.was.path /\ j.kind = "flag" THEN [j EXCEPT !.at = "save"]
                  ELSE [j EXCEPT !.at = "attach", !.new = Renamed(j)])
    BY <1>1, <1>j DEF RenameFile
  <2>2. j.kind \in {"flag", "move"} /\ j.was # NoFile
    BY <2>1, <1>o DEF JobShape
  <2>3. PICK g \in File : g = Renamed(j) /\ g.name = j.was.path.name /\ g.letter = j.was.path.letter
    BY <2>1, <2>2, RenamedIs
  <2>4. PICK f \in maildir : f = j.was.path
    BY <2>1
  <2>5. maildir' = (maildir \ {f}) \cup {g} /\ g.name = f.name /\ g.letter = f.letter
    BY <2>1, <2>3, <2>4
  <2>6. FilesOK(maildir', names', fate')
    BY <1>0, <1>l, <1>u, <2>1, <2>5 DEF FilesOK
  <2>7. Stays(maildir, maildir', fate')
    BY <2>5 DEF Stays
  <2>8. JobMoves(w)
    <3>1. CASE Goto(w, "save")
      BY <1>g, <1>r, <2>1, <3>1
    <3>2. CASE Set(w, [j EXCEPT !.at = "attach", !.new = g])
      <4>1. PICK i : i = [j EXCEPT !.at = "attach", !.new = g]
        OBVIOUS
      <4>2. i.at = "attach" /\ i.new = g /\ i.was = j.was /\ i.slot = j.slot
        BY <4>1 DEF Job
      <4>3. job'[w] = i /\ \A v \in Writer \ {w} : job'[v] = job[v]
        BY <1>0, <3>2, <4>1 DEF Set
      <4>4. Unwritten(g.name, job, fate) /\ RowOK(j.was, names, fate)
        BY <1>j, <1>o, <2>1, <2>2, <2>3 DEF Apart, JobOK
      <4>5. JobOK(i, messages', names', fate')
        BY <1>o, <1>u, <2>1, <2>2, <2>3, <4>2, <4>4 DEF JobOK, RowOK
      <4>6. ~Writing(i, fate')
        BY <4>2 DEF Writing
      <4>7. i.was.path # NoFile => Unwritten(i.was.path.name, job, fate)
        BY <2>3, <4>2, <4>4
      <4> QED
        BY <4>2, <4>3, <4>4, <4>5, <4>6, <4>7 DEF JobMoves
    <3> QED
      BY <1>j, <2>1, <2>3, <3>1, <3>2 DEF Goto
  <2>9. names <= names' /\ issued \subseteq issued' /\ RowsQuiet
    BY <1>0, <1>r, <1>u, <2>1
  <2> QED
    BY <1>a, <1>n, <1>u, <2>1, <2>6, <2>7, <2>8, <2>9, StirStep
<1>2. CASE FileMissing(w)
  <2>1. /\ j.at = "rename" /\ Stir /\ Unstirred /\ UNCHANGED <<messages, maildir, changed>>
        /\ (Stop(w) \/ Goto(w, "save") \/ Goto(w, "state"))
    BY <1>2, <1>j DEF FileMissing
  <2>2. RowsQuiet
    BY <1>r, <2>1
  <2> QED
    BY <1>g, <1>q, <1>s, <2>1, <2>2
<1>4. CASE SaveFlag(w)
  <2>1. /\ j.at = "save" /\ Stir /\ Unstirred /\ UNCHANGED <<maildir, changed>> /\ Stop(w)
        /\ messages' = IF messages[j.slot] = NoFile THEN messages
                   ELSE [messages EXCEPT ![j.slot].aged = FALSE,
                             ![j.slot].read = IF j.mark THEN j.read ELSE @,
                             ![j.slot].star = IF j.mark THEN @ ELSE j.star]
    BY <1>4, <1>j DEF SaveFlag
  <2>2. j.slot \in Slot
    BY <1>0, <1>o, <2>1 DEF JobShape
  <2>3. RowsQuiet
    <3>1. CASE messages[j.slot] # NoFile
      <4>1. PICK r : r = [messages[j.slot] EXCEPT !.aged = FALSE,
                             !.read = IF j.mark THEN j.read ELSE @,
                             !.star = IF j.mark THEN @ ELSE j.star]
        OBVIOUS
      <4>2. messages' = [messages EXCEPT ![j.slot] = r]
        BY <1>0, <2>1, <3>1, <4>1 DEF RowsTyped
      <4>3. messages[j.slot] \in Row
        BY <2>2, <3>1, RowHere
      <4>4. r.letter = messages[j.slot].letter /\ r.path = messages[j.slot].path
        BY <4>1, <4>3 DEF Row
      <4>5. r # NoFile
        <5>1. messages'[j.slot] = r /\ messages' \in [Slot -> Row \cup {NoFile}]
          BY <1>0, <2>2, <4>2 DEF TypesInv, RowsTyped
        <5>2. j.read \in BOOLEAN /\ j.star \in BOOLEAN
          BY DEF Job
        <5>3. r \in Row
          BY <4>1, <4>3, <5>2 DEF Row
        <5> QED
          BY <5>3, RowIs
      <4> QED
        BY <1>0, <2>2, <3>1, <4>2, <4>4, <4>5 DEF RowsQuiet, RowsTyped
    <3> QED
      BY <1>r, <2>1, <3>1
  <2> QED
    BY <1>q, <1>s, <2>1, <2>3
<1>5. CASE ReadState(w)
  <2>1. /\ j.at = "state" /\ Stir /\ Unstirred /\ UNCHANGED <<messages, maildir, changed>>
        /\ (Stop(w) \/ (messages[j.slot] # NoFile /\ Set(w, [j EXCEPT !.at = "put", !.was = messages[j.slot]])))
    BY <1>5, <1>j DEF ReadState
  <2>2. RowsQuiet
    BY <1>r, <2>1
  <2>3. ASSUME messages[j.slot] # NoFile, Set(w, [j EXCEPT !.at = "put", !.was = messages[j.slot]])
        PROVE  JobMoves(w)
    <3>1. PICK i : i = [j EXCEPT !.at = "put", !.was = messages[j.slot]]
      OBVIOUS
    <3>2. i.at = "put" /\ i.was = messages[j.slot] /\ i.slot = j.slot /\ i.new = j.new
      BY <3>1 DEF Job
    <3>3. j.new = NoFile /\ j.slot \in Slot
      BY <1>0, <1>o, <2>1 DEF JobShape
    <3>4. RowOK(messages[j.slot], names, fate)
          /\ (messages[j.slot].path # NoFile => Unwritten(messages[j.slot].path.name, job, fate))
      BY <2>3, <3>3, RowHere
    <3>5. job' = [job EXCEPT ![w] = i]
      BY <2>3, <3>1 DEF Set
    <3> QED
      BY <1>u, <2>1, <3>2, <3>3, <3>4, <3>5, JobBegins
  <2> QED
    BY <1>q, <1>s, <2>1, <2>2, <2>3
<1>7. CASE PutFails(w)
  <2>1. /\ j.at = "put" /\ Stop(w) /\ Stir /\ UNCHANGED <<issued, maildir, folders, changed, names, events>>
        /\ messages' = IF j.kind = "store" THEN [messages EXCEPT ![j.slot] = NoFile] ELSE messages
        /\ fate' = IF j.kind = "store" THEN [fate EXCEPT ![j.was.letter] = "removed"] ELSE fate
    BY <1>7, <1>j DEF PutFails
  <2>2. j.slot \in Slot /\ j.was # NoFile /\ j.was \in Row /\ j.was.letter \in Letter
    BY <1>0, <1>o, <2>1, RowIs DEF JobShape, Job
  <2>3. Ages(fate, fate') /\ \A l \in Letter : fate[l] = "unknown" /\ IsHere(fate', l) => \E f \in maildir' : f.letter = l
    <3>1. CASE j.kind = "store"
      <4>0. fate \in [Letter -> Fates] /\ fate' = [fate EXCEPT ![j.was.letter] = "removed"]
        BY <1>0, <2>1, <3>1, Zenon
      <4>1. Ages(fate, fate') /\ fate'[j.was.letter] = "removed" /\ \A l \in Letter : l # j.was.letter => fate'[l] = fate[l]
        BY <2>2, <4>0, FateAges, Zenon
      <4> QED
        BY <4>1 DEF IsHere
    <3> QED
      BY <1>a, <1>n, <2>1, <3>1
  <2>4. RowsQuiet
    <3>1. CASE j.kind = "store"
      <4>1. fate'[j.was.letter] = "removed"
        BY <1>0, <2>1, <2>2, <3>1
      <4>2. messages[j.slot] # NoFile => messages[j.slot].letter = j.was.letter
        BY <1>o, <2>2 DEF JobOK
      <4>3. messages'[j.slot] = NoFile /\ \A s \in Slot : s # j.slot => messages'[s] = messages[s]
        BY <1>0, <2>1, <2>2, <3>1 DEF RowsTyped
      <4> QED
        BY <4>1, <4>2, <4>3 DEF RowsQuiet, Gone
    <3> QED
      BY <1>r, <2>1, <3>1
  <2>5. FilesOK(maildir', names', fate') /\ Stays(maildir, maildir', fate')
    BY <2>1, <2>3, SameFiles
  <2>6. names <= names' /\ issued \subseteq issued'
    BY <1>0, <2>1
  <2> QED
    BY <1>s, <2>1, <2>3, <2>4, <2>5, <2>6, StirStep
<1>8. CASE DropOld(w)
  <2>1. /\ j.at = "drop" /\ maildir' = maildir \ {j.was.path} /\ Goto(w, "point") /\ Stir /\ Unstirred /\ messages' = messages
    BY <1>8, <1>j DEF DropOld
  <2>2. j.was \in Row /\ j.was # NoFile /\ j.new # NoFile /\ j.new.letter = j.was.letter /\ RowOK(j.was, names, fate)
    BY <1>o, <2>1 DEF JobShape, JobOK, Job
  <2>3. RowsQuiet /\ names' = names /\ issued' = issued /\ fate' = fate /\ names <= names'
    BY <1>0, <1>r, <1>u, <2>1
  <2>4. JobMoves(w)
    BY <1>g, <2>1, <2>3
  <2>5. FilesOK(maildir', names', fate')
    BY <1>0, <2>1, <2>3 DEF FilesOK
  <2>6. \A v \in Writer : Writing(job[v], fate) =>
           \E f \in maildir' : f.name = job[v].new.name /\ f.letter = job[v].new.letter
    <3> SUFFICES ASSUME NEW v \in Writer, Writing(job[v], fate)
                 PROVE  \E f \in maildir' : f.name = job[v].new.name /\ f.letter = job[v].new.letter
      OBVIOUS
    <3>1. PICK f \in maildir : f.name = job[v].new.name /\ f.letter = job[v].new.letter
      BY <1>0 DEF WrittenOK
    <3>2. f # NoFile
      BY <1>0, FileIs
    <3>3. f # j.was.path
      BY <1>j, <1>o, <2>2, <3>1, <3>2 DEF Apart, Unwritten
    <3> QED
      BY <2>1, <3>1, <3>3
  <2>7. WrittenOK(job', maildir', fate')
    BY <1>a, <2>3, <2>4, <2>6, MovesWriting DEF WrittenOK
  <2>8. Remains(maildir, maildir', fate', pass.pick)
    <3> SUFFICES ASSUME NEW f \in maildir, IsHere(fate, f.letter)
                 PROVE  \E g \in maildir' : g.letter = f.letter /\ (pass.pick # NoFile /\ f.name # pass.pick.name => g.name # pass.pick.name)
      BY <2>3 DEF Remains
    <3>1. CASE f # j.was.path
      BY <2>1, <3>1
    <3>2. CASE f = j.was.path
      <4>1. f.letter = j.new.letter
        BY <1>0, <2>2, <3>2, FileIs DEF RowOK
      <4>2. Writing(j, fate)
        BY <2>1, <4>1 DEF Writing
      <4>3. PICK g \in maildir' : g.name = j.new.name /\ g.letter = j.new.letter
        BY <1>j, <2>6, <4>2
      <4>4. pass.pick # NoFile => g.name # pass.pick.name
        BY <1>0, <1>j, <4>2, <4>3 DEF PickOK, Unwritten
      <4> QED
        BY <4>1, <4>3, <4>4
    <3> QED
      BY <3>1, <3>2
  <2>9. Kept(messages', maildir', fate')
    <3>1. \A s \in Slot : messages[s] # NoFile /\ messages[s].path = NoFile /\ IsHere(fate', messages[s].letter) =>
            messages'[s] # NoFile /\ messages'[s].letter = messages[s].letter /\ messages'[s].path = NoFile
      BY <2>1
    <3> QED
      BY <1>0, <1>a, <1>n, <2>3, <2>8, <3>1, KeptLater
  <2>10. PickOK(pass', messages', maildir', names', fate', job', issued')
    <3>1. pass'.at = pass.at /\ pass'.pick = pass.pick /\ pass'.hit = pass.hit /\ pass'.list = pass.list
      BY <2>1, StirTyped DEF TypesInv
    <3>2. pass.pick # NoFile => Unwritten(pass.pick.name, job', fate')
      BY <1>a, <2>3, <2>4, PickFree
    <3> QED
      BY <1>a, <2>3, <2>8, <3>1, <3>2, QuietRows, PickLater
  <2>11. \A s \in Slot : messages'[s] # NoFile =>
            messages[s] # NoFile /\ messages'[s].letter = messages[s].letter /\ messages'[s].path = messages[s].path
    BY <2>1
  <2>12. Ages(fate, fate') /\ issued \subseteq issued' /\ Follows(messages, messages', issued)
    BY <1>a, <2>3, QuietRows
  <2> QED
    BY <2>3, <2>4, <2>5, <2>7, <2>9, <2>10, <2>11, <2>12, KeptStep DEF JobMoves
<1>9. CASE UnlinkFile(w)
  <2>1. PICK f : f = IF messages[j.slot] = NoFile THEN NoFile ELSE messages[j.slot].path
    OBVIOUS
  <2>2. /\ j.at = "unlink" /\ maildir' = maildir \ {f} /\ Goto(w, "delete") /\ Stir /\ Unstirred /\ messages' = messages
    BY <1>9, <1>j, <2>1 DEF UnlinkFile
  <2>3. j.slot \in Slot
    BY <1>0, <1>o, <2>2 DEF JobShape
  <2>4. f \in maildir => Gone(fate, f.letter)
    <3> SUFFICES ASSUME f \in maildir PROVE Gone(fate, f.letter)
      OBVIOUS
    <3>1. f # NoFile
      BY <1>0, FileIs
    <3>2. messages[j.slot] # NoFile /\ f = messages[j.slot].path
      BY <2>1, <3>1
    <3>3. f.letter = messages[j.slot].letter
      BY <2>3, <3>1, <3>2, RowHere DEF RowOK
    <3> QED
      BY <1>o, <2>2, <3>2, <3>3 DEF JobOK
  <2>5. RowsQuiet /\ names' = names /\ issued' = issued /\ fate' = fate /\ names <= names'
    BY <1>0, <1>r, <1>u, <2>2
  <2>6. FilesOK(maildir', names', fate')
    BY <1>0, <2>2, <2>5 DEF FilesOK
  <2>7. Stays(maildir, maildir', fate')
    BY <2>2, <2>4, <2>5 DEF Stays, IsHere, Gone
  <2>8. JobMoves(w)
    BY <1>g, <2>2, <2>5
  <2> QED
    BY <1>a, <1>n, <2>2, <2>5, <2>6, <2>7, <2>8, StirStep
<1>10. CASE DeleteRow(w)
  <2>1. j.at = "delete" /\ messages' = [messages EXCEPT ![j.slot] = NoFile] /\ Stop(w) /\ Stir /\ Unstirred /\ maildir' = maildir
    BY <1>10, <1>j DEF DeleteRow
  <2>2. j.slot \in Slot
    BY <1>0, <1>o, <2>1 DEF JobShape
  <2>3. messages[j.slot] # NoFile => Gone(fate, messages[j.slot].letter)
    BY <1>o, <2>1 DEF JobOK
  <2>4. messages'[j.slot] = NoFile /\ \A s \in Slot : s # j.slot => messages'[s] = messages[s]
    BY <1>0, <2>1, <2>2 DEF RowsTyped
  <2>5. RowsQuiet
    BY <1>u, <2>1, <2>3, <2>4 DEF RowsQuiet
  <2> QED
    BY <1>q, <1>s, <2>1, <2>5
\* The path is stored: the row now names a file that is there.
<1>3. CASE AttachFile(w)
  <2>1. /\ j.at \in {"attach", "point"} /\ Stir /\ Unstirred /\ maildir' = maildir
        /\ messages' = IF messages[j.slot] = NoFile THEN messages
                   ELSE [messages EXCEPT ![j.slot].path = j.new, ![j.slot].aged = FALSE,
                             ![j.slot].folder = IF j.kind = "move" THEN j.to ELSE @]
        /\ (Goto(w, "save") \/ Stop(w))
    BY <1>3, <1>j DEF AttachFile
  <2>2. CASE messages[j.slot] = NoFile
    <3>1. RowsQuiet
      BY <1>r, <2>1, <2>2
    <3> QED
      BY <1>g, <1>q, <1>s, <2>1, <3>1
  <2>3. CASE messages[j.slot] # NoFile
    <3>1. j.new \in File /\ j.new # NoFile /\ j.was \in Row /\ j.slot \in issued /\ j.slot \in Slot /\ j.new.letter = j.was.letter
          /\ j.new.name <= names /\ RowOK(j.was, names, fate) /\ messages[j.slot].letter = j.was.letter
      <4>1. j.slot \in issued /\ j.new # NoFile
        BY <1>o, <2>1 DEF JobShape
      <4>2. j.was # NoFile /\ j.new.letter = j.was.letter /\ j.new.name <= names /\ RowOK(j.was, names, fate)
            /\ messages[j.slot].letter = j.was.letter
        BY <1>o, <2>3, <4>1 DEF JobOK
      <4> QED
        BY <1>0, <4>1, <4>2 DEF Job
    <3>2. PICK r : r = [messages[j.slot] EXCEPT !.path = j.new, !.aged = FALSE,
                             !.folder = IF j.kind = "move" THEN j.to ELSE @]
      OBVIOUS
    <3>3. messages' = [messages EXCEPT ![j.slot] = r]
      BY <1>0, <2>1, <2>3, <3>2 DEF RowsTyped
    <3>4. messages[j.slot] \in Row /\ RowOK(messages[j.slot], names, fate)
      BY <2>3, <3>1, RowHere
    <3>5. r.letter = j.was.letter /\ r.path = j.new
      BY <3>1, <3>2, <3>4 DEF Row
    <3>6. messages'[j.slot] = r /\ \A s \in Slot : s # j.slot => messages'[s] = messages[s]
      BY <1>0, <3>1, <3>3 DEF RowsTyped
    <3>7. Follows(messages, messages', issued)
      BY <1>0, <2>3, <3>1, <3>5, <3>6 DEF Follows
    <3>8. names' = names /\ issued' = issued /\ fate' = fate /\ Ages(fate, fate') /\ names <= names' /\ issued \subseteq issued'
      BY <1>0, <1>a, <1>u, <2>1
    <3>9. JobMoves(w) /\ ~Writing(job'[w], fate')
      <4>1. CASE Stop(w)
        <5>1. job'[w] = Idle /\ Idle.at = "idle"
          BY <1>0, <4>1 DEF Stop, Set, Idle
        <5> QED
          BY <1>s, <4>1, <5>1 DEF Writing
      <4>2. CASE Goto(w, "save")
        <5>1. PICK i : i = [j EXCEPT !.at = "save"]
          OBVIOUS
        <5>2. i.was = j.was /\ i.slot = j.slot /\ i.new = j.new /\ i.at = "save"
          BY <5>1 DEF Job
        <5>3. job' = [job EXCEPT ![w] = i]
          BY <4>2, <1>j, <5>1 DEF Goto, Set
        <5>4. JobMoves(w)
          BY <1>j, <3>7, <3>8, <5>2, <5>3, JobContinues
        <5>5. ~Writing(job'[w], fate')
          BY <1>0, <5>2, <5>3 DEF Writing
        <5> QED
          BY <5>4, <5>5
      <4> QED
        BY <2>1, <4>1, <4>2
    <3>10. Unwritten(j.new.name, job', fate')
      <4> SUFFICES ASSUME NEW v \in Writer, Writing(job'[v], fate') PROVE job'[v].new.name # j.new.name
        BY DEF Unwritten
      <4>1. v # w
        BY <3>9
      <4>2. job'[v] = job[v] /\ Writing(job[v], fate)
        BY <3>8, <3>9, <4>1 DEF JobMoves
      <4> QED
        BY <1>j, <1>o, <3>1, <4>1, <4>2 DEF Apart
    <3>11. FilesOK(maildir', names', fate') /\ Stays(maildir, maildir', fate')
      BY <2>1, <3>8, SameFiles
    <3>12. WrittenOK(job', maildir', fate')
      BY <1>0, <3>8, <3>9, <3>11, MovesWriting, WrittenLater
    <3>13. Kept(messages', maildir', fate')
      <4>1. ASSUME NEW s \in Slot, messages[s] # NoFile, messages[s].path = NoFile, IsHere(fate', messages[s].letter)
            PROVE  \/ messages'[s] # NoFile /\ messages'[s].letter = messages[s].letter /\ messages'[s].path = NoFile
                   \/ \E f \in maildir' : f.letter = messages[s].letter
        <5>1. CASE s # j.slot
          BY <3>6, <4>1, <5>1
        <5>2. CASE s = j.slot
          <6>1. j.at # "attach"
            BY <1>o, <2>3, <3>1, <4>1, <5>2, RowIs DEF JobOK
          <6>2. Writing(j, fate)
            BY <2>1, <3>1, <3>8, <4>1, <5>2, <6>1 DEF Writing
          <6>3. PICK f \in maildir : f.letter = j.new.letter
            BY <1>0, <1>j, <6>2 DEF WrittenOK
          <6> QED
            BY <2>1, <3>1, <5>2, <6>3
        <5> QED
          BY <5>1, <5>2
      <4>2. fate' \in [Letter -> Fates] /\ \A l \in Letter : ~(fate[l] = "unknown" /\ IsHere(fate', l))
        BY <1>0, <3>8 DEF IsHere
      <4>3. Remains(maildir, maildir', fate', NoFile)
        BY <3>11, StaysRemains
      <4> QED
        BY <1>0, <3>8, <4>1, <4>2, <4>3, KeptLater
    <3>14. PickOK(pass', messages', maildir', names', fate', job', issued')
      <4>1. pass'.at = pass.at /\ pass'.pick = pass.pick /\ pass'.hit = pass.hit /\ pass'.list = pass.list
        BY <2>1, StirTyped DEF TypesInv
      <4>2. pass.pick # NoFile => Unwritten(pass.pick.name, job', fate')
        BY <3>8, <3>9, PickFree
      <4> QED
        BY <3>7, <3>8, <3>11, <4>1, <4>2, StaysRemains, PickLater
    <3>15. RowOK(r, names', fate') /\ Unwritten(r.path.name, job', fate')
      BY <3>1, <3>5, <3>8, <3>10 DEF RowOK
    <3>16. \A s \in Slot : messages'[s] # NoFile =>
            \/ messages[s] # NoFile /\ messages'[s].letter = messages[s].letter /\ messages'[s].path = messages[s].path
            \/ RowOK(messages'[s], names', fate') /\ (messages'[s].path # NoFile => Unwritten(messages'[s].path.name, job', fate'))
      BY <3>6, <3>15
    <3> QED
      BY <3>7, <3>8, <3>9, <3>11, <3>12, <3>13, <3>14, <3>16, KeptStep DEF JobMoves
  <2> QED
    BY <2>2, <2>3
<1> QED
  BY <1>1, <1>2, <1>3, <1>4, <1>5, <1>7, <1>8, <1>9, <1>10

\* Between a look and what follows the scanner has nothing in hand.
LEMMA EmptyHand ==
  ASSUME NEW ps, ps.pick = NoFile, ps.at \notin {"update", "adopt", "copy", "sweep"}, NEW ms, NEW md, NEW nm, NEW ft, NEW jb, NEW us
  PROVE  PickOK(ps, ms, md, nm, ft, jb, us)
BY DEF PickOK

\* A step of the scanner that changes nothing but what it has in hand.
LEMMA ScanStep ==
  ASSUME KeptInv, messages' = messages, maildir' = maildir, job' = job, fate' = fate, names' = names, issued' = issued,
         PickOK(pass', messages, maildir, names, fate, job, issued)
  PROVE  KeptInv'
BY DEF KeptInv

\* The scanner looks at a file.
LEMMA LookKept ==
  ASSUME TypesInv, TypesInv', KeptInv, ~Busy(Scanner),
         NEW f \in pass.todo, NEW act \in ScanAt, NEW hit \in Slot \cup {NoFile}, LookAtFile(f, act, hit)
  PROVE  KeptInv'
<1>0. /\ names \in Nat /\ job \in [Writer -> Job] /\ issued \subseteq Slot /\ RowsTyped(messages, issued) /\ maildir \subseteq File
      /\ fate \in [Letter -> Fates] /\ FilesOK(maildir, names, fate) /\ WrittenOK(job, maildir, fate) /\ pass \in Scan
  BY Parts DEF TypesInv, ScanTyped
<1>1. /\ f \in maildir /\ pass' = [pass EXCEPT !.todo = pass.todo \ {f}, !.pick = f, !.hit = hit, !.at = act] /\ Look(f, act, hit)
      /\ messages' = messages /\ maildir' = maildir /\ job' = job /\ names' = names /\ issued' = issued
      /\ fate' = IF HalfWritten(f) /\ fate[f.letter] = "here" THEN [fate EXCEPT ![f.letter] = "clashed"] ELSE fate
  BY DEF LookAtFile, Scans
<1>2. pass'.pick = f /\ pass'.at = act /\ pass'.hit = hit
  BY <1>0, <1>1 DEF Scan
<1>3. f \in File /\ f.letter \in Letter /\ f.name <= names /\ fate[f.letter] # "unknown"
  BY <1>0, <1>1, FileIs DEF FilesOK
<1>4. Ages(fate, fate') /\ (\A l \in Letter : fate[l] = "unknown" /\ IsHere(fate', l) => \E g \in maildir' : g.letter = l)
  <2>1. CASE fate' = fate
    BY <2>1 DEF Ages, IsHere
  <2>2. CASE fate' = [fate EXCEPT ![f.letter] = "clashed"]
    <3>1. Ages(fate, fate') /\ fate'[f.letter] = "clashed" /\ \A l \in Letter : l # f.letter => fate'[l] = fate[l]
      BY <1>0, <1>3, <2>2, FateAges
    <3> QED
      BY <3>1 DEF IsHere
  <2> QED
    BY <1>1, <2>1, <2>2
<1>5. RowsQuiet /\ FilesOK(maildir', names', fate') /\ Stays(maildir, maildir', fate')
  BY <1>1, <1>4, SameFiles DEF RowsQuiet
<1>6. Unwritten(f.name, job', fate')
  <2> SUFFICES ASSUME NEW v \in Writer, Writing(job[v], fate'), job[v].new.name = f.name PROVE FALSE
    BY <1>1 DEF Unwritten
  <2>1. v \in Editor
    BY DEF Writer, Busy, Writing
  <2>2. HalfWritten(f)
    BY <2>1 DEF HalfWritten, Writing
  <2>3. JobOK(job[v], messages, names, fate) /\ JobShape(job[v], issued) /\ job[v] \in Job
    BY Parts DEF JobsOK
  <2>4. Writing(job[v], fate)
    BY <1>4, <2>3, WritingBefore
  <2>5. PICK g \in maildir : g.name = f.name /\ g.letter = job[v].new.letter
    BY <1>0, <2>4 DEF WrittenOK
  <2>6. g = f
    BY <1>0, <1>1, <2>5 DEF FilesOK
  <2>7. IsHere(fate, f.letter) /\ IsHere(fate', f.letter)
    BY <2>4, <2>5, <2>6 DEF Writing
  <2> QED
    BY <1>0, <1>1, <1>3, <2>2, <2>7 DEF IsHere
<1>7. ASSUME act \in {"update", "adopt"}
      PROVE  hit \in issued /\ (messages[hit] # NoFile => messages[hit].letter = f.letter)
  <2>1. hit \in Slot /\ messages[hit] # NoFile /\ (messages[hit].path = f \/ messages[hit].letter = f.letter)
    <3>1. CASE act = "update"
      BY <1>1, <3>1 DEF Look, ByPath, Live
    <3>2. CASE act = "adopt"
      BY <1>1, <3>2 DEF Look, Candidates, Homeless, SameLetter, Live
    <3> QED
      BY <1>7, <3>1, <3>2
  <2> QED
    BY <1>3, <2>1, RowHere, FileIs DEF RowOK
<1>8. ASSUME act = "copy" PROVE \E g \in maildir : g.letter = f.letter /\ g.name # f.name
  <2>1. ByPath(f) = {} /\ Candidates(f) = {} /\ \E s \in SameLetter(f) : messages[s].folder = f.folder
    BY <1>1, <1>8 DEF Look
  <2>2. Homeless(f) = {}
    BY <2>1, Zenon DEF Candidates
  <2>3. PICK s \in Slot : messages[s] # NoFile /\ messages[s].letter = f.letter
    BY <2>1 DEF SameLetter, Live
  <2>4. messages[s].path # NoFile /\ messages[s].path \in maildir /\ messages[s].path # f
    BY <2>1, <2>2, <2>3 DEF Homeless, SameLetter, Live, ByPath
  <2>5. messages[s].path.letter = f.letter
    BY <2>3, <2>4, RowHere DEF RowOK
  <2>6. messages[s].path.name # f.name
    BY <1>0, <1>1, <2>4 DEF FilesOK
  <2> QED
    BY <2>4, <2>5, <2>6
<1>9. PickOK(pass', messages', maildir', names', fate', job', issued')
  <2>1. fate'[f.letter] # "unknown"
    BY <1>3, <1>4 DEF Ages
  <2>2. pass'.at # "sweep"
    BY <1>2 DEF ScanAt
  <2> QED
    BY <1>1, <1>2, <1>3, <1>6, <1>7, <1>8, <2>1, <2>2 DEF PickOK
<1>10. names <= names' /\ issued \subseteq issued' /\ Scanner \in Writer
  BY <1>0, <1>1, Parts
<1>11. JobMoves(Scanner)
  BY <1>1, <1>4, <1>5, <1>10, QuietRows, NobodyMoves
<1> QED
  BY <1>4, <1>5, <1>9, <1>10, <1>11, QuietStep

\* Nor do the steps of the scanner: a copy is removed only beside its original.
LEMMA PassKept == ASSUME TypesInv, TypesInv', KeptInv, PassStep PROVE KeptInv'
<1>0. /\ names \in Nat /\ job \in [Writer -> Job] /\ issued \subseteq Slot /\ RowsTyped(messages, issued) /\ maildir \subseteq File
      /\ fate \in [Letter -> Fates] /\ Scanner \in Writer
      /\ FilesOK(maildir, names, fate) /\ RowsOK(messages, names, fate, job) /\ JobsOK(job, messages, names, fate)
      /\ WrittenOK(job, maildir, fate) /\ PickOK(pass, messages, maildir, names, fate, job, issued) /\ Kept(messages, maildir, fate)
  BY Parts
<1>p. pass \in Scan /\ ScanShape(pass) /\ pass.list \subseteq issued
  BY DEF TypesInv, ScanTyped, ScannerTurns
<1>a. Ages(fate, fate)
  BY DEF Ages
<1>n. \A l \in Letter : fate[l] = "unknown" /\ IsHere(fate, l) => FALSE
  BY DEF IsHere
<1>r. Resume => pass'.at = "scan" /\ pass'.pick = NoFile /\ pass'.list = pass.list
  BY <1>p DEF Resume, Scan
<1>e. pass'.pick = NoFile /\ pass'.at \notin {"update", "adopt", "copy", "sweep"} =>
          PickOK(pass', messages', maildir', names', fate', job', issued')
  BY EmptyHand
<1>1. ASSUME NEW full \in BOOLEAN, BeginPass(full) PROVE KeptInv'
  <2>1. PICK known, dirs, calm : pass' = [NoPass EXCEPT !.at = "scan", !.full = full, !.dirs = dirs, !.scanned = dirs, !.calm = calm, !.known = known]
    BY <1>1, Zenon DEF BeginPass
  <2>2. pass'.at = "scan" /\ pass'.pick = NoFile
    BY <2>1 DEF NoPass
  <2>3. UNCHANGED <<messages, maildir, job, fate, issued, names>>
    BY <1>1 DEF BeginPass, Scans
  <2> QED
    BY <1>e, <2>2, <2>3, ScanStep
<1> SUFFICES ASSUME ~Busy(Scanner),
                    \/ \E d \in pass.dirs : ListFolder(d)
                    \/ \E f \in pass.todo :
                          \/ FileGone(f)
                          \/ \E act \in {"update", "adopt", "copy", "import"}, hit \in Slot \cup {NoFile} :
                                LookAtFile(f, act, hit)
                    \/ UpdateRow \/ RemoveCopy
                    \/ \E moved \in BOOLEAN, to \in Box \ {Inbox} : ImportFile(moved, to)
                    \/ ListBackfill \/ ListMissing
                    \/ \E s \in pass.list : Backfill(s) \/ DropRow(s)
             PROVE  KeptInv'
  BY <1>1, Zenon DEF PassStep
<1>2. ASSUME NEW d \in pass.dirs, ListFolder(d) PROVE KeptInv'
  <2>1. PICK found, todo, known : pass' = [pass EXCEPT !.dirs = pass.dirs \ {d}, !.todo = todo, !.known = known, !.seen = pass.seen \cup found]
    BY <1>2, Zenon DEF ListFolder
  <2>2. pass'.at = pass.at /\ pass'.pick = pass.pick /\ pass.at = "scan"
    BY <1>2, <1>p, <2>1 DEF Scan, ListFolder
  <2>3. UNCHANGED <<messages, maildir, job, fate, issued, names>>
    BY <1>2 DEF ListFolder, Scans
  <2> QED
    BY <1>e, <1>p, <2>2, <2>3, ScanStep DEF ScanShape, ScanAt
<1>3. ASSUME NEW f \in pass.todo, FileGone(f) PROVE KeptInv'
  <2>1. pass'.at = pass.at /\ pass'.pick = pass.pick /\ pass.at = "scan"
    BY <1>3, <1>p DEF Scan, FileGone
  <2>2. UNCHANGED <<messages, maildir, job, fate, issued, names>>
    BY <1>3 DEF FileGone, Scans
  <2> QED
    BY <1>e, <1>p, <2>1, <2>2, ScanStep DEF ScanShape, ScanAt
<1>5. ASSUME UpdateRow PROVE KeptInv'
  <2>1. /\ pass.at \in {"update", "adopt"} /\ Resume /\ Scans /\ UNCHANGED <<maildir, changed, job, fate>>
        /\ messages' = IF messages[pass.hit] = NoFile THEN messages
            ELSE [messages EXCEPT ![pass.hit] =
                     [@ EXCEPT !.folder = pass.pick.folder, !.path = pass.pick, !.read = ShownRead(pass.pick),
                               !.star = ShownStar(pass.pick), !.aged = FALSE]]
    BY <1>5 DEF UpdateRow
  <2>2. names' = names /\ issued' = issued /\ fate' = fate /\ job' = job /\ maildir' = maildir
    BY <2>1 DEF Scans
  <2>3. PickOK(pass', messages', maildir', names', fate', job', issued')
    BY <1>e, <1>r, <2>1
  <2>4. CASE messages[pass.hit] = NoFile
    BY <2>1, <2>2, <2>3, <2>4, ScanStep
  <2>5. CASE messages[pass.hit] # NoFile
    <3>1. PICK f \in File : f = pass.pick
      BY <1>p, <2>1 DEF ScanShape, ScanAt, Scan
    <3>2. PICK s \in Slot : s = pass.hit
      BY <1>p, <2>1 DEF ScanShape, Scan
    <3>3. PICK r : r = [messages[s] EXCEPT !.folder = f.folder, !.path = f, !.read = ShownRead(f),
                               !.star = ShownStar(f), !.aged = FALSE]
      OBVIOUS
    <3>4. messages[s] \in Row /\ messages[s] # NoFile /\ f # NoFile
      BY <2>5, <3>2, RowHere, FileIs
    <3>5. messages' = [messages EXCEPT ![s] = r]
      BY <1>0, <2>1, <2>5, <3>1, <3>2, <3>3 DEF RowsTyped
    <3>6. r.letter = messages[s].letter /\ r.path = f
      BY <3>3, <3>4 DEF Row
    <3>7. messages'[s] = r /\ \A t \in Slot : t # s => messages'[t] = messages[t]
      BY <1>0, <3>5 DEF RowsTyped
    <3>8. /\ s \in issued /\ messages[s].letter = f.letter /\ (IsHere(fate, f.letter) => \E g \in maildir : g.letter = f.letter)
          /\ f.name <= names /\ fate[f.letter] # "unknown" /\ Unwritten(f.name, job, fate)
      BY <1>0, <2>1, <3>1, <3>2, <3>4 DEF PickOK
    <3>9. Follows(messages, messages', issued)
      BY <1>0, <3>4, <3>6, <3>7 DEF Follows
    <3>10. Ages(fate, fate') /\ names <= names' /\ issued \subseteq issued'
      BY <1>0, <1>a, <2>2
    <3>11. JobMoves(Scanner)
      BY <2>2, <3>9, <3>10, NobodyMoves
    <3>12. FilesOK(maildir', names', fate') /\ WrittenOK(job', maildir', fate')
      BY <1>0, <2>2
    <3>13. Kept(messages', maildir', fate')
      <4>1. \A t \in Slot : messages[t] # NoFile /\ messages[t].path = NoFile /\ IsHere(fate', messages[t].letter) =>
                   \/ messages'[t] # NoFile /\ messages'[t].letter = messages[t].letter /\ messages'[t].path = NoFile
                   \/ \E g \in maildir' : g.letter = messages[t].letter
        BY <2>2, <3>7, <3>8
      <4>2. fate' \in [Letter -> Fates] /\ \A l \in Letter : ~(fate[l] = "unknown" /\ IsHere(fate', l))
        BY <1>0, <1>n, <2>2
      <4>3. Remains(maildir, maildir', fate', NoFile)
        BY <2>2 DEF Remains
      <4> QED
        BY <1>0, <3>10, <4>1, <4>2, <4>3, KeptLater
    <3>14. RowOK(r, names', fate') /\ Unwritten(r.path.name, job', fate')
      BY <2>2, <3>6, <3>8 DEF RowOK
    <3>15. \A t \in Slot : messages'[t] # NoFile =>
            \/ messages[t] # NoFile /\ messages'[t].letter = messages[t].letter /\ messages'[t].path = messages[t].path
            \/ RowOK(messages'[t], names', fate') /\ (messages'[t].path # NoFile => Unwritten(messages'[t].path.name, job', fate'))
      BY <3>7, <3>14
    <3> QED
      BY <1>0, <2>3, <3>9, <3>10, <3>11, <3>12, <3>13, <3>15, KeptStep DEF JobMoves
  <2> QED
    BY <2>4, <2>5
<1>6. ASSUME RemoveCopy PROVE KeptInv'
  <2>1. /\ pass.at = "copy" /\ maildir' = maildir \ {pass.pick} /\ Resume /\ Scans /\ UNCHANGED <<messages, job, fate>>
    BY <1>6 DEF RemoveCopy
  <2>2. names' = names /\ issued' = issued /\ fate' = fate /\ job' = job /\ messages' = messages
    BY <2>1 DEF Scans
  <2>3. PickOK(pass', messages', maildir', names', fate', job', issued')
    BY <1>e, <1>r, <2>1
  <2>4. pass.pick \in File /\ pass.pick # NoFile
    BY <1>p, <2>1 DEF ScanShape, ScanAt, Scan
  <2>5. WrittenOK(job', maildir', fate')
    <3> SUFFICES ASSUME NEW v \in Writer, Writing(job[v], fate)
                 PROVE  \E f \in maildir' : f.name = job[v].new.name /\ f.letter = job[v].new.letter
      BY <2>2 DEF WrittenOK
    <3>1. PICK f \in maildir : f.name = job[v].new.name /\ f.letter = job[v].new.letter
      BY <1>0 DEF WrittenOK
    <3>2. f # pass.pick
      BY <1>0, <2>4, <3>1 DEF PickOK, Unwritten
    <3> QED
      BY <2>1, <3>1, <3>2
  <2>6. FilesOK(maildir', names', fate')
    BY <1>0, <2>1, <2>2 DEF FilesOK
  <2>7. Remains(maildir, maildir', fate', NoFile)
    <3> SUFFICES ASSUME NEW f \in maildir, IsHere(fate, f.letter) PROVE \E g \in maildir' : g.letter = f.letter
      BY <2>2 DEF Remains
    <3>1. CASE f # pass.pick
      BY <2>1, <3>1
    <3>2. CASE f = pass.pick
      <4>1. PICK g \in maildir : g.letter = f.letter /\ g.name # f.name
        BY <1>0, <2>1, <3>2 DEF PickOK
      <4> QED
        BY <2>1, <3>2, <4>1
    <3> QED
      BY <3>1, <3>2
  <2>8. Kept(messages', maildir', fate')
    BY <1>0, <1>a, <1>n, <2>2, <2>7, KeptLater
  <2>9. Ages(fate, fate') /\ names <= names' /\ issued \subseteq issued' /\ Follows(messages, messages', issued)
    BY <1>0, <1>a, <2>2 DEF Follows
  <2>10. JobMoves(Scanner)
    BY <2>2, <2>9, NobodyMoves
  <2> QED
    BY <1>0, <2>2, <2>3, <2>5, <2>6, <2>8, <2>9, <2>10, KeptStep DEF JobMoves
<1>7. ASSUME NEW moved \in BOOLEAN, NEW to \in Box \ {Inbox}, ImportFile(moved, to) PROVE KeptInv'
  <2>1. PICK s : s = NewSlot
    OBVIOUS
  <2>2. PICK f : f = pass.pick
    OBVIOUS
  <2>3. PICK row : row = Arrived(f.letter, f)
    OBVIOUS
  <2>4. PICK j : j = [Idle EXCEPT !.at = "rename", !.kind = "move", !.slot = s, !.was = row, !.to = to]
    OBVIOUS
  <2>5. /\ pass.at = "import" /\ Unused # {} /\ messages' = [messages EXCEPT ![s] = row] /\ issued' = issued \cup {s}
        /\ job' = IF moved THEN [job EXCEPT ![Scanner] = j] ELSE job
        /\ Resume /\ UNCHANGED <<maildir, changed, names, events, fate>>
    BY <1>7, <2>1, <2>2, <2>3, <2>4, Zenon DEF ImportFile
  <2>6. f \in File
    BY <1>p, <2>2, <2>5 DEF ScanShape, ScanAt, Scan
  <2>7. row \in Row /\ row.letter = f.letter /\ row.path = f /\ f # NoFile /\ row # NoFile
    BY <2>3, <2>6, ArrivedIs, FileIs, RowIs
  <2>8. s \in Slot /\ s \notin issued /\ issued \subseteq issued'
    BY <2>1, <2>5 DEF NewSlot, Unused
  <2>9. f.name <= names /\ fate[f.letter] # "unknown" /\ Unwritten(f.name, job, fate)
    BY <1>0, <2>2, <2>7 DEF PickOK
  <2>10. RowOK(row, names, fate)
    BY <2>7, <2>9 DEF RowOK
  <2>11. messages'[s] = row /\ messages[s] = NoFile /\ \A t \in Slot : t # s => messages'[t] = messages[t]
    BY <1>0, <2>5, <2>8 DEF RowsTyped
  <2>12. Follows(messages, messages', issued)
    BY <1>0, <2>8, <2>11 DEF Follows
  <2>13. Ages(fate, fate') /\ names <= names'
    BY <1>0, <1>a, <2>5
  <2>14. JobMoves(Scanner)
    <3>1. CASE job' = job
      BY <2>12, <2>13, <3>1, NobodyMoves
    <3>2. CASE job' = [job EXCEPT ![Scanner] = j]
      <4>1. j.at = "rename" /\ j.slot = s /\ j.was = row /\ j.new = NoFile
        BY <2>4 DEF Idle
      <4>2. RowOK(j.was, names', fate') /\ Unwritten(j.was.path.name, job, fate)
        BY <2>5, <2>7, <2>9, <2>10, <4>1
      <4>3. messages'[j.slot] # NoFile =>
              messages'[j.slot].letter = j.was.letter /\ (j.was.path # NoFile => messages'[j.slot].path # NoFile)
        BY <2>11, <4>1
      <4> QED
        BY <1>0, <3>2, <4>1, <4>2, <4>3, JobBegins
    <3> QED
      BY <2>5, <3>1, <3>2
  <2>15. Unwritten(f.name, job', fate')
    BY <1>0, <2>9, <2>13, <2>14, MovesWriting, FreeLater
  <2>16. FilesOK(maildir', names', fate') /\ Stays(maildir, maildir', fate')
    BY <2>5, <2>13, SameFiles
  <2>17. WrittenOK(job', maildir', fate')
    BY <1>0, <2>13, <2>14, <2>16, MovesWriting, WrittenLater
  <2>18. Kept(messages', maildir', fate')
    <3>1. \A t \in Slot : messages[t] # NoFile /\ messages[t].path = NoFile /\ IsHere(fate', messages[t].letter) =>
                messages'[t] # NoFile /\ messages'[t].letter = messages[t].letter /\ messages'[t].path = NoFile
      BY <2>11
    <3>2. fate' \in [Letter -> Fates] /\ \A l \in Letter : ~(fate[l] = "unknown" /\ IsHere(fate', l))
      BY <1>0, <1>n, <2>5
    <3> QED
      BY <1>0, <2>13, <2>16, <3>1, <3>2, StaysRemains, KeptLater
  <2>19. PickOK(pass', messages', maildir', names', fate', job', issued')
    BY <1>e, <1>r, <2>5
  <2>20. \A t \in Slot : messages'[t] # NoFile =>
            \/ messages[t] # NoFile /\ messages'[t].letter = messages[t].letter /\ messages'[t].path = messages[t].path
            \/ RowOK(messages'[t], names', fate') /\ (messages'[t].path # NoFile => Unwritten(messages'[t].path.name, job', fate'))
    BY <2>5, <2>7, <2>10, <2>11, <2>15
  <2> QED
    BY <1>0, <2>8, <2>12, <2>13, <2>14, <2>16, <2>17, <2>18, <2>19, <2>20, KeptStep DEF JobMoves
<1>8. ASSUME ListBackfill PROVE KeptInv'
  <2>1. PICK list : pass' = [pass EXCEPT !.at = "backfill", !.list = list]
    BY <1>8 DEF ListBackfill
  <2>2. pass'.at = "backfill" /\ pass'.pick = pass.pick /\ pass.at = "scan"
    BY <1>8, <1>p, <2>1 DEF Scan, ListBackfill
  <2>3. UNCHANGED <<messages, maildir, job, fate, issued, names>>
    BY <1>8 DEF ListBackfill, Scans
  <2> QED
    BY <1>e, <1>p, <2>2, <2>3, ScanStep DEF ScanShape, ScanAt
<1>9. ASSUME ListMissing PROVE KeptInv'
  <2>1. UNCHANGED <<messages, maildir, job, fate, issued, names>> /\ (pass' = Finished \/ pass' = [Finished EXCEPT !.at = "sweep", !.list = Missing])
    BY <1>9 DEF ListMissing, Scans
  <2>2. Finished = [NoPass EXCEPT !.calm = pass.calm]
    BY DEF Finished
  <2>3. Finished.at = "idle" /\ Finished.pick = NoFile
    BY <2>2 DEF NoPass
  <2>4. CASE pass' = Finished
    BY <1>e, <2>1, <2>3, <2>4, ScanStep
  <2>5. CASE pass' = [Finished EXCEPT !.at = "sweep", !.list = Missing]
    <3>1. pass'.at = "sweep" /\ pass'.pick = NoFile /\ pass'.list = Missing
      BY <2>2, <2>5 DEF NoPass
    <3>2. \A s \in Missing : messages[s].path # NoFile
      BY DEF Missing
    <3>3. PickOK(pass', messages, maildir, names, fate, job, issued)
      BY <3>1, <3>2 DEF PickOK
    <3> QED
      BY <2>1, <3>3, ScanStep
  <2> QED
    BY <2>1, <2>4, <2>5
<1>10. ASSUME NEW s \in pass.list, Backfill(s) PROVE KeptInv'
  <2>1. PICK j : j = [Idle EXCEPT !.at = "state", !.kind = "rewrite", !.slot = s]
    OBVIOUS
  <2>2. pass.at = "backfill" /\ pass' = [pass EXCEPT !.list = pass.list \ {s}] /\ job' = [job EXCEPT ![Scanner] = j] /\ Scans
        /\ UNCHANGED <<messages, maildir, changed, fate>>
    BY <1>10, <2>1 DEF Backfill, Set
  <2>3. pass'.at = pass.at /\ pass'.pick = pass.pick
    BY <1>p, <2>2 DEF Scan
  <2>4. PickOK(pass', messages', maildir', names', fate', job', issued')
    BY <1>e, <1>p, <2>2, <2>3 DEF ScanShape, ScanAt
  <2>5. j.at = "state" /\ j.was = NoFile /\ j.new = NoFile
    BY <2>1 DEF Idle
  <2>6. JobMoves(Scanner)
    BY <1>0, <2>2, <2>5, JobBegins
  <2>7. Ages(fate, fate') /\ names <= names' /\ issued \subseteq issued' /\ RowsQuiet
    BY <1>0, <1>a, <2>2 DEF Scans, RowsQuiet
  <2>8. FilesOK(maildir', names', fate') /\ Stays(maildir, maildir', fate')
    BY <2>2, <2>7, SameFiles DEF Scans
  <2>9. \A l \in Letter : fate[l] = "unknown" /\ IsHere(fate', l) => \E f \in maildir' : f.letter = l
    BY <1>n, <2>2
  <2> QED
    BY <1>0, <2>4, <2>6, <2>7, <2>8, <2>9, QuietStep
<1>11. ASSUME NEW s \in pass.list, DropRow(s) PROVE KeptInv'
  <2>1. pass.at = "sweep" /\ messages' = [messages EXCEPT ![s] = NoFile] /\ Scans /\ UNCHANGED <<maildir, changed, job, fate>>
        /\ \E at : pass' = [pass EXCEPT !.list = pass.list \ {s}, !.at = at]
    BY <1>11, Zenon DEF DropRow
  <2>2. pass'.pick = pass.pick /\ pass.pick = NoFile /\ pass'.list \subseteq pass.list
    BY <1>p, <2>1 DEF Scan, ScanShape, ScanAt
  <2>3. pass'.at \in {"idle", "sweep"}
    <3>1. PICK at : at = IF pass.list = {s} THEN "idle" ELSE "sweep"
      OBVIOUS
    <3>2. pass' = [pass EXCEPT !.list = pass.list \ {s}, !.at = at]
      BY <1>11, <3>1, Zenon DEF DropRow
    <3> QED
      BY <1>p, <3>1, <3>2 DEF Scan
  <2>4. s \in Slot /\ s \in issued
    BY <1>0, <1>p
  <2>5. messages'[s] = NoFile /\ \A t \in Slot : t # s => messages'[t] = messages[t]
    BY <1>0, <2>1, <2>4 DEF RowsTyped
  <2>6. \A t \in pass.list : messages[t] # NoFile => messages[t].path # NoFile
    BY <1>0, <2>1 DEF PickOK
  <2>7. RowsQuiet
    BY <2>5, <2>6 DEF RowsQuiet
  <2>8. PickOK(pass', messages', maildir', names', fate', job', issued')
    <3>1. \A t \in pass'.list : messages'[t] # NoFile => messages'[t].path # NoFile
      BY <1>0, <1>p, <2>2, <2>5, <2>6
    <3> QED
      BY <2>2, <2>3, <3>1 DEF PickOK
  <2>9. Ages(fate, fate') /\ names <= names' /\ issued \subseteq issued' /\ job' = job
    BY <1>0, <1>a, <2>1 DEF Scans
  <2>10. FilesOK(maildir', names', fate') /\ Stays(maildir, maildir', fate')
    BY <2>1, <2>9, SameFiles DEF Scans
  <2>11. \A l \in Letter : fate[l] = "unknown" /\ IsHere(fate', l) => \E f \in maildir' : f.letter = l
    BY <1>n, <2>1
  <2>12. JobMoves(Scanner)
    BY <2>7, <2>9, QuietRows, NobodyMoves
  <2> QED
    BY <1>0, <2>7, <2>8, <2>9, <2>10, <2>11, <2>12, QuietStep
<1> QED
  BY <1>2, <1>3, <1>5, <1>6, <1>7, <1>8, <1>9, <1>10, <1>11, LookKept, Zenon DEF ScanAt

\* At the start nothing is under way.
LEMMA InitKept == MaildirInit => KeptInv
<1> SUFFICES ASSUME MaildirInit PROVE KeptInv
  OBVIOUS
<1>1. pass = NoPass /\ job = [w \in Writer |-> Idle]
  BY DEF MaildirInit
<1>2. pass.pick = NoFile /\ pass.at = "idle"
  BY <1>1 DEF NoPass
<1>3. Idle.at = "idle" /\ Idle.was = NoFile /\ Idle.new = NoFile
  BY DEF Idle
<1>4. PickOK(pass, messages, maildir, names, fate, job, issued)
  BY <1>2, EmptyHand
<1>5. \A w \in Writer : job[w] = Idle
  BY <1>1
<1>6. WrittenOK(job, maildir, fate) /\ \A n : Unwritten(n, job, fate)
  BY <1>3, <1>5 DEF WrittenOK, Writing, Unwritten
<1>7. JobsOK(job, messages, names, fate)
  BY <1>3, <1>5 DEF JobsOK, JobOK, Apart
<1>8. CASE messages = [s \in Slot |-> NoFile] /\ maildir = {} /\ fate = [l \in Letter |-> "unknown"]
  BY <1>4, <1>6, <1>7, <1>8 DEF KeptInv, FilesOK, RowsOK, Kept, IsHere
<1>9. ASSUME NEW f \in File, f.name = 1, maildir = {f}, names = 1, NEW s \in Slot,
             messages = [t \in Slot |-> IF t = s THEN Arrived(f.letter, f) ELSE NoFile],
             fate = [[l \in Letter |-> "unknown"] EXCEPT ![f.letter] = "here"]
      PROVE  KeptInv
  <2>1. f.letter \in Letter /\ fate[f.letter] = "here" /\ \A l \in Letter : l # f.letter => fate[l] = "unknown"
    BY <1>9, FileIs
  <2>2. FilesOK(maildir, names, fate)
    BY <1>9, <2>1 DEF FilesOK
  <2>3. Kept(messages, maildir, fate)
    BY <1>9, <2>1 DEF Kept, IsHere
  <2>4. RowsOK(messages, names, fate, job)
    <3>1. PICK r : r = Arrived(f.letter, f)
      OBVIOUS
    <3>2. r.letter = f.letter /\ r.path = f
      BY <3>1, ArrivedIs
    <3>3. RowOK(r, names, fate)
      BY <1>9, <2>1, <3>2 DEF RowOK
    <3>4. \A t \in Slot : messages[t] # NoFile => messages[t] = r
      BY <1>9, <3>1
    <3> QED
      BY <1>6, <3>3, <3>4 DEF RowsOK
  <2> QED
    BY <1>4, <1>6, <1>7, <2>2, <2>3, <2>4 DEF KeptInv
<1> QED
  BY <1>8, <1>9 DEF MaildirInit

-----------------------------------------------------------------------------
(* The Maildir: a calm full pass leaves rows and files equal *)

\* A file has a row that says what it shows.
Agreed(ms, f) == \E s \in Slot : /\ ms[s] # NoFile /\ ms[s].path = f /\ ms[s].folder = f.folder
                                 /\ ms[s].read = ShownRead(f) /\ ms[s].star = ShownStar(f)

\* A full pass nobody disturbs: every file is still to be listed, still to be
\* looked at, in hand, or has its row.
Listed(ps, ms, md, fd) ==
  /\ \A f \in md : f.folder \in fd => f.folder \in ps.dirs \/ f \in ps.todo \/ f = ps.pick \/ Agreed(ms, f)
  /\ \A f \in ps.todo : f.folder \notin ps.dirs
  /\ \A r \in ps.known : r.path \in md /\ r.path.folder \in ps.dirs => \E s \in Slot : ms[s] = r
  /\ \A s \in Slot : ms[s] # NoFile /\ ms[s].path \in ps.seen => ms[s].path \in md
\* What the scanner decided about the file in hand still holds.
PickInHand(ps, ms, md) ==
  /\ ps.pick # NoFile => ps.pick.folder \notin ps.dirs /\ ps.pick \in md
  /\ ps.at = "update" => ms[ps.hit] # NoFile /\ ms[ps.hit].path = ps.pick
  /\ ps.at = "adopt" => ms[ps.hit] # NoFile /\ ms[ps.hit].path \notin md
  /\ ps.at = "copy" => \A s \in Slot : ms[s] # NoFile => ms[s].path # ps.pick
\* Rows without a file are still to be written.
Filed(ps, ms) ==
  ps.at = "backfill" => ps.dirs = {} /\ ps.todo = {} /\ \A s \in Slot : ms[s] # NoFile => ms[s].path # NoFile \/ s \in ps.list
\* A calm pass over the directories.
Scanning(ps) == ps.calm /\ ps.at \in {"scan", "backfill"} \cup ScanAt
\* The files have their rows; rows without a file are still to be deleted.
Sweeping(ps, ms, md, fd) ==
  /\ \A f \in md : f.folder \in fd => Agreed(ms, f)
  /\ \A s \in Slot : ms[s] # NoFile => ms[s].path \in md \/ ~ms[s].aged \/ s \in ps.list
  /\ \A s \in ps.list : ms[s] # NoFile => ms[s].path \notin md
\* After the pass, files and rows agree.
Settled(ms, md, fd) ==
  /\ \A f \in md : f.folder \in fd => Agreed(ms, f)
  /\ \A s \in Slot : ms[s] # NoFile => ms[s].path \in md \/ ~ms[s].aged
\* The third part of the invariant.
CalmInv ==
  /\ Scanning(pass) /\ ~Busy(Scanner) =>
       pass.full /\ Listed(pass, messages, maildir, folders) /\ PickInHand(pass, messages, maildir) /\ Filed(pass, messages)
  /\ pass.calm /\ pass.at = "sweep" => Sweeping(pass, messages, maildir, folders)
  /\ pass.calm /\ pass.at = "idle" => Settled(messages, maildir, folders)

\* It says that a calm full pass leaves them equal.
LEMMA CalmGives == CalmInv => Converged
BY DEF CalmInv, Settled, Agreed, Converged, Live

\* A pass somebody disturbs promises nothing,
LEMMA StirredCalm == ASSUME TypesInv, Stir PROVE CalmInv'
<1>1. ~pass'.calm
  BY StirTyped DEF TypesInv
<1>2. ~Scanning(pass')
  BY <1>1 DEF Scanning
<1> QED
  BY <1>1, <1>2, Zenon DEF CalmInv

\* and everyone but the scanner disturbs it.
LEMMA OthersStir == ASSUME UserRequest \/ WriteStep \/ OutsideStep PROVE Stir
<1>1. UserRequest => Stir
  <2>1. \A e, s, read, star : MarkMail(e, s, read, star) => Stir
    BY Zenon DEF MarkMail, Start
  <2>2. \A e, s, to : MoveMail(e, s, to) => Stir
    BY Zenon DEF MoveMail, Start
  <2>3. \A e, s : PurgeMail(e, s) \/ SaveDraft(e, s) => Stir
    BY Zenon DEF PurgeMail, SaveDraft, Start
  <2>4. \A e, l, f : StoreMail(e, l, f) => Stir
    BY Zenon DEF StoreMail, Start
  <2>5. \A e, f : DeleteFolder(e, f) => Stir
    BY Zenon DEF DeleteFolder
  <2> QED
    BY <2>1, <2>2, <2>3, <2>4, <2>5, Zenon DEF UserRequest
<1>2. WriteStep => Stir
  BY Zenon DEF WriteStep, RenameFile, FileMissing, AttachFile, SaveFlag, ReadState, PutFile, PutFails, DropOld, UnlinkFile, DeleteRow
<1>3. OutsideStep => Stir
  BY Zenon DEF OutsideStep, Deliver, CopyFile, RefileFile, ExpungeFile, FiveMinutes, Outside
<1> QED
  BY <1>1, <1>2, <1>3

\* The steps of the scanner.
LEMMA PassCalm == ASSUME TypesInv, TypesInv', CalmInv, PassStep PROVE CalmInv'
<1>0. /\ RowsTyped(messages, issued) /\ issued \subseteq Slot /\ pass \in Scan /\ ScanShape(pass)
      /\ maildir \subseteq File /\ NoFile \notin maildir /\ job \in [Writer -> Job] /\ Scanner \in Writer
      /\ (Busy(Scanner) => pass.at \in {"scan", "backfill"}) /\ pass.list \subseteq issued
  BY MaildirAssumption DEF TypesInv, RowsTyped, OthersTyped, JobsTyped, ScanTyped, ScannerTurns, Writer
<1>1. ASSUME NEW full \in BOOLEAN, BeginPass(full) PROVE CalmInv'
  <2>1. PICK dirs : dirs = IF full THEN folders ELSE folders \cap changed
    OBVIOUS
  <2>3. PICK known : known = IF dirs = {} THEN {} ELSE {messages[s] : s \in {t \in Live : messages[t].path # NoFile}}
    OBVIOUS
  <2>5. PICK calm \in BOOLEAN : calm = (full /\ \A e \in Editor : ~Busy(e))
    OBVIOUS
  <2>6. /\ UNCHANGED <<messages, maildir, job, folders>>
        /\ pass' = [NoPass EXCEPT !.at = "scan", !.full = full, !.dirs = dirs, !.scanned = dirs, !.calm = calm, !.known = known]
    BY <1>1, <2>1, <2>3, <2>5, Zenon DEF BeginPass, Scans
  <2>7. pass'.at = "scan" /\ pass'.full = full /\ pass'.dirs = dirs /\ pass'.calm = calm /\ pass'.known = known /\ pass'.seen = {}
        /\ pass'.todo = {} /\ pass'.pick = NoFile
    BY <2>6, Zenon DEF NoPass
  <2>8. \A r \in known : \E s \in Slot : messages[s] = r
    BY <2>3 DEF Live
  <2>9. calm => full /\ dirs = folders
    BY <2>1, <2>5
  <2>10. calm => Listed(pass', messages, maildir, folders)
    BY <2>7, <2>8, <2>9 DEF Listed
  <2>11. PickInHand(pass', messages, maildir) /\ Filed(pass', messages)
    BY <2>7 DEF PickInHand, Filed
  <2> QED
    BY <2>6, <2>7, <2>9, <2>10, <2>11 DEF CalmInv, Scanning
<1> SUFFICES ASSUME ~Busy(Scanner),
                    \/ \E d \in pass.dirs : ListFolder(d)
                    \/ \E f \in pass.todo :
                          \/ FileGone(f)
                          \/ \E act \in {"update", "adopt", "copy", "import"}, hit \in Slot \cup {NoFile} :
                                LookAtFile(f, act, hit)
                    \/ UpdateRow \/ RemoveCopy
                    \/ \E moved \in BOOLEAN, to \in Box \ {Inbox} : ImportFile(moved, to)
                    \/ ListBackfill \/ ListMissing
                    \/ \E s \in pass.list : Backfill(s) \/ DropRow(s)
             PROVE  CalmInv'
  BY <1>1, Zenon DEF PassStep
<1>s. Scanning(pass) => pass.full /\ Listed(pass, messages, maildir, folders) /\ PickInHand(pass, messages, maildir) /\ Filed(pass, messages)
  BY DEF CalmInv
\* A step that goes on with the scan.
<1>g. ASSUME pass'.at \in {"scan", "backfill"} \cup ScanAt, pass'.calm = pass.calm, pass'.full = pass.full, pass.at \in {"scan", "backfill"} \cup ScanAt,
             Scanning(pass) => Listed(pass', messages', maildir', folders') /\ PickInHand(pass', messages', maildir') /\ Filed(pass', messages')
      PROVE  CalmInv'
  BY <1>g, <1>s DEF CalmInv, Scanning, ScanAt
<1>r. Resume => /\ pass'.at = "scan" /\ pass'.calm = pass.calm /\ pass'.full = pass.full /\ pass'.dirs = pass.dirs /\ pass'.known = pass.known
                /\ pass'.seen = pass.seen /\ pass'.todo = pass.todo /\ pass'.pick = NoFile
  BY <1>0 DEF Resume, Scan
<1>h. pass'.at = "scan" /\ pass'.pick = NoFile => PickInHand(pass', messages', maildir') /\ Filed(pass', messages')
  BY DEF PickInHand, Filed
<1>2. ASSUME NEW d \in pass.dirs, ListFolder(d) PROVE CalmInv'
  <2>1. PICK found : found = {f \in maildir : f.folder = d}
    OBVIOUS
  <2>2. PICK todo : todo = {f \in found : ~Agrees(f)}
    OBVIOUS
  <2>3. PICK known : known = IF pass.dirs = {d} THEN {} ELSE pass.known
    OBVIOUS
  <2>5. /\ pass.at = "scan" /\ Scans /\ UNCHANGED <<messages, maildir, changed, job, fate>> /\ pass.todo = {}
        /\ pass' = [pass EXCEPT !.dirs = pass.dirs \ {d}, !.todo = todo, !.known = known, !.seen = pass.seen \cup found]
    BY <1>2, <2>1, <2>2, <2>3 DEF ListFolder
  <2>6. /\ pass'.at = "scan" /\ pass'.pick = NoFile /\ pass'.calm = pass.calm /\ pass'.full = pass.full /\ pass'.dirs = pass.dirs \ {d}
        /\ pass'.todo = todo /\ pass'.known = known /\ pass'.seen = pass.seen \cup found /\ pass.pick = NoFile
    BY <1>0, <2>5 DEF Scan, ScanShape, ScanAt
  <2>7. messages' = messages /\ maildir' = maildir /\ folders' = folders
    BY <2>5 DEF Scans
  <2>8. ASSUME Listed(pass, messages, maildir, folders) PROVE Listed(pass', messages, maildir, folders)
    <3>1. ASSUME NEW f \in maildir, f.folder = d, f \notin todo PROVE Agreed(messages, f)
      <4>1. Agrees(f)
        BY <2>1, <2>2, <3>1
      <4>2. PICK r \in pass.known : r.path = f /\ r.folder = f.folder /\ r.read = ShownRead(f) /\ r.star = ShownStar(f)
        BY <4>1 DEF Agrees
      <4>3. PICK s \in Slot : messages[s] = r
        BY <2>8, <3>1, <4>2 DEF Listed
      <4>4. r # NoFile
        BY <1>0, <4>2, MaildirAssumption DEF Scan
      <4> QED
        BY <4>2, <4>3, <4>4 DEF Agreed
    <3>2. \A f \in maildir : f.folder \in folders =>
             f.folder \in pass'.dirs \/ f \in pass'.todo \/ f = pass'.pick \/ Agreed(messages, f)
      BY <2>5, <2>6, <2>8, <3>1 DEF Listed
    <3>3. \A f \in pass'.todo : f.folder \notin pass'.dirs
      BY <2>1, <2>2, <2>6
    <3>4. \A r \in pass'.known : r.path \in maildir /\ r.path.folder \in pass'.dirs => \E s \in Slot : messages[s] = r
      BY <2>3, <2>6, <2>8 DEF Listed
    <3>5. \A s \in Slot : messages[s] # NoFile /\ messages[s].path \in pass'.seen => messages[s].path \in maildir
      BY <2>1, <2>6, <2>8 DEF Listed
    <3> QED
      BY <3>2, <3>3, <3>4, <3>5 DEF Listed
  <2> QED
    BY <1>g, <1>h, <1>s, <2>5, <2>6, <2>7, <2>8
<1>3. ASSUME NEW f \in pass.todo, FileGone(f) PROVE CalmInv'
  <2>1. pass.at = "scan" /\ f \notin maildir /\ pass' = [pass EXCEPT !.todo = pass.todo \ {f}] /\ Scans /\ UNCHANGED <<messages, maildir, job, fate>>
    BY <1>3 DEF FileGone
  <2>2. /\ pass'.at = "scan" /\ pass'.pick = NoFile /\ pass'.calm = pass.calm /\ pass'.full = pass.full /\ pass'.dirs = pass.dirs
        /\ pass'.todo = pass.todo \ {f} /\ pass'.known = pass.known /\ pass'.seen = pass.seen /\ pass.pick = NoFile
    BY <1>0, <2>1 DEF Scan, ScanShape, ScanAt
  <2>3. messages' = messages /\ maildir' = maildir /\ folders' = folders
    BY <2>1 DEF Scans
  <2>4. Listed(pass, messages, maildir, folders) => Listed(pass', messages, maildir, folders)
    BY <2>1, <2>2 DEF Listed
  <2> QED
    BY <1>g, <1>h, <1>s, <2>1, <2>2, <2>3, <2>4
<1>4. ASSUME NEW f \in pass.todo, NEW act \in ScanAt, NEW hit \in Slot \cup {NoFile}, LookAtFile(f, act, hit)
      PROVE  CalmInv'
  <2>1. /\ pass.at = "scan" /\ pass' = [pass EXCEPT !.todo = pass.todo \ {f}, !.pick = f, !.hit = hit, !.at = act] /\ Scans
        /\ UNCHANGED <<messages, maildir, changed, job>> /\ Look(f, act, hit) /\ f \in maildir /\ pass.pick = NoFile
    BY <1>4 DEF LookAtFile
  <2>2. /\ pass'.at = act /\ pass'.pick = f /\ pass'.hit = hit /\ pass'.calm = pass.calm /\ pass'.full = pass.full /\ pass'.dirs = pass.dirs
        /\ pass'.todo = pass.todo \ {f} /\ pass'.known = pass.known /\ pass'.seen = pass.seen
    BY <1>0, <2>1 DEF Scan
  <2>3. messages' = messages /\ maildir' = maildir /\ folders' = folders
    BY <2>1 DEF Scans
  <2>4. Listed(pass, messages, maildir, folders) => Listed(pass', messages, maildir, folders)
    <3> SUFFICES ASSUME Listed(pass, messages, maildir, folders) PROVE Listed(pass', messages, maildir, folders)
      OBVIOUS
    <3>1. \A g \in maildir : g.folder \in folders => g.folder \in pass'.dirs \/ g \in pass'.todo \/ g = pass'.pick \/ Agreed(messages, g)
      BY <1>0, <2>1, <2>2 DEF Listed
    <3>2. \A g \in pass'.todo : g.folder \notin pass'.dirs
      BY <2>2 DEF Listed
    <3>3. \A r \in pass'.known : r.path \in maildir /\ r.path.folder \in pass'.dirs => \E s \in Slot : messages[s] = r
      BY <2>2 DEF Listed
    <3>4. \A s \in Slot : messages[s] # NoFile /\ messages[s].path \in pass'.seen => messages[s].path \in maildir
      BY <2>2 DEF Listed
    <3> QED
      BY <3>1, <3>2, <3>3, <3>4 DEF Listed
  <2>5. Listed(pass, messages, maildir, folders) => PickInHand(pass', messages, maildir)
    <3> SUFFICES ASSUME Listed(pass, messages, maildir, folders) PROVE PickInHand(pass', messages, maildir)
      OBVIOUS
    <3>1. f.folder \notin pass.dirs
      BY DEF Listed
    <3>2. act = "update" => messages[hit] # NoFile /\ messages[hit].path = f
      BY <2>1 DEF Look, ByPath, Live
    <3>3. act = "adopt" => messages[hit] # NoFile /\ messages[hit].path \notin maildir
      <4> SUFFICES ASSUME act = "adopt" PROVE messages[hit] # NoFile /\ messages[hit].path \notin maildir
        OBVIOUS
      <4>1. hit \in Candidates(f)
        BY <2>1 DEF Look
      <4>2. hit \in Homeless(f)
        BY <4>1, Zenon DEF Candidates
      <4> QED
        BY <1>0, <4>2 DEF Homeless, SameLetter, Live
    <3>4. act = "copy" => \A s \in Slot : messages[s] # NoFile => messages[s].path # f
      BY <2>1 DEF Look, ByPath, Live
    <3> QED
      BY <2>1, <2>2, <3>1, <3>2, <3>3, <3>4 DEF PickInHand
  <2>6. Filed(pass', messages)
    BY <2>2 DEF Filed, ScanAt
  <2> QED
    BY <1>g, <1>s, <2>1, <2>2, <2>3, <2>4, <2>5, <2>6
<1>5. ASSUME UpdateRow PROVE CalmInv'
  <2>1. /\ pass.at \in {"update", "adopt"} /\ Resume /\ Scans /\ UNCHANGED <<maildir, changed, job, fate>>
        /\ messages' = IF messages[pass.hit] = NoFile THEN messages
            ELSE [messages EXCEPT ![pass.hit] =
                     [@ EXCEPT !.folder = pass.pick.folder, !.path = pass.pick, !.read = ShownRead(pass.pick),
                               !.star = ShownStar(pass.pick), !.aged = FALSE]]
    BY <1>5 DEF UpdateRow
  <2>2. maildir' = maildir /\ folders' = folders
    BY <2>1 DEF Scans
  <2>3. PICK f \in File : f = pass.pick
    BY <1>0, <2>1 DEF ScanShape, ScanAt, Scan
  <2>4. PICK s \in Slot : s = pass.hit
    BY <1>0, <2>1 DEF ScanShape, Scan
  <2>5. ASSUME Listed(pass, messages, maildir, folders), PickInHand(pass, messages, maildir) PROVE Listed(pass', messages', maildir, folders)
    <3>1. /\ messages[s] # NoFile /\ (messages[s].path = f \/ messages[s].path \notin maildir)
          /\ f \in maildir /\ f.folder \notin pass.dirs
      BY <2>1, <2>3, <2>4, <2>5, FileIs DEF PickInHand
    <3>2. PICK r : r = [messages[s] EXCEPT !.folder = f.folder, !.path = f, !.read = ShownRead(f),
                               !.star = ShownStar(f), !.aged = FALSE]
      OBVIOUS
    <3>3. messages' = [messages EXCEPT ![s] = r] /\ messages[s] \in Row
      BY <1>0, <2>1, <2>3, <2>4, <3>1, <3>2 DEF RowsTyped
    <3>4. r.folder = f.folder /\ r.path = f /\ r.read = ShownRead(f) /\ r.star = ShownStar(f)
      BY <3>2, <3>3 DEF Row
    <3>5. messages'[s] = r /\ \A t \in Slot : t # s => messages'[t] = messages[t]
      BY <1>0, <3>3 DEF RowsTyped
    <3>6. r # NoFile
      <4>1. f.folder \in Box /\ ShownRead(f) \in BOOLEAN /\ ShownStar(f) \in BOOLEAN
        BY ArrivedIs, FileIs, RowIs
      <4>2. r \in Row
        BY <3>2, <3>3, <4>1 DEF Row
      <4> QED
        BY <4>2, RowIs
    <3>7. Agreed(messages', f)
      BY <3>4, <3>5, <3>6 DEF Agreed
    <3>8. \A g \in maildir : g # f /\ Agreed(messages, g) => Agreed(messages', g)
      <4> SUFFICES ASSUME NEW g \in maildir, g # f, Agreed(messages, g) PROVE Agreed(messages', g)
        OBVIOUS
      <4>1. PICK t \in Slot : messages[t] # NoFile /\ messages[t].path = g /\ messages[t].folder = g.folder
                              /\ messages[t].read = ShownRead(g) /\ messages[t].star = ShownStar(g)
        BY DEF Agreed
      <4>2. t # s
        BY <3>1, <4>1
      <4> QED
        BY <3>5, <4>1, <4>2 DEF Agreed
    <3>9. \A g \in maildir : g.folder \in folders => g.folder \in pass'.dirs \/ g \in pass'.todo \/ g = pass'.pick \/ Agreed(messages', g)
      BY <1>r, <2>1, <2>3, <2>5, <3>7, <3>8 DEF Listed
    <3>10. \A q \in pass'.known : q.path \in maildir /\ q.path.folder \in pass'.dirs => \E t \in Slot : messages'[t] = q
      <4> SUFFICES ASSUME NEW q \in pass.known, q.path \in maildir, q.path.folder \in pass.dirs PROVE \E t \in Slot : messages'[t] = q
        BY <1>r, <2>1
      <4>1. PICK t \in Slot : messages[t] = q
        BY <2>5 DEF Listed
      <4>2. t # s
        BY <3>1, <4>1
      <4> QED
        BY <3>5, <4>1, <4>2
    <3>11. \A t \in Slot : messages'[t] # NoFile /\ messages'[t].path \in pass'.seen => messages'[t].path \in maildir
      BY <1>r, <2>1, <2>5, <3>1, <3>4, <3>5 DEF Listed
    <3>12. \A g \in pass'.todo : g.folder \notin pass'.dirs
      BY <1>r, <2>1, <2>5 DEF Listed
    <3> QED
      BY <3>9, <3>10, <3>11, <3>12 DEF Listed
  <2> QED
    BY <1>g, <1>h, <1>r, <1>s, <2>1, <2>2, <2>5 DEF ScanAt
<1>6. ASSUME RemoveCopy PROVE CalmInv'
  <2>1. /\ pass.at = "copy" /\ maildir' = maildir \ {pass.pick} /\ Resume /\ Scans /\ UNCHANGED <<messages, job, fate>>
    BY <1>6 DEF RemoveCopy
  <2>2. messages' = messages /\ folders' = folders
    BY <2>1 DEF Scans
  <2>3. ASSUME Listed(pass, messages, maildir, folders), PickInHand(pass, messages, maildir) PROVE Listed(pass', messages, maildir', folders)
    <3>1. \A s \in Slot : messages[s] # NoFile => messages[s].path # pass.pick
      BY <2>1, <2>3 DEF PickInHand
    <3> QED
      BY <1>r, <2>1, <2>3, <3>1 DEF Listed
  <2> QED
    BY <1>g, <1>h, <1>r, <1>s, <2>1, <2>2, <2>3 DEF ScanAt
<1>7. ASSUME NEW moved \in BOOLEAN, NEW to \in Box \ {Inbox}, ImportFile(moved, to) PROVE CalmInv'
  <2>1. PICK s : s = NewSlot
    OBVIOUS
  <2>2. PICK f : f = pass.pick
    OBVIOUS
  <2>3. PICK row : row = Arrived(f.letter, f)
    OBVIOUS
  <2>5. /\ pass.at = "import" /\ Unused # {} /\ messages' = [messages EXCEPT ![s] = row] /\ issued' = issued \cup {s}
        /\ (moved => job' = [job EXCEPT ![Scanner] =
                     [Idle EXCEPT !.at = "rename", !.kind = "move", !.slot = s, !.was = row, !.to = to]])
        /\ (~moved => folders' = folders)
        /\ Resume /\ UNCHANGED <<maildir, changed, names, events, fate>>
    BY <1>7, <2>1, <2>2, <2>3, Zenon DEF ImportFile
  <2>6. f \in File
    BY <1>0, <2>2, <2>5 DEF ScanShape, ScanAt, Scan
  <2>7. row # NoFile /\ row.path = f /\ row.folder = f.folder /\ row.read = ShownRead(f) /\ row.star = ShownStar(f)
    BY <2>3, <2>6, ArrivedIs, RowIs
  <2>8. s \in Slot /\ s \notin issued
    BY <2>1, <2>5 DEF NewSlot, Unused
  <2>9. messages'[s] = row /\ messages[s] = NoFile /\ \A t \in Slot : t # s => messages'[t] = messages[t]
    BY <1>0, <2>5, <2>8 DEF RowsTyped
  <2>10. CASE moved
    <3>1. PICK j : j = [Idle EXCEPT !.at = "rename", !.kind = "move", !.slot = s, !.was = row, !.to = to]
      OBVIOUS
    <3>2. j.at = "rename" /\ job'[Scanner] = j
      BY <1>0, <2>5, <2>10, <3>1 DEF Idle
    <3> QED
      BY <1>r, <2>5, <3>2 DEF CalmInv, Busy
  <2>11. CASE ~moved
    <3>1. ASSUME Listed(pass, messages, maildir, folders), PickInHand(pass, messages, maildir) PROVE Listed(pass', messages', maildir', folders')
      <4>0. maildir' = maildir /\ folders' = folders /\ f \in maildir
        BY <2>2, <2>5, <2>6, <2>11, <3>1, FileIs DEF PickInHand
      <4>1. Agreed(messages', f)
        BY <2>7, <2>8, <2>9 DEF Agreed
      <4>2. \A g : Agreed(messages, g) => Agreed(messages', g)
        BY <2>9 DEF Agreed
      <4>3. \A g \in maildir : g.folder \in folders => g.folder \in pass'.dirs \/ g \in pass'.todo \/ g = pass'.pick \/ Agreed(messages', g)
        BY <1>r, <2>2, <2>5, <3>1, <4>1, <4>2 DEF Listed
      <4>4. \A q \in pass'.known : q.path \in maildir /\ q.path.folder \in pass'.dirs => \E t \in Slot : messages'[t] = q
        <5> SUFFICES ASSUME NEW q \in pass.known, q.path \in maildir, q.path.folder \in pass.dirs PROVE \E t \in Slot : messages'[t] = q
          BY <1>r, <2>5
        <5>1. PICK t \in Slot : messages[t] = q
          BY <3>1 DEF Listed
        <5>2. q # NoFile
          BY <1>0, MaildirAssumption DEF Scan
        <5> QED
          BY <2>9, <5>1, <5>2
      <4>5. \A t \in Slot : messages'[t] # NoFile /\ messages'[t].path \in pass'.seen => messages'[t].path \in maildir
        BY <1>r, <2>5, <2>7, <2>9, <3>1, <4>0 DEF Listed
      <4>6. \A g \in pass'.todo : g.folder \notin pass'.dirs
        BY <1>r, <2>5, <3>1 DEF Listed
      <4> QED
        BY <4>0, <4>3, <4>4, <4>5, <4>6 DEF Listed
    <3> QED
      BY <1>g, <1>h, <1>r, <1>s, <2>5, <3>1 DEF ScanAt
  <2> QED
    BY <2>10, <2>11
<1>8. ASSUME ListBackfill PROVE CalmInv'
  <2>1. PICK list : list = {s \in Live : messages[s].path = NoFile}
    OBVIOUS
  <2>2. pass.at = "scan" /\ pass.todo = {} /\ pass.dirs = {} /\ pass' = [pass EXCEPT !.at = "backfill", !.list = list] /\ Scans
        /\ UNCHANGED <<messages, maildir, changed, job, fate>>
    BY <1>8, <2>1 DEF ListBackfill
  <2>3. /\ pass'.at = "backfill" /\ pass'.pick = NoFile /\ pass'.calm = pass.calm /\ pass'.full = pass.full /\ pass'.dirs = pass.dirs
        /\ pass'.todo = pass.todo /\ pass'.known = pass.known /\ pass'.seen = pass.seen /\ pass'.list = list /\ pass.pick = NoFile
    BY <1>0, <2>2 DEF Scan, ScanShape, ScanAt
  <2>4. messages' = messages /\ maildir' = maildir /\ folders' = folders
    BY <2>2 DEF Scans
  <2>5. Listed(pass, messages, maildir, folders) => Listed(pass', messages, maildir, folders)
    BY <2>3 DEF Listed
  <2>6. PickInHand(pass', messages, maildir) /\ Filed(pass', messages)
    BY <2>1, <2>2, <2>3 DEF PickInHand, Filed, Live
  <2> QED
    BY <1>g, <1>s, <2>2, <2>3, <2>4, <2>5, <2>6
<1>9. ASSUME ListMissing PROVE CalmInv'
  <2>1. PICK list : list = Missing
    OBVIOUS
  <2>2. /\ pass.at = "backfill" /\ pass.list = {} /\ Scans /\ UNCHANGED <<messages, maildir, changed, job, fate>>
        /\ pass' = IF list = {} THEN Finished ELSE [Finished EXCEPT !.at = "sweep", !.list = list]
    BY <1>9, <2>1 DEF ListMissing
  <2>c. PICK calm \in BOOLEAN : calm = pass.calm
    BY <1>0 DEF Scan
  <2>f. Finished = [NoPass EXCEPT !.calm = calm]
    BY <2>c DEF Finished
  <2>3. Finished.at = "idle" /\ Finished.calm = calm
    BY <2>f, Zenon DEF NoPass
  <2>4. messages' = messages /\ maildir' = maildir /\ folders' = folders
    BY <2>2 DEF Scans
  <2>5. ASSUME calm PROVE Sweeping([list |-> list], messages, maildir, folders)
    <3>1. pass.full /\ Listed(pass, messages, maildir, folders) /\ Filed(pass, messages) /\ pass.pick = NoFile
      BY <1>0, <1>s, <2>2, <2>5, <2>c DEF Scanning, ScanShape, ScanAt
    <3>2. \A f \in maildir : f.folder \in folders => Agreed(messages, f)
      BY <1>0, <2>2, <3>1 DEF Listed, Filed
    <3>3. ASSUME NEW s \in Slot, messages[s] # NoFile, messages[s].path \notin maildir, messages[s].aged PROVE s \in list
      <4>1. messages[s].path # NoFile
        BY <2>2, <3>1, <3>3 DEF Filed
      <4>2. messages[s].path \notin pass.seen
        BY <3>1, <3>3 DEF Listed
      <4> QED
        BY <2>1, <3>1, <3>3, <4>1, <4>2 DEF Missing, Live
    <3>4. \A s \in list : messages[s].path \notin maildir
      BY <2>1 DEF Missing
    <3> QED
      BY <3>2, <3>3, <3>4 DEF Sweeping
  <2>6. CASE list = {}
    <3>1. pass' = Finished
      BY <2>2, <2>6
    <3>2. calm => Settled(messages, maildir, folders)
      BY <2>5, <2>6 DEF Sweeping, Settled
    <3> QED
      BY <2>3, <2>4, <3>1, <3>2 DEF CalmInv, Scanning, ScanAt
  <2>7. CASE list # {}
    <3>1. pass' = [Finished EXCEPT !.at = "sweep", !.list = list]
      BY <2>2, <2>7
    <3>2. pass'.at = "sweep" /\ pass'.calm = calm /\ pass'.list = list
      BY <2>f, <3>1 DEF NoPass
    <3>3. calm => Sweeping(pass', messages, maildir, folders)
      BY <2>5, <3>2 DEF Sweeping
    <3> QED
      BY <2>4, <3>2, <3>3 DEF CalmInv, Scanning, ScanAt
  <2> QED
    BY <2>6, <2>7
<1>10. ASSUME NEW s \in pass.list, Backfill(s) PROVE CalmInv'
  <2>1. PICK j : j = [Idle EXCEPT !.at = "state", !.kind = "rewrite", !.slot = s]
    OBVIOUS
  <2>2. pass.at = "backfill" /\ pass' = [pass EXCEPT !.list = pass.list \ {s}] /\ job' = [job EXCEPT ![Scanner] = j]
    BY <1>10, <2>1 DEF Backfill, Set
  <2>3. pass'.at = "backfill"
    BY <1>0, <2>2 DEF Scan
  <2>4. j.at = "state" /\ job'[Scanner] = j
    BY <1>0, <2>1, <2>2 DEF Idle
  <2> QED
    BY <2>3, <2>4 DEF CalmInv, Busy
<1>11. ASSUME NEW s \in pass.list, DropRow(s) PROVE CalmInv'
  <2>1. PICK at : at = IF pass.list = {s} THEN "idle" ELSE "sweep"
    OBVIOUS
  <2>2. pass.at = "sweep" /\ messages' = [messages EXCEPT ![s] = NoFile] /\ Scans /\ UNCHANGED <<maildir, changed, job, fate>>
        /\ pass' = [pass EXCEPT !.list = pass.list \ {s}, !.at = at]
    BY <1>11, <2>1, Zenon DEF DropRow
  <2>3. pass'.at = at /\ pass'.calm = pass.calm /\ pass'.list = pass.list \ {s}
    BY <1>0, <2>2 DEF Scan
  <2>4. maildir' = maildir /\ folders' = folders
    BY <2>2 DEF Scans
  <2>5. messages'[s] = NoFile /\ \A t \in Slot : t # s => messages'[t] = messages[t]
    BY <1>0, <2>2 DEF RowsTyped
  <2>6. ASSUME pass.calm PROVE Sweeping(pass', messages', maildir, folders)
    <3>1. Sweeping(pass, messages, maildir, folders)
      BY <2>2, <2>6 DEF CalmInv
    <3>2. \A f \in maildir : Agreed(messages, f) => Agreed(messages', f)
      <4> SUFFICES ASSUME NEW f \in maildir, Agreed(messages, f) PROVE Agreed(messages', f)
        OBVIOUS
      <4>1. PICK t \in Slot : messages[t] # NoFile /\ messages[t].path = f /\ messages[t].folder = f.folder
                              /\ messages[t].read = ShownRead(f) /\ messages[t].star = ShownStar(f)
        BY DEF Agreed
      <4>2. t # s
        BY <3>1, <4>1 DEF Sweeping
      <4> QED
        BY <2>5, <4>1, <4>2 DEF Agreed
    <3>3. \A t \in Slot : messages'[t] # NoFile => messages'[t].path \in maildir \/ ~messages'[t].aged \/ t \in pass'.list
      BY <2>3, <2>5, <3>1 DEF Sweeping
    <3>4. \A t \in pass'.list : messages'[t] # NoFile => messages'[t].path \notin maildir
      BY <1>0, <2>3, <2>5, <3>1 DEF Sweeping
    <3> QED
      BY <3>1, <3>2, <3>3, <3>4 DEF Sweeping
  <2>7. at = "idle" /\ pass.calm => Settled(messages', maildir, folders)
    BY <2>1, <2>3, <2>6 DEF Sweeping, Settled
  <2> QED
    BY <2>1, <2>3, <2>4, <2>6, <2>7 DEF CalmInv, Scanning, ScanAt
<1> QED
  BY <1>2, <1>3, <1>4, <1>5, <1>6, <1>7, <1>8, <1>9, <1>10, <1>11, Zenon DEF ScanAt

\* No pass has run at the start.
LEMMA InitCalm == MaildirInit => CalmInv
<1> SUFFICES ASSUME MaildirInit PROVE CalmInv
  OBVIOUS
<1>1. pass = NoPass
  BY DEF MaildirInit
<1>2. ~pass.calm
  BY <1>1 DEF NoPass
<1> QED
  BY <1>2 DEF CalmInv, Scanning

\* The inductive invariant.
MaildirInv == TypesInv /\ KeptInv /\ CalmInv

\* Whatever requests, deliveries, changes of Dovecot and steps of the scanner
\* interleave: a letter nobody removed has a file, or a row whose file is not written
\* yet (writeRawMessageToMaildirFolder puts the new file before it drops the old,
\* removeDuplicateMaildirMessage removes a copy only beside its original), and
\* after a full pass of syncMaildirOnceDetailed that nobody disturbed every
\* file has a row that agrees with it and every settled row its file.
THEOREM MaildirIsSafe == MaildirSpec => [](MaildirTypeOK /\ MaildirSafe)
<1>1. MaildirInit => MaildirInv
  BY InitTypes, InitKept, InitCalm DEF MaildirInv
<1>2. MaildirInv /\ [MaildirNext]_mailVars => MaildirInv'
  <2> SUFFICES ASSUME MaildirInv, [MaildirNext]_mailVars PROVE MaildirInv'
    OBVIOUS
  <2>1. TypesInv /\ KeptInv /\ CalmInv
    BY DEF MaildirInv
  <2>2. CASE UserRequest \/ WriteStep \/ OutsideStep
    <3>1. TypesInv'
      BY <2>1, <2>2, RequestTypes, WriteTypesInv, OutsideTypesInv
    <3>2. KeptInv'
      BY <2>1, <2>2, <3>1, RequestKept, WriteKept, OutsideKept
    <3>3. CalmInv'
      BY <2>1, <2>2, OthersStir, StirredCalm
    <3> QED
      BY <3>1, <3>2, <3>3 DEF MaildirInv
  <2>3. CASE PassStep
    <3>1. TypesInv'
      BY <2>1, <2>3, PassTypesInv
    <3> QED
      BY <2>1, <2>3, <3>1, PassKept, PassCalm DEF MaildirInv
  <2>4. CASE UNCHANGED mailVars
    BY <2>1, <2>4 DEF mailVars, MaildirInv, TypesInv, ScannerTurns, Busy, KeptInv, CalmInv
  <2> QED
    BY <2>2, <2>3, <2>4 DEF MaildirNext
<1>3. MaildirInv => MaildirTypeOK /\ MaildirSafe
  BY TypesGive, KeptGives, CalmGives DEF MaildirInv, MaildirSafe
<1> QED
  BY <1>1, <1>2, <1>3, PTL DEF MaildirSpec
=============================================================================
