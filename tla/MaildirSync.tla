---------------------------- MODULE MaildirSync ----------------------------
(***************************************************************************)
(* One mailbox kept twice: rows of the table messages and files of a       *)
(* Maildir (maildir_sync.go, maildir_write.go, mail_handlers.go).  The     *)
(* web client changes both, one statement or file operation after another  *)
(* and without a lock; Postfix and Dovecot change the files behind the     *)
(* program's back; the scanner compares files and rows, imports what it    *)
(* does not know, drops what it thinks is a copy and deletes rows whose    *)
(* file is gone.                                                           *)
(*                                                                         *)
(* A file is a record of where it is, its base name, the flags of its      *)
(* suffix and the message in it; the record without its message is the     *)
(* path the rows keep.  new/ and cur/ are not told apart: the suffix and   *)
(* the folder decide the flags.  Flag "R" stands for any flag the program  *)
(* does not manage.  A name is taken fresh at every write.  "aged" stands  *)
(* for updated_at being five minutes old; no request or pass lasts so long.*)
(***************************************************************************)
EXTENDS Naturals, FiniteSets

CONSTANTS Letter,      \* messages, told apart by their Message-ID header
          Slot,        \* rows the table may ever get
          Box,         \* names of folders the mailbox may have
          Inbox, Drafts, Trash,
          Custom,      \* names of folders the user made and may delete
          Editor,      \* requests of the web client
          Scanner,     \* the worker, for the writes it makes itself
          NoFile,
          MaxNames,    \* bound: file names ever given
          MaxEvents    \* bound: requests of the web client and changes from outside

VARIABLES messages, \* row of a slot: letter, folder, path, flags, age; NoFile for none
          issued,   \* the slots ever taken: an id is not given twice
          folders,  \* the folders there are
          maildir,  \* the files
          changed,  \* directories changed since their signature was recorded
          pass,     \* the scanner
          job,      \* the writes under way, one per editor and one of the scanner
          names,    \* names given so far
          events,   \* requests and changes from outside so far
          fate      \* of a letter: unknown yet, here, removed on request, or
                    \* touched by the scanner in the middle of a write of its own

mailVars == <<messages, issued, folders, maildir, changed, pass, job, names, events,
              fate>>

Writer == Editor \cup {Scanner}
File == [folder: Box, name: 1..MaxNames, info: SUBSET {"S", "F", "R"}, letter: Letter]
Row == [letter: Letter, folder: Box, path: File \cup {NoFile},
        read: BOOLEAN, star: BOOLEAN, aged: BOOLEAN]

\* There is an Inbox, and NoFile is none of the things it stands for the lack of.
ASSUME MaildirAssumption ==
    /\ Inbox \in Box /\ Scanner \notin Editor /\ MaxNames \in Nat /\ MaxEvents \in Nat
    /\ NoFile \notin Slot /\ NoFile \notin File /\ NoFile \notin Row

Live == {s \in Slot : messages[s] # NoFile}
Unused == Slot \ issued
\* A new row takes any id not given yet.
NewSlot == CHOOSE s \in Unused : TRUE

\* Flags a file shows to the scanner: without a suffix a file outside the
\* Inbox counts as read.
ShownRead(f) == IF f.info = {} THEN f.folder # Inbox ELSE "S" \in f.info
ShownStar(f) == "F" \in f.info
\* The suffix written for flags; flags the program does not manage stay.
Suffix(info, read, star) ==
    (info \ {"S", "F"}) \cup (IF read THEN {"S"} ELSE {}) \cup (IF star THEN {"F"} ELSE {})

\* A write under way: where it is, what it is for, the row as it read it, and the
\* path it will store.
Idle == [at |-> "idle", kind |-> "none", slot |-> NoFile, was |-> NoFile, to |-> Inbox,
         mark |-> FALSE, read |-> FALSE, star |-> FALSE, new |-> NoFile]
Busy(w) == job[w].at # "idle"
Set(w, j) == job' = [job EXCEPT ![w] = j]
Goto(w, pc) == Set(w, [job[w] EXCEPT !.at = pc])
Stop(w) == Set(w, Idle)

\* A change of files marks the directories; anything but the scanner's own
\* step ends the calm its last comparison held in.
Touch(fs) == changed' = changed \cup {f.folder : f \in fs}
Stir == pass' = [pass EXCEPT !.calm = FALSE]
NoPass == [at |-> "idle", full |-> FALSE, calm |-> FALSE, dirs |-> {}, known |-> {},
           seen |-> {}, todo |-> {}, pick |-> NoFile, hit |-> NoFile, list |-> {},
           scanned |-> {}]

Arrived(l, f) == [letter |-> l, folder |-> f.folder, path |-> f, aged |-> FALSE,
                  read |-> ShownRead(f), star |-> ShownStar(f)]

\* A mailbox that is empty, or has one letter the last pass found in order.
MaildirInit ==
    /\ folders = Box
    /\ changed = {}
    /\ pass = NoPass
    /\ job = [w \in Writer |-> Idle]
    /\ events = 0
    /\ \/ /\ messages = [s \in Slot |-> NoFile] /\ issued = {} /\ maildir = {} /\ names = 0
          /\ fate = [l \in Letter |-> "unknown"]
       \/ \E f \in File :
          /\ f.name = 1 /\ f.info = (IF f.folder = Inbox THEN {} ELSE {"S"})
          /\ maildir = {f} /\ names = 1
          /\ \E s \in Slot : s = (CHOOSE t \in Slot : TRUE) /\ issued = {s}
               /\ messages = [t \in Slot |-> IF t = s THEN Arrived(f.letter, f) ELSE NoFile]
          /\ fate = [[l \in Letter |-> "unknown"] EXCEPT ![f.letter] = "here"]

----------------------------------------------------------------------------
(* Requests.  Each reads the message first and acts on what it read.       *)

Start(e, j) ==
    /\ ~Busy(e) /\ events < MaxEvents
    /\ events' = events + 1
    /\ Set(e, j)
    /\ Stir
    /\ UNCHANGED <<maildir, changed, names>>

\* handleMarkRead, handleStar: maildirMessageState before the file is renamed.
MarkMail(e, s, read, star) ==
    /\ messages[s] # NoFile
    /\ (read # messages[s].read) # (star # messages[s].star)
    /\ Start(e, [Idle EXCEPT !.at = "rename", !.kind = "flag", !.slot = s, !.was = messages[s],
                          !.mark = read # messages[s].read, !.read = read, !.star = star])
    /\ UNCHANGED <<messages, issued, folders, fate>>

\* handleMove, and handleDeleteMessage outside the Trash: moveMessageMaildir.
MoveMail(e, s, to) ==
    /\ messages[s] # NoFile
    /\ Start(e, [Idle EXCEPT !.at = "rename", !.kind = "move", !.slot = s, !.was = messages[s],
                          !.to = to])
    /\ folders' = folders \cup {to}  \* ensureFolder
    /\ UNCHANGED <<messages, issued, fate>>

\* handleDeleteMessage in the Trash, handleDeleteDraft.
PurgeMail(e, s) ==
    /\ messages[s] # NoFile /\ messages[s].folder \in {Trash, Drafts}
    /\ Start(e, [Idle EXCEPT !.at = "unlink", !.kind = "purge", !.slot = s])
    /\ fate' = [fate EXCEPT ![messages[s].letter] = "removed"]
    /\ UNCHANGED <<messages, issued, folders>>

\* handleSaveDraft of a draft there is: the row is written, then the file.
SaveDraft(e, s) ==
    /\ messages[s] # NoFile /\ messages[s].folder = Drafts
    /\ Start(e, [Idle EXCEPT !.at = "state", !.kind = "rewrite", !.slot = s])
    /\ messages' = [messages EXCEPT ![s].read = TRUE, ![s].aged = FALSE]
    /\ UNCHANGED <<issued, folders, fate>>

\* A new draft, and every other message the program stores itself: the row
\* is inserted without a path, then the file is written.
StoreMail(e, l, f) ==
    LET s == NewSlot IN
    /\ Unused # {}
    /\ f \in folders /\ fate[l] = "unknown"
    /\ fate' = [fate EXCEPT ![l] = "here"]
    /\ Start(e, [Idle EXCEPT !.at = "state", !.kind = "store", !.slot = s])
    /\ issued' = issued \cup {s}
    /\ messages' = [messages EXCEPT ![s] =
          [letter |-> l, folder |-> f, path |-> NoFile, read |-> TRUE, star |-> FALSE,
           aged |-> FALSE]]
    /\ UNCHANGED folders

\* handleDeleteMailFolder, one transaction: the rows go to the Inbox, the
\* folder is deleted, the files stay where they are.
DeleteFolder(e, f) ==
    /\ f \in folders \cap Custom
    /\ ~Busy(e) /\ events < MaxEvents
    /\ events' = events + 1
    /\ folders' = folders \ {f}
    /\ messages' = [s \in Slot |->
          IF messages[s] # NoFile /\ messages[s].folder = f
            THEN [messages[s] EXCEPT !.folder = Inbox, !.aged = FALSE] ELSE messages[s]]
    /\ Stir
    /\ UNCHANGED <<issued, maildir, changed, job, names, fate>>

----------------------------------------------------------------------------
(* The steps of a write: updateMessageMaildirFlags, moveMessageMaildir and *)
(* writeRawMessageToMaildirFolder.                                         *)

Unstirred == UNCHANGED <<issued, folders, names, events, fate>>

Renamed(j) ==
    IF j.kind = "flag"
      THEN [j.was.path EXCEPT !.info = Suffix(@, IF j.mark THEN j.read ELSE j.was.read,
                                              IF j.mark THEN j.was.star ELSE j.star)]
      ELSE [j.was.path EXCEPT !.folder = j.to]

\* The file the row named is there: it is renamed.
RenameFile(w) ==
    LET j == job[w] IN
    /\ j.at = "rename" /\ j.was.path # NoFile /\ j.was.path \in maildir
    /\ maildir' = (maildir \ {j.was.path}) \cup {Renamed(j)}
    /\ IF Renamed(j) = j.was.path THEN UNCHANGED changed
                                  ELSE Touch({j.was.path, Renamed(j)})
    /\ Set(w, IF Renamed(j) = j.was.path /\ j.kind = "flag"
                THEN [j EXCEPT !.at = "save"]
                ELSE [j EXCEPT !.at = "attach", !.new = Renamed(j)])
    /\ Stir /\ Unstirred /\ UNCHANGED messages

\* It is not: a flag is then kept in the row alone, a move writes the message anew.
\* Gone between the look and the rename, the request fails.
FileMissing(w) ==
    LET j == job[w] IN
    /\ j.at = "rename" /\ (j.was.path = NoFile \/ j.was.path \notin maildir)
    /\ \/ Goto(w, IF j.kind = "flag" THEN "save" ELSE "state")
       \/ j.was.path # NoFile /\ Stop(w)
    /\ Stir /\ Unstirred /\ UNCHANGED <<messages, maildir, changed>>

\* The path, and with a move the folder, is stored by id, whatever the row
\* says by now; a row deleted meanwhile stays deleted.
AttachFile(w) ==
    LET j == job[w] IN
    /\ j.at \in {"attach", "point"}
    /\ messages' = IF messages[j.slot] = NoFile THEN messages
                   ELSE [messages EXCEPT ![j.slot].path = j.new, ![j.slot].aged = FALSE,
                             ![j.slot].folder = IF j.kind = "move" THEN j.to ELSE @]
    /\ IF j.kind = "flag" THEN Goto(w, "save") ELSE Stop(w)
    /\ Stir /\ Unstirred /\ UNCHANGED <<maildir, changed>>

\* The one flag the request is about.
SaveFlag(w) ==
    LET j == job[w] IN
    /\ j.at = "save"
    /\ messages' = IF messages[j.slot] = NoFile THEN messages
                   ELSE [messages EXCEPT ![j.slot].aged = FALSE,
                             ![j.slot].read = IF j.mark THEN j.read ELSE @,
                             ![j.slot].star = IF j.mark THEN @ ELSE j.star]
    /\ Stop(w)
    /\ Stir /\ Unstirred /\ UNCHANGED <<maildir, changed>>

\* maildirMessageState of a write: a message stored before with its file in
\* place needs nothing more.
ReadState(w) ==
    LET j == job[w] IN
    /\ j.at = "state"
    /\ IF \/ messages[j.slot] = NoFile
          \/ (j.kind = "store" /\ messages[j.slot].path \in maildir)
         THEN Stop(w)
         ELSE Set(w, [j EXCEPT !.at = "put", !.was = messages[j.slot]])
    /\ Stir /\ Unstirred /\ UNCHANGED <<messages, maildir, changed>>

Written(j) ==
    [folder |-> IF j.kind = "move" THEN j.to ELSE j.was.folder, name |-> names + 1,
     info |-> Suffix({}, j.was.read, j.was.star), letter |-> j.was.letter]

\* The file is written under tmp/ and renamed into its place.
PutFile(w) ==
    LET j == job[w] IN
    /\ j.at = "put" /\ names < MaxNames
    /\ names' = names + 1
    /\ maildir' = maildir \cup {Written(j)}
    /\ Touch({Written(j)})
    /\ Set(w, [j EXCEPT !.at = "drop", !.new = Written(j)])
    /\ Stir /\ UNCHANGED <<messages, issued, folders, events, fate>>

\* The write fails: a message stored just now is deleted again.
PutFails(w) ==
    LET j == job[w] IN
    /\ j.at = "put" /\ w # Scanner
    /\ messages' = IF j.kind = "store" THEN [messages EXCEPT ![j.slot] = NoFile] ELSE messages
    /\ fate' = IF j.kind = "store" THEN [fate EXCEPT ![j.was.letter] = "removed"] ELSE fate
    /\ Stop(w)
    /\ Stir /\ UNCHANGED <<issued, maildir, folders, changed, names, events>>

\* The file the row named before is removed, unless it is the one just written.
DropOld(w) ==
    LET j == job[w] IN
    /\ j.at = "drop"
    /\ maildir' = maildir \ {j.was.path}
    /\ IF j.was.path \in maildir THEN Touch({j.was.path}) ELSE UNCHANGED changed
    /\ Goto(w, "point")
    /\ Stir /\ Unstirred /\ UNCHANGED messages

\* deleteMessageMaildirFile, then the row.
UnlinkFile(w) ==
    LET j == job[w] IN
    /\ j.at = "unlink"
    /\ LET f == IF messages[j.slot] = NoFile THEN NoFile ELSE messages[j.slot].path IN
       /\ maildir' = maildir \ {f}
       /\ IF f \in maildir THEN Touch({f}) ELSE UNCHANGED changed
    /\ Goto(w, "delete")
    /\ Stir /\ Unstirred /\ UNCHANGED messages

DeleteRow(w) ==
    /\ job[w].at = "delete"
    /\ messages' = [messages EXCEPT ![job[w].slot] = NoFile]
    /\ Stop(w)
    /\ Stir /\ Unstirred /\ UNCHANGED <<maildir, changed>>

----------------------------------------------------------------------------
(* Postfix and Dovecot: mail is delivered to the Inbox, and an IMAP client *)
(* copies, moves, flags or removes files.                                  *)

Outside ==
    /\ events < MaxEvents
    /\ events' = events + 1
    /\ Stir
    /\ UNCHANGED <<messages, issued, folders, job>>

Deliver(l) ==
    /\ names < MaxNames
    /\ fate[l] = "unknown" /\ fate' = [fate EXCEPT ![l] = "here"]
    /\ LET f == [folder |-> Inbox, name |-> names + 1, info |-> {}, letter |-> l] IN
       maildir' = maildir \cup {f} /\ Touch({f})
    /\ names' = names + 1
    /\ Outside

CopyFile(f, to) ==
    /\ names < MaxNames
    /\ LET g == [f EXCEPT !.folder = to, !.name = names + 1] IN
       maildir' = maildir \cup {g} /\ Touch({g})
    /\ names' = names + 1
    /\ Outside /\ UNCHANGED fate

RefileFile(f, g) ==
    /\ maildir' = (maildir \ {f}) \cup {g} /\ Touch({f, g})
    /\ Outside /\ UNCHANGED <<names, fate>>

ExpungeFile(f) ==
    /\ maildir' = maildir \ {f}
    /\ Touch({f})
    /\ fate' = [fate EXCEPT ![f.letter] = "removed"]
    /\ Outside /\ UNCHANGED names

\* Five minutes in which nothing happens to the mailbox.
FiveMinutes ==
    /\ pass.at = "idle" /\ \A w \in Writer : ~Busy(w)
    /\ \E s \in Live : ~messages[s].aged
    /\ messages' = [s \in Slot |-> IF messages[s] = NoFile THEN NoFile
                                   ELSE [messages[s] EXCEPT !.aged = TRUE]]
    /\ Stir
    /\ UNCHANGED <<issued, folders, maildir, changed, job, names, events, fate>>

----------------------------------------------------------------------------
(* The scanner: syncMaildirOnceDetailed.  A pass looks into every folder,  *)
(* or into those whose directory changed since it was last looked at.      *)

Scans == UNCHANGED <<issued, folders, names, events>>

BeginPass(full) ==
    /\ pass.at = "idle"
    /\ LET dirs == IF full THEN folders ELSE folders \cap changed IN
       /\ pass' = [NoPass EXCEPT !.at = "scan", !.full = full, !.dirs = dirs, !.scanned = dirs,
                      !.calm = full /\ \A e \in Editor : ~Busy(e),
                      !.known = IF dirs = {} THEN {}
                                ELSE {messages[s] : s \in {t \in Live : messages[t].path # NoFile}}]
       /\ changed' = changed \ dirs
    /\ Scans /\ UNCHANGED <<messages, maildir, job, fate>>

\* syncKnownMaildirFileState: the rows as read before the pass listed files; a
\* file they agree with needs nothing.
Agrees(f) == \E r \in pass.known :
    /\ r.path = f /\ r.folder = f.folder
    /\ r.read = ShownRead(f) /\ r.star = ShownStar(f)

ListFolder(d) ==
    /\ pass.at = "scan" /\ pass.todo = {} /\ d \in pass.dirs
    /\ LET found == {f \in maildir : f.folder = d} IN
       pass' = [pass EXCEPT !.dirs = @ \ {d}, !.todo = {f \in found : ~Agrees(f)},
                            !.known = IF pass.dirs = {d} THEN {} ELSE @,  \* not read again
                            !.seen = @ \cup found]
    /\ Scans /\ UNCHANGED <<messages, maildir, changed, job, fate>>

\* What the rows say of a file: by its path, then by its letter, a row whose
\* own file is missing first among those of the folder.
ByPath(f) == {s \in Live : messages[s].path = f}
SameLetter(f) == {s \in Live : messages[s].letter = f.letter}

\* Mutant: existingMessageByMessageIDAndFolder takes a row that has its file.
AnyRow(f) == SameLetter(f)
Homeless(f) == {s \in SameLetter(f) : messages[s].path = NoFile \/ messages[s].path \notin maildir}
Candidates(f) ==
    LET near == {s \in Homeless(f) : messages[s].folder = f.folder} IN
    IF near = {} THEN Homeless(f) ELSE near

\* syncMaildirFile and syncExistingMaildirMessageState up to the statement
\* they end in: update a row, import the file, or remove it as a copy.
Look(f, act, hit) ==
    \/ /\ act = "update"
       /\ hit \in ByPath(f)
    \/ /\ ByPath(f) = {}
       /\ \/ act = "adopt" /\ hit \in Candidates(f)
          \/ /\ Candidates(f) = {} /\ hit = NoFile
             /\ act = IF \E s \in SameLetter(f) : messages[s].folder = f.folder
                       THEN "copy" ELSE "import"

\* The scanner meets a file whose write has not stored its path yet.
HalfWritten(f) == \E e \in Editor : job[e].at \in {"drop", "point"} /\ job[e].new.name = f.name

LookAtFile(f, act, hit) ==
    /\ pass.at = "scan" /\ pass.pick = NoFile /\ f \in pass.todo /\ f \in maildir
    /\ Look(f, act, hit)
    /\ pass' = [pass EXCEPT !.todo = @ \ {f}, !.pick = f, !.hit = hit, !.at = act]
    /\ fate' = IF HalfWritten(f) /\ fate[f.letter] = "here"
                 THEN [fate EXCEPT ![f.letter] = "clashed"] ELSE fate
    /\ Scans /\ UNCHANGED <<messages, maildir, changed, job>>

\* Gone again since it was listed: an error, so the folder is looked at again.
FileGone(f) ==
    /\ pass.at = "scan" /\ f \in pass.todo \ maildir
    /\ pass' = [pass EXCEPT !.todo = @ \ {f}]
    /\ Touch({f})
    /\ Scans /\ UNCHANGED <<messages, maildir, job, fate>>

Resume == pass' = [pass EXCEPT !.at = "scan", !.pick = NoFile, !.hit = NoFile]

UpdateRow ==
    /\ pass.at \in {"update", "adopt"}
    /\ LET f == pass.pick IN
       /\ messages' = IF messages[pass.hit] = NoFile THEN messages
            ELSE [messages EXCEPT ![pass.hit] =
                     [@ EXCEPT !.folder = f.folder, !.path = f, !.read = ShownRead(f),
                               !.star = ShownStar(f), !.aged = FALSE]]
    /\ Resume /\ Scans /\ UNCHANGED <<maildir, changed, job, fate>>

\* removeDuplicateMaildirMessage.
RemoveCopy ==
    /\ pass.at = "copy"
    /\ maildir' = maildir \ {pass.pick}
    /\ IF pass.pick \in maildir THEN Touch({pass.pick}) ELSE UNCHANGED changed
    /\ Resume /\ Scans /\ UNCHANGED <<messages, job, fate>>

\* insertMessage; in the Inbox the user's rules may move what came in.
ImportFile(moved, to) ==
    LET s == NewSlot IN
    /\ pass.at = "import" /\ Unused # {}
    /\ LET f == pass.pick
           row == Arrived(f.letter, f) IN
       /\ messages' = [messages EXCEPT ![s] = row] /\ issued' = issued \cup {s}
       /\ moved => f.folder = Inbox
       /\ job' = IF moved THEN [job EXCEPT ![Scanner] =
                     [Idle EXCEPT !.at = "rename", !.kind = "move", !.slot = s, !.was = row, !.to = to]]
                 ELSE job
    /\ folders' = IF moved THEN folders \cup {to} ELSE folders
    /\ Resume /\ UNCHANGED <<maildir, changed, names, events, fate>>

\* backfillSQLiteMessagesToMaildir: rows without a file get one.
ListBackfill ==
    /\ pass.at = "scan" /\ pass.todo = {} /\ pass.dirs = {} /\ ~Busy(Scanner)
    /\ pass' = [pass EXCEPT !.at = "backfill",
                   !.list = {s \in Live : messages[s].path = NoFile}]
    /\ Scans /\ UNCHANGED <<messages, maildir, changed, job, fate>>

Backfill(s) ==
    /\ pass.at = "backfill" /\ s \in pass.list /\ ~Busy(Scanner)
    /\ pass' = [pass EXCEPT !.list = @ \ {s}]
    /\ Set(Scanner, [Idle EXCEPT !.at = "state", !.kind = "rewrite", !.slot = s])
    /\ Scans /\ UNCHANGED <<messages, maildir, changed, fate>>

\* cleanupMissingMaildirMessages: old rows of a folder looked at whose file
\* was not seen and is not there; listed first, then deleted by id.
Missing == {s \in Live :
    /\ messages[s].aged /\ messages[s].path # NoFile
    /\ pass.full \/ messages[s].path.folder \in pass.scanned
    /\ messages[s].path \notin pass.seen \cup maildir}

Finished == [NoPass EXCEPT !.calm = pass.calm]

ListMissing ==
    /\ pass.at = "backfill" /\ pass.list = {} /\ ~Busy(Scanner)
    /\ pass' = IF Missing = {} THEN Finished
                ELSE [Finished EXCEPT !.at = "sweep", !.list = Missing]
    /\ Scans /\ UNCHANGED <<messages, maildir, changed, job, fate>>

DropRow(s) ==
    /\ pass.at = "sweep" /\ s \in pass.list
    /\ messages' = [messages EXCEPT ![s] = NoFile]
    /\ pass' = [pass EXCEPT !.list = @ \ {s}, !.at = IF pass.list = {s} THEN "idle" ELSE "sweep"]
    /\ Scans /\ UNCHANGED <<maildir, changed, job, fate>>

----------------------------------------------------------------------------
UserRequest ==
    \E e \in Editor :
        \/ \E s \in Live :
              \/ \E read, star \in BOOLEAN : MarkMail(e, s, read, star)
              \/ \E to \in Box \ {messages[s].folder} : MoveMail(e, s, to)
              \/ PurgeMail(e, s)
              \/ SaveDraft(e, s)
        \/ \E l \in Letter, f \in Box : StoreMail(e, l, f)
        \/ \E f \in Custom : DeleteFolder(e, f)

WriteStep ==
    \E w \in Writer :
        \/ RenameFile(w) \/ FileMissing(w) \/ AttachFile(w) \/ SaveFlag(w)
        \/ ReadState(w) \/ PutFile(w) \/ PutFails(w) \/ DropOld(w)
        \/ UnlinkFile(w) \/ DeleteRow(w)

OutsideStep ==
    \/ \E l \in Letter : Deliver(l)
    \/ \E f \in maildir :
          \/ \E to \in Box \ {f.folder} : CopyFile(f, to)
          \/ \E to \in Box \ {f.folder} : RefileFile(f, [f EXCEPT !.folder = to])
          \/ \E flag \in {"S", "R"} \ f.info : RefileFile(f, [f EXCEPT !.info = @ \cup {flag}])
          \/ ExpungeFile(f)
    \/ FiveMinutes

PassStep ==
    \/ \E full \in BOOLEAN : BeginPass(full)
    \/ /\ ~Busy(Scanner)
       /\ \/ \E d \in pass.dirs : ListFolder(d)
          \/ \E f \in pass.todo :
                \/ FileGone(f)
                \/ \E act \in {"update", "adopt", "copy", "import"}, hit \in Slot \cup {NoFile} :
                      LookAtFile(f, act, hit)
          \/ UpdateRow \/ RemoveCopy
          \/ \E moved \in BOOLEAN, to \in Box \ {Inbox} : ImportFile(moved, to)
          \/ ListBackfill \/ ListMissing
          \/ \E s \in pass.list : Backfill(s) \/ DropRow(s)

MaildirNext == UserRequest \/ WriteStep \/ OutsideStep \/ PassStep

MaildirSpec == MaildirInit /\ [][MaildirNext]_mailVars

----------------------------------------------------------------------------
MaildirTypeOK ==
    /\ messages \in [Slot -> Row \cup {NoFile}] /\ Live \subseteq issued /\ issued \subseteq Slot
    /\ maildir \subseteq File
    /\ changed \subseteq Box /\ folders \subseteq Box
    /\ fate \in [Letter -> {"unknown", "here", "removed", "clashed"}]
    /\ names \in 0..MaxNames /\ events \in 0..MaxEvents

\* A full pass nobody interfered with leaves the two copies equal: every file
\* of a folder there is has a row, in that folder and with the flags the file
\* shows, every row has a file, and only a row changed less than five minutes ago may wait
\* for the next pass (syncMaildirOnceDetailed).
Converged ==
    pass.at = "idle" /\ pass.calm =>
        /\ \A f \in maildir : f.folder \in folders =>
              \E s \in Live : /\ messages[s].path = f /\ messages[s].folder = f.folder
                              /\ messages[s].read = ShownRead(f) /\ messages[s].star = ShownStar(f)
        /\ \A s \in Live : messages[s].path \in maildir \/ ~messages[s].aged

\* A letter is never lost between the two copies: unless somebody removed it, or a scan
\* met it in the middle of a write, a row or a file still holds it.
LetterKept ==
    \A l \in Letter : fate[l] = "here" =>
        \/ \E f \in maildir : f.letter = l
        \/ \E s \in Live : messages[s].letter = l /\ messages[s].path = NoFile

\* A pass that nobody disturbs leaves rows and files agreeing, and no letter is
\* lost on the way except where the owner purged it (syncMaildir,
\* writeRawMessageToMaildirFolder, removeDuplicate).
MaildirSafe == Converged /\ LetterKept
=============================================================================
