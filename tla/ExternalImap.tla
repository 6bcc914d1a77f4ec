---------------------------- MODULE ExternalImap ----------------------------
(***************************************************************************)
(* One external account in local storage mode (external_imap.go): the      *)
(* worker and the user's "sync now" copy one folder of a remote server     *)
(* into a mailbox here, batch by batch and without a lock between them.    *)
(* A run acts on the row of the account it read at its start.  The row     *)
(* external_imap_folder_states says up to which UID the folder is done;    *)
(* the key of external_imap_messages (UIDVALIDITY and UID) says which      *)
(* message was stored already, and is inserted in the transaction that     *)
(* stores it.  Meanwhile the server gets mail, loses mail and may number   *)
(* the folder anew, and the user changes or deletes the account: an edit   *)
(* may turn it to another server or login, whose numbers are others, while *)
(* folder states and keys stay as they are.                                *)
(*                                                                         *)
(* A provider that rotates its refresh tokens refuses one that has a       *)
(* successor; a token is its number.  Another provider, or an account with *)
(* a password, stays with the token it has.  What is only shown to the     *)
(* user is left out: rows of external_imap_sync_runs, last_status, and the *)
(* uid_validity of the folder state, which nothing reads.                  *)
(***************************************************************************)
EXTENDS Naturals, FiniteSets, FiniteSetsExt

CONSTANTS
  Runner,         \* syncs that may overlap: the worker, a request
  MaxMails,       \* bound: messages that ever arrive at the server
  BatchSize,      \* externalIMAPSyncBatchSize
  MaxPerRun,      \* externalIMAPSyncMaxPerRun
  MaxTurns        \* bound: renumberings, expiring tokens and requests of the user,
                  \* together; successors the provider gives to the refresh token

ASSUME ExternalImapAssumption == {MaxMails, BatchSize, MaxPerRun, MaxTurns} \subseteq Nat

VARIABLES
  remote,     \* the folder on each server: its UIDVALIDITY, the UID of each message
  ximap,      \* the row of external_imap_accounts
  progress,   \* the row of external_imap_folder_states
  imports,    \* external_imap_messages with the local message of each
  syncing,    \* the runs
  ximapLog    \* history, and the bound used up

externalImapVars == <<remote, ximap, progress, imports, syncing, ximapLog>>

RemoteMail == 1 .. MaxMails
Server == {"first", "second"}
Boxes == {"one", "other"}
Item == [era : Nat, uid : Nat, server : Server, letter : RemoteMail, raw : BOOLEAN]
IdleRun == [pc |-> "idle", sync |-> TRUE, mailbox |-> "one", server |-> "first", token |-> 0,
            last |-> 0, items |-> {}, full |-> FALSE, count |-> 0]
SyncPC == {"idle", "open", "refresh", "token", "cached", "folder", "fetch", "items", "insert", "save"}

ExternalImapTypeOK ==
  /\ remote \in [Server -> [era : Nat, next : Nat, came : 0 .. MaxMails, uid : [RemoteMail -> 0 .. MaxMails]]]
  /\ ximap \in [status : {"none", "here", "gone"}, enabled : BOOLEAN, local : BOOLEAN,
                mailbox : Boxes, server : Server, token : Nat, expiry : {"fresh", "near", "over"}]
  /\ progress \in [known : BOOLEAN, last : 0 .. MaxMails, mailbox : Boxes]
  /\ \A i \in imports : /\ i.letter \in RemoteMail /\ i.mailbox \in Boxes /\ i.server \in Server
                        /\ i.place \in {"folder", "elsewhere", "deleted"}
  /\ \A r \in Runner : /\ syncing[r].pc \in SyncPC /\ syncing[r].items \subseteq Item
                       /\ syncing[r].count \in 0 .. MaxPerRun
  /\ ximapLog \in [steps : SUBSET {0, 1}, issued : Nat, dropped : BOOLEAN, revived : BOOLEAN,
                   moved : BOOLEAN, wrongMark : BOOLEAN, turns : 0 .. MaxTurns]

Here == ximap.status = "here"
Turn == ximapLog.turns < MaxTurns /\ ximapLog' = [ximapLog EXCEPT !.turns = @ + 1]
Put(r, run) == syncing' = [syncing EXCEPT ![r] = run]
GoTo(r, pc) == Put(r, [syncing[r] EXCEPT !.pc = pc])

-----------------------------------------------------------------------------
(* The server and the provider *)

Present(s) == {l \in RemoteMail : remote[s].uid[l] > 0}
PutFolder(s, folder) == remote' = [remote EXCEPT ![s] = folder]

Arrive(s) ==
  /\ remote["first"].came + remote["second"].came < MaxMails
  /\ PutFolder(s, [remote[s] EXCEPT !.came = @ + 1, !.next = @ + 1,
                                    !.uid = [@ EXCEPT ![remote[s].came + 1] = remote[s].next]])
  /\ UNCHANGED <<ximap, progress, imports, syncing, ximapLog>>

Expunge(s, l) ==
  /\ Turn /\ l \in Present(s)
  /\ PutFolder(s, [remote[s] EXCEPT !.uid[l] = 0])
  /\ UNCHANGED <<ximap, progress, imports, syncing>>

\* The folder is numbered anew, from one and in the order it has.
Renumber(s) ==
  /\ Turn
  /\ PutFolder(s, [remote[s] EXCEPT !.era = @ + 1, !.next = Cardinality(Present(s)) + 1,
       !.uid = [l \in RemoteMail |-> IF l \in Present(s) THEN Cardinality({k \in Present(s) : k <= l}) ELSE 0]])
  /\ UNCHANGED <<ximap, progress, imports, syncing>>

\* The access token comes within two minutes of its expiry, and then within the
\* ten seconds in which oauth2 takes it for expired.
TokenNearsExpiry ==
  /\ Turn /\ Here /\ ximap.expiry = "fresh"
  /\ ximap' = [ximap EXCEPT !.expiry = "near"]
  /\ UNCHANGED <<remote, progress, imports, syncing>>

TokenExpires ==
  /\ Here /\ ximap.expiry = "near"
  /\ ximap' = [ximap EXCEPT !.expiry = "over"]
  /\ UNCHANGED <<remote, progress, imports, syncing, ximapLog>>

-----------------------------------------------------------------------------
(* Requests of the user *)

\* handleCreateExternalIMAPAccount, handleExternalIMAPOAuthCallback
CreateAccount ==
  /\ ximap.status = "none"
  /\ ximap' = [ximap EXCEPT !.status = "here"]
  /\ UNCHANGED <<remote, progress, imports, syncing, ximapLog>>

\* handleUpdateExternalIMAPAccount: folder states and message keys stay, also
\* when host, port or username are others from now on.
UpdateAccount(field, value) ==
  /\ ximapLog.turns < MaxTurns /\ Here
  /\ ximap' = [ximap EXCEPT ![field] = value]
  /\ ximapLog' = [ximapLog EXCEPT !.turns = @ + 1, !.moved = @ \/ field = "server"]
  /\ UNCHANGED <<remote, progress, imports, syncing>>

\* handleDeleteExternalIMAPAccount, or the deletion of its mailbox or user:
\* states and keys go with it, here the mail stays.
DeleteAccount ==
  /\ Turn /\ Here
  /\ ximap' = [ximap EXCEPT !.status = "gone"]
  /\ progress' = [progress EXCEPT !.known = FALSE, !.last = 0]
  /\ imports' = {}
  /\ UNCHANGED <<remote, syncing>>

\* What the web client does with an imported message.
RefileImport(i, place) ==
  /\ Turn /\ i.place \notin {place, "deleted"}
  /\ imports' = (imports \ {i}) \cup {[i EXCEPT !.place = place]}
  /\ UNCHANGED <<remote, ximap, progress, syncing>>

\* handleExternalIMAPMarkRead asks for the UID of the mapping, whatever the
\* server and the folder's UIDVALIDITY are by now; the local half is MarkMail of MaildirSync.
MarkImport(i) ==
  /\ ximapLog.turns < MaxTurns
  /\ Here /\ ximap.enabled /\ i.place # "deleted" /\ i.mailbox = ximap.mailbox
  /\ ximapLog' = [ximapLog EXCEPT !.turns = @ + 1,
                    !.wrongMark = @ \/ \E l \in Present(ximap.server) :
                       /\ remote[ximap.server].uid[l] = i.uid
                       /\ l # i.letter \/ ximap.server # i.server]
  /\ UNCHANGED <<remote, ximap, progress, imports, syncing>>

-----------------------------------------------------------------------------
(* openExternalIMAPClient, externalIMAPOAuthAccessToken *)

\* externalIMAPAccountByID, and the check of the storage mode
StartSync(r) ==
  /\ syncing[r].pc = "idle"
  /\ Here /\ ximap.enabled /\ ximap.local
  /\ Put(r, [IdleRun EXCEPT !.pc = "open", !.mailbox = ximap.mailbox,
                            !.server = ximap.server, !.token = ximap.token])
  /\ UNCHANGED <<remote, ximap, progress, imports, ximapLog>>

\* The connection test, and every look at the folders of the account
StartLook(r) ==
  /\ syncing[r].pc = "idle" /\ Here /\ Turn
  /\ Put(r, [IdleRun EXCEPT !.pc = "open", !.sync = FALSE, !.token = ximap.token])
  /\ UNCHANGED <<remote, ximap, progress, imports>>

Opened(r) == IF syncing[r].sync THEN GoTo(r, "folder") ELSE Put(r, IdleRun)

\* Only the expiry is read again.  oauth2 answers with the token it was given
\* while that one lasts, and asks the provider otherwise.
OpenClient(r) ==
  /\ syncing[r].pc = "open"
  /\ \/ (~Here \/ ximap.expiry = "fresh") /\ Opened(r)
     \/ Here /\ ximap.expiry = "near" /\ GoTo(r, "cached")
     \/ Here /\ ximap.expiry # "fresh" /\ GoTo(r, "refresh")
  /\ UNCHANGED <<remote, ximap, progress, imports, ximapLog>>

\* The provider answers with the token it had, or with a new one; which of the
\* two it does shows at the first refresh and stays.
RefreshToken(r, step) ==
  /\ syncing[r].pc = "refresh" /\ syncing[r].token = ximapLog.issued /\ ximapLog.issued + step <= MaxTurns
  /\ ximapLog' = [ximapLog EXCEPT !.issued = @ + step, !.steps = {step}]
  /\ Put(r, [syncing[r] EXCEPT !.pc = "token", !.token = @ + step])
  /\ UNCHANGED <<remote, ximap, progress, imports>>

TokenReceived(r) == syncing[r].token

\* The row is updated by id; its error is ignored.
SaveToken(r, saved) ==
  /\ syncing[r].pc = "token"
  /\ ximap' = IF saved /\ Here THEN [ximap EXCEPT !.token = TokenReceived(r), !.expiry = "fresh"] ELSE ximap
  /\ ximapLog' = IF saved THEN ximapLog ELSE [ximapLog EXCEPT !.dropped = TRUE]
  /\ Opened(r)
  /\ UNCHANGED <<remote, progress, imports>>

\* No token was asked for, and yet the row is updated: with both tokens the run
\* read at its start and the expiry they had.
SaveCached(r, saved) ==
  LET stored == saved /\ Here IN
  /\ syncing[r].pc = "cached"
  /\ \E expiry \in {"near", "over"} :
       ximap' = IF stored THEN [ximap EXCEPT !.token = syncing[r].token, !.expiry = expiry] ELSE ximap
  /\ ximapLog' = [ximapLog EXCEPT !.revived = @ \/ (stored /\ syncing[r].token # ximap.token)]
  /\ Opened(r)
  /\ UNCHANGED <<remote, progress, imports>>

\* Dialling, the sign-in or LIST fails, or the local folder cannot be made.
ClientFails(r) ==
  /\ syncing[r].pc \in {"open", "refresh", "folder"}
  /\ Put(r, IdleRun)
  /\ UNCHANGED <<remote, ximap, progress, imports, ximapLog>>

-----------------------------------------------------------------------------
(* syncExternalIMAPFolder *)

\* ensureFolder, loadExternalIMAPFolderState, which ignores the UIDVALIDITY of
\* the state, and moveExternalIMAPMessagesToFolder when the local folder is
\* another one than the last run's.
OpenFolder(r) ==
  LET moved == progress.known /\ progress.mailbox # syncing[r].mailbox IN
  /\ syncing[r].pc = "folder"
  /\ imports' = IF ~moved THEN imports ELSE
       {IF i.mailbox = syncing[r].mailbox /\ i.place = "elsewhere" THEN [i EXCEPT !.place = "folder"] ELSE i : i \in imports}
  /\ Put(r, [syncing[r] EXCEPT !.pc = "fetch", !.last = IF progress.known THEN progress.last ELSE 0])
  /\ UNCHANGED <<remote, ximap, progress, ximapLog>>

BatchLimit(r) == Min({BatchSize, MaxPerRun - syncing[r].count})

\* What the run's server has past that UID, and its numbers.
Numbers(r) == remote[syncing[r].server]
Above(r) == {l \in Present(syncing[r].server) : Numbers(r).uid[l] > syncing[r].last}

\* FetchNew: the lowest UIDs past the last one; the body of one may be missing.
FetchBatch(r, bare) ==
  LET found == {l \in Above(r) :
                  Cardinality({k \in Above(r) : Numbers(r).uid[k] < Numbers(r).uid[l]}) < BatchLimit(r)}
  IN
  /\ syncing[r].pc = "fetch" /\ bare \subseteq found /\ Cardinality(bare) <= 1
  /\ Put(r, [syncing[r] EXCEPT
       !.pc = IF found = {} THEN "save" ELSE "items",
       !.full = Cardinality(found) = BatchLimit(r),
       !.items = {[era |-> Numbers(r).era, uid |-> Numbers(r).uid[l], server |-> syncing[r].server,
                   letter |-> l, raw |-> l \notin bare] : l \in found}])
  /\ UNCHANGED <<remote, ximap, progress, imports, ximapLog>>

\* It fails: nothing of this folder is recorded unless a batch was done before.
FetchFails(r) ==
  /\ syncing[r].pc = "fetch"
  /\ IF syncing[r].count = 0 THEN Put(r, IdleRun) ELSE GoTo(r, "save")
  /\ UNCHANGED <<remote, ximap, progress, imports, ximapLog>>

NextItem(r) == CHOOSE i \in syncing[r].items : \A k \in syncing[r].items : i.uid <= k.uid

\* externalIMAPRemoteMessageExists and insertExternalIMAPMessageOnce agree on the key.
KeyKnown(item) == \E i \in imports : i.era = item.era /\ i.uid = item.uid

\* The item is done with: the next one, the next batch, or the end of the loop.
PastItem(r, item) ==
  LET rest == syncing[r].items \ {NextItem(r)}
      count == syncing[r].count + 1
  IN Put(r, [syncing[r] EXCEPT
       !.last = item.uid, !.count = count, !.items = rest,
       !.pc = IF rest # {} THEN "items"
              ELSE IF syncing[r].full /\ count < MaxPerRun THEN "fetch" ELSE "save"])

SkipKnown(r) ==
  /\ syncing[r].pc = "items" /\ KeyKnown(NextItem(r))
  /\ PastItem(r, NextItem(r))
  /\ UNCHANGED <<remote, ximap, progress, imports, ximapLog>>

\* FetchRaw replaces an item without a body by what has its UID now.
FetchItem(r) ==
  LET item == NextItem(r)
      now == {l \in Present(syncing[r].server) : Numbers(r).uid[l] = item.uid}
  IN
  /\ syncing[r].pc = "items" /\ ~KeyKnown(item)
  /\ \/ item.raw /\ GoTo(r, "insert")
     \/ /\ ~item.raw
        /\ \E l \in now : Put(r, [syncing[r] EXCEPT !.pc = "insert",
             !.items = (@ \ {item}) \cup {[era |-> Numbers(r).era, uid |-> item.uid,
                          server |-> syncing[r].server, letter |-> l, raw |-> TRUE]}])
  /\ UNCHANGED <<remote, ximap, progress, imports, ximapLog>>

InsertIgnored(item) == KeyKnown(item)

\* The key and the message in one transaction, for the mailbox the run read.
\* Writing the file is only logged when it fails, and applyInboundControls
\* (MailRules) may put the message elsewhere.
InsertOnce(r, place) ==
  LET item == NextItem(r) IN
  /\ syncing[r].pc = "insert" /\ Here
  /\ imports' = IF InsertIgnored(item) THEN imports ELSE
       imports \cup {[era |-> item.era, uid |-> item.uid, server |-> item.server, letter |-> item.letter,
                      copy |-> Cardinality({i \in imports : i.letter = item.letter}),
                      mailbox |-> syncing[r].mailbox, place |-> place]}
  /\ PastItem(r, item)
  /\ UNCHANGED <<remote, ximap, progress, ximapLog>>

\* Mutant: an item that cannot be stored does not stop the folder.
FailedIsPast(r) == NextItem(r).uid
FailedStops(r) == syncing[r].last

\* No body, a message that cannot be parsed, or an INSERT that fails, as it does
\* when the account is gone: the folder stops before it.
ItemFails(r) ==
  /\ syncing[r].pc \in {"items", "insert"}
  /\ Put(r, [syncing[r] EXCEPT !.pc = "save", !.items = {}, !.last = FailedStops(r)])
  /\ UNCHANGED <<remote, ximap, progress, imports, ximapLog>>

\* The upsert keeps the larger last_uid; finishExternalIMAPRun.
SaveProgress(r) ==
  /\ syncing[r].pc = "save"
  /\ progress' = IF ~Here THEN progress ELSE
       [known |-> TRUE, last |-> Max({progress.last, syncing[r].last}), mailbox |-> syncing[r].mailbox]
  /\ Put(r, IdleRun)
  /\ UNCHANGED <<remote, ximap, imports, ximapLog>>

\* The process stops, the request is cancelled or the two minutes of a run are
\* over: what is left to write, the end of the run too, is not written.
CutOff(r) ==
  /\ syncing[r].pc # "idle"
  /\ ximapLog' = [ximapLog EXCEPT !.dropped = @ \/ syncing[r].pc = "token"]
  /\ Put(r, IdleRun)
  /\ UNCHANGED <<remote, ximap, progress, imports>>

-----------------------------------------------------------------------------

ExternalImapInit ==
  /\ remote = [s \in Server |-> [era |-> 1, next |-> 1, came |-> 0, uid |-> [l \in RemoteMail |-> 0]]]
  /\ ximap = [status |-> "none", enabled |-> TRUE, local |-> TRUE, mailbox |-> "one",
              server |-> "first", token |-> 0, expiry |-> "fresh"]
  /\ progress = [known |-> FALSE, last |-> 0, mailbox |-> "one"]
  /\ imports = {}
  /\ syncing = [r \in Runner |-> IdleRun]
  /\ ximapLog = [steps |-> {0, 1}, issued |-> 0, dropped |-> FALSE, revived |-> FALSE,
                 moved |-> FALSE, wrongMark |-> FALSE, turns |-> 0]

SyncStep(r) ==
  \/ StartSync(r) \/ StartLook(r) \/ OpenClient(r) \/ ClientFails(r) \/ OpenFolder(r)
  \/ (\E step \in ximapLog.steps : RefreshToken(r, step))
  \/ (\E saved \in BOOLEAN : SaveToken(r, saved) \/ SaveCached(r, saved))
  \/ \E bare \in SUBSET RemoteMail : FetchBatch(r, bare)
  \/ FetchFails(r) \/ SkipKnown(r) \/ FetchItem(r) \/ ItemFails(r) \/ SaveProgress(r) \/ CutOff(r)
  \/ \E place \in {"folder", "elsewhere"} : InsertOnce(r, place)

ExternalImapNext ==
  \/ (\E s \in Server : Arrive(s) \/ Renumber(s) \/ \E l \in RemoteMail : Expunge(s, l))
  \/ TokenNearsExpiry \/ TokenExpires
  \/ CreateAccount \/ DeleteAccount
  \/ (\E value \in BOOLEAN : UpdateAccount("enabled", value) \/ UpdateAccount("local", value))
  \/ (\E box \in Boxes : UpdateAccount("mailbox", box))
  \/ (\E s \in Server \ {ximap.server} : UpdateAccount("server", s))
  \/ \E i \in imports : MarkImport(i) \/ \E place \in {"elsewhere", "deleted"} : RefileImport(i, place)
  \/ \E r \in Runner : SyncStep(r)

ExternalImapSpec == ExternalImapInit /\ [][ExternalImapNext]_externalImapVars

-----------------------------------------------------------------------------
(* Properties *)

Renumbered == \E s \in Server : remote[s].era > 1

\* However runs overlap, are cut off and start again, a message is stored here
\* once as long as its server keeps its numbers, also when the user has deleted
\* or moved the copy, or has turned the account to another server and back
\* (insertExternalIMAPMessageOnce).
ImportedOnce ==
  \A i, k \in imports : i.server = k.server /\ i.letter = k.letter => i.era # k.era \/ i = k

\* Every message up to last_uid was stored: none is passed over because another
\* run failed, was cut off or was ahead.  Numbering the folder anew breaks it:
\* loadExternalIMAPFolderState does not compare uid_validity.  So does an edit of
\* host, port or username: last_uid and the keys of the former server stay.
NoneSkipped ==
  ~Renumbered /\ ~ximapLog.moved =>
    \A l \in Present(ximap.server) : remote[ximap.server].uid[l] <= progress.last =>
      \E i \in imports : i.letter = l /\ i.server = ximap.server

\* The refresh token of the account is the newest the provider gave, unless the
\* answer was lost before it was stored, or a run that asked for none wrote back
\* the older one it had read (externalIMAPOAuthAccessToken).
GrantKept ==
  Here => \/ ximap.token = ximapLog.issued \/ ximapLog.dropped \/ ximapLog.revived
          \/ \E r \in Runner : syncing[r].pc = "token"

\* Marking an imported message reaches no other one at the server while its
\* numbers stand and the account stays with it (handleExternalIMAPMarkRead).
MarkReachesIts == ximapLog.wrongMark => Renumbered \/ ximapLog.moved

\* What the import promises over restarts, failures, renumbering at the server
\* and edits of the account (syncExternalIMAPFolder, insertMessageOnce).
ExternalImapSafe == ImportedOnce /\ NoneSkipped /\ GrantKept /\ MarkReachesIts
=============================================================================
