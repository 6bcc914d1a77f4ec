----------------------------- MODULE Forwarding -----------------------------
(***************************************************************************)
(* Addresses a user may forward to: each is proved by a code that is       *)
(* mailed to it, is kept as one JSON value of system_settings, and is      *)
(* looked up again whenever a rule forwards a mail.  A verification writes *)
(* the value with a compare-and-swap, a request for a code writes it       *)
(* without one and takes its write back when the mail cannot be queued.    *)
(*                                                                         *)
(* One user.  Requests are HTTP requests of his, as many at once as there  *)
(* are elements of FwdRequest.                                             *)
(***************************************************************************)
EXTENDS Naturals, FiniteSets

CONSTANTS
  Addr,           \* addresses he asks to forward to
  OwnAddr,        \* those that are mailboxes of his own
  FwdRequest,     \* requests that run at the same time
  FwdMail,        \* mails that a rule forwards
  ForwardTo,      \* the recipients of that rule
  MaxAddresses,   \* maxForwardAddresses
  MaxGuesses,     \* forwardVerificationMaxAttempts
  MaxCodes,       \* bound: codes made
  MaxDeletes      \* bound: addresses deleted

ASSUME ForwardingAssumption ==
  /\ OwnAddr \subseteq Addr /\ ForwardTo \subseteq Addr
  /\ MaxAddresses \in Nat \ {0} /\ {MaxGuesses, MaxCodes, MaxDeletes} \subseteq Nat
  /\ Addr # {} /\ IsFiniteSet(Addr) /\ IsFiniteSet(FwdRequest)

VARIABLES
  stored,     \* the value of each address, NoValue without a row
  codes,      \* how many codes were made: a code is its number, 0 is none
  mailed,     \* the codes the owner of an address has received
  expired,    \* codes up to this one are older than forwardVerificationTTL
  cooling,    \* addresses whose last code is younger than the cooldown
  req,        \* the requests
  fwd,        \* the forwarding of each mail
  proved,     \* history: addresses whose code was entered, or that are the user's
  wrong,      \* history: wrong guesses answered "invalid" for each code
  undone,     \* history: codes whose value was written back over a later one
  deletes     \* bound counter

forwardingVars == <<stored, codes, mailed, expired, cooling, req, fwd, proved,
                    wrong, undone, deletes>>
fwdHistory == <<proved, wrong, undone, deletes>>

-----------------------------------------------------------------------------
(* Types *)

FwdCode == 0 .. MaxCodes
NoValue == [code |-> 0, guesses |-> 0, verified |-> FALSE, kept |-> FALSE]
\* kept: there is a row.
FwdValue == [code : FwdCode, guesses : 0 .. MaxGuesses, verified : BOOLEAN, kept : BOOLEAN]
VerifiedAddr == [NoValue EXCEPT !.verified = TRUE, !.kept = TRUE]
UnprovedAddr(c) == [NoValue EXCEPT !.code = c, !.kept = TRUE]

\* entered: the code submitted to verify, 0 for one that was never made.
\* saw: the value the request has read; own: the code it has made.
FwdReq == [pc : {"idle", "save", "mail", "undo", "read", "swap"}, addr : Addr, saw : FwdValue,
        own : FwdCode, entered : FwdCode]
IdleReq == [pc |-> "idle", addr |-> CHOOSE a \in Addr : TRUE, saw |-> NoValue, own |-> 0, entered |-> 0]

ForwardingTypeOK ==
  /\ stored \in [Addr -> FwdValue]
  /\ codes \in FwdCode
  /\ mailed \in [Addr -> SUBSET (1 .. MaxCodes)]
  /\ expired \in FwdCode
  /\ cooling \subseteq Addr
  /\ req \in [FwdRequest -> FwdReq]
  /\ fwd \in [FwdMail -> [pc : {"idle", "queue", "done"}, sent : SUBSET Addr]]
  /\ proved \subseteq Addr
  /\ wrong \in [1 .. MaxCodes -> Nat]
  /\ undone \subseteq FwdCode
  /\ deletes \in 0 .. MaxDeletes

-----------------------------------------------------------------------------
(* Helpers *)

KeptAddr == {a \in Addr : stored[a].kept}
EnterReq(h, value) == req' = [req EXCEPT ![h] = value]
LeaveReq(h) == EnterReq(h, IdleReq)
GotoReq(h, pc) == req' = [req EXCEPT ![h].pc = pc]
WriteAddr(a, value) == stored' = [stored EXCEPT ![a] = value]

-----------------------------------------------------------------------------
(* handleRequestForwardAddressVerification *)

AskCode(h, a) ==
  /\ req[h].pc = "idle"
  /\ stored[a].kept \/ Cardinality(KeptAddr) < MaxAddresses
  /\ ~stored[a].verified
  /\ ~(stored[a].kept /\ a \in cooling)
  /\ a \in OwnAddr \/ codes < MaxCodes
  /\ EnterReq(h, [IdleReq EXCEPT !.pc = "save", !.addr = a, !.saw = stored[a]])
  /\ UNCHANGED <<stored, codes, mailed, expired, cooling, fwd, fwdHistory>>

SaveOwn(h) ==
  LET a == req[h].addr IN
  /\ req[h].pc = "save" /\ a \in OwnAddr
  /\ WriteAddr(a, VerifiedAddr)
  /\ proved' = proved \cup {a}
  /\ LeaveReq(h)
  /\ UNCHANGED <<codes, mailed, expired, cooling, fwd, wrong, undone, deletes>>

SaveCode(h) ==
  LET a == req[h].addr IN
  /\ req[h].pc = "save" /\ a \notin OwnAddr /\ codes < MaxCodes
  /\ codes' = codes + 1
  /\ WriteAddr(a, UnprovedAddr(codes + 1))
  /\ cooling' = cooling \cup {a}
  /\ req' = [req EXCEPT ![h].pc = "mail", ![h].own = codes + 1]
  /\ UNCHANGED <<mailed, expired, fwd, proved, wrong, undone, deletes>>

\* enqueueForwardVerification; the send queue delivers it.
MailCode(h) ==
  /\ req[h].pc = "mail"
  /\ mailed' = [mailed EXCEPT ![req[h].addr] = @ \cup {req[h].own}]
  /\ LeaveReq(h)
  /\ UNCHANGED <<stored, codes, expired, cooling, fwd, fwdHistory>>

\* The sending limit, or a statement, refuses it.
MailRefused(h) ==
  /\ req[h].pc = "mail"
  /\ GotoReq(h, "undo")
  /\ UNCHANGED <<stored, codes, mailed, expired, cooling, fwd, fwdHistory>>

\* The value seen at first is written back, or the row deleted.
UndoCode(h) ==
  LET a == req[h].addr IN
  /\ req[h].pc = "undo"
  /\ WriteAddr(a, req[h].saw)
  /\ cooling' = cooling \ {a}
  /\ undone' = undone \cup {req[h].saw.code}
  /\ LeaveReq(h)
  /\ UNCHANGED <<codes, mailed, expired, fwd, proved, wrong, deletes>>

\* The write back fails, and that is ignored.
UndoFails(h) ==
  /\ req[h].pc = "undo"
  /\ LeaveReq(h)
  /\ UNCHANGED <<stored, codes, mailed, expired, cooling, fwd, fwdHistory>>

-----------------------------------------------------------------------------
(* handleVerifyForwardAddress *)

EnterCode(h, a, c) ==
  /\ req[h].pc = "idle"
  /\ EnterReq(h, [IdleReq EXCEPT !.pc = "read", !.addr = a, !.entered = c])
  /\ UNCHANGED <<stored, codes, mailed, expired, cooling, fwd, fwdHistory>>

Guessable(v) == v.kept /\ ~v.verified /\ v.code > 0 /\ v.code > expired /\ v.guesses < MaxGuesses

ReadForVerify(h) ==
  LET v == stored[req[h].addr] IN
  /\ req[h].pc = "read"
  /\ IF Guessable(v) THEN req' = [req EXCEPT ![h].pc = "swap", ![h].saw = v] ELSE LeaveReq(h)
  /\ UNCHANGED <<stored, codes, mailed, expired, cooling, fwd, fwdHistory>>

\* Mutant: an UPDATE that does not repeat the value it read.
SwapBlindly(h) == TRUE
SameValue(h) == stored[req[h].addr] = req[h].saw

\* compareAndSwapForwardAddressState; when it misses, the value is read again,
\* up to eight times.
SwapCode(h) ==
  LET a == req[h].addr
      v == req[h].saw
      right == req[h].entered = v.code
  IN
  /\ req[h].pc = "swap"
  /\ IF SameValue(h)
     THEN /\ WriteAddr(a, IF right THEN VerifiedAddr ELSE [v EXCEPT !.guesses = @ + 1])
          /\ proved' = IF right THEN proved \cup {a} ELSE proved
          /\ wrong' = IF right THEN wrong ELSE [wrong EXCEPT ![v.code] = @ + 1]
          /\ cooling' = IF right THEN cooling \ {a} ELSE cooling
          /\ LeaveReq(h)
     ELSE /\ GotoReq(h, "read") \/ LeaveReq(h)
          /\ UNCHANGED <<stored, proved, wrong, cooling>>
  /\ UNCHANGED <<codes, mailed, expired, fwd, undone, deletes>>

-----------------------------------------------------------------------------
(* Deletion, time, and the forwarding of a mail by a rule *)

DeleteAddr(a) ==
  /\ stored[a].kept /\ deletes < MaxDeletes
  /\ WriteAddr(a, NoValue)
  /\ deletes' = deletes + 1
  /\ UNCHANGED <<codes, mailed, expired, cooling, req, fwd, proved, wrong, undone>>

CodeExpires ==
  /\ expired < codes
  /\ expired' = expired + 1
  /\ UNCHANGED <<stored, codes, mailed, cooling, req, fwd, fwdHistory>>

CooldownEnds(a) ==
  /\ a \in cooling
  /\ cooling' = cooling \ {a}
  /\ UNCHANGED <<stored, codes, mailed, expired, req, fwd, fwdHistory>>

\* enqueueRuleForward: all recipients of the rule must be verified, and a mail
\* for which they are not is passed over.
CheckForward(m) ==
  /\ fwd[m].pc = "idle"
  /\ \A a \in ForwardTo : stored[a].verified
  /\ fwd' = [fwd EXCEPT ![m] = [pc |-> "queue", sent |-> ForwardTo]]
  /\ UNCHANGED <<stored, codes, mailed, expired, cooling, req, fwdHistory>>

\* The limits let it through or not.
QueueForward(m, refused) ==
  /\ fwd[m].pc = "queue"
  /\ fwd' = [fwd EXCEPT ![m].pc = "done", ![m].sent = IF refused THEN {} ELSE @]
  /\ UNCHANGED <<stored, codes, mailed, expired, cooling, req, fwdHistory>>

-----------------------------------------------------------------------------

ForwardingInit ==
  /\ stored = [a \in Addr |-> NoValue]
  /\ codes = 0
  /\ mailed = [a \in Addr |-> {}]
  /\ expired = 0 /\ cooling = {}
  /\ req = [h \in FwdRequest |-> IdleReq]
  /\ fwd = [m \in FwdMail |-> [pc |-> "idle", sent |-> {}]]
  /\ proved = {} /\ undone = {}
  /\ wrong = [c \in 1 .. MaxCodes |-> 0]
  /\ deletes = 0

\* A user enters a code that he has, or a wrong one.
KnownCode(a) == {0} \cup mailed[a]

ForwardingNext ==
  \/ \E h \in FwdRequest :
       \/ SaveOwn(h) \/ SaveCode(h) \/ MailCode(h) \/ MailRefused(h) \/ UndoCode(h) \/ UndoFails(h)
       \/ ReadForVerify(h) \/ SwapCode(h)
       \/ \E a \in Addr : AskCode(h, a) \/ \E c \in KnownCode(a) : EnterCode(h, a, c)
  \/ \E a \in Addr : DeleteAddr(a) \/ CooldownEnds(a)
  \/ CodeExpires
  \/ \E m \in FwdMail : CheckForward(m) \/ \E refused \in BOOLEAN : QueueForward(m, refused)

ForwardingSpec == ForwardingInit /\ [][ForwardingNext]_forwardingVars

-----------------------------------------------------------------------------
(* Properties *)

\* A code takes at most five wrong guesses, also of requests that guess at the
\* same time, unless a later request wrote the counter back.
GuessesBounded == \A c \in 1 .. MaxCodes : wrong[c] > MaxGuesses => c \in undone

\* A mail is forwarded only to addresses whose owner showed a code that was
\* sent there.
ForwardedWereProved == \A m \in FwdMail : fwd[m].sent \subseteq proved

\* The number of addresses is checked before the row is written, so requests
\* at the same time may pass it, but each by one.
AddressesBounded == Cardinality(KeptAddr) <= MaxAddresses + Cardinality(FwdRequest) - 1

\* Address verification holds whatever order requests, entries, refusals and
\* time come in: guesses are bounded, mail is forwarded only to proved addresses,
\* and their number is kept (verifyRuleForwardAddress, enqueueRuleForward).
ForwardingSafe == GuessesBounded /\ ForwardedWereProved /\ AddressesBounded
=============================================================================
