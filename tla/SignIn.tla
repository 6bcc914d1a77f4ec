------------------------------- MODULE SignIn -------------------------------
(***************************************************************************)
(* Signing in to one account: the password stage and the code stage of a   *)
(* login, the login rate limit, sessions, the API token of the account,    *)
(* changes of the password and of the second factor, and the two resets of *)
(* an administrator.  A request reads, checks and writes in steps of its   *)
(* own; whatever it writes depends on what it read before.                 *)
(*                                                                         *)
(* An era begins with each reset.  A proof says in which era the evidence  *)
(* of a request was given, and whether it was pending when a later reset   *)
(* came; sessions, challenges, the token and the password carry the proof  *)
(* of the request that put them in force.                                  *)
(***************************************************************************)
EXTENDS Naturals, FiniteSets

CONSTANTS
  Request,        \* requests under way at the same time
  FailureLimit,   \* loginRateLimitAccountFailures, loginRateLimitIPFailures
  MaxStarts,      \* bound: requests made
  MaxEarly,       \* bound: how many of them may have begun before a change of the account
  MaxResets,      \* bound: resets by an administrator
  MaxSecrets,     \* bound: two-factor secrets told apart
  MaxSteps        \* bound: TOTP time steps that pass

Subject == {"account", "ip"}

ASSUME SignInAssumption ==
  /\ IsFiniteSet(Request)
  /\ FailureLimit \in [Subject -> Nat \ {0, 1}]   \* the first failure never locks
  /\ {MaxStarts, MaxEarly, MaxResets, MaxSecrets, MaxSteps} \subseteq Nat
  /\ MaxSecrets > Cardinality(Request) + 2

VARIABLES
  account,     \* password, secret, enabled and last counter of the users row
  limits,      \* the rows of login_rate_limits
  sessions,    \* the proofs of the live sessions
  challenges,  \* the proofs of the login challenges
  token,       \* the API token of the user
  req,         \* the requests under way
  era,         \* history: resets so far
  clock,       \* the current TOTP step
  accepted,    \* history: how often a code of each step was accepted
  confirmed,   \* history: the secret whose code switched the second factor on
  overlapped,  \* history: two changes of the second factor were under way at once
  refused,     \* history: challenges refused because no second factor was on
  started      \* the bound on requests used up

signInVars == <<account, limits, sessions, challenges, token, req, era, clock, accepted,
                confirmed, overlapped, refused, started>>

-----------------------------------------------------------------------------
(* Types *)

Era == 0 .. MaxResets
Proof == [since : Era, late : BOOLEAN]
Secret == 0 .. MaxSecrets              \* 0 is the empty secret
Counter == 0 .. MaxSteps + 2
LoginPC == {"compare", "code", "fail", "challenge", "grant"}
ExternalPC == {"external", "externalCode"}
FactorPC == {"setup", "enableCode", "enable", "disableCode", "disable"}
PC == {"idle", "password", "token"} \cup LoginPC \cup ExternalPC \cup FactorPC
\* from: the session or challenge the request came with; flag: a flag it read.
Req == [pc : PC, proof : Proof, from : Proof, secret : Secret, flag : BOOLEAN]
Limited == [failures : 0 .. MaxStarts, locked : BOOLEAN, old : BOOLEAN]

SignInTypeOK ==
  /\ account \in [password : Proof, secret : Secret, enabled : BOOLEAN, counter : Counter]
  /\ limits \in [Subject -> Limited]
  /\ sessions \subseteq Proof /\ challenges \subseteq Proof
  /\ token \in [state : {"none", "enabled", "disabled"}, proof : Proof]
  /\ req \in [Request -> Req]
  /\ era \in Era /\ clock \in 1 .. MaxSteps + 1
  /\ accepted \in [Counter -> 0 .. MaxStarts]
  /\ confirmed \in Secret /\ overlapped \in BOOLEAN
  /\ {refused, started} \subseteq 0 .. MaxStarts

-----------------------------------------------------------------------------
(* Helpers *)

Now == [since |-> era, late |-> FALSE]
NoReq == [pc |-> "idle", proof |-> [since |-> 0, late |-> FALSE],
          from |-> [since |-> 0, late |-> FALSE], secret |-> 0, flag |-> FALSE]

NoToken == [state |-> "none", proof |-> [since |-> 0, late |-> FALSE]]

Begin(r, fresh) ==
  /\ req[r].pc = "idle" /\ started < MaxStarts
  /\ started' = started + 1
  /\ req' = [req EXCEPT ![r] = fresh]
To(r, pc) == req' = [req EXCEPT ![r].pc = pc]
End(r) == req' = [req EXCEPT ![r] = NoReq]

NoRow == [failures |-> 0, locked |-> FALSE, old |-> FALSE]
Limit(subjects) == \E s \in subjects : limits[s].locked

\* Mutant: the lock starts one failure late.
FailedOneLate(row, limit) ==
  IF row.old
  THEN [failures |-> 1, locked |-> FALSE, old |-> FALSE]
  ELSE [failures |-> row.failures + 1, locked |-> row.locked \/ row.failures >= limit,
        old |-> FALSE]

\* upsertLoginFailure; a row that is older than the window and not locked
\* counts like none, also before it is deleted after a day.
Failed(row, limit) ==
  IF row.old
  THEN [failures |-> 1, locked |-> FALSE, old |-> FALSE]
  ELSE [failures |-> row.failures + 1, locked |-> row.locked \/ row.failures + 1 >= limit,
        old |-> FALSE]

RecordFailure(subjects) ==
  limits' = [s \in Subject |-> IF s \in subjects THEN Failed(limits[s], FailureLimit[s]) ELSE limits[s]]

\* consumeTOTP: a code of the secret read, of a step next to now, newer than the last.
Consume(step) ==
  /\ step \in clock - 1 .. clock + 1 /\ step > account.counter
  /\ account' = [account EXCEPT !.counter = step]
  /\ accepted' = [accepted EXCEPT ![step] = @ + 1]

\* newTOTPSecret: any secret that nothing refers to is a new one.
Unused ==
  LET free == Secret \ ({0, account.secret, confirmed} \cup {req[r].secret : r \in Request})
  IN {CHOOSE secret \in free : TRUE}

FactorBusy == \E r \in Request : req[r].pc \in FactorPC
FactorBegins == overlapped' = (overlapped \/ FactorBusy)

-----------------------------------------------------------------------------
(* handleLogin *)

StartPassword(r) ==
  /\ ~Limit(Subject)
  /\ Begin(r, [NoReq EXCEPT !.pc = "compare", !.proof = Now])
  /\ UNCHANGED <<account, limits, sessions, challenges, token, era, clock, accepted, confirmed, overlapped, refused>>

\* The row is read and the password compared; a disabled account fails too.
ComparePassword(r) ==
  /\ req[r].pc = "compare"
  /\ \E pc \in {"fail", IF account.enabled THEN "challenge" ELSE "grant"} : To(r, pc)
  /\ UNCHANGED <<account, limits, sessions, challenges, token, era, clock, accepted, confirmed, overlapped, started, refused>>

\* The challenge and the users row are read.  Without a second factor to prove
\* the challenge is of no use and goes.
StartCode(r) ==
  /\ challenges # {} /\ ~Limit({"ip"})
  /\ \E c \in challenges :
       LET fresh == [NoReq EXCEPT !.proof = c, !.from = c, !.secret = account.secret] IN
       IF ~account.enabled \/ account.secret = 0
       THEN /\ Begin(r, [fresh EXCEPT !.pc = "fail"])
            /\ challenges' = challenges \ {c}
            /\ refused' = refused + 1
       ELSE /\ ~Limit({"account"})
            /\ Begin(r, [fresh EXCEPT !.pc = "code"])
            /\ UNCHANGED <<challenges, refused>>
  /\ UNCHANGED <<account, limits, sessions, token, era, clock, accepted, confirmed, overlapped>>

\* A token of no challenge: the failure counts for the address only.
UnknownChallenge(r) ==
  /\ ~Limit({"ip"})
  /\ req[r].pc = "idle" /\ started < MaxStarts
  /\ started' = started + 1
  /\ RecordFailure({"ip"})
  /\ UNCHANGED <<account, sessions, challenges, token, req, era, clock, accepted, confirmed, overlapped, refused>>

CheckCode(r) ==
  /\ req[r].pc = "code"
  /\ \/ To(r, "fail") /\ UNCHANGED <<account, accepted, challenges>>
     \/ /\ \E step \in Counter : Consume(step)
        /\ challenges' = challenges \ {req[r].from}
        /\ To(r, "grant")
  /\ UNCHANGED <<limits, sessions, token, era, clock, confirmed, overlapped, started, refused>>

FailLogin(r) ==
  /\ req[r].pc = "fail"
  /\ RecordFailure(Subject)
  /\ End(r)
  /\ UNCHANGED <<account, sessions, challenges, token, era, clock, accepted, confirmed, overlapped, started, refused>>

IssueChallenge(r) ==
  /\ req[r].pc = "challenge"
  /\ challenges' = challenges \cup {req[r].proof}
  /\ End(r)
  /\ UNCHANGED <<account, limits, sessions, token, era, clock, accepted, confirmed, overlapped, started, refused>>

\* issueSession, then clearLoginAccountFailures.
IssueSession(r) ==
  /\ req[r].pc = "grant"
  /\ sessions' = sessions \cup {req[r].proof}
  /\ limits' = IF req[r].flag THEN limits ELSE [limits EXCEPT !["account"] = NoRow]
  /\ End(r)
  /\ UNCHANGED <<account, challenges, token, era, clock, accepted, confirmed, overlapped, started, refused>>

-----------------------------------------------------------------------------
(* linuxdo_auth.go: a sign-in whose first factor the provider vouches for, *)
(* outside the rate limit.  The flag marks it.                             *)

FinishLinuxDoLogin(r) ==
  /\ Begin(r, [NoReq EXCEPT !.proof = Now, !.flag = TRUE,
                            !.pc = IF account.enabled /\ account.secret # 0 THEN "challenge" ELSE "grant"])
  /\ UNCHANGED <<account, limits, sessions, challenges, token, era, clock, accepted, confirmed, overlapped, refused>>

StartLinuxDoCode(r) ==
  /\ account.enabled
  /\ \E c \in challenges :
       Begin(r, [NoReq EXCEPT !.pc = "externalCode", !.proof = c, !.from = c,
                              !.secret = account.secret, !.flag = TRUE])
  /\ UNCHANGED <<account, limits, sessions, challenges, token, era, clock, accepted, confirmed, overlapped, refused>>

CheckLinuxDoCode(r) ==
  /\ req[r].pc = "externalCode"
  /\ \/ End(r) /\ UNCHANGED <<account, accepted, challenges>>
     \/ /\ req[r].secret # 0
        /\ \E step \in Counter : Consume(step)
        /\ challenges' = challenges \ {req[r].from}
        /\ To(r, "grant")
  /\ UNCHANGED <<limits, sessions, token, era, clock, confirmed, overlapped, started, refused>>

-----------------------------------------------------------------------------
(* Requests of the signed-in user *)

SignedIn(r, s, pc) ==
  /\ started <= MaxEarly
  /\ Begin(r, [NoReq EXCEPT !.pc = pc, !.proof = Now, !.from = s,
                            !.secret = account.secret, !.flag = account.enabled])

\* The current password is compared with the row that is read.
StartChangePassword(r) ==
  /\ \E s \in sessions : SignedIn(r, s, "password")
  /\ UNCHANGED <<account, limits, sessions, challenges, token, era, clock, accepted, confirmed, overlapped, refused>>

\* One transaction: the password of the user and of the mailboxes, and the
\* other sessions.
SavePassword(r) ==
  /\ req[r].pc = "password"
  /\ account' = [account EXCEPT !.password = req[r].proof]
  /\ sessions' = sessions \cap {req[r].from}
  /\ End(r)
  /\ UNCHANGED <<limits, challenges, token, era, clock, accepted, confirmed, overlapped, started, refused>>

Logout(s) ==
  /\ s \in sessions
  /\ sessions' = sessions \ {s}
  /\ UNCHANGED <<account, limits, challenges, token, req, era, clock, accepted, confirmed, overlapped, started, refused>>

CreateToken ==
  /\ token.state = "none" /\ sessions # {}
  /\ token' = [state |-> "enabled", proof |-> Now]
  /\ UNCHANGED <<account, limits, sessions, challenges, req, era, clock, accepted, confirmed, overlapped, started, refused>>

DeleteToken ==
  /\ token.state # "none" /\ sessions # {}
  /\ token' = NoToken
  /\ UNCHANGED <<account, limits, sessions, challenges, req, era, clock, accepted, confirmed, overlapped, started, refused>>

\* An update writes every column: the flag it read unless the user sets it.
StartUpdateToken(r) ==
  /\ token.state # "none" /\ started <= MaxEarly
  /\ \E s \in sessions, flag \in {token.state = "enabled", TRUE, FALSE} :
       Begin(r, [NoReq EXCEPT !.pc = "token", !.proof = Now, !.from = s, !.flag = flag])
  /\ UNCHANGED <<account, limits, sessions, challenges, token, era, clock, accepted, confirmed, overlapped, refused>>

SaveToken(r) ==
  /\ req[r].pc = "token"
  /\ token' = IF token.state = "none" THEN token
              ELSE [state |-> IF req[r].flag THEN "enabled" ELSE "disabled", proof |-> req[r].proof]
  /\ End(r)
  /\ UNCHANGED <<account, limits, sessions, challenges, era, clock, accepted, confirmed, overlapped, started, refused>>

-----------------------------------------------------------------------------
(* two_factor.go *)

StartSetup(r) ==
  /\ ~account.enabled
  /\ \E s \in sessions : SignedIn(r, s, "setup")
  /\ FactorBegins
  /\ UNCHANGED <<account, limits, sessions, challenges, token, era, clock, accepted, confirmed, refused>>

SaveSecret(r) ==
  /\ req[r].pc = "setup"
  /\ \E secret \in Unused : account' = [account EXCEPT !.secret = secret, !.enabled = FALSE]
  /\ End(r)
  /\ UNCHANGED <<limits, sessions, challenges, token, era, clock, accepted, confirmed, overlapped, started, refused>>

StartEnable(r) ==
  /\ ~account.enabled /\ account.secret # 0
  /\ \E s \in sessions : SignedIn(r, s, "enableCode")
  /\ FactorBegins
  /\ UNCHANGED <<account, limits, sessions, challenges, token, era, clock, accepted, confirmed, refused>>

CheckEnableCode(r) ==
  /\ req[r].pc = "enableCode"
  /\ \/ End(r) /\ UNCHANGED <<account, accepted, confirmed>>
     \/ /\ \E step \in Counter : Consume(step)
        /\ confirmed' = req[r].secret
        /\ To(r, "enable")
  /\ UNCHANGED <<limits, sessions, challenges, token, era, clock, overlapped, started, refused>>

SaveEnabled(r) ==
  /\ req[r].pc = "enable"
  /\ account' = [account EXCEPT !.enabled = TRUE]
  /\ End(r)
  /\ UNCHANGED <<limits, sessions, challenges, token, era, clock, accepted, confirmed, overlapped, started, refused>>

\* With the current password, which is read and compared on its own.
StartDisable(r) ==
  /\ account.enabled \/ account.secret # 0
  /\ \E s \in sessions : SignedIn(r, s, "disableCode")
  /\ FactorBegins
  /\ UNCHANGED <<account, limits, sessions, challenges, token, era, clock, accepted, confirmed, refused>>

CheckDisableCode(r) ==
  /\ req[r].pc = "disableCode"
  /\ \/ End(r) /\ UNCHANGED <<account, accepted>>
     \/ req[r].secret # 0 /\ req[r].flag /\ (\E step \in Counter : Consume(step)) /\ To(r, "disable")
     \/ ~(req[r].secret # 0 /\ req[r].flag) /\ To(r, "disable") /\ UNCHANGED <<account, accepted>>
  /\ UNCHANGED <<limits, sessions, challenges, token, era, clock, confirmed, overlapped, started, refused>>

SaveDisabled(r) ==
  /\ req[r].pc = "disable"
  /\ account' = [account EXCEPT !.secret = 0, !.enabled = FALSE]
  /\ End(r)
  /\ UNCHANGED <<limits, sessions, challenges, token, era, clock, accepted, confirmed, overlapped, started, refused>>

-----------------------------------------------------------------------------
(* The administrator *)

Late(proof) == [proof EXCEPT !.late = TRUE]

\* containUserAfterAdminResetTx: sessions end and the token is disabled.
\* Challenges and the requests under way stay: their proofs are late.
Contain ==
  /\ era < MaxResets
  /\ era' = era + 1
  /\ sessions' = {}
  /\ token' = IF token.state = "enabled" THEN [token EXCEPT !.state = "disabled"] ELSE token
  /\ challenges' = {Late(c) : c \in challenges}
  /\ req' = [r \in Request |-> IF req[r].pc = "idle" THEN req[r]
                               ELSE [req[r] EXCEPT !.proof = Late(@), !.from = Late(@)]]

\* handleResetUserPassword
ResetPassword ==
  /\ Contain
  /\ account' = [account EXCEPT !.password = [since |-> era + 1, late |-> FALSE]]
  /\ UNCHANGED <<limits, clock, accepted, confirmed, overlapped, started, refused>>

\* handleAdminResetTwoFactor.  The administrator keeps the password in force.
ResetTwoFactor ==
  /\ Contain
  /\ account' = [account EXCEPT !.secret = 0, !.enabled = FALSE,
                                !.password = [since |-> era + 1, late |-> FALSE]]
  /\ FactorBegins
  /\ UNCHANGED <<limits, clock, accepted, confirmed, started, refused>>

-----------------------------------------------------------------------------
(* Time *)

StepPasses ==
  /\ clock <= MaxSteps
  /\ clock' = clock + 1
  /\ UNCHANGED <<account, limits, sessions, challenges, token, req, era, accepted, confirmed, overlapped, started, refused>>

\* The window and the lock last equally long, and the lock starts later.
WindowEnds(s) ==
  /\ limits[s].failures > 0
  /\ limits' = [limits EXCEPT ![s] = IF @.old THEN [@ EXCEPT !.locked = FALSE] ELSE [@ EXCEPT !.old = TRUE]]
  /\ UNCHANGED <<account, sessions, challenges, token, req, era, clock, accepted, confirmed, overlapped, started, refused>>

ChallengeExpires(c) ==
  /\ c \in challenges
  /\ challenges' = challenges \ {c}
  /\ UNCHANGED <<account, limits, sessions, token, req, era, clock, accepted, confirmed, overlapped, started, refused>>

-----------------------------------------------------------------------------

\* The account may have its second factor on, a session and a token.
SignInInit ==
  LET first == [since |-> 0, late |-> FALSE] IN
  /\ \E on \in BOOLEAN :
       LET secret == IF on THEN 1 ELSE 0 IN
       /\ account = [password |-> first, secret |-> secret, enabled |-> on, counter |-> 0]
       /\ confirmed = secret
  /\ limits = [s \in Subject |-> NoRow]
  /\ sessions \in {{}, {first}} /\ challenges = {}
  /\ token = NoToken
  /\ req = [r \in Request |-> NoReq]
  /\ era = 0 /\ clock = 1
  /\ accepted = [step \in Counter |-> 0]
  /\ overlapped = FALSE /\ refused = 0 /\ started = 0

LoginStep(r) ==
  \/ StartPassword(r) \/ ComparePassword(r) \/ StartCode(r) \/ UnknownChallenge(r) \/ CheckCode(r)
  \/ FailLogin(r) \/ IssueChallenge(r) \/ IssueSession(r)
  \/ FinishLinuxDoLogin(r) \/ StartLinuxDoCode(r) \/ CheckLinuxDoCode(r)

UserStep(r) ==
  \/ StartChangePassword(r) \/ SavePassword(r) \/ StartUpdateToken(r) \/ SaveToken(r)
  \/ StartSetup(r) \/ SaveSecret(r) \/ StartEnable(r) \/ CheckEnableCode(r) \/ SaveEnabled(r)
  \/ StartDisable(r) \/ CheckDisableCode(r) \/ SaveDisabled(r)

SignInNext ==
  \/ \E r \in Request : LoginStep(r) \/ UserStep(r)
  \/ \E p \in Proof : Logout(p) \/ ChallengeExpires(p)
  \/ \E s \in Subject : WindowEnds(s)
  \/ CreateToken \/ DeleteToken \/ ResetPassword \/ ResetTwoFactor \/ StepPasses

SignInSpec == SignInInit /\ [][SignInNext]_signInVars

-----------------------------------------------------------------------------
(* Properties *)

\* Within a window no more failures count than the limit, the requests that had
\* passed its check and, for the account, the refused challenges allow: those
\* are refused before its limit is looked at.
FailuresBounded ==
  \A s \in Subject :
    limits[s].failures < FailureLimit[s] + Cardinality(Request) + (IF s = "account" THEN refused ELSE 0)

\* A code is accepted once, whichever requests present it at the same time.
CodeAcceptedOnce == \A step \in Counter : accepted[step] <= 1

\* What is in force after a reset was proven after it, or was pending at the
\* reset: a request under way, or a challenge whose password had been checked.
Contained(proof) == proof.since = era \/ proof.late
ResetContains ==
  /\ \A s \in sessions : Contained(s)
  /\ token.state = "enabled" => Contained(token.proof)
  /\ Contained(account.password)

\* A second factor that is on is the one its user proved to hold, unless
\* another change of it, or its reset, overlapped.
EnabledIsConfirmed ==
  account.enabled /\ ~overlapped => account.secret = confirmed /\ confirmed # 0

\* What login promises across requests in parallel: failures within a window are
\* bounded by the limit and the requests under way, a code signs in once, a reset
\* leaves no session or token of before, and an enabled second factor was
\* confirmed (handleLogin, two_factor.go, containAccount).
SignInSafe == FailuresBounded /\ CodeAcceptedOnce /\ ResetContains /\ EnabledIsConfirmed
=============================================================================
