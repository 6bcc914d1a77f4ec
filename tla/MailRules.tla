------------------------------ MODULE MailRules ------------------------------
(***************************************************************************)
(* What a user's rules and blocked senders do with one incoming message,   *)
(* while the user edits both, lets a new rule work through the mail he     *)
(* already has, moves the message himself, or cleans a folder up.          *)
(***************************************************************************)
EXTENDS Naturals, Sequences, FiniteSets, SequencesExt

CONSTANTS
  Rule,         \* rules as a pass may read them
  OwnRule,      \* those of them a user may have
  Bare,         \* what each amounts to on a message of which only sender and subject are known
  Definition,   \* of each: mode, conditions, actions, stop
  MaxWishes     \* bound: requests of the user, and failing actions

FolderAction == {"archive", "trash"}
MarkAction == {"star", "mark-read", "label"}
OutAction == {"telegram", "forward"}
RuleAction == FolderAction \cup MarkAction \cup OutAction
StepKind == RuleAction \cup {"forwards"}    \* the forwards of a rule go out together
Folder == {"Inbox", "Archive", "Trash", "Spam"}
Leaf == {"yes", "no", "bad"}    \* a condition on this message; one that is not valid

ASSUME MailRulesAssumption ==
  /\ MaxWishes \in Nat
  /\ OwnRule \subseteq Rule /\ Bare \in [Rule -> Rule]
  /\ \A r \in Rule : /\ Definition[r].mode \in {"any", "all"} /\ Definition[r].stop \in BOOLEAN
                     /\ Definition[r].actions \in Seq(RuleAction)
                     /\ \A g \in Range(Definition[r].conditions) :
                          g.mode \in {"any", "all"} /\ Range(g.of) \subseteq Leaf

VARIABLES
  mail,       \* the message: folder, marks, gone
  rules,      \* mail_rules of the user, as they were created
  blocked,    \* blocked_senders names the sender
  inbound,    \* the pass of applyInboundControls over the message
  existing,   \* the pass of applyRuleToExistingMessages
  sweep,      \* the folder whose messages a cleanup has listed
  queued,     \* notifications and forwards: the rules that queued one
  ruleLog     \* history, and the bound used up

mailRulesVars == <<mail, rules, blocked, inbound, existing, sweep, queued, ruleLog>>

AtRest == [pc |-> "new", todo |-> <<>>, rule |-> CHOOSE r \in Rule : TRUE, acts |-> <<>>]
Pass == [pc : {"new", "load", "rules", "done"}, todo : Seq(Rule), rule : Rule \cup {AtRest.rule}, acts : Seq(StepKind)]

MailRulesTypeOK ==
  /\ mail \in [folder : Folder, marks : SUBSET MarkAction, gone : BOOLEAN]
  /\ rules \in Seq(Rule)
  /\ blocked \in BOOLEAN
  /\ inbound \in Pass /\ existing \in Pass
  /\ sweep \in Folder \cup {"none"}
  /\ queued \in [OutAction -> SUBSET Rule]
  /\ ruleLog \in [snapshot : Seq(Rule), refused : BOOLEAN, ended : BOOLEAN,
                  disturbed : BOOLEAN, wishes : 0 .. MaxWishes]

-----------------------------------------------------------------------------
(* Matching *)

ModeHolds(mode, truths) == IF mode = "any" THEN \E t \in Range(truths) : t ELSE \A t \in Range(truths) : t

\* normalizeRuleConditions drops what is not valid, and a group left empty;
\* ruleConditionsMatch.  A rule without conditions matches nothing.
RuleMatches(r) ==
  LET groups == SelectSeq(Definition[r].conditions, LAMBDA g : \E c \in Range(g.of) : c # "bad")
      Truth(g) == ModeHolds(g.mode, [i \in DOMAIN SelectSeq(g.of, LAMBDA c : c # "bad") |->
                                   SelectSeq(g.of, LAMBDA c : c # "bad")[i] = "yes"])
  IN groups # <<>> /\ ModeHolds(Definition[r].mode, [i \in DOMAIN groups |-> Truth(groups[i])])

ActionsOf(r) == Definition[r].actions
Has(r, action) == action \in Range(ActionsOf(r))

\* ruleTargetFolder, and the folders of the other two actions
Target(action) == IF action = "archive" THEN "Archive" ELSE "Trash"

-----------------------------------------------------------------------------
(* applyRuleActions, one action at a time.  The forwards of a rule come     *)
(* last and together; an error ends its actions.  The pass over existing    *)
(* mail sends nothing: applyRuleToExistingMessages leaves the forwards out, *)
(* and allowExternalDelivery is false.                                      *)

Steps(r, external) == ActionsOf(r) \o (IF external /\ Has(r, "forward") THEN <<"forwards">> ELSE <<>>)

\* Mutant: allowExternalDelivery is not asked.
SkippedAlways(action, external) == action = "forward"

\* Actions the loop passes over.
Skipped(action, external) == action = "forward" \/ (action = "telegram" /\ ~external)

Sent(action) == IF action = "forwards" THEN "forward" ELSE action

\* The next action of a pass; a message that is gone fails it.
Act(pass, external) ==
  /\ pass.acts # <<>>
  /\ LET action == Head(pass.acts)
     IN \/ /\ Skipped(action, external)
           /\ UNCHANGED <<mail, queued>>
        \/ /\ ~Skipped(action, external) /\ ~mail.gone
           /\ mail' = IF action \in FolderAction THEN [mail EXCEPT !.folder = Target(action)]
                      ELSE IF action \in MarkAction THEN [mail EXCEPT !.marks = @ \cup {action}]
                      ELSE mail
           /\ queued' = IF Sent(action) \in OutAction THEN [queued EXCEPT ![Sent(action)] = @ \cup {pass.rule}]
                        ELSE queued

Wish == ruleLog.wishes < MaxWishes
Spent == ruleLog.wishes + 1
\* The history after a failure, or a change somebody else made.
Marred(log) == [log EXCEPT !.wishes = Spent, !.disturbed = TRUE]

-----------------------------------------------------------------------------
(* applyInboundControls *)

\* The first senderBlocked, and moveBlockedMessageToSpam.
InboundCheck ==
  /\ inbound.pc = "new"
  /\ IF blocked
     THEN /\ mail' = IF mail.gone THEN mail ELSE [mail EXCEPT !.folder = "Spam"]
          /\ inbound' = [inbound EXCEPT !.pc = "done"]
          /\ ruleLog' = [ruleLog EXCEPT !.refused = TRUE, !.ended = TRUE]
     ELSE inbound' = [inbound EXCEPT !.pc = "load"] /\ UNCHANGED <<mail, ruleLog>>
  /\ UNCHANGED <<rules, blocked, existing, sweep, queued>>

\* The user of the mailbox is not found, or the message is not moved to Spam:
\* the pass ends.  A failed look-up of the sender counts as not blocked.
CheckFails ==
  /\ inbound.pc = "new" /\ Wish
  /\ \/ /\ inbound' = [inbound EXCEPT !.pc = "done"]
        /\ ruleLog' = Marred([ruleLog EXCEPT !.ended = TRUE])
     \/ /\ blocked
        /\ inbound' = [inbound EXCEPT !.pc = "load"]
        /\ ruleLog' = Marred(ruleLog)
  /\ UNCHANGED <<mail, rules, blocked, existing, sweep, queued>>

\* The rules the pass goes by, and the message itself, are read.
WorkThrough(list) == inbound' = [inbound EXCEPT !.pc = "rules", !.todo = list]

LoadRules ==
  /\ inbound.pc = "load" /\ ~mail.gone
  /\ WorkThrough(rules)
  /\ ruleLog' = [ruleLog EXCEPT !.snapshot = rules]
  /\ UNCHANGED <<mail, rules, blocked, existing, sweep, queued>>

\* rows.Next ends early, or ruleMessageByID does not find the message: then the
\* rules see its sender and subject only.
LoadPartly ==
  /\ inbound.pc = "load"
  /\ \E n \in 0 .. Len(rules), bare \in BOOLEAN :
       LET list == [i \in 1 .. n |-> IF bare THEN Bare[rules[i]] ELSE rules[i]]
           expected == mail.gone /\ n = Len(rules)
       IN /\ mail.gone => bare
          /\ expected \/ Wish
          /\ WorkThrough(list)
          /\ ruleLog' = [ruleLog EXCEPT !.snapshot = list, !.disturbed = TRUE,
                                        !.wishes = IF expected THEN @ ELSE Spent]
  /\ UNCHANGED <<mail, rules, blocked, existing, sweep, queued>>

\* The query of the rules fails: there is no second look at the sender.
LoadFails ==
  /\ inbound.pc = "load" /\ Wish
  /\ inbound' = [inbound EXCEPT !.pc = "done"]
  /\ ruleLog' = Marred([ruleLog EXCEPT !.ended = TRUE])
  /\ UNCHANGED <<mail, rules, blocked, existing, sweep, queued>>

\* stop_processing ends the pass for a rule that matched, also when it failed.
Rest(r, rest) == IF RuleMatches(r) /\ Definition[r].stop THEN <<>> ELSE rest

InboundRule ==
  /\ inbound.pc = "rules" /\ inbound.acts = <<>> /\ inbound.todo # <<>>
  /\ LET r == Head(inbound.todo)
     IN inbound' = [inbound EXCEPT !.rule = r, !.todo = Rest(r, Tail(@)),
                                   !.acts = IF RuleMatches(r) THEN Steps(r, TRUE) ELSE <<>>]
  /\ UNCHANGED <<mail, rules, blocked, existing, sweep, queued, ruleLog>>

InboundAct ==
  /\ inbound.pc = "rules" /\ Act(inbound, TRUE)
  /\ inbound' = [inbound EXCEPT !.acts = Tail(@)]
  /\ UNCHANGED <<rules, blocked, existing, sweep, ruleLog>>

\* An action that fails, by an I/O error or because the message is gone, drops
\* the rest; one whose folder ensureFolder cannot give is passed over.
AfterFailure(acts) == {<<>>} \cup (IF Head(acts) \in FolderAction THEN {Tail(acts)} ELSE {})

InboundFails ==
  /\ inbound.pc = "rules" /\ inbound.acts # <<>> /\ (mail.gone \/ Wish)
  /\ \E acts \in AfterFailure(inbound.acts) : inbound' = [inbound EXCEPT !.acts = acts]
  /\ ruleLog' = [ruleLog EXCEPT !.disturbed = TRUE, !.wishes = IF mail.gone THEN @ ELSE Spent]
  /\ UNCHANGED <<mail, rules, blocked, existing, sweep, queued>>

BlockedNow == blocked

\* The second senderBlocked.
InboundEnd ==
  /\ inbound.pc = "rules" /\ inbound.acts = <<>> /\ inbound.todo = <<>>
  /\ mail' = IF BlockedNow /\ ~mail.gone THEN [mail EXCEPT !.folder = "Spam"] ELSE mail
  /\ inbound' = [inbound EXCEPT !.pc = "done"]
  /\ ruleLog' = [ruleLog EXCEPT !.refused = blocked, !.ended = TRUE]
  /\ UNCHANGED <<rules, blocked, existing, sweep, queued>>

\* Its look-up, ensureFolder or the move fails: the message stays where it is.
EndFails ==
  /\ inbound.pc = "rules" /\ inbound.acts = <<>> /\ inbound.todo = <<>>
  /\ blocked /\ Wish
  /\ inbound' = [inbound EXCEPT !.pc = "done"]
  /\ ruleLog' = Marred([ruleLog EXCEPT !.ended = TRUE])
  /\ UNCHANGED <<mail, rules, blocked, existing, sweep, queued>>

-----------------------------------------------------------------------------
(* The user.  A disturbed pass is one in which something failed, or that    *)
(* met a change to the message by someone else; after the pass nothing is   *)
(* compared any more.                                                       *)

Disturb == ruleLog' = Marred(ruleLog)
Quietly == ruleLog' = [ruleLog EXCEPT !.wishes = Spent]

\* handleCreateRule, and the matches applyRuleToExistingMessages collects
CreateRule(r, apply) ==
  /\ Wish /\ r \in OwnRule /\ r \notin Range(rules) /\ existing.acts = <<>>
  /\ rules' = Append(rules, r)
  /\ existing' = IF apply /\ RuleMatches(r) /\ ~mail.gone
                 THEN [existing EXCEPT !.rule = r, !.acts = Steps(r, FALSE)] ELSE existing
  /\ Quietly
  /\ UNCHANGED <<mail, blocked, inbound, sweep, queued>>

ExistingAct ==
  /\ Act(existing, FALSE)
  /\ existing' = [existing EXCEPT !.acts = Tail(@)]
  /\ ruleLog' = [ruleLog EXCEPT !.disturbed = TRUE]
  /\ UNCHANGED <<rules, blocked, inbound, sweep>>

\* An error ends the pass; the rule stays, and the request still succeeds.
ExistingFails ==
  /\ existing.acts # <<>> /\ (mail.gone \/ Wish)
  /\ \E acts \in AfterFailure(existing.acts) : existing' = [existing EXCEPT !.acts = acts]
  /\ ruleLog' = [ruleLog EXCEPT !.wishes = IF mail.gone THEN @ ELSE Spent]
  /\ UNCHANGED <<mail, rules, blocked, inbound, sweep, queued>>

\* handleDeleteRule: a pass that has loaded the rule goes on with it.
DeleteRule(r) ==
  /\ Wish
  /\ \E i \in DOMAIN rules : rules[i] = r /\ rules' = RemoveAt(rules, i)
  /\ Quietly
  /\ UNCHANGED <<mail, blocked, inbound, existing, sweep, queued>>

\* handleCreateBlockedSender, handleDeleteBlockedSender
SetBlocked ==
  /\ Wish /\ blocked' = ~blocked /\ Quietly
  /\ UNCHANGED <<mail, rules, inbound, existing, sweep, queued>>

\* The user moves the message himself.
MoveMessage(f) ==
  /\ Wish /\ ~mail.gone /\ f # mail.folder
  /\ mail' = [mail EXCEPT !.folder = f]
  /\ Disturb
  /\ UNCHANGED <<rules, blocked, inbound, existing, sweep, queued>>

\* handleMailCleanup lists the messages of a folder and works through the
\* list: deleteMessagesInFolder, archiveReadInbox.
ListSweep(f) ==
  /\ Wish /\ sweep = "none" /\ ~mail.gone /\ mail.folder = f
  /\ f \in {"Trash", "Spam"} \/ (f = "Inbox" /\ "mark-read" \in mail.marks)
  /\ sweep' = f
  /\ Quietly
  /\ UNCHANGED <<mail, rules, blocked, inbound, existing, queued>>

\* The message may have left the folder since.
Sweep ==
  /\ sweep # "none"
  /\ mail' = IF mail.gone THEN mail
             ELSE IF sweep = "Inbox" THEN [mail EXCEPT !.folder = "Archive"]
             ELSE [mail EXCEPT !.gone = TRUE]
  /\ sweep' = "none"
  /\ ruleLog' = [ruleLog EXCEPT !.disturbed = TRUE]
  /\ UNCHANGED <<rules, blocked, inbound, existing, queued>>

-----------------------------------------------------------------------------

\* The rules the user had before the message came, in any order.
MailRulesInit ==
  /\ mail = [folder |-> "Inbox", marks |-> {}, gone |-> FALSE]
  /\ rules \in {<<>>} \cup {<<r>> : r \in OwnRule} \cup {p \in OwnRule \X OwnRule : p[1] # p[2]}
               \cup {p \in OwnRule \X OwnRule \X OwnRule : Cardinality(Range(p)) = 3}
  /\ blocked \in BOOLEAN
  /\ inbound = AtRest /\ existing = AtRest
  /\ sweep = "none"
  /\ queued = [a \in OutAction |-> {}]
  /\ ruleLog = [snapshot |-> <<>>, refused |-> FALSE, ended |-> FALSE, disturbed |-> FALSE,
                wishes |-> 0]

MailRulesNext ==
  \/ InboundCheck \/ CheckFails \/ LoadRules \/ LoadPartly \/ LoadFails
  \/ InboundRule \/ InboundAct \/ InboundFails \/ InboundEnd \/ EndFails
  \/ \E r \in Rule, apply \in BOOLEAN : CreateRule(r, apply)
  \/ ExistingAct \/ ExistingFails
  \/ \E r \in Rule : DeleteRule(r)
  \/ SetBlocked
  \/ \E f \in Folder : MoveMessage(f) \/ ListSweep(f)
  \/ Sweep

MailRulesSpec == MailRulesInit /\ [][MailRulesNext]_mailRulesVars

-----------------------------------------------------------------------------
(* Properties *)

\* The rules a message is due: those that match, up to the first that stops.
Due == {i \in DOMAIN ruleLog.snapshot :
          /\ RuleMatches(ruleLog.snapshot[i])
          /\ ~\E j \in 1 .. i - 1 : RuleMatches(ruleLog.snapshot[j]) /\ Definition[ruleLog.snapshot[j]].stop}
DueRules == {ruleLog.snapshot[i] : i \in Due}

\* The folder of the last folder action due, in the order of rules and actions.
DueFolder ==
  LET moves == UNION {{<<i, k>> : k \in {k \in DOMAIN ActionsOf(ruleLog.snapshot[i]) :
                                            ActionsOf(ruleLog.snapshot[i])[k] \in FolderAction}} : i \in Due}
  IN IF moves = {} THEN "Inbox"
     ELSE LET last == CHOOSE m \in moves : \A n \in moves : n[1] < m[1] \/ (n[1] = m[1] /\ n[2] <= m[2])
          IN Target(ActionsOf(ruleLog.snapshot[last[1]])[last[2]])

\* A pass that nothing disturbed leaves the message as the rules it has read say:
\* where the last of them puts it, with every mark, and a blocked sender, also
\* one blocked during the pass, in Spam.  A failure disturbs: applyInboundControls
\* gives up without a word when the query of the rules or the move to Spam fails.
PassComplete ==
  (ruleLog.ended /\ ~ruleLog.disturbed) =>
    /\ mail.folder = IF ruleLog.refused THEN "Spam" ELSE DueFolder
    /\ mail.marks = {a \in MarkAction : \E r \in DueRules : Has(r, a)}
    /\ \A a \in OutAction : queued[a] = {r \in DueRules : Has(r, a)}

\* Whatever fails, nothing leaves the server but by a rule that was due for what
\* the pass had read of rules and message: not by a rule applied to the mail of
\* the past, not by one that came after a rule that stops, and not for a sender
\* the first look-up found blocked.
OnlyDueLeaves == \A a \in OutAction : queued[a] \subseteq {r \in DueRules : Has(r, a)}

\* What the rules and the blocked senders do to a message, whatever fails or
\* changes meanwhile (applyInboundControls, applyRuleToExistingMessages).
RulesSafe == PassComplete /\ OnlyDueLeaves
=============================================================================
