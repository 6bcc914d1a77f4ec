--------------------------- MODULE MailComponents ---------------------------
(***************************************************************************)
(* The components around a mailbox: the outboxes, forward addresses, mail  *)
(* rules, the Maildir and an external account.  They share no variable, so *)
(* they are put side by side: a behaviour is one of the component in       *)
(* focus, while the others stay in their initial state.                    *)
(***************************************************************************)
EXTENDS OutboxRefinement, Forwarding, MailRules, MaildirSync, ExternalImap

VARIABLE focus

Components == {"hooks", "notes", "forwarding", "rules", "maildir", "imap"}

mailComponentVars == <<outboxVars, forwardingVars, mailRulesVars, mailVars, externalImapVars, focus>>

MailInit ==
  /\ focus \in Components
  /\ OutboxInit /\ ForwardingInit /\ MailRulesInit /\ MaildirInit /\ ExternalImapInit
  /\ focus # "rules" => rules = <<>> /\ ~blocked
  /\ \A f \in maildir : focus = "maildir" /\ f.folder = Inbox

Elsewhere(vars) == UNCHANGED <<vars, focus>>

MailNext ==
  \/ /\ focus = "hooks" /\ OutboxNext
     /\ settings' = "on" /\ \A e \in Note : ruleRun'[e] = "idle"
     /\ Elsewhere(<<forwardingVars, mailRulesVars, mailVars, externalImapVars>>)
  \/ /\ focus = "notes" /\ OutboxNext
     /\ \A e \in Hook : out'[e].status = "none"
     /\ Elsewhere(<<forwardingVars, mailRulesVars, mailVars, externalImapVars>>)
  \/ /\ focus = "forwarding" /\ ForwardingNext
     /\ Elsewhere(<<outboxVars, mailRulesVars, mailVars, externalImapVars>>)
  \/ /\ focus = "rules" /\ MailRulesNext
     /\ Elsewhere(<<outboxVars, forwardingVars, mailVars, externalImapVars>>)
  \/ /\ focus = "maildir" /\ MaildirNext
     /\ Elsewhere(<<outboxVars, forwardingVars, mailRulesVars, externalImapVars>>)
  \/ /\ focus = "imap" /\ ExternalImapNext
     /\ Elsewhere(<<outboxVars, forwardingVars, mailRulesVars, mailVars>>)

MailSpec == MailInit /\ [][MailNext]_mailComponentVars

-----------------------------------------------------------------------------
(* Properties *)

\* Each variable of each component holds a value of its kind.
MailTypeOK ==
  OutboxTypeOK /\ ForwardingTypeOK /\ MailRulesTypeOK /\ MaildirTypeOK /\ ExternalImapTypeOK
=============================================================================
