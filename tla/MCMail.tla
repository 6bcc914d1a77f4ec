------------------------------- MODULE MCMail -------------------------------
(* A small instance of MailComponents for TLC. *)
EXTENDS MailComponents

Group(mode, leaves) == [mode |-> mode, of |-> leaves]

\* A rule with two groups, one with conditions that are not valid, and one whose
\* conditions the message meets only in part, unless its text is not known: "rx".
Definitions == [r \in {"ra", "rb", "rc", "rx"} |->
  CASE r = "ra" -> [mode |-> "any", conditions |-> <<Group("all", <<"no">>), Group("any", <<"no", "yes">>)>>,
                    actions |-> <<"forward", "archive", "star">>, stop |-> TRUE]
    [] r = "rb" -> [mode |-> "all", conditions |-> <<Group("all", <<"yes", "bad">>), Group("any", <<"bad">>)>>,
                    actions |-> <<"trash", "mark-read", "telegram">>, stop |-> FALSE]
    [] r = "rc" -> [mode |-> "all", conditions |-> <<Group("all", <<"yes", "no">>)>>,
                    actions |-> <<"label", "forward">>, stop |-> TRUE]
    [] r = "rx" -> [mode |-> "all", conditions |-> <<Group("all", <<"yes", "yes">>)>>,
                    actions |-> <<"label", "forward">>, stop |-> TRUE]]

BareRules == [r \in {"ra", "rb", "rc", "rx"} |-> IF r = "rc" THEN "rx" ELSE r]
=============================================================================
