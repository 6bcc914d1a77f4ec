----------------------------- MODULE MCSendPath -----------------------------
(* Instances of SendPath for TLC.                                           *)
EXTENDS SendPath

CONSTANTS w1, w2, s1, d1

\* The scheduled mails go to one recipient, the one sent at once to two.
MCCost == [m \in Mail |-> IF m \in Direct THEN 2 ELSE 1]
=============================================================================
