---------------------------- MODULE MCSendQueue ----------------------------
(* Small instances of SendQueue for TLC. *)
EXTENDS SendQueueRefinement, TLC

\* Processes and tokens are interchangeable; used by the safety runs only.
Symmetry == Permutations(Process) \cup Permutations(Token)
=============================================================================
