----------------------------- MODULE MCAccounts -----------------------------
(* A small instance of AccountComponents for TLC. *)
EXTENDS AccountComponents

Failures == [account |-> 2, ip |-> 2]
Left(admin, moves, shares) == [admin |-> admin, push |-> moves, share |-> shares]
\* Two requests of administrators with the sharing of the mailbox, one of them
\* with a push, a push with the sharing, and two pushes.
Budgets == {Left(2, 0, 2), Left(1, 1, 0), Left(0, 1, 2), Left(0, 2, 0)}
Caps == {1, 2}
Allowances == {0, 1}
=============================================================================
