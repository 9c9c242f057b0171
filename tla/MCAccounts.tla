----------------------------- MODULE MCAccounts -----------------------------
(***************************************************************************)
(* The budgets Accounts is checked with: each one a mixture of sign-ins,   *)
(* of steps of the admin, of calls and of faults.                          *)
(***************************************************************************)
EXTENDS Accounts, TLC

Budget(signins, admin, calls, ticks, faults) ==
  [signins |-> signins, admin |-> admin, calls |-> calls, ticks |-> ticks, faults |-> faults]

\* Sign-ins against the admin and faults; one cached person against the admin; both at once.
Mixtures == {Budget(2, 2, 0, 0, 1), Budget(1, 2, 2, 3, 0), Budget(2, 1, 2, 3, 0),
             Budget(1, 1, 2, 3, 1)}

\* Two sign-ins around one disconnect, and no fault.
Crossing == {Budget(2, 1, 0, 0, 0)}

Alike == Permutations(Workers)
=============================================================================
