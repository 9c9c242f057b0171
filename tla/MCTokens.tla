------------------------------- MODULE MCTokens -------------------------------
(***************************************************************************)
(* The budgets Tokens is checked with.                                     *)
(***************************************************************************)
EXTENDS Tokens, TLC

Budget(flow, requests, admin, ends, purges, faults) ==
  [flows |-> flow, requests |-> requests, admin |-> admin, ends |-> ends, purges |-> purges,
   faults |-> faults]

\* One grant, its requests failing; the admin; time and the purge; two flows of two clients.
Mixtures == {Budget(1, 6, 0, 0, 0, 1), Budget(1, 5, 2, 0, 0, 0), Budget(1, 4, 2, 1, 1, 1),
             Budget(2, 5, 0, 0, 1, 0)}
\* One flow and the purge, no fault.
Purged == {Budget(1, 4, 0, 0, 1, 0)}
Alike == Permutations(Workers)
=============================================================================
