----------------------------- MODULE MCBotService -----------------------------
(***************************************************************************)
(* The budgets BotService is checked with: updates alone, requests alone,  *)
(* and both through stops and failures.                                    *)
(***************************************************************************)
EXTENDS BotService

Budget(updates, requests, buttons, tokens, deploys, days, faults) ==
  [updates |-> updates, requests |-> requests, buttons |-> buttons, tokens |-> tokens,
   deploys |-> deploys, days |-> days, faults |-> faults]

Mixtures == {Budget(3, 0, 0, 2, 0, 0, 1), Budget(3, 0, 0, 0, 1, 0, 2), Budget(0, 2, 1, 1, 1, 1, 1),
             Budget(1, 1, 0, 1, 1, 0, 1)}

\* Two updates, a new token, a deploy; no faults.
Deploys == {Budget(2, 0, 0, 1, 1, 0, 0)}
=============================================================================
