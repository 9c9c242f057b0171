----------------------------- MODULE MCAdminPages -----------------------------
(***************************************************************************)
(* The logins, addresses, counters and budgets AdminPages is checked with: *)
(* the admin's login from two addresses, the bot's from one of them.       *)
(***************************************************************************)
EXTENDS AdminPages, TLC

Ways == {"admin at home", "admin away", "bot at home"}
OwnWays == {"admin at home", "admin away"}

\* As SignIn._keys: the address, the login from the address, the login.
CountersOfWays ==
  ("admin at home" :> <<"home", "admin@home", "admin">>) @@
  ("admin away" :> <<"road", "admin@road", "admin">>) @@
  ("bot at home" :> <<"home", "bot@home", "bot">>)
Limits ==
  [c \in {"home", "road", "admin", "bot"} |-> 2] @@
  [c \in {"admin@home", "admin@road", "bot@home"} |-> 1]

Budget(signins, requests, change, ends, faults) ==
  [signins |-> signins, requests |-> requests, admin |-> change, ends |-> ends, faults |-> faults]

\* Sign-ins, refused and not; pages of several sessions; the bot's account, saved twice; faults.
Mixtures == {Budget(4, 0, 0, 1, 0), Budget(2, 2, 2, 0, 0), Budget(1, 2, 0, 1, 1),
             Budget(2, 1, 1, 1, 1)}
\* One sign-in, and the bot's account saved twice.
Saves == {Budget(1, 2, 0, 0, 0)}
Alike == Permutations(Workers)
=============================================================================
