--------------------------- MODULE RequestBudget ---------------------------
(***************************************************************************)
(* What the rate limiter of a company promises (src/yougile_cloud/kv.py),  *)
(* without scripts, sets, timers or sleep: at most Limit requests in any   *)
(* Window, none while YouGile told the company to hold off, every request  *)
(* answered by its deadline, and none refused while it might go.           *)
(***************************************************************************)
EXTENDS Integers, Sequences

CONSTANTS Workers, Limit, Window, MaxWait, Penalties

VARIABLES
  now,      \* the clock
  granted,  \* the time of every request that went, in order
  holdoff,  \* until when nothing may go
  waiting,  \* who has asked and has no answer
  deadline  \* until when they wait at most

vars == <<now, granted, holdoff, waiting, deadline>>

\* The request before the last Limit - 1 has left the window.
Room == Len(granted) < Limit \/ granted[Len(granted) + 1 - Limit] + Window <= now
MayGo == holdoff <= now /\ Room

Ask(w) ==
  /\ w \notin waiting
  /\ waiting' = waiting \cup {w}
  /\ deadline' = [deadline EXCEPT ![w] = now + MaxWait]
  /\ UNCHANGED <<now, granted, holdoff>>

Go(w) ==
  /\ w \in waiting /\ MayGo
  /\ waiting' = waiting \ {w}
  /\ granted' = Append(granted, now)
  /\ UNCHANGED <<now, holdoff, deadline>>

Refuse(w) ==
  /\ w \in waiting /\ ~ MayGo
  /\ waiting' = waiting \ {w}
  /\ UNCHANGED <<now, granted, holdoff, deadline>>

HoldOff(seconds) ==
  /\ holdoff' = IF now + seconds > holdoff THEN now + seconds ELSE holdoff
  /\ UNCHANGED <<now, granted, waiting, deadline>>

\* Time does not pass a deadline before its request is answered.
Tick ==
  /\ \A w \in waiting : now < deadline[w]
  /\ now' = now + 1
  /\ UNCHANGED <<granted, holdoff, waiting, deadline>>

Init ==
  /\ now = 0 /\ granted = <<>> /\ holdoff = 0
  /\ waiting = {} /\ deadline = [w \in Workers |-> 0]
Next == \/ \E w \in Workers : Ask(w) \/ Go(w) \/ Refuse(w)
        \/ \E seconds \in Penalties : HoldOff(seconds)
        \/ Tick
Spec == Init /\ [][Next]_vars
=============================================================================
