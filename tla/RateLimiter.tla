----------------------------- MODULE RateLimiter -----------------------------
(***************************************************************************)
(* The budget of requests to YouGile of one company, shared by every       *)
(* worker and user of it: the scripts of src/yougile_cloud/kv.py and the   *)
(* loop of CompanyRateLimiter.  A script of Valkey is one step, by the     *)
(* clock of Valkey.                                                        *)
(*                                                                         *)
(* Time is counted in ticks; the 0.05 s a waiter adds to be past the edge  *)
(* of the window is less than one.  The clocks of the workers run as fast  *)
(* as Valkey's, and timers fire on time.                                   *)
(***************************************************************************)
EXTENDS Integers, Sequences, FiniteSets

CONSTANTS
  Workers,     \* who asks for a slot
  Limit,       \* limit: requests in a window
  Window,      \* window
  MaxSleep,    \* MAX_SLEEP
  MaxWait,     \* MAX_WAIT
  Penalties,   \* how long YouGile may tell the company to hold off
  MaxRequests, \* bound: requests begun
  MaxPenalties,\* bound: penalties
  MaxTime      \* bound: ticks, not counting those a worker is asleep for

ASSUME LimitAssumption == Limit \in Nat \ {0} /\ Window \in Nat \ {0}
ASSUME TimesAssumption ==
  /\ MaxSleep \in Nat \ {0} /\ MaxWait \in Nat /\ Penalties \subseteq Nat
  /\ MaxRequests \in Nat /\ MaxPenalties \in Nat /\ MaxTime \in Nat

VARIABLES
  now,      \* the clock
  slots,    \* the sorted set of the company: the numbers of grants, scored by their time
  block,    \* its key :block, the time until which nothing goes, or 0
  pc,       \* of each worker: "idle", "try" (before the script runs) or "sleep"
  deadline, \* of each worker: when it gives up
  due,      \* of each worker: when it wakes up
  grants,   \* history: the time of every grant, in order
  refused,  \* history: requests given up
  begun, penalties

vars == <<now, slots, block, pc, deadline, due, grants, refused, begun, penalties>>
waiting == <<deadline, due>>

-----------------------------------------------------------------------------
(* The scripts *)

\* Mutant of Live: forgets a request one tick too early.
LiveShort == {i \in slots : grants[i] > now - Window + 1}

\* What ZREMRANGEBYSCORE leaves: the requests of the last Window ticks.
Live == {i \in slots : grants[i] > now - Window}

\* Mutant of Wait: until the newest request leaves the window.
WaitNewest == IF block > now THEN block - now
              ELSE IF Cardinality(Live) < Limit THEN 0
              ELSE grants[CHOOSE i \in Live : \A j \in Live : i >= j] + Window - now

\* What the script answers: 0 when the request may go, else for how long to wait.
Wait == IF block > now THEN block - now
        ELSE IF Cardinality(Live) < Limit THEN 0
        ELSE grants[CHOOSE i \in Live : \A j \in Live : i <= j] + Window - now

\* _PENALIZE: a penalty never shortens another.
Until(seconds) == IF now + seconds > block THEN now + seconds ELSE block

-----------------------------------------------------------------------------
(* acquire *)

Begin(w) ==
  /\ pc[w] = "idle" /\ begun < MaxRequests
  /\ begun' = begun + 1
  /\ deadline' = [deadline EXCEPT ![w] = now + MaxWait]
  /\ pc' = [pc EXCEPT ![w] = "try"]
  /\ UNCHANGED <<now, slots, block, due, grants, refused, penalties>>

Grant(w) ==
  /\ pc[w] = "try" /\ Wait = 0
  /\ grants' = Append(grants, now)
  /\ slots' = Live \cup {Len(grants) + 1}
  /\ pc' = [pc EXCEPT ![w] = "idle"]
  /\ UNCHANGED <<now, block, waiting, refused, begun, penalties>>

\* Mutant of Cleaned: a request that is refused is counted too.
CleanedCounts == Live \cup {Len(grants) + 1}

\* A blocked company's set is not looked at.
Cleaned == IF block > now THEN slots ELSE Live

GiveUp(w) ==
  /\ pc[w] = "try" /\ Wait > 0
  /\ now + Wait > deadline[w]
  /\ slots' = Cleaned
  /\ refused' = refused + 1
  /\ pc' = [pc EXCEPT ![w] = "idle"]
  /\ UNCHANGED <<now, block, waiting, grants, begun, penalties>>

Sleep(w) ==
  /\ pc[w] = "try" /\ Wait > 0
  /\ now + Wait <= deadline[w]
  /\ slots' = Cleaned
  /\ due' = [due EXCEPT ![w] = now + (IF Wait < MaxSleep THEN Wait ELSE MaxSleep)]
  /\ pc' = [pc EXCEPT ![w] = "sleep"]
  /\ UNCHANGED <<now, block, deadline, grants, refused, begun, penalties>>

Wake(w) ==
  /\ pc[w] = "sleep" /\ due[w] <= now
  /\ pc' = [pc EXCEPT ![w] = "try"]
  /\ UNCHANGED <<now, slots, block, waiting, grants, refused, begun, penalties>>

\* YouGile answered 429 to some request of the company.
Penalize(seconds) ==
  /\ penalties < MaxPenalties
  /\ penalties' = penalties + 1
  /\ block' = Until(seconds)
  /\ UNCHANGED <<now, slots, pc, waiting, grants, refused, begun>>

\* EXPIRE: the whole set goes, a tick after its newest request left the window.
Expire ==
  /\ slots # {} /\ grants[Len(grants)] + Window + 1 <= now
  /\ slots' = {}
  /\ UNCHANGED <<now, block, pc, waiting, grants, refused, begun, penalties>>

\* A script or a timer that is due runs before the next tick.
Tick ==
  /\ \A w \in Workers : pc[w] # "try" /\ (pc[w] = "sleep" => due[w] > now)
  /\ now < MaxTime \/ \E w \in Workers : pc[w] = "sleep"
  /\ now' = now + 1
  /\ UNCHANGED <<slots, block, pc, waiting, grants, refused, begun, penalties>>

Init ==
  /\ now = 0 /\ slots = {} /\ block = 0
  /\ pc = [w \in Workers |-> "idle"]
  /\ deadline = [w \in Workers |-> 0] /\ due = [w \in Workers |-> 0]
  /\ grants = <<>> /\ refused = 0 /\ begun = 0 /\ penalties = 0

Acquires(w) == Begin(w) \/ Grant(w) \/ GiveUp(w) \/ Sleep(w) \/ Wake(w)
Next == \/ \E w \in Workers : Acquires(w)
        \/ \E seconds \in Penalties : Penalize(seconds)
        \/ Expire \/ Tick
Spec == Init /\ [][Next]_vars

-----------------------------------------------------------------------------
(* Properties *)

\* Every variable keeps its type; the sorted set never names a request that was not granted.
TypeOK ==
  /\ now \in Nat /\ block \in Nat
  /\ grants \in Seq(Nat)
  /\ slots \subseteq 1 .. Len(grants)
  /\ pc \in [Workers -> {"idle", "try", "sleep"}]
  /\ deadline \in [Workers -> Nat] /\ due \in [Workers -> Nat]
  /\ refused \in Nat /\ begun \in Nat /\ penalties \in Nat

\* The wait that is answered is enough when nobody else asks meanwhile: it ends, and not a tick
\* too late, when the window has room or the penalty is over.
WaitIsExact ==
  Wait > 0 =>
    \/ block = now + Wait
    \/ /\ Cardinality({i \in slots : grants[i] > now + Wait - Window}) < Limit
       /\ Cardinality({i \in slots : grants[i] > now + Wait - 1 - Window}) >= Limit

-----------------------------------------------------------------------------
(* What it promises: module RequestBudget. *)

Budget == INSTANCE RequestBudget
  WITH granted <- grants, holdoff <- block, waiting <- {w \in Workers : pc[w] # "idle"}

\* The limiter keeps the company's budget, though its set is cleaned and expires and its workers
\* sleep and race for slots: in no window of Window ticks, wherever it begins, more than Limit
\* requests; none during a penalty, which no later one cuts short; "give up rather than hang a
\* tool call for minutes", so an answer by the deadline; and no refusal while there is room.
KeepsBudget == Budget!Spec
=============================================================================
