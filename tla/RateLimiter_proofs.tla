------------------------- MODULE RateLimiter_proofs -------------------------
(***************************************************************************)
(* Proofs about RateLimiter, for every number of workers, every limit,     *)
(* window and wait, and every bound: type correctness, that no window is   *)
(* overrun, that a penalty is kept, that nobody sleeps past its deadline,  *)
(* and that all of it together implements RequestBudget.                   *)
(***************************************************************************)
EXTENDS RateLimiter, FiniteSetTheorems, WellFoundedInduction, SequenceTheorems, TLAPS

-----------------------------------------------------------------------------
\* No window of Window ticks, wherever it begins, holds more than Limit requests, though the
\* script only counts what its set still holds and the set is cleaned and expires.
WindowHolds ==
  \A i \in 1 .. Len(grants) : i + Limit <= Len(grants) => grants[i + Limit] - grants[i] >= Window

\* While a penalty lasts nothing goes, and no later penalty cuts it short.
PenaltyHolds ==
  [][/\ block > now => grants' = grants
     /\ block' >= block]_vars

\* "Give up rather than hang a tool call for minutes": no worker sleeps past its deadline,
\* however many take the slots it waited for.
NobodyOversleeps == \A w \in Workers : pc[w] # "idle" => now <= deadline[w]

-----------------------------------------------------------------------------
(* Requests are granted in the order of time. *)
Sorted ==
  /\ \A i, j \in 1 .. Len(grants) : i <= j => grants[i] <= grants[j]
  /\ \A i \in 1 .. Len(grants) : grants[i] <= now

(* What the set forgets, the window has left. *)
Recent == \A i \in 1 .. Len(grants) : grants[i] > now - Window => i \in slots

(* A worker never plans to wake up after its deadline. *)
Timely == /\ NobodyOversleeps
          /\ \A w \in Workers : pc[w] = "sleep" => due[w] <= deadline[w]

(* The set holds no more requests than a window may. *)
Few == Cardinality(slots) <= Limit

IInv == TypeOK /\ Sorted /\ Recent /\ WindowHolds /\ Timely /\ Few

-----------------------------------------------------------------------------
(* What the script computes. *)

\* Numbers of requests have a least one: the oldest the script reads.
LEMMA Oldest ==
  ASSUME NEW S \in SUBSET Nat, S # {}
  PROVE  \E i \in S : \A j \in S : i <= j
  <1>1. PICK i \in S : \A j \in S : ~ (<<j, i>> \in OpToRel(<, Nat))
    BY NatLessThanWellFounded, WFMin, Zenon
  <1>2. \A j \in S : ~ (j < i)
    BY <1>1 DEF OpToRel
  <1>3. QED
    BY <1>2

LEMMA LiveSlots ==
  ASSUME TypeOK
  PROVE  Live \subseteq 1 .. Len(grants) /\ IsFiniteSet(Live) /\ Cardinality(Live) \in Nat
  <1>1. Len(grants) \in Nat
    BY LenProperties DEF TypeOK
  <1>2. IsFiniteSet(1 .. Len(grants))
    BY <1>1, FS_Interval
  <1>3. Live \subseteq 1 .. Len(grants)
    BY DEF TypeOK, Live
  <1>4. QED
    BY <1>2, <1>3, FS_Subset, FS_CardinalityType

\* The wait is a number, and zero unless the company is blocked or the window full.
LEMMA WaitType ==
  ASSUME TypeOK
  PROVE  Wait \in Int
  <1> DEFINE first == CHOOSE i \in Live : \A j \in Live : i <= j
  <1>1. CASE block > now
    BY <1>1 DEF Wait, TypeOK
  <1>2. CASE ~ (block > now) /\ Cardinality(Live) < Limit
    BY <1>2 DEF Wait
  <1>3. CASE ~ (block > now) /\ ~ (Cardinality(Live) < Limit)
    <2>1. Live # {}
      BY <1>3, FS_EmptySet, LimitAssumption
    <2>2. first \in Live
      BY <2>1, LiveSlots, Oldest
    <2>3. grants[first] \in Nat
      BY <2>2, LiveSlots, ElementOfSeq DEF TypeOK
    <2>4. Wait = grants[first] + Window - now
      BY <1>3 DEF Wait
    <2> HIDE DEF first
    <2>5. QED
      BY <2>3, <2>4, LimitAssumption DEF TypeOK
  <1>4. QED
    BY <1>1, <1>2, <1>3

\* The script grants only when nothing blocks the company and its window has room.
LEMMA RoomOrNothing ==
  ASSUME TypeOK, Wait = 0
  PROVE  ~ (block > now) /\ Cardinality(Live) < Limit
  <1> DEFINE first == CHOOSE i \in Live : \A j \in Live : i <= j
  <1>1. ~ (block > now)
    BY DEF Wait, TypeOK
  <1>2. ASSUME ~ (Cardinality(Live) < Limit) PROVE FALSE
    <2>1. Live # {}
      BY <1>2, FS_EmptySet, LimitAssumption
    <2>2. first \in Live
      BY <2>1, LiveSlots, Oldest
    <2>3. grants[first] \in Nat
      BY <2>2, LiveSlots, ElementOfSeq DEF TypeOK
    <2>4. grants[first] > now - Window
      BY <2>2 DEF Live
    <2>5. grants[first] + Window - now = 0
      BY <1>1, <1>2 DEF Wait
    <2> HIDE DEF first
    <2>6. QED
      BY <2>3, <2>4, <2>5, LimitAssumption DEF TypeOK
  <1>3. QED
    BY <1>1, <1>2

\* What is left of the set after a script that grants nothing.
LEMMA CleanedSlots ==
  ASSUME TypeOK
  PROVE  Live \subseteq Cleaned /\ Cleaned \subseteq slots
  BY DEF Cleaned, Live

\* One more request, as the history and the set record it.
LEMMA Granted ==
  ASSUME TypeOK, NEW w \in Workers, Grant(w)
  PROVE  /\ Len(grants) \in Nat
         /\ grants' \in Seq(Nat)
         /\ Len(grants') = Len(grants) + 1
         /\ \A i \in 1 .. Len(grants) : grants'[i] = grants[i]
         /\ grants'[Len(grants) + 1] = now
  BY AppendProperties, LenProperties DEF TypeOK, Grant

-----------------------------------------------------------------------------
(* Type correctness. *)

LEMMA TypeInit == Init => TypeOK
  BY EmptySeq DEF Init, TypeOK

LEMMA TypeStep == TypeOK /\ [Next]_vars => TypeOK'
  <1> SUFFICES ASSUME TypeOK, [Next]_vars PROVE TypeOK'
    OBVIOUS
  <1> USE DEF TypeOK, waiting
  <1>1. ASSUME NEW w \in Workers, Begin(w) PROVE TypeOK'
    BY <1>1, TimesAssumption DEF Begin
  <1>2. ASSUME NEW w \in Workers, Grant(w) PROVE TypeOK'
    <2>1. slots' \subseteq 1 .. Len(grants')
      BY <1>2, LiveSlots, Granted DEF Grant
    <2>2. QED
      BY <1>2, <2>1, Granted DEF Grant
  <1>3. ASSUME NEW w \in Workers, GiveUp(w) PROVE TypeOK'
    <2>1. slots' \subseteq slots
      BY <1>3, CleanedSlots DEF GiveUp
    <2>2. refused' = refused + 1 /\ pc' \in [Workers -> {"idle", "try", "sleep"}]
      BY <1>3 DEF GiveUp
    <2>3. QED
      BY <1>3, <2>1, <2>2 DEF GiveUp
  <1>4. ASSUME NEW w \in Workers, Sleep(w) PROVE TypeOK'
    <2>1. now + (IF Wait < MaxSleep THEN Wait ELSE MaxSleep) \in Nat
      BY <1>4, WaitType, TimesAssumption DEF Sleep
    <2>2. due' \in [Workers -> Nat]
      BY <1>4, <2>1 DEF Sleep
    <2>3. QED
      BY <1>4, <2>2, CleanedSlots DEF Sleep
  <1>5. ASSUME NEW w \in Workers, Wake(w) PROVE TypeOK'
    BY <1>5 DEF Wake
  <1>6. ASSUME NEW seconds \in Penalties, Penalize(seconds) PROVE TypeOK'
    BY <1>6, TimesAssumption DEF Penalize, Until
  <1>7. CASE Expire
    BY <1>7 DEF Expire
  <1>8. CASE Tick
    BY <1>8 DEF Tick
  <1>9. CASE UNCHANGED vars
    BY <1>9 DEF vars
  <1>10. QED
    BY <1>1, <1>2, <1>3, <1>4, <1>5, <1>6, <1>7, <1>8, <1>9 DEF Next, Acquires

\* Every variable keeps its type: in particular the set of the company names granted requests
\* only, and the wait it answers is a number of ticks.
THEOREM TypeCorrect == Spec => []TypeOK
  BY TypeInit, TypeStep, PTL DEF Spec

-----------------------------------------------------------------------------
(* The window. *)

\* A window that is full of granted requests is full in the set too, so nothing is granted.
LEMMA RoomInWindow ==
  ASSUME TypeOK, Sorted, Recent, Wait = 0, ~ (block > now),
         NEW i \in 1 .. Len(grants), i + Limit = Len(grants) + 1
  PROVE  now - grants[i] >= Window
  <1> DEFINE last == i .. Len(grants)
  <1>0. Len(grants) \in Nat /\ grants[i] \in Nat /\ now \in Nat
    BY LenProperties, ElementOfSeq DEF TypeOK
  <1> SUFFICES ASSUME grants[i] > now - Window PROVE FALSE
    BY <1>0, LimitAssumption
  <1>1. last \subseteq Live
    <2> SUFFICES ASSUME NEW j \in last PROVE j \in Live
      OBVIOUS
    <2>1. j \in 1 .. Len(grants) /\ i <= j
      BY <1>0
    <2>2. grants[i] <= grants[j] /\ grants[j] \in Nat
      BY <2>1, ElementOfSeq DEF Sorted, TypeOK
    <2>3. grants[j] > now - Window
      BY <1>0, <2>2, LimitAssumption
    <2>4. QED
      BY <2>1, <2>3 DEF Recent, Live
  <1>2. Cardinality(last) = Limit
    BY <1>0, FS_Interval, LimitAssumption
  <1>3. Cardinality(last) <= Cardinality(Live)
    BY <1>1, LiveSlots, FS_Subset
  <1>4. Cardinality(Live) < Limit
    BY RoomOrNothing
  <1>5. QED
    BY <1>2, <1>3, <1>4, LiveSlots, LimitAssumption

LEMMA InvInit == Init => IInv
  <1> SUFFICES ASSUME Init PROVE IInv
    OBVIOUS
  <1>1. grants = <<>> /\ Len(grants) = 0
    BY EmptySeq DEF Init
  <1>2. Sorted /\ Recent /\ WindowHolds
    BY <1>1 DEF Sorted, Recent, WindowHolds
  <1>3. Timely
    BY DEF Init, Timely, NobodyOversleeps
  <1>4. Few
    BY FS_EmptySet, LimitAssumption DEF Init, Few
  <1>5. QED
    BY <1>2, <1>3, <1>4, TypeInit DEF IInv

\* A script that grants nothing leaves the window as it is.
LEMMA NothingGranted ==
  ASSUME IInv, UNCHANGED <<now, grants>>, slots' \in {slots, Cleaned}
  PROVE  Sorted' /\ Recent' /\ WindowHolds'
  <1>1. Recent'
    BY DEF IInv, Recent, Cleaned, Live
  <1>2. QED
    BY <1>1 DEF IInv, Sorted, WindowHolds

LEMMA WindowStep ==
  ASSUME IInv, [Next]_vars
  PROVE  Sorted' /\ Recent' /\ WindowHolds'
  <1> DEFINE Held == Sorted' /\ Recent' /\ WindowHolds'
  <1> USE DEF waiting
  <1>0. TypeOK /\ Sorted /\ Recent /\ WindowHolds /\ Len(grants) \in Nat /\ now \in Nat
        /\ \A i \in 1 .. Len(grants) : grants[i] \in Nat
    BY LenProperties, ElementOfSeq DEF IInv, TypeOK
  <1>1. ASSUME NEW w \in Workers, Grant(w) PROVE Held
    <2>1. /\ Len(grants') = Len(grants) + 1
          /\ \A i \in 1 .. Len(grants) : grants'[i] = grants[i]
          /\ grants'[Len(grants) + 1] = now
          /\ now' = now /\ slots' = Live \cup {Len(grants) + 1}
      BY <1>0, <1>1, Granted DEF Grant
    <2>2. Sorted'
      BY <1>0, <2>1 DEF Sorted
    <2>3. Recent'
      BY <1>0, <2>1 DEF Recent, Live
    <2>4. ASSUME NEW i \in 1 .. Len(grants'), i + Limit <= Len(grants')
          PROVE  grants'[i + Limit] - grants'[i] >= Window
      <3>1. CASE i + Limit <= Len(grants)
        BY <1>0, <2>1, <3>1, LimitAssumption DEF WindowHolds
      <3>2. CASE i + Limit = Len(grants) + 1
        <4>1. i \in 1 .. Len(grants)
          BY <1>0, <3>2, LimitAssumption
        <4>2. now - grants[i] >= Window
          BY <1>0, <1>1, <3>2, <4>1, RoomInWindow, RoomOrNothing DEF Grant
        <4>3. QED
          BY <2>1, <3>2, <4>1, <4>2
      <3>3. QED
        BY <1>0, <2>1, <2>4, <3>1, <3>2, LimitAssumption
    <2>5. QED
      BY <2>2, <2>3, <2>4 DEF WindowHolds
  <1>2. CASE Expire
    <2>1. ASSUME NEW i \in 1 .. Len(grants), grants[i] > now - Window PROVE FALSE
      <3>1. grants[i] <= grants[Len(grants)] /\ grants[Len(grants)] + Window + 1 <= now
        BY <1>0, <1>2, <2>1 DEF Sorted, Expire
      <3>2. QED
        BY <1>0, <2>1, <3>1, LimitAssumption
    <2>2. QED
      BY <1>0, <1>2, <2>1 DEF Expire, Sorted, Recent, WindowHolds
  <1>3. CASE Tick
    BY <1>0, <1>3, LimitAssumption DEF Tick, Sorted, Recent, WindowHolds
  <1>4. ASSUME NEW w \in Workers, Begin(w) \/ GiveUp(w) \/ Sleep(w) \/ Wake(w) PROVE Held
    BY <1>4, NothingGranted DEF Begin, GiveUp, Sleep, Wake
  <1>5. ASSUME NEW seconds \in Penalties, Penalize(seconds) PROVE Held
    BY <1>5, NothingGranted DEF Penalize
  <1>6. CASE UNCHANGED vars
    BY <1>6, NothingGranted DEF vars
  <1>7. QED
    BY <1>1, <1>2, <1>3, <1>4, <1>5, <1>6 DEF Next, Acquires

-----------------------------------------------------------------------------
(* Waiting. *)

\* A waiter is due before its deadline, and time does not pass a waiter that is due.
LEMMA TimelyStep ==
  ASSUME IInv, [Next]_vars
  PROVE  Timely'
  <1> USE DEF waiting, Timely, NobodyOversleeps
  <1>0. TypeOK /\ Timely
    BY DEF IInv
  <1>1. ASSUME NEW w \in Workers, Begin(w) PROVE Timely'
    BY <1>0, <1>1, TimesAssumption DEF Begin, TypeOK
  <1>2. ASSUME NEW w \in Workers, Grant(w) \/ GiveUp(w) \/ Wake(w) PROVE Timely'
    BY <1>0, <1>2 DEF Grant, GiveUp, Wake, TypeOK
  <1>3. ASSUME NEW w \in Workers, Sleep(w) PROVE Timely'
    <2>1. now + (IF Wait < MaxSleep THEN Wait ELSE MaxSleep) <= deadline[w]
      BY <1>0, <1>3, WaitType, TimesAssumption DEF Sleep, TypeOK
    <2>2. due'[w] <= deadline'[w]
      BY <1>0, <1>3, <2>1 DEF Sleep, TypeOK
    <2>3. QED
      BY <1>0, <1>3, <2>2 DEF Sleep, TypeOK
  <1>4. CASE Tick
    BY <1>0, <1>4 DEF Tick, TypeOK
  <1>5. CASE Expire \/ \E seconds \in Penalties : Penalize(seconds)
    BY <1>0, <1>5 DEF Expire, Penalize
  <1>6. CASE UNCHANGED vars
    BY <1>0, <1>6 DEF vars
  <1>7. QED
    BY <1>1, <1>2, <1>3, <1>4, <1>5, <1>6 DEF Next, Acquires

LEMMA SlotsFinite ==
  ASSUME TypeOK
  PROVE  IsFiniteSet(slots) /\ Cardinality(slots) \in Nat
  <1>1. IsFiniteSet(1 .. Len(grants))
    BY LenProperties, FS_Interval DEF TypeOK
  <1>2. QED
    BY <1>1, FS_Subset, FS_CardinalityType DEF TypeOK

LEMMA FewStep == TypeOK /\ Few /\ [Next]_vars => Few'
  <1> SUFFICES ASSUME TypeOK, Few, [Next]_vars PROVE Few'
    OBVIOUS
  <1>1. ASSUME NEW w \in Workers, Grant(w) PROVE Few'
    <2>1. Cardinality(Live) < Limit
      BY <1>1, RoomOrNothing DEF Grant
    <2>2. Cardinality(Live \cup {Len(grants) + 1}) <= Cardinality(Live) + 1
      <3>1. Len(grants) + 1 \notin Live
        BY LiveSlots, LenProperties DEF TypeOK
      <3>2. Cardinality(Live \cup {Len(grants) + 1}) = Cardinality(Live) + 1
        BY <3>1, LiveSlots, FS_AddElement, Zenon
      <3>3. QED
        BY <3>2, LiveSlots
    <2>3. Cardinality(Live \cup {Len(grants) + 1}) \in Nat
      BY LiveSlots, FS_AddElement, FS_CardinalityType
    <2>4. QED
      BY <1>1, <2>1, <2>2, <2>3, LiveSlots, LimitAssumption DEF Grant, Few
  <1>2. ASSUME slots' \subseteq slots PROVE Few'
    <2>1. Cardinality(slots') <= Cardinality(slots) /\ Cardinality(slots') \in Nat
      BY <1>2, SlotsFinite, FS_Subset, FS_CardinalityType
    <2>2. QED
      BY <2>1, SlotsFinite, LimitAssumption DEF Few
  <1>3. ASSUME NEW w \in Workers, Begin(w) \/ GiveUp(w) \/ Sleep(w) \/ Wake(w) PROVE Few'
    BY <1>2, <1>3, CleanedSlots DEF Begin, GiveUp, Sleep, Wake
  <1>4. CASE Expire \/ Tick \/ \E seconds \in Penalties : Penalize(seconds)
    BY <1>2, <1>4 DEF Expire, Tick, Penalize
  <1>5. CASE UNCHANGED vars
    BY <1>2, <1>5 DEF vars
  <1>6. QED
    BY <1>1, <1>3, <1>4, <1>5 DEF Next, Acquires

\* With a full window the wait ends when the oldest of its requests leaves.
LEMMA ExactWhenFull ==
  ASSUME TypeOK, Sorted, Few, Wait > 0
  PROVE  WaitIsExact
  <1> DEFINE first == CHOOSE i \in Live : \A j \in Live : i <= j
  <1>0. \A i \in slots : grants[i] \in Nat
    BY ElementOfSeq DEF TypeOK
  <1>1. CASE block > now
    BY <1>1 DEF Wait, WaitIsExact, TypeOK
  <1>2. CASE ~ (block > now)
    <2>1. ~ (Cardinality(Live) < Limit)
      BY <1>2 DEF Wait
    <2>2. Wait = grants[first] + Window - now
      BY <1>2, <2>1 DEF Wait
    <2>3. Live # {}
      BY <2>1, FS_EmptySet, LimitAssumption
    <2>4. first \in Live /\ \A j \in Live : first <= j
      BY <2>3, LiveSlots, Oldest
    <2> HIDE DEF first
    <2>5. first \in slots /\ grants[first] \in Nat /\ grants[first] > now - Window
      BY <1>0, <2>4 DEF Live
    <2>6. now + Wait - Window = grants[first] /\ now + Wait - 1 - Window = grants[first] - 1
      BY <2>2, <2>5, LimitAssumption DEF TypeOK
    <2> DEFINE Later == {i \in slots : grants[i] > now + Wait - Window}
               AtLeast == {i \in slots : grants[i] > now + Wait - 1 - Window}
    <2>7. Cardinality(Later) < Limit
      <3>1. Later \subseteq slots \ {first}
        BY <2>5, <2>6
      <3>2. Cardinality(slots \ {first}) = Cardinality(slots) - 1 /\ IsFiniteSet(slots \ {first})
        BY <2>5, SlotsFinite, FS_RemoveElement
      <3>3. Cardinality(Later) <= Cardinality(slots \ {first}) /\ Cardinality(Later) \in Nat
        BY <3>1, <3>2, FS_Subset, FS_CardinalityType
      <3>4. QED
        BY <3>2, <3>3, SlotsFinite, LimitAssumption DEF Few
    <2>8. Cardinality(AtLeast) >= Limit
      <3>1. Live \subseteq AtLeast
        <4>1. ASSUME NEW i \in Live PROVE i \in slots /\ grants[i] >= grants[first]
          <5>1. first <= i /\ i \in 1 .. Len(grants) /\ first \in 1 .. Len(grants)
            BY <2>4, LiveSlots
          <5>2. QED
            BY <1>0, <5>1 DEF Sorted, Live
        <4>2. QED
          BY <1>0, <2>5, <2>6, <4>1
      <3>2. Cardinality(Live) <= Cardinality(AtLeast) /\ Cardinality(AtLeast) \in Nat
        BY <3>1, SlotsFinite, FS_Subset, FS_CardinalityType
      <3>3. QED
        BY <2>1, <3>2, LiveSlots, LimitAssumption
    <2>9. QED
      BY <2>7, <2>8 DEF WaitIsExact
  <1>3. QED
    BY <1>1, <1>2

-----------------------------------------------------------------------------
(* The theorems. *)

LEMMA InvStep == IInv /\ [Next]_vars => IInv'
  <1>1. IInv => TypeOK
    BY DEF IInv
  <1>2. QED
    BY <1>1, TypeStep, WindowStep, TimelyStep, FewStep DEF IInv

\* No window of Window ticks holds more than Limit requests of the company, however many
\* workers ask, whatever the set has forgotten, and after any penalty or expiry.
THEOREM WindowNeverOverrun == Spec => []WindowHolds
  BY InvInit, InvStep, PTL DEF Spec, IInv

\* No worker sleeps past its deadline, however often it loses the slot it waited for.
THEOREM GivesUpInTime == Spec => []NobodyOversleeps
  <1>1. IInv => NobodyOversleeps
    BY DEF IInv, Timely
  <1>2. QED
    BY <1>1, InvInit, InvStep, PTL DEF Spec

\* A worker told to wait would find room at the end of the wait, and not a tick before it.
THEOREM WaitsExactly == Spec => []WaitIsExact
  <1>1. IInv => WaitIsExact
    BY ExactWhenFull DEF IInv, WaitIsExact
  <1>2. QED
    BY <1>1, InvInit, InvStep, PTL DEF Spec

\* Nothing goes while a penalty lasts, and no penalty is cut short.
THEOREM PenaltyKept == Spec => PenaltyHolds
  <1> DEFINE Kept == (block > now => grants' = grants) /\ block' >= block
  <1>1. TypeOK /\ [Next]_vars => [Kept]_vars
    <2> SUFFICES ASSUME TypeOK, [Next]_vars PROVE [Kept]_vars
      OBVIOUS
    <2>1. ASSUME NEW w \in Workers, Grant(w) PROVE Kept
      BY <2>1, RoomOrNothing DEF Grant, TypeOK
    <2>2. ASSUME NEW w \in Workers, Begin(w) \/ GiveUp(w) \/ Sleep(w) \/ Wake(w) PROVE Kept
      BY <2>2 DEF Begin, GiveUp, Sleep, Wake, TypeOK
    <2>3. ASSUME NEW seconds \in Penalties, Penalize(seconds) PROVE Kept
      BY <2>3, TimesAssumption DEF Penalize, Until, TypeOK
    <2>4. CASE Expire \/ Tick
      BY <2>4 DEF Expire, Tick, TypeOK
    <2>5. QED
      BY <2>1, <2>2, <2>3, <2>4 DEF Next, Acquires
  <1>2. QED
    BY <1>1, TypeCorrect, PTL DEF Spec, PenaltyHolds

-----------------------------------------------------------------------------
(* The refinement of RequestBudget. *)

LEMMA UpTo ==
  ASSUME NEW n \in Nat
  PROVE  Cardinality(1 .. n) = n /\ IsFiniteSet(1 .. n)
  <1>1. IsFiniteSet(1 .. n) /\ Cardinality(1 .. n) = IF 1 > n THEN 0 ELSE n - 1 + 1
    BY FS_Interval
  <1>2. QED
    BY <1>1

\* The script grants exactly when the budget has room: what its set has forgotten, or still
\* holds of earlier windows, changes nothing.
LEMMA GrantsWhenRoom ==
  ASSUME IInv
  PROVE  Wait = 0 <=> Budget!MayGo
  <1> DEFINE oldest == Len(grants) + 1 - Limit
  <1>0. /\ TypeOK /\ Sorted /\ Recent
        /\ Len(grants) \in Nat /\ now \in Nat /\ block \in Nat
        /\ \A i \in 1 .. Len(grants) : grants[i] \in Nat
    BY LenProperties, ElementOfSeq DEF IInv, TypeOK
  <1>1. ASSUME Wait = 0 PROVE Budget!MayGo
    <2>1. block <= now
      BY <1>0, <1>1, RoomOrNothing
    <2>2. CASE Len(grants) < Limit
      BY <2>1, <2>2 DEF Budget!MayGo, Budget!Room
    <2>3. CASE ~ (Len(grants) < Limit)
      <3>1. oldest \in 1 .. Len(grants) /\ oldest + Limit = Len(grants) + 1
        BY <1>0, <2>3, LimitAssumption
      <3>2. now - grants[oldest] >= Window
        BY <1>0, <1>1, <3>1, RoomInWindow, RoomOrNothing
      <3>3. grants[oldest] + Window <= now
        BY <1>0, <3>1, <3>2, LimitAssumption
      <3>4. QED
        BY <2>1, <3>3 DEF Budget!MayGo, Budget!Room
    <2>4. QED
      BY <2>2, <2>3
  <1>2. ASSUME Budget!MayGo PROVE Wait = 0
    <2>1. ~ (block > now) /\ (Len(grants) < Limit \/ grants[oldest] + Window <= now)
      BY <1>0, <1>2 DEF Budget!MayGo, Budget!Room
    <2>2. CASE Len(grants) < Limit
      <3>1. Cardinality(1 .. Len(grants)) = Len(grants) /\ IsFiniteSet(1 .. Len(grants))
        BY <1>0, UpTo
      <3>2. Cardinality(Live) < Limit
        BY <1>0, <2>2, <3>1, LiveSlots, FS_Subset, LimitAssumption
      <3>3. QED
        BY <2>1, <3>2 DEF Wait
    <2>3. CASE ~ (Len(grants) < Limit)
      <3>1. oldest \in 1 .. Len(grants) /\ grants[oldest] + Window <= now
        BY <1>0, <2>1, <2>3, LimitAssumption
      <3>2. Live \subseteq oldest + 1 .. Len(grants)
        <4> SUFFICES ASSUME NEW i \in Live, ~ (i > oldest) PROVE FALSE
          BY <1>0, <3>1, LiveSlots
        <4>1. i \in 1 .. Len(grants) /\ grants[i] > now - Window
          BY <1>0, LiveSlots DEF Live
        <4>2. grants[i] <= grants[oldest]
          BY <1>0, <3>1, <4>1 DEF Sorted
        <4>3. grants[i] \in Nat /\ grants[oldest] \in Nat /\ now \in Nat
          BY <1>0, <3>1, <4>1
        <4>4. QED
          BY <3>1, <4>1, <4>2, <4>3, LimitAssumption
      <3>3. oldest + 1 \in Int /\ Len(grants) \in Int
        BY <1>0, <3>1
      <3> HIDE DEF oldest
      <3>10. oldest + 1 > Len(grants) \/ Len(grants) - (oldest + 1) + 1 = Limit - 1
        BY <1>0, <3>3, LimitAssumption DEF oldest
      <3>4. /\ IsFiniteSet(oldest + 1 .. Len(grants))
            /\ Cardinality(oldest + 1 .. Len(grants)) < Limit
        BY <3>3, <3>10, FS_Interval, LimitAssumption
      <3>5. Cardinality(oldest + 1 .. Len(grants)) \in Nat
        BY <3>4, FS_CardinalityType
      <3>6. Cardinality(Live) <= Cardinality(oldest + 1 .. Len(grants))
        BY <3>2, <3>4, FS_Subset
      <3>7. Cardinality(Live) < Limit
        BY <3>4, <3>5, <3>6, <1>0, LiveSlots, LimitAssumption
      <3>8. QED
        BY <2>1, <3>7 DEF Wait
    <2>4. QED
      BY <2>2, <2>3
  <1>3. QED
    BY <1>1, <1>2

LEMMA BudgetInit == Init => Budget!Init
  BY DEF Init, Budget!Init

\* Sleeping, waking up and the expiry of the set are invisible; every other step is one of the
\* budget's.
LEMMA BudgetStep ==
  ASSUME IInv, [Next]_vars
  PROVE  [Budget!Next]_(Budget!vars)
  <1> USE DEF waiting, Budget!vars
  <1>0. TypeOK /\ Timely /\ Wait \in Int
    BY WaitType DEF IInv
  <1>1. ASSUME NEW w \in Workers, Begin(w) PROVE Budget!Ask(w)
    BY <1>0, <1>1 DEF Begin, Budget!Ask, TypeOK
  <1>2. ASSUME NEW w \in Workers, Grant(w) PROVE Budget!Go(w)
    BY <1>0, <1>2, GrantsWhenRoom DEF Grant, Budget!Go, TypeOK
  <1>3. ASSUME NEW w \in Workers, GiveUp(w) PROVE Budget!Refuse(w)
    <2>1. ~ Budget!MayGo
      BY <1>0, <1>3, GrantsWhenRoom DEF GiveUp
    <2>2. QED
      BY <1>0, <1>3, <2>1 DEF GiveUp, Budget!Refuse, TypeOK
  <1>4. ASSUME NEW w \in Workers, Sleep(w) \/ Wake(w) PROVE UNCHANGED Budget!vars
    BY <1>0, <1>4 DEF Sleep, Wake, TypeOK
  <1>5. ASSUME NEW seconds \in Penalties, Penalize(seconds) PROVE Budget!HoldOff(seconds)
    BY <1>5 DEF Penalize, Until, Budget!HoldOff
  <1>6. CASE Expire
    BY <1>6 DEF Expire
  <1>7. ASSUME Tick PROVE Budget!Tick
    <2>1. \A w \in Workers : pc[w] # "idle" => now < deadline[w]
      BY <1>0, <1>7 DEF Tick, Timely, TypeOK
    <2>2. QED
      BY <1>7, <2>1 DEF Tick, Budget!Tick
  <1>8. CASE UNCHANGED vars
    BY <1>8 DEF vars
  <1>9. QED
    BY <1>1, <1>2, <1>3, <1>4, <1>5, <1>6, <1>7, <1>8 DEF Next, Acquires, Budget!Next

\* The limiter implements the budget: for any number of workers, and any limit, window and wait,
\* what the scripts and the waiting workers do is what RequestBudget allows.
THEOREM ImplementsBudget == Spec => KeepsBudget
  BY BudgetInit, BudgetStep, InvInit, InvStep, PTL DEF Spec, KeepsBudget, Budget!Spec
=============================================================================
