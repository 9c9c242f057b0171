--------------------------- MODULE BotService_proofs ---------------------------
(***************************************************************************)
(* Proofs about BotService, for any number of people, slots and requests   *)
(* in a round, and any budget: the order in which updates are handled,     *)
(* that none is dropped or repeated without cause, and what the page reads *)
(* of a request.                                                           *)
(***************************************************************************)
EXTENDS BotService, FiniteSetTheorems, SequenceTheorems, TLAPS

Answers == {"open", "done", "failed", "late"}
Worker == [pc : {"rest", "next", "tell", "finish"}, todo : SUBSET DOMAIN rows,
           row : 0 .. Len(rows), bot : 0 .. bots, answer : Answers]
Row == [kind : {"approve", "revoke"}, aged : BOOLEAN, state : Answers]
Lock == People \X (1 .. Len(who))
Task == [n : 1 .. Len(who), lock : Lock, on : BOOLEAN]

\* The parts of TypeOK, and what it leaves to the histories.
IntakeType ==
  /\ who \in Seq(People) /\ confirmed \in 0 .. Len(who)
  /\ poller \in {"away", "ask", "asked", "pause", "drain"} /\ offset \in 0 .. Len(who) + 1
  /\ tasks \subseteq Task /\ lockOf \in [People -> {NoLock} \cup Lock]
  /\ handled \in Seq(Nat) /\ Len(handled) = Len(who)
  /\ cut \subseteq 1 .. Len(who) /\ stops \in Nat
ServiceType ==
  /\ config \in {"none", "ours", "other"} /\ token \in {"none", "ours", "other"}
  /\ svc \in {"watch", "stopping", "exiting", "down"} /\ bot \in 0 .. bots /\ bots \in Nat
  /\ bot = 0 <=> token = "none"
ActionsType ==
  /\ rows \in Seq(Row) /\ status \in {"pending", "approved", "revoked"}
  /\ worker \in Worker
  /\ carried \in Seq(Nat) /\ Len(carried) = Len(rows)
  /\ slips \subseteq DOMAIN rows

\* A poller is ours; without one there are no tasks, but for those a process that exits left behind.
PollerInv ==
  /\ poller # "away" => token = "ours" /\ svc # "down"
  /\ poller = "away" /\ svc # "exiting" => tasks = {}

\* What the poller asks for next comes after what Telegram has confirmed and after all it has got.
OffsetInv ==
  poller # "away" =>
    /\ offset # 0 => confirmed < offset
    /\ offset # 0 /\ poller = "asked" => offset = confirmed + 1
    /\ \A t \in tasks : t.n < offset

\* One task for an update, and one lock for a person's tasks: that of the person's entry.
LockInv ==
  /\ \A s, t \in tasks : s.n = t.n => s = t
  /\ \A t \in tasks : lockOf[who[t.n]] = t.lock

\* What was asked past was handled, or is to be, or was cut.
Accounted(n) == handled[n] > 0 \/ n \in cut \/ \E t \in tasks : t.n = n
DropInv ==
  /\ \A n \in 1 .. confirmed : Accounted(n)
  /\ poller # "away" => \A n \in 1 .. Len(who) : n < offset => Accounted(n)

\* How often an update was handled: what this poller has got may be once more.
Got(n) == poller # "away" /\ n < offset
Waits(n) == \E t \in tasks : t.n = n
Pollers == IF poller = "away" THEN stops ELSE 1 + stops
CountInv ==
  \A n \in 1 .. Len(who) :
    /\ handled[n] <= IF Got(n) THEN 1 + stops ELSE stops
    /\ Waits(n) => handled[n] < Pollers

\* A request is in one place, and what the worker knows of the one in hand is so.
OpenInv ==
  /\ worker.pc \in {"tell", "finish"} => /\ worker.row \in DOMAIN rows \ worker.todo
                                         /\ rows[worker.row].state = "open"
  /\ \A n \in worker.todo : rows[n].state = "open"
InHand(n) == worker.pc \in {"tell", "finish"} /\ worker.row = n
CarriedInv ==
  /\ \A n \in DOMAIN rows :
       n \notin slips =>
         /\ carried[n] <= 1
         /\ rows[n].state = "open" /\ ~InHand(n) => carried[n] = 0
  /\ worker.pc = "tell" => carried[worker.row] > 0
  /\ worker.pc = "finish" =>
       /\ worker.answer # "open"
       /\ worker.answer = "done" => carried[worker.row] > 0
       /\ worker.answer = "late" /\ worker.row \notin slips => carried[worker.row] = 0

IntakeInv == PollerInv /\ OffsetInv /\ LockInv /\ OneByOne /\ DropInv /\ CountInv
RequestInv == OpenInv /\ CarriedInv /\ AnswersAreTrue
IInv == IntakeType /\ ServiceType /\ ActionsType /\ IntakeInv /\ RequestInv

-----------------------------------------------------------------------------
(* Types *)

\* TypeOK, with its histories typed entry by entry.
Types == IntakeType /\ ServiceType /\ ActionsType

LEMMA TypesAre ==
  ASSUME Types
  PROVE  TypeOK
  BY DEF Types, IntakeType, ServiceType, ActionsType, TypeOK, Task, Lock, Row, Worker, Answers

\* What a step that does not touch the intake, or the requests, leaves of them.
SameIntake == UNCHANGED <<who, confirmed, poller, offset, tasks, lockOf, handled, cut, stops>>
SameRequests == UNCHANGED <<rows, status, worker, carried, slips>>

LEMMA SameIntakeType ==
  ASSUME IntakeType, SameIntake
  PROVE  IntakeType'
  BY DEF IntakeType, SameIntake, Task, Lock

\* A row, or a number, in its place.
LEMMA Put ==
  ASSUME NEW S, NEW s \in Seq(S), NEW i \in DOMAIN s, NEW e \in S
  PROVE  /\ [s EXCEPT ![i] = e] \in Seq(S) /\ Len([s EXCEPT ![i] = e]) = Len(s)
         /\ DOMAIN [s EXCEPT ![i] = e] = DOMAIN s
  OBVIOUS

LEMMA AnswerIsRow ==
  ASSUME NEW r \in Row, NEW answer \in Answers
  PROVE  [r EXCEPT !.state = answer] \in Row /\ [r EXCEPT !.aged = TRUE] \in Row
  BY DEF Row

LEMMA RowAt ==
  ASSUME NEW S, NEW s \in Seq(S), NEW i \in DOMAIN s
  PROVE  s[i] \in S
  OBVIOUS

\* The worker between two requests, or at the next.
LEMMA RoundType ==
  ASSUME rows \in Seq(Row), bots \in Nat, NEW todo \in SUBSET DOMAIN rows, NEW b \in 0 .. bots
  PROVE  Rests \in Worker /\ [Rests EXCEPT !.pc = "next", !.todo = todo, !.bot = b] \in Worker
  <1>1. 0 \in 0 .. Len(rows) /\ 0 \in 0 .. bots
    OBVIOUS
  <1>2. QED
    BY <1>1 DEF Rests, Worker, Answers

LEMMA NoTasks ==
  ASSUME IntakeType, Drops, who' = who
  PROVE  /\ tasks' \subseteq Task' /\ lockOf' \in [People -> {NoLock} \cup Lock']
         /\ cut' \subseteq 1 .. Len(who') /\ stops' \in Nat
  <1>1. tasks' = {} /\ cut' = cut \cup {t.n : t \in tasks}
    BY DEF Drops
  <1>2. \A t \in tasks : t.n \in 1 .. Len(who)
    BY DEF IntakeType, Task
  <1>3. lockOf' \in [People -> {NoLock} \cup Lock'] /\ stops' \in Nat
    BY DEF Drops, IntakeType
  <1>4. QED
    BY <1>1, <1>2, <1>3 DEF IntakeType

\* Every step keeps the types of the intake.
LEMMA IntakeStep ==
  ASSUME IntakeType, Next
  PROVE  IntakeType'
  <1> USE DEF telegram, intake
  <1>1. ASSUME Reach PROVE IntakeType'
    <2>1. confirmed' \in 0 .. Len(who)
      BY <1>1 DEF Reach, IntakeType
    <2>2. QED
      BY <1>1, <2>1 DEF Reach, IntakeType, Task, Lock
  <1>2. ASSUME Resume PROVE IntakeType'
    BY <1>2 DEF Resume, IntakeType, Task, Lock
  <1>3. ASSUME NEW last \in 1 .. Len(who), Receive(last) PROVE IntakeType'
    <2>1. /\ poller' = "ask" /\ offset' = last + 1
          /\ UNCHANGED <<who, confirmed, handled, cut, stops>>
      BY <1>3 DEF Receive, Following
    <2>2. \A q \in People : LockIn(q, last) \in Lock
      BY DEF LockIn, IntakeType, Lock
    <2>3. lockOf' \in [People -> {NoLock} \cup Lock]
      BY <1>3, <2>2 DEF Receive, IntakeType
    <2>4. ASSUME NEW n \in confirmed + 1 .. last
          PROVE  [n |-> n, lock |-> LockIn(who[n], last), on |-> FALSE] \in Task
      <3>1. n \in 1 .. Len(who)
        BY DEF IntakeType
      <3>2. who[n] \in People
        BY <3>1 DEF IntakeType
      <3>3. QED
        BY <2>2, <3>1, <3>2 DEF Task
    <2>5. tasks' \subseteq Task
      BY <1>3, <2>4 DEF Receive, IntakeType
    <2>6. offset' \in 0 .. Len(who) + 1
      BY <2>1 DEF IntakeType
    <2>7. Task' = Task /\ Lock' = Lock
      BY <2>1 DEF Task, Lock
    <2>8. QED
      BY <2>1, <2>3, <2>5, <2>6, <2>7 DEF IntakeType
  <1>4. ASSUME RunActions PROVE IntakeType'
    BY <1>4, SameIntakeType DEF RunActions, SameIntake
  <1>5. ASSUME NEW n \in worker.todo, Manage(n) PROVE IntakeType'
    BY <1>5, SameIntakeType DEF Manage, SameIntake
  <1>6. ASSUME Tell PROVE IntakeType'
    BY <1>6, SameIntakeType DEF Tell, SameIntake
  <1>7. ASSUME Finish PROVE IntakeType'
    BY <1>7, SameIntakeType DEF Finish, SameIntake
  <1>8. ASSUME NEW p \in People, Write(p) PROVE IntakeType'
    <2>1. /\ who' = Append(who, p) /\ handled' = Append(handled, 0)
          /\ UNCHANGED <<confirmed, poller, offset, tasks, lockOf, cut, stops>>
      BY <1>8 DEF Write
    <2>2. who' \in Seq(People) /\ Len(who') = Len(who) + 1 /\ Len(who) \in Nat
      BY <2>1, AppendProperties DEF IntakeType
    <2>3. handled' \in Seq(Nat) /\ Len(handled') = Len(handled) + 1
      BY <2>1, AppendProperties DEF IntakeType
    <2>4. 1 .. Len(who) \subseteq 1 .. Len(who') /\ Lock \subseteq Lock' /\ Task \subseteq Task'
      BY <2>2 DEF Lock, Task
    <2>5. QED
      BY <2>1, <2>2, <2>3, <2>4 DEF IntakeType
  <1>9. ASSUME NEW kind \in {"approve", "revoke"}, Ask(kind) PROVE IntakeType'
    BY <1>9, SameIntakeType DEF Ask, SameIntake
  <1>10. ASSUME NEW kind \in {"approve", "revoke"}, Button(kind) PROVE IntakeType'
    BY <1>10, SameIntakeType DEF Button, SameIntake
  <1>11. ASSUME NEW new \in {"ours", "other"}, SaveToken(new) PROVE IntakeType'
    BY <1>11, SameIntakeType DEF SaveToken, SameIntake
  <1>12. ASSUME Age PROVE IntakeType'
    BY <1>12, SameIntakeType DEF Age, SameIntake
  <1>13. ASSUME Deploy PROVE IntakeType'
    BY <1>13 DEF Deploy, Cancels, WaitsNoMore, IntakeType, Task, Lock
  <1>14. ASSUME Crash PROVE IntakeType'
    <2>1. /\ Drops /\ UNCHANGED <<who, confirmed, handled>>
          /\ poller' \in {"away", "ask"} /\ offset' \in {0, offset}
      BY <1>14 DEF Crash, Drops, Leaves
    <2>2. QED
      BY <2>1, NoTasks DEF IntakeType
  <1>15. ASSUME Fails PROVE IntakeType'
    BY <1>15 DEF Fails, IntakeType, Task, Lock
  <1>16. ASSUME ApplyConfig PROVE IntakeType'
    BY <1>16 DEF ApplyConfig, Runs, Cancels, IntakeType, Task, Lock
  <1>17. ASSUME Stopped PROVE IntakeType'
    <2>1. /\ Drops /\ UNCHANGED <<who, confirmed, handled>>
          /\ poller' \in {"away", "ask"} /\ offset' \in {0, offset}
      BY <1>17 DEF Stopped, Drops, Runs, Leaves
    <2>2. QED
      BY <2>1, NoTasks DEF IntakeType
  <1>18. ASSUME Boot PROVE IntakeType'
    BY <1>18 DEF Boot, Runs, IntakeType, Task, Lock
  <1>19. ASSUME NEW t \in tasks, Start(t) PROVE IntakeType'
    <2>1. /\ UNCHANGED <<who, confirmed, poller, offset, lockOf, handled, cut, stops>>
          /\ tasks' = (tasks \ {t}) \cup {[t EXCEPT !.on = TRUE]}
      BY <1>19 DEF Start
    <2>2. [t EXCEPT !.on = TRUE] \in Task
      BY DEF IntakeType, Task
    <2>3. QED
      BY <2>1, <2>2 DEF IntakeType, Task, Lock
  <1>20. ASSUME NEW t \in tasks, Done(t) PROVE IntakeType'
    <2>1. /\ UNCHANGED <<who, confirmed, poller, offset, cut, stops>>
          /\ tasks' = tasks \ {t} /\ handled' = [handled EXCEPT ![t.n] = handled[t.n] + 1]
          /\ lockOf' = IF Forgets(t) THEN [lockOf EXCEPT ![who[t.n]] = NoLock] ELSE lockOf
      BY <1>20 DEF Done
    <2>2. t.n \in DOMAIN handled /\ handled[t.n] + 1 \in Nat
      BY DEF IntakeType, Task
    <2>3. handled' \in Seq(Nat) /\ Len(handled') = Len(handled)
      BY <2>1, <2>2, Put DEF IntakeType
    <2>4. lockOf' \in [People -> {NoLock} \cup Lock]
      BY <2>1 DEF IntakeType
    <2>5. QED
      BY <2>1, <2>3, <2>4 DEF IntakeType, Task, Lock
  <1>21. QED
    BY <1>1, <1>2, <1>3, <1>4, <1>5, <1>6, <1>7, <1>8, <1>9, <1>10, <1>11, <1>12, <1>13, <1>14,
       <1>15, <1>16, <1>17, <1>18, <1>19, <1>20
       DEF Next, Polls, Carries, Outside

\* Every step keeps the types of the service.
LEMMA ServiceStep ==
  ASSUME ServiceType, Next
  PROVE  ServiceType'
  <1> USE DEF service, database, ServiceType
  <1>1. ASSUME Reach PROVE ServiceType'
    BY <1>1 DEF Reach
  <1>2. ASSUME Resume PROVE ServiceType'
    BY <1>2 DEF Resume
  <1>3. ASSUME NEW last \in 1 .. Len(who), Receive(last) PROVE ServiceType'
    BY <1>3 DEF Receive
  <1>4. ASSUME RunActions PROVE ServiceType'
    BY <1>4 DEF RunActions
  <1>5. ASSUME NEW n \in worker.todo, Manage(n) PROVE ServiceType'
    BY <1>5 DEF Manage, Goes
  <1>6. ASSUME Tell PROVE ServiceType'
    BY <1>6 DEF Tell, Concludes
  <1>7. ASSUME Finish PROVE ServiceType'
    BY <1>7 DEF Finish
  <1>8. ASSUME NEW p \in People, Write(p) PROVE ServiceType'
    BY <1>8 DEF Write
  <1>9. ASSUME NEW kind \in {"approve", "revoke"}, Ask(kind) PROVE ServiceType'
    BY <1>9 DEF Ask
  <1>10. ASSUME NEW kind \in {"approve", "revoke"}, Button(kind) PROVE ServiceType'
    BY <1>10 DEF Button
  <1>11. ASSUME NEW new \in {"ours", "other"}, SaveToken(new) PROVE ServiceType'
    BY <1>11 DEF SaveToken
  <1>12. ASSUME Age PROVE ServiceType'
    BY <1>12 DEF Age
  <1>13. ASSUME Deploy PROVE ServiceType'
    BY <1>13 DEF Deploy, Cancels, WaitsNoMore
  <1>14. ASSUME Crash PROVE ServiceType'
    BY <1>14 DEF Crash, Drops, Leaves
  <1>15. ASSUME Fails PROVE ServiceType'
    BY <1>15 DEF Fails
  <1>16. ASSUME ApplyConfig PROVE ServiceType'
    BY <1>16 DEF ApplyConfig, Runs, Cancels
  <1>17. ASSUME Stopped PROVE ServiceType'
    BY <1>17 DEF Stopped, Drops, Runs, Leaves
  <1>18. ASSUME Boot PROVE ServiceType'
    BY <1>18 DEF Boot, Runs
  <1>19. ASSUME NEW t \in tasks, Start(t) PROVE ServiceType'
    BY <1>19 DEF Start
  <1>20. ASSUME NEW t \in tasks, Done(t) PROVE ServiceType'
    BY <1>20 DEF Done
  <1>21. QED
    BY <1>1, <1>2, <1>3, <1>4, <1>5, <1>6, <1>7, <1>8, <1>9, <1>10, <1>11, <1>12, <1>13, <1>14,
       <1>15, <1>16, <1>17, <1>18, <1>19, <1>20
       DEF Next, Polls, Carries, Outside

\* Every step keeps the types of requests.
LEMMA ActionsStep ==
  ASSUME ServiceType, ActionsType, OpenInv, Next
  PROVE  ActionsType'
  <1> USE DEF service, database, actions
  <1>1. ASSUME Reach PROVE ActionsType'
    <2>1. SameRequests /\ bot' \in 0 .. bots' /\ bots <= bots' /\ bots' \in Nat
      BY <1>1 DEF Reach, SameRequests, ServiceType
    <2>2. QED
      BY <2>1 DEF SameRequests, ActionsType, Worker, ServiceType
  <1>2. ASSUME Resume PROVE ActionsType'
    <2>1. SameRequests /\ bot' \in 0 .. bots' /\ bots <= bots' /\ bots' \in Nat
      BY <1>2 DEF Resume, SameRequests, ServiceType
    <2>2. QED
      BY <2>1 DEF SameRequests, ActionsType, Worker, ServiceType
  <1>3. ASSUME NEW last \in 1 .. Len(who), Receive(last) PROVE ActionsType'
    <2>1. SameRequests /\ bot' \in 0 .. bots' /\ bots <= bots' /\ bots' \in Nat
      BY <1>3 DEF Receive, SameRequests, ServiceType
    <2>2. QED
      BY <2>1 DEF SameRequests, ActionsType, Worker, ServiceType
  <1>4. ASSUME RunActions PROVE ActionsType'
    <2> DEFINE todo == {n \in Waiting : Cardinality({m \in Waiting : m < n}) < Batch}
    <2>1. /\ UNCHANGED <<rows, status, carried, slips, bots>>
          /\ worker' = [Rests EXCEPT !.pc = "next", !.todo = todo, !.bot = bot]
      BY <1>4 DEF RunActions
    <2>2. todo \in SUBSET DOMAIN rows
      BY DEF Waiting
    <2> HIDE DEF todo
    <2>3. worker' \in Worker
      BY <2>1, <2>2, RoundType DEF ActionsType, ServiceType
    <2>4. QED
      BY <2>1, <2>3 DEF ActionsType, Worker
  <1>5. ASSUME NEW n \in worker.todo, Manage(n) PROVE ActionsType'
    <2>1. n \in DOMAIN rows /\ n \in DOMAIN carried /\ n \in 0 .. Len(rows)
      BY DEF ActionsType, Worker
    <2>2. UNCHANGED <<rows, slips, bots>> /\ status' \in {"pending", "approved", "revoked"}
      <3>1. rows[n].kind \in {"approve", "revoke"}
        <4>1. rows[n] \in Row
          BY <2>1, RowAt DEF ActionsType
        <4>2. QED
          BY <4>1 DEF Row
      <3>2. QED
        BY <1>5, <3>1 DEF Manage, NewStatus, ActionsType
    <2>3. carried' \in Seq(Nat) /\ Len(carried') = Len(carried)
      <3>1. carried' = carried \/ carried' = [carried EXCEPT ![n] = carried[n] + 1]
        BY <1>5 DEF Manage
      <3>2. carried[n] + 1 \in Nat /\ carried \in Seq(Nat)
        BY <2>1 DEF ActionsType, Worker
      <3>3. QED
        BY <2>1, <3>1, <3>2, Put
    <2>4. worker' \in Worker
      BY <1>5, <2>1 DEF Manage, Goes, ActionsType, Answers, Worker
    <2>5. QED
      BY <2>2, <2>3, <2>4 DEF ActionsType, Worker
  <1>6. ASSUME Tell PROVE ActionsType'
    <2>1. /\ UNCHANGED <<rows, status, carried, slips, bots>>
          /\ worker' \in Worker
      BY <1>6 DEF Tell, Concludes, ActionsType, Answers, Worker
    <2>2. QED
      BY <2>1 DEF ActionsType, Worker
  <1>7. ASSUME Finish PROVE ActionsType'
    <2>1. UNCHANGED <<status, carried, bots>> /\ worker.row \in 0 .. Len(rows)
      BY <1>7 DEF Finish, ActionsType, Worker
    <2>2. rows' \in Seq(Row) /\ Len(rows') = Len(rows) /\ DOMAIN rows' = DOMAIN rows
      <3>1. CASE rows' = rows
        BY <3>1 DEF ActionsType, Worker
      <3>2. CASE rows' = [rows EXCEPT ![worker.row].state = worker.answer]
        <4>1. CASE worker.row \in DOMAIN rows
          <5>1. rows' = [rows EXCEPT ![worker.row] = [rows[worker.row] EXCEPT !.state = worker.answer]]
            BY <3>2
          <5>2. [rows[worker.row] EXCEPT !.state = worker.answer] \in Row
            BY <4>1, RowAt, AnswerIsRow DEF ActionsType, Worker
          <5>3. QED
            BY <4>1, <5>1, <5>2, Put DEF ActionsType, Worker
        <4>2. QED
          BY <1>7, <4>1 DEF Finish, OpenInv
      <3>3. QED
        BY <1>7, <3>1, <3>2 DEF Finish
    <2>3. worker' \in Worker
      <3>1. /\ Len(rows) \in Nat /\ bots \in Nat /\ worker.todo \in SUBSET DOMAIN rows
            /\ worker.bot \in 0 .. bots
        BY DEF ActionsType, Worker, ServiceType
      <3>2. \/ worker' = Rests
            \/ worker' = [Rests EXCEPT !.pc = "next", !.todo = worker.todo, !.bot = worker.bot]
        BY <1>7 DEF Finish
      <3>3. QED
        BY <3>1, <3>2, RoundType DEF ActionsType, ServiceType
    <2>4. slips' \subseteq DOMAIN rows
      BY <1>7 DEF Finish, InDoubt, OpenInv, ActionsType
    <2>5. QED
      BY <2>1, <2>2, <2>3, <2>4 DEF ActionsType, Worker
  <1>8. ASSUME NEW p \in People, Write(p) PROVE ActionsType'
    <2>1. SameRequests /\ bot' \in 0 .. bots' /\ bots <= bots' /\ bots' \in Nat
      BY <1>8 DEF Write, SameRequests, ServiceType
    <2>2. QED
      BY <2>1 DEF SameRequests, ActionsType, Worker, ServiceType
  <1>9. ASSUME NEW kind \in {"approve", "revoke"}, Ask(kind) PROVE ActionsType'
    <2> DEFINE r == [kind |-> kind, aged |-> FALSE, state |-> "open"]
    <2>1. /\ rows' = Append(rows, r) /\ carried' = Append(carried, 0)
          /\ UNCHANGED <<status, worker, slips, bots>>
      BY <1>9 DEF Ask
    <2>2. r \in Row
      BY DEF Row, Answers
    <2>3. rows' \in Seq(Row) /\ Len(rows') = Len(rows) + 1 /\ Len(rows) \in Nat
      BY <2>1, <2>2, AppendProperties DEF ActionsType, Worker
    <2>4. carried' \in Seq(Nat) /\ Len(carried') = Len(carried) + 1
      BY <2>1, AppendProperties DEF ActionsType, Worker
    <2>5. DOMAIN rows \subseteq DOMAIN rows' /\ 0 .. Len(rows) \subseteq 0 .. Len(rows')
      BY <2>3 DEF ActionsType, Worker
    <2>6. QED
      BY <2>1, <2>3, <2>4, <2>5 DEF ActionsType, Worker
  <1>10. ASSUME NEW kind \in {"approve", "revoke"}, Button(kind) PROVE ActionsType'
    <2>1. UNCHANGED <<rows, worker, carried, slips, bots>> /\ status' = NewStatus[kind]
      BY <1>10 DEF Button
    <2>2. QED
      BY <2>1 DEF NewStatus, ActionsType, Worker
  <1>11. ASSUME NEW new \in {"ours", "other"}, SaveToken(new) PROVE ActionsType'
    <2>1. SameRequests /\ bot' \in 0 .. bots' /\ bots <= bots' /\ bots' \in Nat
      BY <1>11 DEF SaveToken, SameRequests, ServiceType
    <2>2. QED
      BY <2>1 DEF SameRequests, ActionsType, Worker, ServiceType
  <1>12. ASSUME Age PROVE ActionsType'
    <2>1. /\ rows' = [n \in DOMAIN rows |-> [rows[n] EXCEPT !.aged = TRUE]]
          /\ UNCHANGED <<status, worker, carried, slips, bots>>
      BY <1>12 DEF Age
    <2>2. \A n \in DOMAIN rows : [rows[n] EXCEPT !.aged = TRUE] \in Row
      <3>1. "open" \in Answers
        BY DEF Answers
      <3>2. QED
        BY <3>1, RowAt, AnswerIsRow DEF ActionsType, Worker
    <2>3. Len(rows) \in Nat /\ DOMAIN rows = 1 .. Len(rows)
      BY DEF ActionsType, Worker
    <2>4. rows' \in Seq(Row) /\ Len(rows') = Len(rows) /\ DOMAIN rows' = DOMAIN rows
      BY <2>1, <2>2, <2>3
    <2>5. QED
      BY <2>1, <2>4 DEF ActionsType, Worker
  <1>13. ASSUME Deploy PROVE ActionsType'
    <2>1. SameRequests /\ bot' \in 0 .. bots' /\ bots <= bots' /\ bots' \in Nat
      BY <1>13 DEF Deploy, SameRequests, ServiceType
    <2>2. QED
      BY <2>1 DEF SameRequests, ActionsType, Worker, ServiceType
  <1>14. ASSUME Crash PROVE ActionsType'
    <2>1. /\ UNCHANGED <<rows, status, carried>> /\ bots <= bots' /\ bots' \in Nat
          /\ SameRequests \/ Leaves
      BY <1>14 DEF Crash, SameRequests, ServiceType
    <2>2. Rests \in Worker'
      BY <2>1 DEF Rests, Answers, ActionsType, Worker
    <2>3. InDoubt \subseteq DOMAIN rows
      BY DEF InDoubt, OpenInv
    <2>4. CASE SameRequests
      BY <2>1, <2>4 DEF SameRequests, ActionsType, Worker, ServiceType
    <2>5. CASE Leaves
      BY <2>1, <2>2, <2>3, <2>5 DEF Leaves, ActionsType
    <2>6. QED
      BY <2>1, <2>4, <2>5
  <1>15. ASSUME Fails PROVE ActionsType'
    <2>1. SameRequests /\ bot' \in 0 .. bots' /\ bots <= bots' /\ bots' \in Nat
      BY <1>15 DEF Fails, SameRequests, ServiceType
    <2>2. QED
      BY <2>1 DEF SameRequests, ActionsType, Worker, ServiceType
  <1>16. ASSUME ApplyConfig PROVE ActionsType'
    <2>1. SameRequests /\ bot' \in 0 .. bots' /\ bots <= bots' /\ bots' \in Nat
      BY <1>16 DEF ApplyConfig, Runs, Cancels, SameRequests, ServiceType
    <2>2. QED
      BY <2>1 DEF SameRequests, ActionsType, Worker, ServiceType
  <1>17. ASSUME Stopped PROVE ActionsType'
    <2>1. /\ UNCHANGED <<rows, status, carried>> /\ bots <= bots' /\ bots' \in Nat
          /\ SameRequests \/ Leaves
      BY <1>17 DEF Stopped, Runs, SameRequests, ServiceType
    <2>2. Rests \in Worker'
      BY <2>1 DEF Rests, Answers, ActionsType, Worker
    <2>3. InDoubt \subseteq DOMAIN rows
      BY DEF InDoubt, OpenInv
    <2>4. CASE SameRequests
      BY <2>1, <2>4 DEF SameRequests, ActionsType, Worker, ServiceType
    <2>5. CASE Leaves
      BY <2>1, <2>2, <2>3, <2>5 DEF Leaves, ActionsType
    <2>6. QED
      BY <2>1, <2>4, <2>5
  <1>18. ASSUME Boot PROVE ActionsType'
    <2>1. SameRequests /\ bot' \in 0 .. bots' /\ bots <= bots' /\ bots' \in Nat
      BY <1>18 DEF Boot, Runs, SameRequests, ServiceType
    <2>2. QED
      BY <2>1 DEF SameRequests, ActionsType, Worker, ServiceType
  <1>19. ASSUME NEW t \in tasks, Start(t) PROVE ActionsType'
    <2>1. SameRequests /\ bot' \in 0 .. bots' /\ bots <= bots' /\ bots' \in Nat
      BY <1>19 DEF Start, SameRequests, ServiceType
    <2>2. QED
      BY <2>1 DEF SameRequests, ActionsType, Worker, ServiceType
  <1>20. ASSUME NEW t \in tasks, Done(t) PROVE ActionsType'
    <2>1. SameRequests /\ bot' \in 0 .. bots' /\ bots <= bots' /\ bots' \in Nat
      BY <1>20 DEF Done, SameRequests, ServiceType
    <2>2. QED
      BY <2>1 DEF SameRequests, ActionsType, Worker, ServiceType
  <1>21. QED
    BY <1>1, <1>2, <1>3, <1>4, <1>5, <1>6, <1>7, <1>8, <1>9, <1>10, <1>11, <1>12, <1>13, <1>14,
       <1>15, <1>16, <1>17, <1>18, <1>19, <1>20
       DEF Next, Polls, Carries, Outside

-----------------------------------------------------------------------------
(* What a step does to the intake *)

Quiet == SameIntake /\ UNCHANGED <<token, svc>>
\* The poller waits or goes on; winds down; leaves its tasks; a new one starts; all that was under
\* way is over.
Pauses ==
  /\ poller \in {"ask", "asked", "pause"} /\ poller' \in {"ask", "pause"}
  /\ UNCHANGED <<who, confirmed, offset, tasks, lockOf, handled, cut, stops, token, svc>>
Winds ==
  /\ poller' = (IF poller = "away" THEN "away" ELSE "drain")
  /\ svc # "exiting" /\ svc' # "down"
  /\ UNCHANGED <<who, confirmed, offset, tasks, lockOf, handled, cut, stops, token>>
Cuts ==
  /\ poller' = "away" /\ svc' = "exiting"
  /\ stops' = IF poller = "away" THEN stops ELSE stops + 1
  /\ UNCHANGED <<who, confirmed, offset, tasks, lockOf, handled, cut, token>>
Begins ==
  /\ poller = "away" /\ svc # "exiting" /\ svc' # "down" /\ offset' = 0
  /\ poller' = "away" \/ (poller' = "ask" /\ token' = "ours")
  /\ UNCHANGED <<who, confirmed, tasks, lockOf, handled, cut, stops>>
Closes ==
  /\ Drops /\ UNCHANGED <<who, confirmed, handled>>
  /\ \/ poller' = "away"
     \/ poller' = "ask" /\ token' = "ours" /\ offset' = 0 /\ svc' # "down"
Moves ==
  \/ Quiet \/ Pauses \/ Winds \/ Cuts \/ Begins \/ Closes \/ Reach
  \/ \E p \in People : Write(p)
  \/ \E last \in 1 .. Len(who) : Receive(last)
  \/ \E t \in tasks : Start(t) \/ Done(t)

\* Every step is one of these.
LEMMA IntakeMoves ==
  ASSUME PollerInv, ServiceType, poller \in {"away", "ask", "asked", "pause", "drain"}, Next
  PROVE  Moves
  <1> USE DEF telegram, database, service, intake
  <1>1. ASSUME Reach PROVE Moves
    BY <1>1 DEF Moves
  <1>2. ASSUME Resume PROVE Moves
    BY <1>2 DEF Resume, Pauses, Moves
  <1>3. ASSUME NEW last \in 1 .. Len(who), Receive(last) PROVE Moves
    BY <1>3 DEF Moves
  <1>4. ASSUME RunActions PROVE Moves
    BY <1>4 DEF RunActions, Quiet, SameIntake, Moves
  <1>5. ASSUME NEW n \in worker.todo, Manage(n) PROVE Moves
    BY <1>5 DEF Manage, Quiet, SameIntake, Moves
  <1>6. ASSUME Tell PROVE Moves
    BY <1>6 DEF Tell, Quiet, SameIntake, Moves
  <1>7. ASSUME Finish PROVE Moves
    BY <1>7 DEF Finish, Quiet, SameIntake, Moves
  <1>8. ASSUME NEW p \in People, Write(p) PROVE Moves
    BY <1>8 DEF Moves
  <1>9. ASSUME NEW kind \in {"approve", "revoke"}, Ask(kind) PROVE Moves
    BY <1>9 DEF Ask, Quiet, SameIntake, Moves
  <1>10. ASSUME NEW kind \in {"approve", "revoke"}, Button(kind) PROVE Moves
    BY <1>10 DEF Button, Quiet, SameIntake, Moves
  <1>11. ASSUME NEW new \in {"ours", "other"}, SaveToken(new) PROVE Moves
    BY <1>11 DEF SaveToken, Quiet, SameIntake, Moves
  <1>12. ASSUME Age PROVE Moves
    BY <1>12 DEF Age, Quiet, SameIntake, Moves
  <1>13. ASSUME Deploy PROVE Moves
    <2>1. CASE svc = "watch"
      BY <1>13, <2>1 DEF Deploy, Cancels, Winds, Moves
    <2>2. CASE svc # "watch"
      BY <1>13, <2>2 DEF Deploy, WaitsNoMore, Cuts, Moves
    <2>3. QED
      BY <2>1, <2>2
  <1>14. ASSUME Crash PROVE Moves
    BY <1>14 DEF Crash, Closes, Moves
  <1>15. ASSUME Fails PROVE Moves
    BY <1>15 DEF Fails, Pauses, Moves
  <1>16. ASSUME ApplyConfig PROVE Moves
    <2>1. CASE bot = 0
      BY <1>16, <2>1 DEF ApplyConfig, Runs, Begins, PollerInv, ServiceType, Moves
    <2>2. CASE bot # 0
      BY <1>16, <2>2 DEF ApplyConfig, Cancels, Winds, Moves
    <2>3. QED
      BY <2>1, <2>2
  <1>17. ASSUME Stopped PROVE Moves
    BY <1>17 DEF Stopped, Runs, Closes, Moves
  <1>18. ASSUME Boot PROVE Moves
    <2>1. Begins
      BY <1>18 DEF Boot, Runs, Begins, PollerInv, ServiceType
    <2>2. QED
      BY <2>1 DEF Moves
  <1>19. ASSUME NEW t \in tasks, Start(t) PROVE Moves
    BY <1>19 DEF Moves
  <1>20. ASSUME NEW t \in tasks, Done(t) PROVE Moves
    BY <1>20 DEF Moves
  <1>21. QED
    BY <1>1, <1>2, <1>3, <1>4, <1>5, <1>6, <1>7, <1>8, <1>9, <1>10, <1>11, <1>12, <1>13, <1>14,
       <1>15, <1>16, <1>17, <1>18, <1>19, <1>20
       DEF Next, Polls, Carries, Outside

-----------------------------------------------------------------------------
(* Intake *)

\* What is asked for next is beyond what the poller has; nobody writes over what was written.
LEMMA Writes ==
  ASSUME IntakeType, NEW p \in People, Write(p)
  PROVE  /\ Len(who) \in Nat /\ Len(who') = Len(who) + 1
         /\ \A n \in 1 .. Len(who) : who'[n] = who[n] /\ handled'[n] = handled[n]
         /\ who'[Len(who')] = p /\ handled'[Len(who')] = 0
         /\ UNCHANGED <<confirmed, service, poller, offset, tasks, lockOf, cut, stops>>
  <1>1. /\ who' = Append(who, p) /\ handled' = Append(handled, 0)
        /\ UNCHANGED <<confirmed, service, poller, offset, tasks, lockOf, cut, stops>>
    BY DEF Write, service
  <1>2. who \in Seq(People) /\ handled \in Seq(Nat) /\ Len(handled) = Len(who)
    BY DEF IntakeType
  <1>3. QED
    BY <1>1, <1>2, AppendProperties

LEMMA TaskIs ==
  ASSUME IntakeType, NEW t \in tasks
  PROVE  t.n \in 1 .. Len(who) /\ who[t.n] \in People /\ t.lock \in Lock /\ t.on \in BOOLEAN
  BY DEF IntakeType, Task

\* A batch begins after all the poller has.
LEMMA Batches ==
  ASSUME IntakeType, PollerInv, OffsetInv, NEW last \in 1 .. Len(who), Receive(last)
  PROVE  /\ \A t \in tasks : t.n < confirmed + 1
         /\ confirmed \in Nat /\ confirmed < last /\ offset' = last + 1
         /\ poller = "asked" /\ poller' = "ask" /\ (offset = 0 \/ offset = confirmed + 1)
         /\ \A t \in tasks' : t \in tasks \/ (t.n \in confirmed + 1 .. last /\ ~t.on)
         /\ \A n \in confirmed + 1 .. last : \E t \in tasks' : t.n = n
         /\ tasks \subseteq tasks'
         /\ UNCHANGED <<who, confirmed, service, handled, cut, stops>>
  <1>1. /\ confirmed < last /\ offset' = last + 1 /\ poller = "asked" /\ poller' = "ask"
        /\ UNCHANGED <<who, confirmed, service, handled, cut, stops>>
    BY DEF Receive, Following, telegram
  <1>2. tasks' = tasks \cup {[n |-> n, lock |-> LockIn(who[n], last), on |-> FALSE] :
                               n \in confirmed + 1 .. last}
    BY DEF Receive
  <1>3. confirmed \in Nat /\ offset \in Nat /\ \A t \in tasks : t.n \in Nat
    BY TaskIs DEF IntakeType
  <1>4. offset = 0 \/ offset = confirmed + 1
    BY <1>1 DEF OffsetInv
  <1>5. \A t \in tasks : t.n < confirmed + 1
    BY <1>1, <1>3, <1>4 DEF OffsetInv
  <1>6. \A n \in confirmed + 1 .. last :
          LET u == [n |-> n, lock |-> LockIn(who[n], last), on |-> FALSE]
          IN  u \in tasks' /\ u.n = n
    BY <1>2
  <1>7. \A t \in tasks' : t \in tasks \/ (t.n \in confirmed + 1 .. last /\ ~t.on)
    BY <1>2
  <1>8. \A n \in confirmed + 1 .. last : \E t \in tasks' : t.n = n
    BY <1>6
  <1>9. tasks \subseteq tasks'
    BY <1>2
  <1>10. QED
    BY <1>1, <1>3, <1>4, <1>5, <1>7, <1>8, <1>9

\* A person's lock is one.
LEMMA LockIsOne ==
  ASSUME NEW l \in Lock
  PROVE  l # NoLock
  <1>1. PICK p \in People, k \in 1 .. Len(who) : l = <<p, k>>
    BY DEF Lock
  <1>2. Len(<<p, k>>) = 2 /\ Len(<<>>) = 0
    OBVIOUS
  <1>3. QED
    BY <1>1, <1>2 DEF NoLock

\* Every step keeps a poller for the tasks.
LEMMA PollerStep ==
  ASSUME IntakeType, PollerInv, OffsetInv, Moves
  PROVE  PollerInv'
  <1> USE DEF telegram, intake, service
  <1>1. ASSUME Quiet PROVE PollerInv'
    BY <1>1 DEF PollerInv, Quiet, SameIntake
  <1>2. ASSUME Pauses PROVE PollerInv'
    BY <1>2 DEF PollerInv, Pauses
  <1>3. ASSUME Winds PROVE PollerInv'
    BY <1>3 DEF PollerInv, Winds
  <1>12. ASSUME Cuts PROVE PollerInv'
    BY <1>12 DEF PollerInv, Cuts
  <1>4. ASSUME Begins PROVE PollerInv'
    BY <1>4 DEF PollerInv, Begins
  <1>5. ASSUME Closes PROVE PollerInv'
    BY <1>5 DEF PollerInv, Closes, Drops
  <1>6. ASSUME Reach PROVE PollerInv'
    BY <1>6 DEF PollerInv, Reach
  <1>7. ASSUME NEW p \in People, Write(p) PROVE PollerInv'
    BY <1>7, Writes DEF PollerInv
  <1>8. ASSUME NEW last \in 1 .. Len(who), Receive(last) PROVE PollerInv'
    BY <1>8, Batches DEF PollerInv
  <1>9. ASSUME NEW t \in tasks, Start(t) PROVE PollerInv'
    BY <1>9 DEF PollerInv, Start
  <1>10. ASSUME NEW t \in tasks, Done(t) PROVE PollerInv'
    BY <1>10 DEF PollerInv, Done
  <1>11. QED
    BY <1>1, <1>2, <1>3, <1>4, <1>5, <1>6, <1>7, <1>8, <1>9, <1>10, <1>12
       DEF Moves

\* Every step keeps the offset beyond what the poller has.
LEMMA OffsetStep ==
  ASSUME IntakeType, PollerInv, OffsetInv, Moves
  PROVE  OffsetInv'
  <1> USE DEF telegram, intake, service
  <1>1. ASSUME Quiet PROVE OffsetInv'
    BY <1>1 DEF OffsetInv, Quiet, SameIntake
  <1>2. ASSUME Pauses PROVE OffsetInv'
    BY <1>2 DEF OffsetInv, Pauses
  <1>3. ASSUME Winds PROVE OffsetInv'
    BY <1>3 DEF OffsetInv, Winds
  <1>12. ASSUME Cuts PROVE OffsetInv'
    BY <1>12 DEF OffsetInv, Cuts
  <1>4. ASSUME Begins PROVE OffsetInv'
    BY <1>4 DEF OffsetInv, PollerInv, Begins
  <1>5. ASSUME Closes PROVE OffsetInv'
    BY <1>5 DEF OffsetInv, Closes, Drops
  <1>6. ASSUME Reach PROVE OffsetInv'
    <2>1. /\ poller = "ask" /\ UNCHANGED <<offset, tasks>>
          /\ confirmed' = IF offset > confirmed + 1 THEN offset - 1 ELSE confirmed
      BY <1>6 DEF Reach
    <2>2. confirmed \in Nat /\ offset \in Nat
      BY DEF IntakeType
    <2>3. QED
      BY <2>1, <2>2 DEF OffsetInv
  <1>7. ASSUME NEW p \in People, Write(p) PROVE OffsetInv'
    BY <1>7, Writes DEF OffsetInv
  <1>8. ASSUME NEW last \in 1 .. Len(who), Receive(last) PROVE OffsetInv'
    <2>1. /\ confirmed' = confirmed /\ confirmed \in Nat /\ offset' = last + 1 /\ poller' = "ask"
          /\ confirmed < last /\ \A t \in tasks : t.n < confirmed + 1
          /\ \A t \in tasks' : t \in tasks \/ t.n \in confirmed + 1 .. last
      BY <1>8, Batches
    <2>2. \A t \in tasks : t.n \in Nat
      BY TaskIs
    <2>3. \A t \in tasks' : t.n < offset'
      BY <2>1, <2>2
    <2>4. QED
      BY <2>1, <2>3 DEF OffsetInv
  <1>9. ASSUME NEW t \in tasks, Start(t) PROVE OffsetInv'
    <2>1. /\ UNCHANGED <<confirmed, offset, poller>> /\ tasks' = (tasks \ {t}) \cup {[t EXCEPT !.on = TRUE]}
      BY <1>9 DEF Start
    <2>2. [t EXCEPT !.on = TRUE].n = t.n
      BY DEF IntakeType, Task
    <2>3. QED
      BY <2>1, <2>2 DEF OffsetInv
  <1>10. ASSUME NEW t \in tasks, Done(t) PROVE OffsetInv'
    BY <1>10 DEF OffsetInv, Done
  <1>11. QED
    BY <1>1, <1>2, <1>3, <1>4, <1>5, <1>6, <1>7, <1>8, <1>9, <1>10, <1>12
       DEF Moves

\* Every step keeps the locks, and the order of each person's updates.
LEMMA LockStep ==
  ASSUME IntakeType, PollerInv, OffsetInv, LockInv, OneByOne, Moves
  PROVE  LockInv' /\ OneByOne'
  <1> USE DEF telegram, intake, service
  <1>1. ASSUME Quiet PROVE LockInv' /\ OneByOne'
    BY <1>1 DEF LockInv, OneByOne, Handling, Quiet, SameIntake
  <1>2. ASSUME Pauses PROVE LockInv' /\ OneByOne'
    BY <1>2 DEF LockInv, OneByOne, Handling, Pauses
  <1>3. ASSUME Winds PROVE LockInv' /\ OneByOne'
    BY <1>3 DEF LockInv, OneByOne, Handling, Winds
  <1>12. ASSUME Cuts PROVE LockInv' /\ OneByOne'
    BY <1>12 DEF LockInv, OneByOne, Handling, Cuts
  <1>4. ASSUME Begins PROVE LockInv' /\ OneByOne'
    BY <1>4 DEF LockInv, OneByOne, Handling, Begins
  <1>5. ASSUME Closes PROVE LockInv' /\ OneByOne'
    BY <1>5 DEF LockInv, OneByOne, Handling, Closes, Drops
  <1>6. ASSUME Reach PROVE LockInv' /\ OneByOne'
    BY <1>6 DEF LockInv, OneByOne, Handling, Reach
  <1>7. ASSUME NEW p \in People, Write(p) PROVE LockInv' /\ OneByOne'
    <2>1. /\ UNCHANGED <<tasks, lockOf>>
          /\ \A t \in tasks : who'[t.n] = who[t.n]
      BY <1>7, Writes, TaskIs
    <2>2. QED
      BY <2>1 DEF LockInv, OneByOne, Handling
  <1>8. ASSUME NEW last \in 1 .. Len(who), Receive(last) PROVE LockInv' /\ OneByOne'
    <2>1. /\ \A t \in tasks' : t \in tasks \/ (t.n \in confirmed + 1 .. last /\ ~t.on)
          /\ \A t \in tasks : t.n < confirmed + 1
          /\ who' = who /\ confirmed \in Nat /\ confirmed < last
      BY <1>8, Batches
    <2>2. \A t \in tasks : t.n \in Nat /\ who[t.n] \in People /\ t.lock \in Lock
      BY TaskIs
    <2>3. \A n \in confirmed + 1 .. last : who[n] \in People
      BY <2>1 DEF IntakeType
    <2>4. /\ tasks' = tasks \cup {[n |-> n, lock |-> LockIn(who[n], last), on |-> FALSE] :
                                    n \in confirmed + 1 .. last}
          /\ lockOf' = [p \in People |-> IF \E n \in confirmed + 1 .. last : who[n] = p
                                         THEN LockIn(p, last) ELSE lockOf[p]]
      BY <1>8 DEF Receive
    <2>5. \A s, t \in tasks' : s.n = t.n => s = t
      <3>1. ASSUME NEW s \in tasks, NEW t \in tasks' \ tasks PROVE s.n # t.n
        BY <2>1, <2>2
      <3>2. ASSUME NEW s \in tasks' \ tasks, NEW t \in tasks' \ tasks, s.n = t.n PROVE s = t
        <4>1. PICK i \in confirmed + 1 .. last :
                s = [n |-> i, lock |-> LockIn(who[i], last), on |-> FALSE]
          BY <2>4, <3>2
        <4>2. PICK j \in confirmed + 1 .. last :
                t = [n |-> j, lock |-> LockIn(who[j], last), on |-> FALSE]
          BY <2>4, <3>2
        <4>3. i = j
          BY <3>2, <4>1, <4>2
        <4>4. QED
          BY <4>1, <4>2, <4>3
      <3>3. QED
        BY <3>1, <3>2 DEF LockInv
    <2>6. \A t \in tasks' : lockOf'[who'[t.n]] = t.lock
      <3>1. ASSUME NEW t \in tasks PROVE lockOf'[who[t.n]] = t.lock
        <4>1. lockOf[who[t.n]] = t.lock /\ t.lock # NoLock
          BY <2>2, LockIsOne DEF LockInv
        <4>2. QED
          BY <2>2, <2>4, <4>1 DEF LockIn
      <3>2. ASSUME NEW n \in confirmed + 1 .. last PROVE lockOf'[who[n]] = LockIn(who[n], last)
        BY <2>3, <2>4
      <3>3. QED
        BY <2>1, <2>4, <3>1, <3>2
    <2>7. OneByOne'
      <3>1. ASSUME NEW t \in tasks, t.on, NEW s \in tasks' \ {t}, who[s.n] = who[t.n]
            PROVE  s.n > t.n /\ ~s.on
        <4>1. CASE s \in tasks
          BY <3>1, <4>1 DEF OneByOne, Handling
        <4>2. CASE s \notin tasks
          BY <2>1, <2>2, <4>2
        <4>3. QED
          BY <4>1, <4>2
      <3>2. \A t \in tasks' : t.on => t \in tasks
        BY <2>1
      <3>3. QED
        BY <2>1, <3>1, <3>2 DEF OneByOne, Handling
    <2>8. QED
      BY <2>5, <2>6, <2>7 DEF LockInv
  <1>9. ASSUME NEW t \in tasks, Start(t) PROVE LockInv' /\ OneByOne'
    <2> DEFINE u == [t EXCEPT !.on = TRUE]
    <2>1. /\ who' = who /\ lockOf' = lockOf /\ tasks' = (tasks \ {t}) \cup {u}
          /\ \A s \in tasks \ {t} : s.lock = t.lock => s.n > t.n
      BY <1>9 DEF Start
    <2>2. u.n = t.n /\ u.lock = t.lock
      BY DEF IntakeType, Task
    <2>3. \A s \in tasks \ {t} : s.n \in Nat /\ t.n \in Nat
      BY TaskIs
    <2> HIDE DEF u
    <2>4. LockInv'
      BY <2>1, <2>2 DEF LockInv
    <2>5. ASSUME NEW s \in tasks \ {t}, who[s.n] = who[t.n] PROVE s.n > t.n /\ ~s.on
      <3>1. s.lock = t.lock
        BY <2>5 DEF LockInv
      <3>2. s.n > t.n
        BY <2>1, <3>1
      <3>3. s.on => t.n > s.n
        BY <2>5 DEF OneByOne, Handling
      <3>4. QED
        BY <2>3, <3>2, <3>3
    <2>6. OneByOne'
      BY <2>1, <2>2, <2>5 DEF OneByOne, Handling
    <2>7. QED
      BY <2>4, <2>6
  <1>10. ASSUME NEW t \in tasks, Done(t) PROVE LockInv' /\ OneByOne'
    <2>1. /\ who' = who /\ tasks' = tasks \ {t}
          /\ lockOf' = IF Forgets(t) THEN [lockOf EXCEPT ![who[t.n]] = NoLock] ELSE lockOf
      BY <1>10 DEF Done
    <2>2. ASSUME NEW s \in tasks' PROVE lockOf'[who[s.n]] = s.lock
      <3>1. lockOf[who[s.n]] = s.lock /\ lockOf[who[t.n]] = t.lock /\ s \in tasks \ {t}
        BY <2>1 DEF LockInv
      <3>2. Forgets(t) => who[s.n] # who[t.n]
        BY <3>1 DEF Forgets
      <3>3. QED
        BY <2>1, <3>1, <3>2, TaskIs DEF IntakeType
    <2>3. LockInv'
      BY <2>1, <2>2 DEF LockInv
    <2>4. QED
      BY <2>1, <2>3 DEF OneByOne, Handling
  <1>11. QED
    BY <1>1, <1>2, <1>3, <1>4, <1>5, <1>6, <1>7, <1>8, <1>9, <1>10, <1>12
       DEF Moves

\* Every step accounts for what was asked past.
LEMMA DropStep ==
  ASSUME IntakeType, PollerInv, OffsetInv, DropInv, Moves
  PROVE  DropInv'
  <1> USE DEF telegram, intake, service
  <1>1. ASSUME Quiet PROVE DropInv'
    <2>1. UNCHANGED <<who, confirmed, handled, cut, tasks>>
      BY <1>1 DEF Quiet, SameIntake
    <2>2. \A n : Accounted(n) <=> Accounted(n)'
      BY <2>1 DEF Accounted
    <2>3. QED
      BY <1>1, <2>1, <2>2 DEF DropInv, Quiet, SameIntake
  <1>2. ASSUME Pauses PROVE DropInv'
    <2>1. UNCHANGED <<who, confirmed, handled, cut, tasks>>
      BY <1>2 DEF Pauses
    <2>2. \A n : Accounted(n) <=> Accounted(n)'
      BY <2>1 DEF Accounted
    <2>3. QED
      BY <1>2, <2>1, <2>2 DEF DropInv, Pauses
  <1>3. ASSUME Winds PROVE DropInv'
    <2>1. UNCHANGED <<who, confirmed, handled, cut, tasks>>
      BY <1>3 DEF Winds
    <2>2. \A n : Accounted(n) <=> Accounted(n)'
      BY <2>1 DEF Accounted
    <2>3. QED
      BY <1>3, <2>1, <2>2 DEF DropInv, Winds
  <1>12. ASSUME Cuts PROVE DropInv'
    <2>1. UNCHANGED <<who, confirmed, handled, cut, tasks>> /\ poller' = "away"
      BY <1>12 DEF Cuts
    <2>2. \A n : Accounted(n) <=> Accounted(n)'
      BY <2>1 DEF Accounted
    <2>3. QED
      BY <2>1, <2>2 DEF DropInv
  <1>4. ASSUME Begins PROVE DropInv'
    <2>1. UNCHANGED <<who, confirmed, handled, cut, tasks>>
      BY <1>4 DEF Begins
    <2>2. \A n : Accounted(n) <=> Accounted(n)'
      BY <2>1 DEF Accounted
    <2>3. QED
      BY <1>4, <2>1, <2>2 DEF DropInv, Begins
  <1>5. ASSUME Closes PROVE DropInv'
    <2>1. \A n : Accounted(n) => Accounted(n)'
      BY <1>5 DEF Closes, Drops, Accounted
    <2>2. confirmed' = confirmed /\ (poller' # "away" => offset' = 0)
      BY <1>5 DEF Closes
    <2>3. QED
      BY <2>1, <2>2 DEF DropInv
  <1>6. ASSUME Reach PROVE DropInv'
    <2>1. /\ poller = "ask" /\ UNCHANGED <<who, offset, tasks, handled, cut>>
          /\ confirmed' = IF offset > confirmed + 1 THEN offset - 1 ELSE confirmed
      BY <1>6 DEF Reach
    <2>2. \A n : Accounted(n) => Accounted(n)'
      BY <2>1 DEF Accounted
    <2>3. confirmed \in Nat /\ offset \in 0 .. Len(who) + 1 /\ Len(who) \in Nat
      BY DEF IntakeType
    <2>4. \A n \in 1 .. confirmed' : Accounted(n)
      <3>1. CASE offset > confirmed + 1
        BY <2>1, <2>3, <3>1 DEF DropInv
      <3>2. CASE ~(offset > confirmed + 1)
        BY <2>1, <3>2 DEF DropInv
      <3>3. QED
        BY <3>1, <3>2
    <2>5. \A n \in 1 .. Len(who) : n < offset => Accounted(n)
      BY <2>1 DEF DropInv
    <2>6. QED
      BY <2>1, <2>2, <2>4, <2>5 DEF DropInv
  <1>7. ASSUME NEW p \in People, Write(p) PROVE DropInv'
    <2>1. /\ Len(who) \in Nat /\ Len(who') = Len(who) + 1 /\ confirmed \in 0 .. Len(who)
          /\ offset \in 0 .. Len(who) + 1 /\ UNCHANGED <<confirmed, poller, offset, tasks, cut>>
          /\ \A n \in 1 .. Len(who) : handled'[n] = handled[n]
      BY <1>7, Writes DEF IntakeType
    <2>2. \A n \in 1 .. Len(who) : Accounted(n) => Accounted(n)'
      BY <2>1 DEF Accounted
    <2>3. QED
      BY <2>1, <2>2 DEF DropInv
  <1>8. ASSUME NEW last \in 1 .. Len(who), Receive(last) PROVE DropInv'
    <2>1. /\ UNCHANGED <<who, confirmed, handled, cut>> /\ tasks \subseteq tasks'
          /\ offset' = last + 1 /\ confirmed \in Nat
          /\ \A n \in confirmed + 1 .. last : \E t \in tasks' : t.n = n
      BY <1>8, Batches
    <2>2. \A n : Accounted(n) => Accounted(n)'
      BY <2>1 DEF Accounted
    <2>3. \A n \in confirmed + 1 .. last : Accounted(n)'
      BY <2>1 DEF Accounted
    <2>4. \A n \in 1 .. confirmed : Accounted(n)
      BY DEF DropInv
    <2>5. \A n \in 1 .. Len(who) : n < last + 1 => n \in 1 .. confirmed \/ n \in confirmed + 1 .. last
      BY <2>1
    <2>6. QED
      BY <2>1, <2>2, <2>3, <2>4, <2>5 DEF DropInv
  <1>9. ASSUME NEW t \in tasks, Start(t) PROVE DropInv'
    <2>1. /\ UNCHANGED <<who, confirmed, offset, poller, handled, cut>>
          /\ tasks' = (tasks \ {t}) \cup {[t EXCEPT !.on = TRUE]}
      BY <1>9 DEF Start
    <2>2. [t EXCEPT !.on = TRUE].n = t.n
      BY DEF IntakeType, Task
    <2>3. \A n : Accounted(n) => Accounted(n)'
      BY <2>1, <2>2 DEF Accounted
    <2>4. QED
      BY <2>1, <2>3 DEF DropInv
  <1>10. ASSUME NEW t \in tasks, Done(t) PROVE DropInv'
    <2>1. /\ UNCHANGED <<who, confirmed, offset, poller, cut>> /\ tasks' = tasks \ {t}
          /\ handled' = [handled EXCEPT ![t.n] = handled[t.n] + 1]
      BY <1>10 DEF Done
    <2>2. t.n \in DOMAIN handled /\ \A n \in 1 .. Len(who) : handled[n] \in Nat
      BY DEF IntakeType, Task
    <2>3. \A n \in 1 .. Len(who) : Accounted(n) => Accounted(n)'
      <3>1. handled'[t.n] > 0 /\ \A n \in 1 .. Len(who) : n # t.n => handled'[n] = handled[n]
        BY <2>1, <2>2 DEF IntakeType
      <3>2. QED
        BY <2>1, <3>1 DEF Accounted
    <2>4. 1 .. confirmed \subseteq 1 .. Len(who)
      BY DEF IntakeType
    <2>5. QED
      BY <2>1, <2>3, <2>4 DEF DropInv
  <1>11. QED
    BY <1>1, <1>2, <1>3, <1>4, <1>5, <1>6, <1>7, <1>8, <1>9, <1>10, <1>12
       DEF Moves

\* Every step keeps the count of handlings.
LEMMA CountStep ==
  ASSUME IntakeType, PollerInv, OffsetInv, LockInv, CountInv, Moves
  PROVE  CountInv'
  <1> USE DEF telegram, intake, service
  <1>1. ASSUME Quiet PROVE CountInv'
    <2>1. UNCHANGED <<who, handled, stops, tasks, offset>> /\ (poller' = "away" <=> poller = "away")
      BY <1>1 DEF Quiet, SameIntake
    <2>2. \A n : (Got(n)' <=> Got(n)) /\ (Waits(n)' <=> Waits(n))
      BY <2>1 DEF Got, Waits
    <2>3. QED
      BY <2>1, <2>2 DEF CountInv, Pollers
  <1>2. ASSUME Pauses PROVE CountInv'
    <2>1. UNCHANGED <<who, handled, stops, tasks, offset>> /\ (poller' = "away" <=> poller = "away")
      BY <1>2 DEF Pauses
    <2>2. \A n : (Got(n)' <=> Got(n)) /\ (Waits(n)' <=> Waits(n))
      BY <2>1 DEF Got, Waits
    <2>3. QED
      BY <2>1, <2>2 DEF CountInv, Pollers
  <1>3. ASSUME Winds PROVE CountInv'
    <2>1. UNCHANGED <<who, handled, stops, tasks, offset>> /\ (poller' = "away" <=> poller = "away")
      BY <1>3 DEF Winds
    <2>2. \A n : (Got(n)' <=> Got(n)) /\ (Waits(n)' <=> Waits(n))
      BY <2>1 DEF Got, Waits
    <2>3. QED
      BY <2>1, <2>2 DEF CountInv, Pollers
  <1>12. ASSUME Cuts PROVE CountInv'
    <2>0. stops \in Nat /\ \A n \in 1 .. Len(who) : handled[n] \in Nat
      BY DEF IntakeType
    <2>1. /\ UNCHANGED <<who, handled, tasks>> /\ poller' = "away"
          /\ stops' = IF poller = "away" THEN stops ELSE stops + 1
      BY <1>12 DEF Cuts
    <2>2. Pollers' = Pollers
      BY <2>0, <2>1 DEF Pollers
    <2>3. \A n : ~Got(n)' /\ (Waits(n)' <=> Waits(n))
      BY <2>1 DEF Got, Waits
    <2>4. \A n \in 1 .. Len(who) : handled[n] <= stops'
      BY <2>0, <2>1 DEF CountInv, Got
    <2>5. QED
      BY <2>1, <2>2, <2>3, <2>4 DEF CountInv
  <1>4. ASSUME Begins PROVE CountInv'
    <2>1. /\ UNCHANGED <<who, handled, stops, tasks>> /\ offset' = 0 /\ poller = "away"
          /\ tasks = {}
      BY <1>4 DEF Begins, PollerInv
    <2>2. \A n \in 1 .. Len(who) : ~Got(n)' /\ ~Got(n) /\ ~Waits(n)'
      BY <2>1 DEF Got, Waits
    <2>3. QED
      BY <2>1, <2>2 DEF CountInv, Pollers
  <1>5. ASSUME Closes PROVE CountInv'
    <2>0. stops \in Nat /\ \A n \in 1 .. Len(who) : handled[n] \in Nat
      BY DEF IntakeType
    <2>1. /\ UNCHANGED <<who, handled>> /\ tasks' = {}
          /\ stops' = IF poller = "away" THEN stops ELSE stops + 1
          /\ poller' # "away" => offset' = 0
      BY <1>5 DEF Closes, Drops
    <2>2. \A n \in 1 .. Len(who) : ~Got(n)' /\ ~Waits(n)'
      BY <2>1 DEF Got, Waits
    <2>3. \A n \in 1 .. Len(who) : handled[n] <= stops'
      BY <2>0, <2>1 DEF CountInv, Got
    <2>4. QED
      BY <2>1, <2>2, <2>3 DEF CountInv
  <1>6. ASSUME Reach PROVE CountInv'
    <2>1. UNCHANGED <<who, handled, stops, tasks, offset>> /\ (poller' = "away" <=> poller = "away")
      BY <1>6 DEF Reach
    <2>2. \A n : (Got(n)' <=> Got(n)) /\ (Waits(n)' <=> Waits(n))
      BY <2>1 DEF Got, Waits
    <2>3. QED
      BY <2>1, <2>2 DEF CountInv, Pollers
  <1>7. ASSUME NEW p \in People, Write(p) PROVE CountInv'
    <2>1. /\ Len(who) \in Nat /\ Len(who') = Len(who) + 1 /\ stops \in Nat
          /\ UNCHANGED <<poller, offset, tasks, stops>>
          /\ \A n \in 1 .. Len(who) : handled'[n] = handled[n]
          /\ handled'[Len(who')] = 0
      BY <1>7, Writes DEF IntakeType
    <2>2. \A n \in 1 .. Len(who') : n \in 1 .. Len(who) \/ n = Len(who')
      BY <2>1
    <2>3. \A t \in tasks' : t.n # Len(who')
      BY <2>1, TaskIs
    <2>4. QED
      BY <2>1, <2>2, <2>3 DEF CountInv, Got, Waits, Pollers
  <1>8. ASSUME NEW last \in 1 .. Len(who), Receive(last) PROVE CountInv'
    <2>0. stops \in Nat /\ \A n \in 1 .. Len(who) : handled[n] \in Nat
      BY DEF IntakeType
    <2>1. /\ UNCHANGED <<who, handled, stops>> /\ poller = "asked" /\ poller' = "ask"
          /\ offset' = last + 1 /\ confirmed \in Nat /\ confirmed < last
          /\ offset = 0 \/ offset = confirmed + 1
          /\ \A t \in tasks' : t \in tasks \/ t.n \in confirmed + 1 .. last
      BY <1>8, Batches
    <2>2. ASSUME NEW n \in 1 .. Len(who)
          PROVE  /\ handled[n] <= IF Got(n)' THEN 1 + stops ELSE stops
                 /\ Waits(n)' => handled[n] <= stops
      <3>1. n \in confirmed + 1 .. last => ~Got(n)
        BY <2>1 DEF Got
      <3>2. /\ n \in confirmed + 1 .. last => handled[n] <= stops
            /\ Waits(n) => handled[n] <= stops
        BY <2>0, <2>1, <3>1 DEF CountInv, Pollers
      <3>3. Got(n) => Got(n)'
        BY <2>1 DEF Got
      <3>4. handled[n] <= IF Got(n)' THEN 1 + stops ELSE stops
        BY <2>0, <3>3 DEF CountInv
      <3>5. Waits(n)' => Waits(n) \/ n \in confirmed + 1 .. last
        BY <2>1 DEF Waits
      <3>6. QED
        BY <3>2, <3>4, <3>5
    <2>3. Pollers' = 1 + stops
      BY <2>1 DEF Pollers
    <2>4. QED
      BY <2>0, <2>1, <2>2, <2>3 DEF CountInv
  <1>9. ASSUME NEW t \in tasks, Start(t) PROVE CountInv'
    <2>1. /\ UNCHANGED <<who, offset, poller, handled, stops>>
          /\ tasks' = (tasks \ {t}) \cup {[t EXCEPT !.on = TRUE]}
      BY <1>9 DEF Start
    <2>2. [t EXCEPT !.on = TRUE].n = t.n
      BY DEF IntakeType, Task
    <2>3. \A n : Waits(n)' => Waits(n)
      BY <2>1, <2>2 DEF Waits
    <2>4. \A n : Got(n)' <=> Got(n)
      BY <2>1 DEF Got
    <2>5. QED
      BY <2>1, <2>3, <2>4 DEF CountInv, Pollers
  <1>10. ASSUME NEW t \in tasks, Done(t) PROVE CountInv'
    <2>0. stops \in Nat /\ \A n \in 1 .. Len(who) : handled[n] \in Nat
      BY DEF IntakeType
    <2>1. /\ UNCHANGED <<who, offset, poller, stops>> /\ tasks' = tasks \ {t}
          /\ handled' = [handled EXCEPT ![t.n] = handled[t.n] + 1]
      BY <1>10 DEF Done
    <2>2. /\ Waits(t.n) /\ t.n \in 1 .. Len(who)
          /\ poller # "away" => Got(t.n)
      BY TaskIs DEF OffsetInv, Got, Waits
    <2>3. ~Waits(t.n)'
      BY <2>1 DEF Waits, LockInv
    <2>4. \A n : (Got(n)' <=> Got(n)) /\ (Waits(n)' => Waits(n))
      BY <2>1 DEF Got, Waits
    <2>5. /\ handled'[t.n] = handled[t.n] + 1
          /\ \A n \in 1 .. Len(who) : n # t.n => handled'[n] = handled[n]
      BY <2>1, <2>2 DEF IntakeType
    <2>6. handled'[t.n] <= IF Got(t.n) THEN 1 + stops ELSE stops
      BY <2>0, <2>2, <2>5 DEF CountInv, Pollers, Got
    <2>7. ASSUME NEW n \in 1 .. Len(who)
          PROVE  /\ handled'[n] <= IF Got(n)' THEN 1 + stops ELSE stops
                 /\ Waits(n)' => handled'[n] < Pollers
      <3>1. CASE n = t.n
        BY <2>3, <2>4, <2>6, <3>1
      <3>2. CASE n # t.n
        BY <2>4, <2>5, <3>2 DEF CountInv
      <3>3. QED
        BY <3>1, <3>2
    <2>8. Pollers' = Pollers
      BY <2>1 DEF Pollers
    <2>9. QED
      BY <2>1, <2>7, <2>8 DEF CountInv
  <1>11. QED
    BY <1>1, <1>2, <1>3, <1>4, <1>5, <1>6, <1>7, <1>8, <1>9, <1>10, <1>12
       DEF Moves

-----------------------------------------------------------------------------
(* Requests *)

\* What the requests are, one by one.
LEMMA RequestsAre ==
  ASSUME ActionsType
  PROVE  /\ DOMAIN rows = 1 .. Len(rows) /\ Len(rows) \in Nat /\ DOMAIN carried = DOMAIN rows
         /\ \A n \in DOMAIN rows : carried[n] \in Nat /\ rows[n] \in Row
         /\ worker \in Worker /\ slips \subseteq DOMAIN rows /\ worker.todo \subseteq DOMAIN rows
  BY RowAt DEF ActionsType, Worker

LEMMA SameRequestInv ==
  ASSUME RequestInv, UNCHANGED <<rows, worker, carried, slips>>
  PROVE  RequestInv'
  BY DEF RequestInv, OpenInv, CarriedInv, InHand, AnswersAreTrue

\* A round that ends early leaves a request in hand open, and in doubt once it was carried out.
LEMMA LeavesRequests ==
  ASSUME ActionsType, RequestInv, worker' = Rests, slips' = slips \cup InDoubt,
         UNCHANGED <<rows, carried>>
  PROVE  RequestInv'
  <1>1. worker'.pc = "rest" /\ worker'.todo = {}
    BY DEF Rests
  <1>2. ASSUME NEW n \in DOMAIN rows, n \notin slips', rows[n].state = "open" PROVE carried[n] = 0
    <2>1. CASE InHand(n)
      BY <1>2, <2>1, RequestsAre DEF InHand, InDoubt
    <2>2. CASE ~InHand(n)
      BY <1>2, <2>2 DEF RequestInv, CarriedInv
    <2>3. QED
      BY <2>1, <2>2
  <1>3. OpenInv'
    BY <1>1 DEF OpenInv
  <1>4. CarriedInv'
    BY <1>1, <1>2 DEF RequestInv, CarriedInv
  <1>5. AnswersAreTrue'
    BY DEF RequestInv, AnswersAreTrue
  <1>6. QED
    BY <1>3, <1>4, <1>5 DEF RequestInv

\* Every step keeps what is so of the requests.
LEMMA RequestStep ==
  ASSUME ActionsType, RequestInv, Next
  PROVE  RequestInv'
  <1> USE DEF database, actions
  <1>1. ASSUME Reach PROVE RequestInv'
    BY <1>1, SameRequestInv DEF Reach
  <1>2. ASSUME Resume PROVE RequestInv'
    BY <1>2, SameRequestInv DEF Resume
  <1>3. ASSUME NEW last \in 1 .. Len(who), Receive(last) PROVE RequestInv'
    BY <1>3, SameRequestInv DEF Receive
  <1>4. ASSUME RunActions PROVE RequestInv'
    <2> DEFINE todo == {n \in Waiting : Cardinality({m \in Waiting : m < n}) < Batch}
    <2>1. /\ UNCHANGED <<rows, carried, slips>> /\ worker.pc = "rest"
          /\ worker' = [Rests EXCEPT !.pc = "next", !.todo = todo, !.bot = bot]
      BY <1>4 DEF RunActions
    <2>2. todo \subseteq Waiting
      OBVIOUS
    <2> HIDE DEF todo
    <2>3. worker'.pc = "next" /\ worker'.todo = todo
      BY <2>1 DEF Rests
    <2>4. OpenInv'
      BY <2>1, <2>2, <2>3 DEF OpenInv, Waiting
    <2>5. CarriedInv'
      BY <2>1, <2>3 DEF RequestInv, CarriedInv, InHand
    <2>6. AnswersAreTrue'
      BY <2>1 DEF RequestInv, AnswersAreTrue
    <2>7. QED
      BY <2>4, <2>5, <2>6 DEF RequestInv
  <1>5. ASSUME NEW n \in worker.todo, Manage(n) PROVE RequestInv'
    <2>1. /\ worker.pc = "next" /\ UNCHANGED <<rows, slips>>
          /\ \/ Goes(n, "finish", "late") /\ carried' = carried
             \/ Goes(n, "finish", "failed") /\ carried' = carried
             \/ Goes(n, "tell", "open") /\ carried' = [carried EXCEPT ![n] = carried[n] + 1]
      BY <1>5 DEF Manage
    <2>2. /\ n \in DOMAIN rows /\ DOMAIN carried = DOMAIN rows /\ rows[n].state = "open"
          /\ \A m \in DOMAIN rows : carried[m] \in Nat
      BY RequestsAre DEF RequestInv, OpenInv
    <2>3. /\ worker'.row = n /\ worker'.todo = worker.todo \ {n}
          /\ \/ worker'.pc = "finish" /\ worker'.answer \in {"late", "failed"} /\ carried' = carried
             \/ /\ worker'.pc = "tell" /\ carried'[n] = carried[n] + 1
                /\ \A m \in DOMAIN rows \ {n} : carried'[m] = carried[m]
      BY <2>1, <2>2, RequestsAre DEF Goes, Worker
    <2>4. n \notin slips => carried[n] = 0
      BY <2>1, <2>2 DEF RequestInv, CarriedInv, InHand
    <2>5. OpenInv'
      BY <2>1, <2>2, <2>3 DEF RequestInv, OpenInv
    <2>6. ASSUME NEW m \in DOMAIN rows, m \notin slips
          PROVE  carried'[m] <= 1 /\ (rows[m].state = "open" /\ m # n => carried'[m] = 0)
      <3>1. CASE m = n
        BY <2>2, <2>3, <2>4, <2>6, <3>1
      <3>2. CASE m # n
        <4>1. carried'[m] = carried[m]
          BY <2>3, <2>6, <3>2
        <4>2. QED
          BY <2>1, <2>6, <4>1 DEF RequestInv, CarriedInv, InHand
      <3>3. QED
        BY <3>1, <3>2
    <2>7. CarriedInv'
      BY <2>1, <2>2, <2>3, <2>4, <2>6 DEF CarriedInv, InHand
    <2>8. AnswersAreTrue'
      BY <2>1, <2>2, <2>3, <2>6 DEF RequestInv, AnswersAreTrue
    <2>9. QED
      BY <2>5, <2>7, <2>8 DEF RequestInv
  <1>6. ASSUME Tell PROVE RequestInv'
    <2>1. /\ worker.pc = "tell" /\ UNCHANGED <<rows, carried, slips>>
          /\ worker'.pc = "finish" /\ worker'.answer \in {"done", "failed"}
          /\ worker'.row = worker.row /\ worker'.todo = worker.todo
      BY <1>6, RequestsAre DEF Tell, Concludes, Worker
    <2>2. OpenInv'
      BY <2>1 DEF RequestInv, OpenInv
    <2>3. CarriedInv'
      BY <2>1 DEF RequestInv, CarriedInv, InHand
    <2>4. AnswersAreTrue'
      BY <2>1 DEF RequestInv, AnswersAreTrue
    <2>5. QED
      BY <2>2, <2>3, <2>4 DEF RequestInv
  <1>7. ASSUME Finish PROVE RequestInv'
    <2>1. worker.pc = "finish" /\ carried' = carried
      BY <1>7 DEF Finish
    <2>2. CASE worker' = Rests /\ slips' = slips \cup InDoubt /\ rows' = rows
      BY <2>1, <2>2, LeavesRequests
    <2>3. CASE /\ rows' = [rows EXCEPT ![worker.row].state = worker.answer] /\ slips' = slips
               /\ worker' = IF worker.todo = {} THEN Rests
                            ELSE [Rests EXCEPT !.pc = "next", !.todo = worker.todo,
                                               !.bot = worker.bot]
      <3>1. worker'.pc \in {"rest", "next"} /\ worker'.todo = worker.todo
        BY <2>3 DEF Rests
      <3>2. /\ worker.row \in DOMAIN rows \ worker.todo /\ worker.answer # "open"
            /\ \A n \in worker.todo : n \in DOMAIN rows /\ rows[n].state = "open"
        BY <2>1, RequestsAre DEF RequestInv, OpenInv, CarriedInv
      <3>3. /\ DOMAIN rows' = DOMAIN rows /\ rows'[worker.row].state = worker.answer
            /\ \A n \in DOMAIN rows \ {worker.row} : rows'[n] = rows[n]
        <4>1. rows[worker.row] \in Row
          BY <3>2, RequestsAre
        <4>2. rows' = [rows EXCEPT ![worker.row] = [rows[worker.row] EXCEPT !.state = worker.answer]]
          BY <2>3
        <4>3. [rows[worker.row] EXCEPT !.state = worker.answer].state = worker.answer
          BY <4>1 DEF Row
        <4>4. QED
          BY <3>2, <4>2, <4>3
      <3>4. OpenInv'
        BY <3>1, <3>2, <3>3 DEF OpenInv
      <3>5. CarriedInv'
        BY <2>1, <2>3, <3>1, <3>2, <3>3 DEF RequestInv, CarriedInv, InHand
      <3>6. AnswersAreTrue'
        BY <2>1, <2>3, <3>2, <3>3 DEF RequestInv, CarriedInv, AnswersAreTrue
      <3>7. QED
        BY <3>4, <3>5, <3>6 DEF RequestInv
    <2>4. QED
      BY <1>7, <2>2, <2>3 DEF Finish
  <1>8. ASSUME NEW p \in People, Write(p) PROVE RequestInv'
    BY <1>8, SameRequestInv DEF Write
  <1>9. ASSUME NEW kind \in {"approve", "revoke"}, Ask(kind) PROVE RequestInv'
    <2>1. /\ rows' = Append(rows, [kind |-> kind, aged |-> FALSE, state |-> "open"])
          /\ carried' = Append(carried, 0) /\ UNCHANGED <<worker, slips>>
      BY <1>9 DEF Ask
    <2>2. rows \in Seq(Row) /\ carried \in Seq(Nat) /\ Len(carried) = Len(rows)
      BY DEF ActionsType
    <2>3. /\ DOMAIN rows' = DOMAIN rows \cup {Len(rows) + 1} /\ Len(rows) + 1 \notin DOMAIN rows
          /\ \A n \in DOMAIN rows : rows'[n] = rows[n] /\ carried'[n] = carried[n]
          /\ rows'[Len(rows) + 1].state = "open" /\ carried'[Len(rows) + 1] = 0
      BY <2>1, <2>2, AppendProperties
    <2>4. slips \subseteq DOMAIN rows /\ worker.todo \subseteq DOMAIN rows
      BY RequestsAre
    <2>5. OpenInv'
      BY <2>1, <2>3, <2>4 DEF RequestInv, OpenInv
    <2>6. CarriedInv'
      <3>1. ASSUME NEW n \in DOMAIN rows', n \notin slips
            PROVE  carried'[n] <= 1 /\ (rows'[n].state = "open" /\ ~InHand(n) => carried'[n] = 0)
        <4>1. CASE n \in DOMAIN rows
          BY <2>3, <3>1, <4>1 DEF RequestInv, CarriedInv
        <4>2. CASE n = Len(rows) + 1
          BY <2>3, <4>2
        <4>3. QED
          BY <2>3, <4>1, <4>2
      <3>2. \A n : InHand(n)' <=> InHand(n)
        BY <2>1 DEF InHand
      <3>3. worker.pc \in {"tell", "finish"} => carried'[worker.row] = carried[worker.row]
        BY <2>3 DEF RequestInv, OpenInv
      <3>4. QED
        BY <2>1, <3>1, <3>2, <3>3 DEF RequestInv, CarriedInv
    <2>7. AnswersAreTrue'
      <3>1. ASSUME NEW n \in DOMAIN rows'
            PROVE  /\ rows'[n].state = "done" => carried'[n] > 0
                   /\ n \notin slips =>
                        carried'[n] <= 1 /\ (rows'[n].state = "late" => carried'[n] = 0)
        <4>1. CASE n \in DOMAIN rows
          BY <2>3, <4>1 DEF RequestInv, AnswersAreTrue
        <4>2. CASE n = Len(rows) + 1
          BY <2>3, <4>2
        <4>3. QED
          BY <2>3, <4>1, <4>2
      <3>2. QED
        BY <2>1, <3>1 DEF AnswersAreTrue
    <2>8. QED
      BY <2>5, <2>6, <2>7 DEF RequestInv
  <1>10. ASSUME NEW kind \in {"approve", "revoke"}, Button(kind) PROVE RequestInv'
    BY <1>10, SameRequestInv DEF Button
  <1>11. ASSUME NEW new \in {"ours", "other"}, SaveToken(new) PROVE RequestInv'
    BY <1>11, SameRequestInv DEF SaveToken
  <1>12. ASSUME Age PROVE RequestInv'
    <2>1. /\ rows' = [n \in DOMAIN rows |-> [rows[n] EXCEPT !.aged = TRUE]]
          /\ UNCHANGED <<worker, carried, slips>>
      BY <1>12 DEF Age
    <2>2. DOMAIN rows' = DOMAIN rows /\ \A n \in DOMAIN rows : rows'[n].state = rows[n].state
      BY <2>1, RequestsAre DEF Row
    <2>3. worker.todo \subseteq DOMAIN rows
      BY RequestsAre
    <2>4. OpenInv' /\ CarriedInv' /\ AnswersAreTrue'
      BY <2>1, <2>2, <2>3 DEF RequestInv, OpenInv, CarriedInv, InHand, AnswersAreTrue
    <2>5. QED
      BY <2>4 DEF RequestInv
  <1>13. ASSUME Deploy PROVE RequestInv'
    BY <1>13, SameRequestInv DEF Deploy
  <1>14. ASSUME Crash PROVE RequestInv'
    BY <1>14, LeavesRequests DEF Crash, Leaves
  <1>15. ASSUME Fails PROVE RequestInv'
    BY <1>15, SameRequestInv DEF Fails
  <1>16. ASSUME ApplyConfig PROVE RequestInv'
    BY <1>16, SameRequestInv DEF ApplyConfig
  <1>17. ASSUME Stopped PROVE RequestInv'
    <2>1. carried' = carried /\ rows' = rows
      BY <1>17 DEF Stopped
    <2>2. \/ worker' = worker /\ slips' = slips
          \/ worker' = Rests /\ slips' = slips \cup InDoubt
      BY <1>17 DEF Stopped, Leaves
    <2>3. QED
      BY <2>1, <2>2, LeavesRequests, SameRequestInv
  <1>18. ASSUME Boot PROVE RequestInv'
    BY <1>18, SameRequestInv DEF Boot
  <1>19. ASSUME NEW t \in tasks, Start(t) PROVE RequestInv'
    BY <1>19, SameRequestInv DEF Start
  <1>20. ASSUME NEW t \in tasks, Done(t) PROVE RequestInv'
    BY <1>20, SameRequestInv DEF Done
  <1>21. QED
    BY <1>1, <1>2, <1>3, <1>4, <1>5, <1>6, <1>7, <1>8, <1>9, <1>10, <1>11, <1>12, <1>13, <1>14,
       <1>15, <1>16, <1>17, <1>18, <1>19, <1>20
       DEF Next, Polls, Carries, Outside

-----------------------------------------------------------------------------
(* The theorems *)

LEMMA InitIsGood ==
  ASSUME Init
  PROVE  IInv
  <1>1. IntakeType
    BY DEF Init, IntakeType, Lock, Task
  <1>2. ServiceType
    BY DEF Init, ServiceType
  <1>3. ActionsType
    BY DEF Init, ActionsType, Worker, Rests, Answers
  <1>4. IntakeInv
    <2>1. PollerInv /\ OffsetInv /\ LockInv /\ OneByOne
      BY DEF Init, PollerInv, OffsetInv, LockInv, OneByOne, Handling
    <2>2. DropInv /\ CountInv
      BY DEF Init, DropInv, CountInv
    <2>3. QED
      BY <2>1, <2>2 DEF IntakeInv
  <1>5. RequestInv
    BY DEF Init, RequestInv, OpenInv, CarriedInv, AnswersAreTrue, Rests
  <1>6. QED
    BY <1>1, <1>2, <1>3, <1>4, <1>5 DEF IInv

LEMMA StepIsGood ==
  ASSUME IInv, [Next]_vars
  PROVE  IInv'
  <1>1. CASE Next
    <2>1. /\ IntakeType /\ ServiceType /\ ActionsType
          /\ PollerInv /\ OffsetInv /\ LockInv /\ OneByOne /\ DropInv /\ CountInv
          /\ RequestInv /\ OpenInv
      BY DEF IInv, IntakeInv, RequestInv
    <2>2. Moves
      BY <1>1, <2>1, IntakeMoves DEF IntakeType
    <2>3. IntakeType' /\ ServiceType' /\ ActionsType'
      BY <1>1, <2>1, IntakeStep, ServiceStep, ActionsStep
    <2>4. PollerInv' /\ OffsetInv' /\ LockInv' /\ OneByOne' /\ DropInv' /\ CountInv'
      BY <2>1, <2>2, PollerStep, OffsetStep, LockStep, DropStep, CountStep
    <2>5. RequestInv'
      BY <1>1, <2>1, RequestStep
    <2>6. QED
      BY <2>3, <2>4, <2>5 DEF IInv, IntakeInv
  <1>2. CASE UNCHANGED vars
    <2>1. UNCHANGED <<who, confirmed, config, rows, status, svc, token, bot, bots, poller, offset>>
      BY <1>2 DEF vars, telegram, database, service, intake
    <2>2. UNCHANGED <<tasks, lockOf, handled, cut, stops, worker, carried, slips>>
      BY <1>2 DEF vars, intake, actions
    <2>3. IntakeType' /\ ServiceType' /\ ActionsType'
      <3>1. IntakeType'
        BY <2>1, <2>2, SameIntakeType DEF IInv, SameIntake
      <3>2. ServiceType'
        BY <2>1 DEF IInv, ServiceType
      <3>3. ActionsType'
        BY <2>1, <2>2 DEF IInv, ActionsType, Worker
      <3>4. QED
        BY <3>1, <3>2, <3>3
    <2>4. Quiet
      BY <2>1, <2>2 DEF Quiet, SameIntake
    <2>5. Moves
      BY <2>4 DEF Moves
    <2>6. PollerInv' /\ OffsetInv' /\ LockInv' /\ OneByOne' /\ DropInv' /\ CountInv'
      BY <2>5, PollerStep, OffsetStep, LockStep, DropStep, CountStep DEF IInv, IntakeInv
    <2>7. RequestInv'
      BY <2>1, <2>2, SameRequestInv DEF IInv
    <2>8. QED
      BY <2>3, <2>6, <2>7 DEF IInv, IntakeInv
  <1>3. QED
    BY <1>1, <1>2

LEMMA Inductive == Spec => []IInv
  <1>1. QED
    BY InitIsGood, StepIsGood, PTL DEF Spec

\* Every variable keeps its type.
THEOREM TypeCorrect == Spec => []TypeOK
  <1>1. IInv => TypeOK
    BY TypesAre DEF IInv, Types
  <1>2. QED
    BY <1>1, Inductive, PTL

\* Nobody's updates overtake each other, and no two of a person are handled at once.
THEOREM InOrder == Spec => []OneByOne
  <1>1. IInv => OneByOne
    BY DEF IInv, IntakeInv
  <1>2. QED
    BY <1>1, Inductive, PTL

\* What Telegram no longer has was handled, or is to be, or was cut short by a stop or a crash.
THEOREM NoneDropped == Spec => []NothingDropped
  <1>1. IInv => NothingDropped
    BY DEF IInv, IntakeInv, DropInv, Accounted, NothingDropped
  <1>2. QED
    BY <1>1, Inductive, PTL

\* An update is handled again only as often as a poller ended.
THEOREM RepeatsBounded == Spec => []AgainOnlyAfterStop
  <1>1. ASSUME IInv PROVE AgainOnlyAfterStop
    <2>1. /\ stops \in Nat /\ \A n \in 1 .. Len(who) : handled[n] \in Nat
          /\ CountInv /\ LockInv
      BY <1>1 DEF IInv, IntakeInv, IntakeType
    <2>2. ASSUME NEW n \in 1 .. Len(who)
          PROVE  handled[n] + Cardinality({t \in tasks : t.n = n}) <= 1 + stops
      <3>1. CASE Waits(n)
        <4>1. PICK u \in tasks : u.n = n
          BY <3>1 DEF Waits
        <4>2. {t \in tasks : t.n = n} = {u}
          BY <2>1, <4>1 DEF LockInv
        <4>3. Cardinality({t \in tasks : t.n = n}) = 1
          BY <4>2, FS_Singleton
        <4>4. handled[n] <= stops
          BY <2>1, <3>1 DEF CountInv, Pollers
        <4>5. QED
          BY <2>1, <4>3, <4>4
      <3>2. CASE ~Waits(n)
        <4>1. {t \in tasks : t.n = n} = {}
          BY <3>2 DEF Waits
        <4>2. Cardinality({t \in tasks : t.n = n}) = 0
          BY <4>1, FS_EmptySet
        <4>3. handled[n] <= 1 + stops
          BY <2>1 DEF CountInv
        <4>4. QED
          BY <2>1, <4>2, <4>3
      <3>3. QED
        BY <3>1, <3>2
    <2>3. QED
      BY <2>2 DEF AgainOnlyAfterStop
  <1>2. QED
    BY <1>1, Inductive, PTL

\* What the page reads of a request is so.
THEOREM TruthfulAnswers == Spec => []AnswersAreTrue
  <1>1. IInv => AnswersAreTrue
    BY DEF IInv, RequestInv
  <1>2. QED
    BY <1>1, Inductive, PTL
================================================================================
