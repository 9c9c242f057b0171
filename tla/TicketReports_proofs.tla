------------------------ MODULE TicketReports_proofs ------------------------
(***************************************************************************)
(* Proofs about TicketReports, for every set of tasks and every bound:     *)
(* type correctness; and, as long as the check never starts while a lock   *)
(* changes hands, mutual exclusion of the refreshes of a task, and from it *)
(* that the watermark of a ticket never goes back.                         *)
(***************************************************************************)
EXTENDS TicketReports, SequenceTheorems, TLAPS

-----------------------------------------------------------------------------
(* The workers inside a refresh hold its lock. *)
LockInv ==
  /\ orphan = [t \in Tasks |-> FreeLock]
  /\ \A wk \in Workers : Inside(wk) => locks[run[wk].task].holder = wk

(* What the worker that holds the lock knows of the watermark. *)
MarkOf(wk) ==
  LET r == run[wk]
      mark == ticket[r.task].mark
  IN /\ Inside(wk) /\ pc[wk] \notin {"ticket", "relay", "relaysave"} => mark = r.old.mark
     /\ pc[wk] = "skipsave" => mark <= r.newest
     /\ pc[wk] \in {"relay", "relaysave"} => mark <= r.newest /\ r.newest <= r.upto
MarkInv == \A wk \in Workers : MarkOf(wk)

IInv == TypeOK /\ LockInv /\ MarkInv

-----------------------------------------------------------------------------
(* Types. *)

LEMMA StartColumnType == StartColumn \in Open
  BY ColumnsAssumption DEF StartColumn

LEMMA BlankType == \A t \in Tasks, chat \in BOOLEAN : Blank(t, chat) \in Run
  BY StartColumnType DEF Blank, Run, NewTicket, NewTask, Ticket, Task, Columns, InProject

LEMMA FreeLockType == FreeLock \in Lock
  BY EmptySeq DEF FreeLock, Lock

LEMMA ReleasedType ==
  ASSUME NEW table \in [Tasks -> Lock], NEW t \in Tasks, NEW wk
  PROVE  Released(table, t, wk) \in [Tasks -> Lock]
  BY DEF Released, Lock

LEMMA AcquiredType ==
  ASSUME NEW table \in [Tasks -> Lock], NEW t \in Tasks, NEW wk \in Workers
  PROVE  Acquired(table, t, wk) \in [Tasks -> Lock]
  <1>1. Append(table[t].waiters, wk) \in Seq(Workers)
    BY AppendProperties DEF Lock
  <1>2. QED
    BY <1>1 DEF Acquired, Lock

\* A worker that enters a refresh keeps the types of what it changes.
LEMMA EntersType ==
  ASSUME WorkersOK, NEW table \in [Tasks -> Lock], NEW t \in Tasks, NEW wk \in Workers,
         NEW chat \in BOOLEAN, Enters(wk, t, chat, table)
  PROVE  locks' \in [Tasks -> Lock] /\ WorkersOK'
  BY AcquiredType, BlankType DEF Enters, WorkersOK, Phases

\* So does one that leaves it.
LEMMA EndType ==
  ASSUME MemoryOK, WorkersOK, NEW wk \in Workers, NEW ok \in BOOLEAN, End(wk, ok)
  PROVE  MemoryOK' /\ WorkersOK'
  <1> DEFINE t == run[wk].task
             table == Released(locks, t, wk)
  <1>1. t \in Tasks /\ run[wk].chat \in BOOLEAN
    BY DEF WorkersOK, Run
  <1>2. table \in [Tasks -> Lock] /\ orphan' \in [Tasks -> Lock]
    BY <1>1, ReleasedType DEF End, MemoryOK
  <1>3. fresh' \subseteq Tasks /\ first' \in BOOLEAN
    BY <1>1 DEF End, MemoryOK
  <1>4. CASE EventGoesOn(wk, ok)
    <2>1. pending' \subseteq Tasks /\ todo' \in [{Retry, Check} -> SUBSET Tasks]
      BY <1>1, <1>4 DEF EventGoesOn, EventLeaves, MemoryOK
    <2>2. CASE dirty[t] = "no"
      BY <1>1, <1>2, <1>3, <1>4, <2>1, <2>2, BlankType DEF EventGoesOn, MemoryOK, WorkersOK
    <2>3. CASE dirty[t] # "no"
      <3>1. Enters(wk, t, dirty[t] = "chat", table)
        BY <1>4, <2>3 DEF EventGoesOn
      <3>2. locks' \in [Tasks -> Lock] /\ WorkersOK'
        BY <1>1, <1>2, <3>1, EntersType
      <3>3. QED
        BY <1>1, <1>2, <1>3, <1>4, <2>1, <2>3, <3>2 DEF EventGoesOn, MemoryOK
    <2>4. QED
      BY <2>2, <2>3
  <1>5. CASE RetryGoesOn(wk, ok)
    <2>1. pending' \subseteq Tasks /\ UNCHANGED <<busy, dirty>>
      BY <1>1, <1>5 DEF RetryGoesOn, RetryLeaves, MemoryOK
    <2>2. CASE /\ locks' = table /\ pc' = [pc EXCEPT ![wk] = "idle"]
               /\ run' = [run EXCEPT ![wk] = Blank(t, TRUE)] /\ UNCHANGED todo
      BY <1>1, <1>2, <1>3, <2>1, <2>2, BlankType DEF MemoryOK, WorkersOK
    <2>3. CASE \E next \in todo[wk] : /\ todo' = [todo EXCEPT ![wk] = @ \ {next}]
                                      /\ Enters(wk, next, TRUE, table)
      <3>1. PICK next \in todo[wk] : /\ todo' = [todo EXCEPT ![wk] = @ \ {next}]
                                     /\ Enters(wk, next, TRUE, table)
        BY <2>3
      <3>2. next \in Tasks
        BY <1>5 DEF RetryGoesOn, MemoryOK
      <3>3. locks' \in [Tasks -> Lock] /\ WorkersOK'
        BY <1>2, <3>1, <3>2, EntersType
      <3>4. todo' \in [{Retry, Check} -> SUBSET Tasks]
        BY <3>1 DEF MemoryOK
      <3>5. QED
        BY <1>2, <1>3, <2>1, <3>3, <3>4 DEF MemoryOK
    <2>4. QED
      BY <1>5, <2>2, <2>3 DEF RetryGoesOn
  <1>6. CASE CheckGoesOn(wk, ok)
    BY <1>1, <1>2, <1>3, <1>6, BlankType DEF CheckGoesOn, MemoryOK, WorkersOK
  <1>7. QED
    BY <1>4, <1>5, <1>6 DEF End

LEMMA GotoType ==
  ASSUME MemoryOK, NEW wk, NEW phase, Goto(wk, phase)
  PROVE  MemoryOK'
  BY DEF Goto, memory, MemoryOK

LEMMA OutsideType ==
  ASSUME OutsideOK, UNCHANGED outside
  PROVE  OutsideOK'
  BY DEF OutsideOK, outside

\* Writing one local of a worker.
LEMMA RunType ==
  ASSUME run \in [Workers -> Run], NEW wk \in Workers
  PROVE  /\ \A x \in Ticket : [run EXCEPT ![wk].old = x] \in [Workers -> Run]
         /\ \A x \in Task : [run EXCEPT ![wk].new = x] \in [Workers -> Run]
         /\ \A x \in Nat : [run EXCEPT ![wk].newest = x] \in [Workers -> Run]
  BY DEF Run

\* Counting a message that was handed over.
LEMMA HandOverType ==
  ASSUME HistoryOK, NEW t \in Tasks, NEW n \in Nat, HandOver(t, n)
  PROVE  relayed' \in [Tasks -> [1 .. MaxMessages -> Nat]]
  <1>1. relayed[t] \in [1 .. MaxMessages -> Nat]
    BY DEF HistoryOK
  <1>2. \A i \in 1 .. MaxMessages : relayed[t][i] \in Nat
    BY <1>1
  <1>3. \A i \in 1 .. MaxMessages : [relayed[t] EXCEPT ![n] = @ + 1][i] \in Nat
    BY <1>1, <1>2
  <1>4. [relayed[t] EXCEPT ![n] = @ + 1] \in [1 .. MaxMessages -> Nat]
    BY <1>1, <1>3
  <1>5. QED
    BY <1>4 DEF HandOver, HistoryOK

LEMMA HistoryType ==
  ASSUME HistoryOK, UNCHANGED history, UNCHANGED counters
  PROVE  HistoryOK'
  BY DEF HistoryOK, history, counters

LEMMA FaultType ==
  ASSUME HistoryOK, NEW kind, Fault(kind)
  PROVE  faults' \in 0 .. MaxFaults
  BY BoundsAssumption DEF HistoryOK, Fault

LEMMA InitType == Init => TypeOK
  <1> SUFFICES ASSUME Init PROVE TypeOK
    OBVIOUS
  <1>1. NewTask \in Task /\ NewTicket \in Ticket
    BY StartColumnType DEF NewTask, NewTicket, Task, Ticket, Columns, InProject
  <1>2. OutsideOK
    BY <1>1, EmptySeq DEF Init, OutsideOK
  <1>3. ticket \in [Tasks -> Ticket]
    BY <1>1 DEF Init
  <1>4. MemoryOK
    BY FreeLockType DEF Init, MemoryOK
  <1>5. WorkersOK
    <2>1. \A wk \in Workers : (IF wk \in Tasks THEN wk ELSE CHOOSE t \in Tasks : TRUE) \in Tasks
      BY WorkersAssumption
    <2>2. QED
      BY <2>1, BlankType DEF Init, WorkersOK
  <1>6. HistoryOK
    BY StartColumnType, BoundsAssumption DEF Init, HistoryOK, InProject
  <1>7. QED
    BY <1>2, <1>3, <1>4, <1>5, <1>6 DEF TypeOK

\* The steps of a refresh.
LEMMA WorksType ==
  ASSUME TypeOK, NEW wk \in Workers, Works(wk)
  PROVE  TypeOK'
  <1> DEFINE r == run[wk]
  <1> USE DEF TypeOK
  <1>1. /\ r.task \in Tasks /\ r.chat \in BOOLEAN /\ r.old \in Ticket /\ r.new \in Task
        /\ r.newest \in Nat /\ r.upto \in Nat
    BY DEF WorkersOK, Run
  <1>2. OutsideOK'
    <2>1. UNCHANGED outside
      BY DEF Works, Resume, ReadTicket, ReadTask, ReadSender, SkipRead, SkipSave, Keep,
             TellGone, Drop, Tell, Save, ReadChat, Relay, RelaySave, RelayEnd
    <2>2. QED
      BY <2>1, OutsideType
  <1>3. ASSUME NEW t \in Tasks, NEW topic, Notified(t, topic)
        PROVE  ticket' \in [Tasks -> Ticket] /\ faults' \in 0 .. MaxFaults
    BY <1>3, FaultType DEF Notified, NoFault, Ticket, HistoryOK
  <1>4. CASE Resume(wk)
    <2>1. ASSUME NEW table \in [Tasks -> Lock], table[r.task].waiters # <<>>
          PROVE  [table EXCEPT ![r.task] = [holder |-> wk, waiters |-> Tail(@.waiters)]]
                   \in [Tasks -> Lock]
      <3>1. table[r.task].waiters \in Seq(Workers)
        BY <1>1 DEF Lock
      <3>2. Tail(table[r.task].waiters) \in Seq(Workers)
        BY <2>1, <3>1, HeadTailProperties
      <3>3. QED
        BY <3>2 DEF Lock
    <2>2. locks \in [Tasks -> Lock] /\ orphan \in [Tasks -> Lock]
      BY DEF MemoryOK
    <2>3. locks' \in [Tasks -> Lock] /\ orphan' \in [Tasks -> Lock]
      BY <1>4, <2>1, <2>2 DEF Resume
    <2>4. QED
      BY <1>1, <1>2, <1>4, <2>3, HistoryType DEF Resume, MemoryOK, WorkersOK, Phases
  <1>5. CASE ReadTicket(wk)
    <2>1. ticket' \in [Tasks -> Ticket] /\ HistoryOK'
      BY <1>5, HistoryType DEF ReadTicket
    <2>2. CASE End(wk, TRUE)
      BY <1>2, <2>1, <2>2, EndType
    <2>3. CASE run' = [run EXCEPT ![wk].old = ticket[r.task]] /\ Goto(wk, "task")
      <3>1. ticket[r.task] \in Ticket
        BY <1>1
      <3>2. QED
        BY <1>2, <2>1, <2>3, <3>1, GotoType, RunType DEF Goto, WorkersOK, Phases
    <2>4. QED
      BY <1>5, <2>2, <2>3 DEF ReadTicket
  <1>6. CASE ReadTask(wk)
    <2>1. task[r.task] \in Task
      BY <1>1 DEF OutsideOK
    <2>2. MemoryOK' /\ HistoryOK' /\ ticket' \in [Tasks -> Ticket]
      BY <1>6, HistoryType, GotoType DEF ReadTask
    <2>3. CASE Goto(wk, "skip") /\ UNCHANGED run
      BY <1>2, <2>2, <2>3 DEF Goto, WorkersOK, Phases
    <2>4. CASE run' = [run EXCEPT ![wk].new = task[r.task]] /\ Goto(wk, "sender")
      BY <1>2, <2>1, <2>2, <2>4, RunType DEF Goto, WorkersOK, Phases
    <2>5. QED
      BY <1>6, <2>3, <2>4 DEF ReadTask
  <1>7. CASE ReadSender(wk)
    <2> DEFINE branch == Branch(r.old, r.new, ~approved[r.task], r.chat)
    <2>1. /\ branch \in Phases \cup {"return"}
          /\ branch \in {"keep", "tell", "save"} => r.new.col \in InProject
      BY DEF Branch, Phases
    <2>2. CASE branch = "return"
      BY <1>1, <1>2, <1>7, <2>2, HistoryType, EndType DEF ReadSender
    <2>3. CASE branch # "return"
      BY <1>1, <1>2, <1>7, <2>1, <2>3, HistoryType, GotoType
         DEF ReadSender, Goto, WorkersOK
    <2>4. QED
      BY <2>2, <2>3
  <1>8. CASE SkipRead(wk)
    <2>1. Greater(r.old.mark, Len(said[r.task])) \in Nat
      BY <1>1, LenProperties DEF Greater, Ticket, OutsideOK
    <2>2. ticket' \in [Tasks -> Ticket] /\ HistoryOK'
      BY <1>8, HistoryType DEF SkipRead
    <2>3. CASE End(wk, TRUE)
      BY <1>2, <2>2, <2>3, EndType
    <2>4. CASE /\ run' = [run EXCEPT ![wk].newest =
                            Greater(r.old.mark, Len(said[r.task]))]
               /\ Goto(wk, "skipsave")
      <3>1. MemoryOK'
        BY <2>4, GotoType
      <3>2. WorkersOK'
        BY <1>1, <2>1, <2>4, RunType DEF Goto, WorkersOK, Phases
      <3>3. QED
        BY <1>2, <2>2, <3>1, <3>2
    <2>5. QED
      BY <1>8, <2>3, <2>4 DEF SkipRead
  <1>9. CASE SkipSave(wk)
    <2>1. ticket' \in [Tasks -> Ticket]
      BY <1>1, <1>9 DEF SkipSave, Ticket
    <2>2. HistoryOK'
      BY <1>1, <1>9 DEF SkipSave, HistoryOK, counters, Ticket
    <2>3. MemoryOK' /\ WorkersOK'
      BY <1>9, EndType DEF SkipSave
    <2>4. QED
      BY <1>2, <2>1, <2>2, <2>3
  <1>10. CASE Keep(wk)
    <2>1. ticket' \in [Tasks -> Ticket] /\ HistoryOK'
      BY <1>1, <1>10 DEF Keep, Ticket, HistoryOK, WorkersOK, counters
    <2>2. WorkersOK'
      BY <1>1, <1>10 DEF Keep, Goto, WorkersOK, Phases
    <2>3. QED
      BY <1>2, <1>10, <2>1, <2>2, GotoType DEF Keep
  <1>11. CASE TellGone(wk)
    <2>1. HistoryOK' /\ WorkersOK'
      BY <1>1, <1>3, <1>11 DEF TellGone, Goto, HistoryOK, WorkersOK, Phases, history
    <2>2. QED
      BY <1>1, <1>2, <1>3, <1>11, <2>1, GotoType DEF TellGone
  <1>12. CASE Drop(wk)
    BY <1>1, <1>2, <1>12, HistoryType, EndType DEF Drop, Ticket
  <1>13. CASE Tell(wk)
    <2>1. HistoryOK' /\ WorkersOK'
      BY <1>1, <1>3, <1>13 DEF Tell, Goto, HistoryOK, WorkersOK, Phases
    <2>2. QED
      BY <1>1, <1>2, <1>3, <1>13, <2>1, GotoType DEF Tell
  <1>14. CASE Save(wk)
    <2>1. ticket' \in [Tasks -> Ticket]
      BY <1>1, <1>14 DEF Save, Ticket, WorkersOK
    <2>2. MemoryOK' /\ WorkersOK'
      <3>1. CASE r.chat /\ Goto(wk, "read") /\ UNCHANGED run
        BY <1>1, <3>1, GotoType DEF Goto, WorkersOK, Phases
      <3>2. CASE End(wk, TRUE)
        BY <3>2, EndType
      <3>3. QED
        BY <1>14, <3>1, <3>2 DEF Save
    <2>3. QED
      BY <1>2, <1>14, <2>1, <2>2, HistoryType DEF Save
  <1>15. CASE ReadChat(wk)
    <2>1. Len(said[r.task]) \in Nat /\ r.old.mark \in Nat
      BY <1>1, LenProperties DEF OutsideOK, Ticket
    <2>2. ticket' \in [Tasks -> Ticket] /\ HistoryOK'
      BY <1>15, HistoryType DEF ReadChat
    <2>3. CASE End(wk, TRUE)
      BY <1>2, <2>2, <2>3, EndType
    <2>4. CASE /\ run' = [run EXCEPT ![wk].newest = r.old.mark, ![wk].upto = Len(said[r.task])]
               /\ Goto(wk, "relay")
      <3>1. MemoryOK'
        BY <2>4, GotoType
      <3>2. WorkersOK'
        BY <1>1, <2>1, <2>4 DEF Goto, WorkersOK, Phases, Run
      <3>3. QED
        BY <1>2, <2>2, <3>1, <3>2
    <2>5. QED
      BY <1>15, <2>3, <2>4 DEF ReadChat
  <1>16. CASE Relay(wk)
    <2>1. PICK n \in ToRelay(r.task, r.newest, r.upto) :
             /\ relayed' = [relayed EXCEPT ![r.task][n] = @ + 1]
             /\ run' = [run EXCEPT ![wk].newest = n]
      BY <1>16 DEF Relay, HandOver
    <2>2. n \in Nat
      BY <1>1, <2>1 DEF ToRelay
    <2>3. relayed' \in [Tasks -> [1 .. MaxMessages -> Nat]]
      BY <1>1, <2>1, <2>2, HandOverType DEF HandOver
    <2>4. HistoryOK'
      BY <1>1, <1>3, <1>16, <2>3 DEF Relay, HistoryOK
    <2>5. WorkersOK'
      BY <1>1, <1>16, <2>1, <2>2 DEF Relay, Goto, WorkersOK, Phases, Run
    <2>6. QED
      BY <1>1, <1>2, <1>3, <1>16, <2>4, <2>5, GotoType DEF Relay
  <1>17. CASE RelaySave(wk)
    <2>1. ticket' \in [Tasks -> Ticket] /\ WorkersOK'
      BY <1>1, <1>17 DEF RelaySave, Ticket, Goto, WorkersOK, Phases
    <2>2. QED
      BY <1>2, <1>17, <2>1, HistoryType, GotoType DEF RelaySave
  <1>18. CASE RelayEnd(wk)
    <2>1. ticket' \in [Tasks -> Ticket]
      BY <1>1, <1>18 DEF RelayEnd, Ticket
    <2>2. QED
      BY <1>2, <1>18, <2>1, HistoryType, EndType DEF RelayEnd
  <1>19. QED
    BY <1>4, <1>5, <1>6, <1>7, <1>8, <1>9, <1>10, <1>11, <1>12, <1>13, <1>14, <1>15,
       <1>16, <1>17, <1>18 DEF Works

\* The ways a refresh raises.
LEMMA RaisesType ==
  ASSUME TypeOK, NEW wk \in Workers,
         YougileFails(wk) \/ TelegramDown(wk) \/ TelegramUnanswered(wk)
  PROVE  TypeOK'
  <1> DEFINE r == run[wk]
  <1> USE DEF TypeOK
  <1>1. r.task \in Tasks /\ r.new.col \in Columns
    BY DEF WorkersOK, Run, Task
  <1>2. OutsideOK' /\ MemoryOK' /\ WorkersOK'
    BY OutsideType, EndType DEF YougileFails, TelegramDown, TelegramUnanswered
  <1>3. faults' \in 0 .. MaxFaults
    BY FaultType DEF YougileFails, TelegramDown, TelegramUnanswered
  <1>4. ticket' \in [Tasks -> Ticket]
    <2>1. \/ UNCHANGED ticket
          \/ ticket' = [ticket EXCEPT ![r.task].topic = FALSE]
      BY DEF YougileFails, TelegramDown, TelegramUnanswered
    <2>2. QED
      BY <1>1, <2>1 DEF Ticket
  <1>5. CASE YougileFails(wk) \/ TelegramDown(wk)
    BY <1>2, <1>3, <1>4, <1>5 DEF YougileFails, TelegramDown, HistoryOK, history
  <1>6. CASE TelegramUnanswered(wk)
    <2>1. told' \in [Tasks -> InProject]
      BY <1>1, <1>6 DEF TelegramUnanswered, HistoryOK, WorkersOK
    <2>2. relayed' \in [Tasks -> [1 .. MaxMessages -> Nat]]
      <3>1. CASE UNCHANGED relayed
        BY <3>1 DEF HistoryOK
      <3>2. CASE \E n \in ToRelay(r.task, r.newest, r.upto) : HandOver(r.task, n)
        <4>1. PICK n \in ToRelay(r.task, r.newest, r.upto) : HandOver(r.task, n)
          BY <3>2
        <4>2. n \in Nat
          BY <1>1, <4>1 DEF ToRelay, WorkersOK, Run
        <4>3. QED
          BY <1>1, <4>1, <4>2, HandOverType
      <3>3. QED
        BY <1>6, <3>1, <3>2 DEF TelegramUnanswered
    <2>3. QED
      BY <1>2, <1>3, <1>4, <1>6, <2>1, <2>2 DEF TelegramUnanswered, HistoryOK
  <1>7. QED
    BY <1>5, <1>6

\* What starts a refresh, and the restart.
LEMMA StartsType ==
  ASSUME TypeOK,
         \/ StartRetry \/ StartListing \/ StartCheck \/ NextCheck \/ Restart
         \/ \E t \in Tasks : Expire(t) \/ \E kind \in {"task", "chat"} : Deliver(t, kind)
  PROVE  TypeOK'
  <1> USE DEF TypeOK
  <1>1. Retry \in Workers /\ Check \in Workers /\ Tasks \subseteq Workers
    BY DEF Workers
  <1>2. CASE StartRetry
    <2>1. PICK t \in pending : /\ todo' = [todo EXCEPT ![Retry] = pending \ {t}]
                               /\ Enters(Retry, t, TRUE, locks)
      BY <1>2 DEF StartRetry
    <2>2. locks' \in [Tasks -> Lock] /\ WorkersOK'
      BY <1>1, <2>1, EntersType DEF MemoryOK
    <2>3. QED
      BY <1>2, <2>1, <2>2, OutsideType, HistoryType DEF StartRetry, MemoryOK
  <1>3. CASE StartListing
    BY <1>1, <1>3, OutsideType, HistoryType, GotoType
       DEF StartListing, Goto, WorkersOK, Phases
  <1>4. CASE StartCheck
    <2> DEFINE tidied == [t \in Tasks |-> IF t \in {x \in Tasks : Handed(x)} THEN FreeLock
                                                                      ELSE locks[t]]
    <2>1. tidied \in [Tasks -> Lock] /\ orphan' \in [Tasks -> Lock]
      BY <1>4, FreeLockType DEF StartCheck, MemoryOK
    <2>2. CASE locks' = tidied /\ pc' = [pc EXCEPT ![Check] = "idle"] /\ UNCHANGED <<todo, run>>
      BY <1>1, <1>4, <2>1, <2>2, OutsideType, HistoryType DEF StartCheck, MemoryOK, WorkersOK
    <2>3. CASE \E t \in Due : /\ todo' = [todo EXCEPT ![Check] = Due \ {t}]
                              /\ Enters(Check, t, TRUE, tidied)
      <3>1. PICK t \in Due : /\ todo' = [todo EXCEPT ![Check] = Due \ {t}]
                             /\ Enters(Check, t, TRUE, tidied)
        BY <2>3
      <3>2. t \in Tasks /\ Due \subseteq Tasks
        BY DEF Due
      <3>3. locks' \in [Tasks -> Lock] /\ WorkersOK'
        BY <1>1, <2>1, <3>1, <3>2, EntersType
      <3>4. QED
        BY <1>4, <2>1, <3>1, <3>2, <3>3, OutsideType, HistoryType DEF StartCheck, MemoryOK
    <2>4. QED
      BY <1>4, <2>2, <2>3 DEF StartCheck
  <1>5. CASE NextCheck
    <2>1. PICK t \in todo[Check] : /\ todo' = [todo EXCEPT ![Check] = @ \ {t}]
                                   /\ Enters(Check, t, TRUE, locks)
      BY <1>5 DEF NextCheck
    <2>2. t \in Tasks
      BY <2>1 DEF MemoryOK
    <2>3. locks' \in [Tasks -> Lock] /\ WorkersOK'
      BY <1>1, <2>1, <2>2, EntersType DEF MemoryOK
    <2>4. QED
      BY <1>5, <2>1, <2>3, OutsideType, HistoryType DEF NextCheck, MemoryOK
  <1>6. CASE Restart
    <2>1. WorkersOK'
      BY <1>6, BlankType DEF Restart, WorkersOK, Run
    <2>2. MemoryOK'
      BY <1>6, FreeLockType DEF Restart, MemoryOK
    <2>3. HistoryOK'
      BY <1>6, FaultType DEF Restart, HistoryOK, history
    <2>4. QED
      BY <1>6, <2>1, <2>2, <2>3, OutsideType DEF Restart
  <1>7. ASSUME NEW t \in Tasks, Expire(t)
        PROVE  TypeOK'
    BY <1>7, OutsideType, HistoryType DEF Expire, MemoryOK, WorkersOK
  <1>8. ASSUME NEW t \in Tasks, NEW kind \in {"task", "chat"}, Deliver(t, kind)
        PROVE  TypeOK'
    <2>1. OutsideOK'
      BY <1>8 DEF Deliver, OutsideOK
    <2>2. CASE Enters(t, t, kind = "chat", locks) /\ busy' = busy \cup {t} /\ UNCHANGED dirty
      <3>1. locks' \in [Tasks -> Lock] /\ WorkersOK'
        BY <1>1, <2>2, EntersType DEF MemoryOK
      <3>2. QED
        BY <1>8, <2>1, <2>2, <3>1, HistoryType DEF Deliver, MemoryOK
    <2>3. CASE /\ dirty' = [dirty EXCEPT ![t] = TakeAlong(@, kind)]
               /\ UNCHANGED <<locks, pc, run, busy>>
      <3>1. dirty' \in [Tasks -> {"no", "status", "chat"}]
        BY <2>3 DEF TakeAlong, MemoryOK
      <3>2. QED
        BY <1>8, <2>1, <2>3, <3>1, HistoryType DEF Deliver, MemoryOK, WorkersOK
    <2>4. QED
      BY <1>8, <2>2, <2>3 DEF Deliver
  <1>9. QED
    BY <1>2, <1>3, <1>4, <1>5, <1>6, <1>7, <1>8

LEMMA WorldType ==
  ASSUME TypeOK, World
  PROVE  TypeOK'
  <1> USE DEF TypeOK
  <1>1. PICK t \in Tasks :
           \/ \E col \in Columns : Move(t, col)
           \/ Remove(t) \/ ChangeAccess(t)
           \/ \E mute \in BOOLEAN : Say(t, mute)
           \/ \E kind \in {"task", "chat"} : Lose(t, kind)
    BY DEF World
  <1>2. UNCHANGED <<ticket, locks, orphan, pending, busy, dirty, fresh, first, todo, pc, run,
                    told, relayed, skipped>>
    BY <1>1 DEF Move, Remove, ChangeAccess, Say, Lose, Around, memory, history
  <1>3. ticket' \in [Tasks -> Ticket] /\ MemoryOK' /\ WorkersOK'
    BY <1>2 DEF MemoryOK, WorkersOK
  <1>4. HistoryOK'
    <2>1. changes' \in Nat
      <3>1. UNCHANGED changes \/ Change
        BY <1>1 DEF Move, Remove, ChangeAccess, Say, Lose
      <3>2. QED
        BY <3>1 DEF Change, HistoryOK
    <2>2. faults' \in 0 .. MaxFaults
      <3>1. UNCHANGED faults \/ Fault("lost")
        BY <1>1 DEF Move, Remove, ChangeAccess, Say, Lose, Around
      <3>2. QED
        BY <3>1, FaultType DEF HistoryOK
    <2>3. cuts' \in Nat /\ lapses' \in Nat
      <3>1. UNCHANGED cuts /\ (UNCHANGED lapses \/ lapses' = lapses + 1)
        BY <1>1 DEF Move, Remove, ChangeAccess, Say, Lose, Around
      <3>2. QED
        BY <3>1 DEF HistoryOK
    <2>4. QED
      BY <1>2, <2>1, <2>2, <2>3 DEF HistoryOK
  <1>5. CASE \E col \in Columns : Move(t, col)
    <2>1. PICK col \in Columns : Move(t, col)
      BY <1>5
    <2>2. task' = [task EXCEPT ![t].col = col] /\ UNCHANGED <<said, approved>>
      BY <2>1 DEF Move
    <2>3. task' \in [Tasks -> Task]
      BY <2>2 DEF OutsideOK, Task
    <2>4. QED
      BY <1>3, <1>4, <2>1, <2>2, <2>3 DEF Move, Posts, OutsideOK
  <1>6. CASE Remove(t)
    BY <1>3, <1>4, <1>6 DEF Remove, Posts, OutsideOK, Task
  <1>7. CASE ChangeAccess(t)
    BY <1>3, <1>4, <1>7 DEF ChangeAccess, OutsideOK
  <1>8. CASE \E mute \in BOOLEAN : Say(t, mute)
    <2>1. PICK mute \in BOOLEAN : Say(t, mute)
      BY <1>8
    <2> DEFINE msg == [mute |-> mute]
    <2>2. msg \in Message
      BY DEF Message, OutsideOK
    <2>3. Append(said[t], msg) \in Seq(Message)
      BY <2>2, AppendProperties DEF OutsideOK
    <2>4. said' = [said EXCEPT ![t] = Append(said[t], msg)]
      BY <2>1 DEF Say
    <2>5. said' \in [Tasks -> Seq(Message)]
      BY <2>3, <2>4 DEF OutsideOK
    <2>6. QED
      BY <1>3, <1>4, <2>1, <2>5 DEF Say, Posts, OutsideOK
  <1>9. CASE \E kind \in {"task", "chat"} : Lose(t, kind)
    BY <1>3, <1>4, <1>9 DEF Lose, OutsideOK
  <1>10. QED
    BY <1>1, <1>5, <1>6, <1>7, <1>8, <1>9

LEMMA NextType == TypeOK /\ [Next]_vars => TypeOK'
  <1> SUFFICES ASSUME TypeOK, [Next]_vars PROVE TypeOK'
    OBVIOUS
  <1>1. CASE Service
    BY <1>1, WorksType, RaisesType, StartsType DEF Service
  <1>2. CASE World
    BY <1>2, WorldType
  <1>3. CASE UNCHANGED vars
    BY <1>3 DEF vars, TypeOK, OutsideOK, MemoryOK, WorkersOK, HistoryOK
  <1>4. QED
    BY <1>1, <1>2, <1>3 DEF Next

\* Type correctness, for every set of tasks, every partition of the columns and every bound.
THEOREM TypeCorrect == Spec => []TypeOK
  BY InitType, NextType, PTL DEF Spec

-----------------------------------------------------------------------------
(* One refresh at a time, when no check starts in the gap between two owners of a lock. *)

\* Entering a refresh takes a free lock, or waits.
LEMMA EntersLock ==
  ASSUME WorkersOK, NEW table \in [Tasks -> Lock], NEW t \in Tasks, NEW wk \in Workers,
         NEW chat \in BOOLEAN, Enters(wk, t, chat, table)
  PROVE  /\ Inside(wk)' => run'[wk].task = t /\ locks'[t].holder = wk
         /\ \A v \in Workers \ {wk} : /\ pc'[v] = pc[v] /\ run'[v] = run[v]
                                      /\ \A u \in Tasks : table[u].holder = v
                                                             => locks'[u].holder = v
  <1>1. /\ pc' = [pc EXCEPT ![wk] = IF table[t] = FreeLock THEN "ticket" ELSE "wait"]
        /\ run' = [run EXCEPT ![wk] = Blank(t, chat)]
        /\ locks' = Acquired(table, t, wk)
    BY DEF Enters
  <1>2. "wait" \notin Phases
    BY DEF Phases
  <1>3. run'[wk].task = t
    BY <1>1 DEF WorkersOK, Blank
  <1>4. CASE table[t] = FreeLock
    <2>1. locks' = [table EXCEPT ![t].holder = wk]
      BY <1>1, <1>4 DEF Acquired
    <2>2. locks'[t].holder = wk
      BY <2>1 DEF Lock
    <2>3. ASSUME NEW v \in Workers \ {wk}, NEW u \in Tasks, table[u].holder = v
          PROVE  locks'[u].holder = v
      <3>1. u # t
        BY <1>4, <2>3, WorkersAssumption DEF FreeLock
      <3>2. QED
        BY <2>1, <2>3, <3>1
    <2>4. QED
      BY <1>1, <1>3, <2>2, <2>3 DEF WorkersOK
  <1>5. CASE table[t] # FreeLock
    <2>1. locks' = [table EXCEPT ![t].waiters = Append(@, wk)]
      BY <1>1, <1>5 DEF Acquired
    <2>2. \A u \in Tasks : locks'[u].holder = table[u].holder
      BY <2>1 DEF Lock
    <2>3. ~Inside(wk)'
      BY <1>1, <1>2, <1>5 DEF Inside, WorkersOK
    <2>4. QED
      BY <1>1, <2>2, <2>3 DEF WorkersOK
  <1>6. QED
    BY <1>4, <1>5

\* Releasing a lock leaves the other holders alone.
LEMMA ReleasedLock ==
  ASSUME NEW table \in [Tasks -> Lock], NEW t \in Tasks, NEW wk \in Workers
  PROVE  \A v \in Workers \ {wk}, u \in Tasks :
            table[u].holder = v => Released(table, t, wk)[u].holder = v
  BY DEF Released, Lock

\* The end of a refresh leaves the other workers and their locks alone; the worker is inside
\* afterwards only with a lock it holds, at the start of a refresh.
LEMMA EndLock ==
  ASSUME TypeOK, NEW wk \in Workers, NEW ok \in BOOLEAN, End(wk, ok)
  PROVE  /\ Inside(wk)' => pc'[wk] = "ticket" /\ locks'[run'[wk].task].holder = wk
         /\ \A v \in Workers \ {wk} : /\ pc'[v] = pc[v] /\ run'[v] = run[v]
                                      /\ \A u \in Tasks : locks[u].holder = v
                                                             => locks'[u].holder = v
         /\ orphan = [t \in Tasks |-> FreeLock] => orphan' = orphan
  <1> DEFINE t == run[wk].task
             table == Released(locks, t, wk)
  <1>1. t \in Tasks /\ run[wk].chat \in BOOLEAN /\ WorkersOK /\ MemoryOK
    BY DEF TypeOK, WorkersOK, Run
  <1>2. /\ table \in [Tasks -> Lock]
        /\ \A v \in Workers \ {wk}, u \in Tasks : locks[u].holder = v => table[u].holder = v
    BY <1>1, ReleasedType, ReleasedLock DEF MemoryOK
  <1>3. orphan = [x \in Tasks |-> FreeLock] => orphan' = orphan
    BY <1>1, WorkersAssumption DEF End, Released, FreeLock
  <1>4. ASSUME NEW next \in Tasks, NEW chat \in BOOLEAN, Enters(wk, next, chat, table)
        PROVE  /\ Inside(wk)' => pc'[wk] = "ticket" /\ locks'[run'[wk].task].holder = wk
               /\ \A v \in Workers \ {wk} : /\ pc'[v] = pc[v] /\ run'[v] = run[v]
                                            /\ \A u \in Tasks : locks[u].holder = v
                                                                   => locks'[u].holder = v
    <2>1. Inside(wk)' => pc'[wk] = "ticket"
      BY <1>1, <1>4 DEF Enters, Inside, Phases, WorkersOK
    <2>2. QED
      BY <1>1, <1>2, <1>4, <2>1, EntersLock
  <1>5. ASSUME pc'[wk] \in {"idle", "pause"}, locks' = table,
               \A v \in Workers \ {wk} : pc'[v] = pc[v] /\ run'[v] = run[v]
        PROVE  /\ Inside(wk)' => pc'[wk] = "ticket" /\ locks'[run'[wk].task].holder = wk
               /\ \A v \in Workers \ {wk} : /\ pc'[v] = pc[v] /\ run'[v] = run[v]
                                            /\ \A u \in Tasks : locks[u].holder = v
                                                                   => locks'[u].holder = v
    BY <1>2, <1>5 DEF Inside, Phases
  <1>6. CASE EventGoesOn(wk, ok)
    <2>1. CASE dirty[t] = "no"
      <3>1. /\ pc' = [pc EXCEPT ![wk] = "idle"] /\ locks' = table
            /\ run' = [run EXCEPT ![wk] = Blank(t, TRUE)]
        BY <1>6, <2>1 DEF EventGoesOn
      <3>2. QED
        BY <1>1, <1>3, <1>5, <3>1 DEF WorkersOK
    <2>2. CASE dirty[t] # "no"
      <3>1. Enters(wk, t, dirty[t] = "chat", table)
        BY <1>6, <2>2 DEF EventGoesOn
      <3>2. QED
        BY <1>1, <1>3, <1>4, <3>1
    <2>3. QED
      BY <2>1, <2>2
  <1>7. CASE RetryGoesOn(wk, ok)
    <2>1. CASE /\ locks' = table /\ pc' = [pc EXCEPT ![wk] = "idle"]
               /\ run' = [run EXCEPT ![wk] = Blank(t, TRUE)]
      BY <1>1, <1>3, <1>5, <2>1 DEF WorkersOK
    <2>2. CASE \E next \in todo[wk] : Enters(wk, next, TRUE, table)
      <3>1. PICK next \in todo[wk] : Enters(wk, next, TRUE, table)
        BY <2>2
      <3>2. next \in Tasks
        BY <1>1, <1>7 DEF RetryGoesOn, MemoryOK
      <3>3. QED
        BY <1>3, <1>4, <3>1, <3>2
    <2>3. QED
      BY <1>7, <2>1, <2>2 DEF RetryGoesOn
  <1>8. CASE CheckGoesOn(wk, ok)
    <2>1. /\ locks' = table
          /\ pc' = [pc EXCEPT ![wk] = IF todo[wk] = {} THEN "idle" ELSE "pause"]
          /\ run' = [run EXCEPT ![wk] = Blank(t, TRUE)]
      BY <1>8 DEF CheckGoesOn
    <2>2. QED
      BY <1>1, <1>3, <1>5, <2>1 DEF WorkersOK
  <1>9. QED
    BY <1>6, <1>7, <1>8 DEF End

(* A step of one worker, seen from the locks: the others stay where they are and keep their
   locks, and the worker is inside afterwards only with the lock. *)
LockStep(wk) ==
  /\ orphan' = orphan
  /\ \A v \in Workers \ {wk} : /\ pc'[v] = pc[v] /\ run'[v] = run[v]
                               /\ \A u \in Tasks : locks[u].holder = v => locks'[u].holder = v
  /\ Inside(wk)' => locks'[run'[wk].task].holder = wk

LEMMA LockFrame ==
  ASSUME WorkersOK, LockInv, NEW wk \in Workers, LockStep(wk)
  PROVE  LockInv'
  <1>1. orphan' = [t \in Tasks |-> FreeLock]
    BY DEF LockInv, LockStep
  <1>2. ASSUME NEW v \in Workers, Inside(v)'
        PROVE  locks'[run'[v].task].holder = v
    <2>1. CASE v = wk
      BY <1>2, <2>1 DEF LockStep
    <2>2. CASE v # wk
      <3>1. pc'[v] = pc[v] /\ run'[v] = run[v]
        BY <2>2 DEF LockStep
      <3>2. Inside(v) /\ run[v].task \in Tasks
        BY <1>2, <3>1 DEF Inside, WorkersOK, Run
      <3>3. locks[run[v].task].holder = v
        BY <3>2 DEF LockInv
      <3>4. QED
        BY <2>2, <3>1, <3>2, <3>3 DEF LockStep
    <2>3. QED
      BY <2>1, <2>2
  <1>3. QED
    BY <1>1, <1>2 DEF LockInv

LEMMA WorksLock ==
  ASSUME TypeOK, LockInv, NEW wk \in Workers, Works(wk)
  PROVE  LockStep(wk)
  <1> DEFINE r == run[wk]
  <1>1. r.task \in Tasks /\ WorkersOK /\ MemoryOK
    BY DEF TypeOK, WorkersOK, Run
  <1>2. CASE Resume(wk)
    <2>1. orphan[r.task].waiters = <<>>
      BY <1>1 DEF LockInv, FreeLock
    <2>2. /\ locks[r.task].holder = Nobody /\ UNCHANGED <<orphan, run>>
          /\ locks' = [locks EXCEPT ![r.task] = [holder |-> wk, waiters |-> Tail(@.waiters)]]
          /\ pc' = [pc EXCEPT ![wk] = "ticket"]
      BY <1>2, <2>1 DEF Resume
    <2>3. locks'[r.task].holder = wk
      BY <1>1, <2>2 DEF MemoryOK
    <2>4. ASSUME NEW v \in Workers \ {wk}, NEW u \in Tasks, locks[u].holder = v
          PROVE  locks'[u].holder = v
      <3>1. u # r.task
        BY <2>2, <2>4, WorkersAssumption
      <3>2. QED
        BY <2>2, <2>4, <3>1
    <2>5. \A v \in Workers \ {wk} : pc'[v] = pc[v]
      BY <2>2 DEF WorkersOK
    <2>6. QED
      BY <2>2, <2>3, <2>4, <2>5 DEF LockStep
  <1>3. ASSUME NEW ok \in BOOLEAN, End(wk, ok)
        PROVE  LockStep(wk)
    BY <1>3, EndLock DEF LockStep, LockInv
  <1>4. ASSUME NEW phase, Goto(wk, phase), Inside(wk), run'[wk].task = r.task,
               \A v \in Workers \ {wk} : run'[v] = run[v]
        PROVE  LockStep(wk)
    BY <1>1, <1>4 DEF Goto, memory, LockStep, LockInv, WorkersOK
  <1>5. CASE ~Resume(wk)
    <2>1. Inside(wk)
      BY <1>5 DEF Works, ReadTicket, ReadTask, ReadSender, SkipRead, SkipSave, Keep, TellGone,
                  Drop, Tell, Save, ReadChat, Relay, RelaySave, RelayEnd, Inside, Phases
    <2>2. \/ End(wk, TRUE)
          \/ /\ \E phase \in Phases : Goto(wk, phase)
             /\ \/ UNCHANGED run
                \/ run' = [run EXCEPT ![wk].old = ticket[r.task]]
                \/ run' = [run EXCEPT ![wk].new = task[r.task]]
                \/ \E n : run' = [run EXCEPT ![wk].newest = n]
                \/ \E n, u : run' = [run EXCEPT ![wk].newest = n, ![wk].upto = u]
      <3>1. \A phase \in {"task", "skip", "sender", "skipsave", "drop", "save", "read",
                          "relay", "relaysave"} : phase \in Phases
        BY DEF Phases
      <3>2. CASE ReadTicket(wk) \/ ReadTask(wk) \/ SkipRead(wk) \/ SkipSave(wk) \/ Keep(wk)
                 \/ TellGone(wk) \/ Drop(wk)
        BY <3>1, <3>2 DEF ReadTicket, ReadTask, SkipRead, SkipSave, Keep, TellGone, Drop
      <3>3. CASE ReadSender(wk)
        <4> DEFINE branch == Branch(r.old, r.new, ~approved[r.task], r.chat)
        <4>1. branch # "return" => branch \in Phases
          BY DEF Branch, Phases
        <4>2. QED
          BY <3>3, <4>1 DEF ReadSender
      <3>4. CASE Tell(wk) \/ Save(wk) \/ ReadChat(wk) \/ Relay(wk) \/ RelaySave(wk)
                 \/ RelayEnd(wk)
        BY <3>1, <3>4 DEF Tell, Save, ReadChat, Relay, RelaySave, RelayEnd
      <3>5. QED
        BY <1>5, <3>2, <3>3, <3>4 DEF Works
    <2>3. CASE End(wk, TRUE)
      BY <1>3, <2>3
    <2>4. CASE \E phase \in Phases : Goto(wk, phase)
      <3>1. \/ End(wk, TRUE)
            \/ run'[wk].task = r.task /\ \A v \in Workers \ {wk} : run'[v] = run[v]
        BY <1>1, <2>2 DEF WorkersOK, Run
      <3>2. QED
        BY <1>3, <1>4, <2>1, <2>4, <3>1
    <2>5. QED
      BY <2>2, <2>3, <2>4
  <1>6. QED
    BY <1>2, <1>5

LEMMA RaisesLock ==
  ASSUME TypeOK, LockInv, NEW wk \in Workers,
         YougileFails(wk) \/ TelegramDown(wk) \/ TelegramUnanswered(wk)
  PROVE  LockStep(wk)
  <1>1. End(wk, FALSE)
    BY DEF YougileFails, TelegramDown, TelegramUnanswered
  <1>2. QED
    BY <1>1, EndLock DEF LockStep, LockInv

\* Entering a refresh is a step of the worker, whether it then holds the lock or waits.
LEMMA EntersStep ==
  ASSUME TypeOK, NEW wk \in Workers, NEW t \in Tasks, NEW chat \in BOOLEAN,
         Enters(wk, t, chat, locks), orphan' = orphan
  PROVE  LockStep(wk)
  BY EntersLock DEF TypeOK, MemoryOK, LockStep

LEMMA StartsLock ==
  ASSUME HandoffRace = FALSE, TypeOK, LockInv,
         \/ StartRetry \/ StartListing \/ StartCheck \/ NextCheck \/ Restart
         \/ \E t \in Tasks : Expire(t) \/ \E kind \in {"task", "chat"} : Deliver(t, kind)
  PROVE  LockInv'
  <1>1. /\ Retry \in Workers /\ Check \in Workers /\ Tasks \subseteq Workers
        /\ WorkersOK /\ MemoryOK
    BY DEF Workers, TypeOK
  <1>2. CASE StartRetry
    <2>1. PICK t \in pending : Enters(Retry, t, TRUE, locks)
      BY <1>2 DEF StartRetry
    <2>2. QED
      BY <1>1, <1>2, <2>1, EntersStep, LockFrame DEF StartRetry, MemoryOK
  <1>3. CASE StartListing
    <2>1. LockStep(Check)
      BY <1>1, <1>3 DEF StartListing, Goto, memory, LockStep, Inside, Phases, WorkersOK
    <2>2. QED
      BY <1>1, <2>1, LockFrame
  <1>4. CASE StartCheck
    <2>1. \A t \in Tasks : ~Handed(t)
      BY <1>4 DEF StartCheck
    <2>2. [t \in Tasks |-> IF t \in {x \in Tasks : Handed(x)} THEN FreeLock ELSE locks[t]]
            = locks
      BY <1>1, <2>1 DEF MemoryOK
    <2>3. orphan' = orphan
      BY <1>1, <1>4, <2>1 DEF StartCheck, MemoryOK
    <2>4. CASE locks' = locks /\ pc' = [pc EXCEPT ![Check] = "idle"] /\ UNCHANGED run
      <3>1. LockStep(Check)
        BY <1>1, <2>3, <2>4 DEF LockStep, Inside, Phases, WorkersOK
      <3>2. QED
        BY <1>1, <3>1, LockFrame
    <2>5. CASE \E t \in Due : Enters(Check, t, TRUE, locks)
      <3>1. PICK t \in Due : Enters(Check, t, TRUE, locks)
        BY <2>5
      <3>2. t \in Tasks
        BY <3>1 DEF Due
      <3>3. QED
        BY <1>1, <2>3, <3>1, <3>2, EntersStep, LockFrame
    <2>6. QED
      BY <1>4, <2>2, <2>4, <2>5 DEF StartCheck
  <1>5. CASE NextCheck
    <2>1. PICK t \in todo[Check] : Enters(Check, t, TRUE, locks)
      BY <1>5 DEF NextCheck
    <2>2. t \in Tasks
      BY <1>1, <2>1 DEF MemoryOK
    <2>3. QED
      BY <1>1, <1>5, <2>1, <2>2, EntersStep, LockFrame DEF NextCheck
  <1>6. CASE Restart
    BY <1>6 DEF Restart, LockInv, Inside, Phases
  <1>7. ASSUME NEW t \in Tasks, Expire(t)
        PROVE  LockInv'
    BY <1>7 DEF Expire, LockInv, Inside
  <1>8. ASSUME NEW t \in Tasks, NEW kind \in {"task", "chat"}, Deliver(t, kind)
        PROVE  LockInv'
    <2>1. CASE Enters(t, t, kind = "chat", locks)
      BY <1>1, <1>8, <2>1, EntersStep, LockFrame DEF Deliver
    <2>2. CASE UNCHANGED <<locks, pc, run>>
      BY <1>8, <2>2 DEF Deliver, LockInv, Inside
    <2>3. QED
      BY <1>8, <2>1, <2>2 DEF Deliver
  <1>9. QED
    BY <1>2, <1>3, <1>4, <1>5, <1>6, <1>7, <1>8

\* What happens outside does not touch the workers, their locks or the table of tickets.
LEMMA WorldStays ==
  ASSUME World
  PROVE  UNCHANGED <<ticket, locks, orphan, pc, run>>
  BY DEF World, Move, Remove, ChangeAccess, Say, Lose, Around, memory

LEMMA NextLock ==
  ASSUME HandoffRace = FALSE, TypeOK, LockInv, [Next]_vars
  PROVE  LockInv'
  <1>1. WorkersOK
    BY DEF TypeOK
  <1>2. CASE Service
    BY <1>1, <1>2, WorksLock, RaisesLock, StartsLock, LockFrame DEF Service
  <1>3. CASE World
    BY <1>3, WorldStays DEF LockInv, Inside
  <1>4. CASE UNCHANGED vars
    BY <1>4 DEF vars, LockInv, Inside
  <1>5. QED
    BY <1>2, <1>3, <1>4 DEF Next

LEMMA InitLock == Init => LockInv
  BY DEF Init, LockInv, Inside, Phases

LEMMA LockedIsOne == TypeOK /\ LockInv => OneRefreshAtATime
  BY DEF LockInv, OneRefreshAtATime

\* "One refresh per task at a time": the locks of asyncio see to it for the runner of the
\* webhooks, the retry loop and the check alike, whatever fails or restarts, provided that no
\* check starts while a lock changes hands (with that race it is false: TicketReports_tidy).
THEOREM OneRefresh == ASSUME HandoffRace = FALSE PROVE Spec => []OneRefreshAtATime
  <1>1. Init => TypeOK /\ LockInv
    BY InitType, InitLock
  <1>2. TypeOK /\ LockInv /\ [Next]_vars => (TypeOK /\ LockInv)'
    BY NextType, NextLock
  <1>3. QED
    BY <1>1, <1>2, LockedIsOne, PTL DEF Spec

-----------------------------------------------------------------------------
(* The watermark: the worker that holds the lock of a task is the only one that writes the
   mark of its ticket, so the mark it read is still the one in the table. *)

\* A step of one worker, seen from the watermarks.
MarkStep(wk) ==
  /\ \A t \in Tasks : ~Inside(wk) \/ t # run[wk].task => ticket'[t].mark = ticket[t].mark
  /\ \A t \in Tasks : ticket'[t].mark >= ticket[t].mark
  /\ MarkOf(wk)'

LEMMA MarkFrame ==
  ASSUME TypeOK, LockInv, MarkInv, NEW wk \in Workers, MarkStep(wk),
         \A v \in Workers \ {wk} : pc'[v] = pc[v] /\ run'[v] = run[v]
  PROVE  MarkInv'
  <1> SUFFICES ASSUME NEW v \in Workers PROVE MarkOf(v)'
    BY DEF MarkInv
  <1>1. CASE v = wk
    BY <1>1 DEF MarkStep
  <1>2. CASE v # wk
    <2>1. pc'[v] = pc[v] /\ run'[v] = run[v] /\ MarkOf(v) /\ run[v].task \in Tasks
      BY <1>2 DEF MarkInv, TypeOK, WorkersOK, Run
    <2>2. CASE Inside(v)
      <3>1. ~Inside(wk) \/ run[v].task # run[wk].task
        BY <1>2, <2>2 DEF LockInv
      <3>2. ticket'[run[v].task].mark = ticket[run[v].task].mark
        BY <2>1, <3>1 DEF MarkStep
      <3>3. QED
        BY <2>1, <3>2 DEF MarkOf, Inside
    <2>3. CASE ~Inside(v)
      BY <2>1, <2>3 DEF MarkOf, Inside, Phases
    <2>4. QED
      BY <2>2, <2>3
  <1>3. QED
    BY <1>1, <1>2

\* A worker that is outside, or at the start of a refresh, knows nothing of the watermark.
LEMMA MarkUnknown ==
  ASSUME NEW wk, Inside(wk)' => pc'[wk] = "ticket"
  PROVE  MarkOf(wk)'
  BY DEF MarkOf, Inside, Phases

LEMMA EndMark ==
  ASSUME TypeOK, NEW wk \in Workers, NEW ok \in BOOLEAN, End(wk, ok)
  PROVE  MarkOf(wk)'
  BY EndLock, MarkUnknown

LEMMA WorksMark ==
  ASSUME TypeOK, MarkInv, NEW wk \in Workers, Works(wk)
  PROVE  MarkStep(wk)
  <1> DEFINE r == run[wk]
  <1>1. /\ r.task \in Tasks /\ r.old \in Ticket /\ r.new \in Task /\ r.newest \in Nat
        /\ r.upto \in Nat /\ r.old.mark \in Nat
    BY DEF TypeOK, WorkersOK, Run, Ticket
  <1>2. /\ run \in [Workers -> Run] /\ ticket \in [Tasks -> Ticket]
        /\ pc \in [Workers -> Phases \cup {"idle", "wait", "pause", "list"}]
        /\ MarkOf(wk)
    BY DEF TypeOK, WorkersOK, MarkInv
  <1>3. \A t \in Tasks : ticket[t].mark \in Nat
    BY <1>2 DEF Ticket
  <1>4. ASSUME \A t \in Tasks : ticket'[t].mark = ticket[t].mark, MarkOf(wk)'
        PROVE  MarkStep(wk)
    BY <1>3, <1>4 DEF MarkStep
  <1>5. ASSUME NEW topic, Notified(r.task, topic)
        PROVE  \A t \in Tasks : ticket'[t].mark = ticket[t].mark
    BY <1>1, <1>2, <1>5 DEF Notified, Ticket
  <1>6. ASSUME NEW x \in Nat, Inside(wk), ticket' = [ticket EXCEPT ![r.task].mark = x],
               x >= ticket[r.task].mark, MarkOf(wk)'
        PROVE  MarkStep(wk)
    BY <1>1, <1>2, <1>3, <1>6 DEF MarkStep, Ticket
  <1>7. CASE Resume(wk)
    BY <1>2, <1>4, <1>7, MarkUnknown DEF Resume
  <1>8. CASE ReadTicket(wk)
    <2>1. UNCHANGED ticket
      BY <1>8 DEF ReadTicket
    <2>2. CASE End(wk, TRUE)
      BY <1>4, <2>1, <2>2, EndMark
    <2>3. CASE run' = [run EXCEPT ![wk].old = ticket[r.task]] /\ Goto(wk, "task")
      <3>1. run'[wk].old = ticket[r.task] /\ run'[wk].task = r.task /\ pc'[wk] = "task"
        BY <1>2, <2>3 DEF Goto, Run
      <3>2. MarkOf(wk)'
        BY <2>1, <3>1 DEF MarkOf
      <3>3. QED
        BY <1>4, <2>1, <3>2
    <2>4. QED
      BY <1>8, <2>2, <2>3 DEF ReadTicket
  <1>9. CASE ReadTask(wk)
    <2>1. UNCHANGED ticket /\ pc[wk] = "task"
      BY <1>9 DEF ReadTask
    <2>2. run'[wk].old = r.old /\ run'[wk].task = r.task /\ pc'[wk] \in {"skip", "sender"}
      BY <1>2, <1>9 DEF ReadTask, Goto, Run
    <2>3. QED
      BY <1>2, <1>4, <2>1, <2>2 DEF MarkOf, Inside, Phases
  <1>10. CASE ReadSender(wk)
    <2> DEFINE branch == Branch(r.old, r.new, ~approved[r.task], r.chat)
    <2>1. UNCHANGED ticket /\ pc[wk] = "sender"
      BY <1>10 DEF ReadSender
    <2>2. CASE End(wk, TRUE)
      BY <1>4, <2>1, <2>2, EndMark
    <2>3. CASE branch # "return" /\ Goto(wk, branch) /\ UNCHANGED run
      <3>1. branch \in {"tellgone", "drop", "skip", "keep", "tell", "read"}
        BY <2>3 DEF Branch
      <3>2. pc'[wk] = branch /\ run' = run
        BY <1>2, <2>3 DEF Goto
      <3>3. MarkOf(wk)'
        BY <1>2, <2>1, <3>1, <3>2 DEF MarkOf, Inside, Phases
      <3>4. QED
        BY <1>4, <2>1, <3>3
    <2>4. QED
      BY <1>10, <2>2, <2>3 DEF ReadSender
  <1>11. CASE SkipRead(wk)
    <2> DEFINE mark == Greater(r.old.mark, Len(said[r.task]))
    <2>1. UNCHANGED ticket /\ pc[wk] = "skip"
      BY <1>11 DEF SkipRead
    <2>2. CASE End(wk, TRUE)
      BY <1>4, <2>1, <2>2, EndMark
    <2>3. CASE run' = [run EXCEPT ![wk].newest = mark] /\ Goto(wk, "skipsave")
      <3>1. mark \in Nat /\ r.old.mark <= mark
        BY <1>1, LenProperties DEF Greater, TypeOK, OutsideOK
      <3>2. /\ run'[wk].newest = mark /\ run'[wk].old = r.old /\ run'[wk].task = r.task
            /\ pc'[wk] = "skipsave"
        BY <1>2, <2>3 DEF Goto, Run
      <3>3. ticket[r.task].mark = r.old.mark
        BY <1>2, <2>1 DEF MarkOf, Inside, Phases
      <3>4. MarkOf(wk)'
        BY <2>1, <3>1, <3>2, <3>3 DEF MarkOf
      <3>5. QED
        BY <1>4, <2>1, <3>4
    <2>4. QED
      BY <1>11, <2>2, <2>3 DEF SkipRead
  <1>12. CASE SkipSave(wk)
    <2>1. /\ pc[wk] = "skipsave" /\ ticket' = [ticket EXCEPT ![r.task].mark = r.newest]
          /\ End(wk, TRUE)
      BY <1>12 DEF SkipSave
    <2>2. Inside(wk) /\ r.newest >= ticket[r.task].mark
      BY <1>1, <1>2, <1>3, <2>1 DEF MarkOf, Inside, Phases
    <2>3. QED
      BY <1>1, <1>6, <2>1, <2>2, EndMark
  <1>13. CASE Keep(wk)
    <2>1. /\ pc[wk] = "keep" /\ ticket' = [ticket EXCEPT ![r.task].col = r.new.col]
          /\ run' = run /\ pc'[wk] = "skip"
      BY <1>2, <1>13 DEF Keep, Goto
    <2>2. \A t \in Tasks : ticket'[t].mark = ticket[t].mark
      BY <1>1, <1>2, <2>1 DEF Ticket
    <2>3. QED
      BY <1>1, <1>2, <1>4, <2>1, <2>2 DEF MarkOf, Inside, Phases
  <1>14. CASE TellGone(wk)
    <2>1. pc[wk] = "tellgone" /\ run' = run /\ pc'[wk] = "drop"
      BY <1>2, <1>14 DEF TellGone, Goto
    <2>2. \A t \in Tasks : ticket'[t].mark = ticket[t].mark
      BY <1>5, <1>14 DEF TellGone
    <2>3. QED
      BY <1>1, <1>2, <1>4, <2>1, <2>2 DEF MarkOf, Inside, Phases
  <1>15. CASE Drop(wk)
    <2>1. End(wk, TRUE) /\ ticket' = [ticket EXCEPT ![r.task].deleted = TRUE]
      BY <1>15 DEF Drop
    <2>2. \A t \in Tasks : ticket'[t].mark = ticket[t].mark
      BY <1>1, <1>2, <2>1 DEF Ticket
    <2>3. QED
      BY <1>4, <2>1, <2>2, EndMark
  <1>16. CASE Tell(wk)
    <2>1. pc[wk] = "tell" /\ run' = run /\ pc'[wk] = "save"
      BY <1>2, <1>16 DEF Tell, Goto
    <2>2. \A t \in Tasks : ticket'[t].mark = ticket[t].mark
      BY <1>5, <1>16 DEF Tell
    <2>3. QED
      BY <1>1, <1>2, <1>4, <2>1, <2>2 DEF MarkOf, Inside, Phases
  <1>17. CASE Save(wk)
    <2>1. pc[wk] = "save" /\ ticket' = [ticket EXCEPT ![r.task].col = r.new.col]
      BY <1>17 DEF Save
    <2>2. \A t \in Tasks : ticket'[t].mark = ticket[t].mark
      BY <1>1, <1>2, <2>1 DEF Ticket
    <2>3. CASE End(wk, TRUE)
      BY <1>4, <2>2, <2>3, EndMark
    <2>4. CASE Goto(wk, "read") /\ UNCHANGED run
      <3>1. pc'[wk] = "read" /\ run' = run
        BY <1>2, <2>4 DEF Goto
      <3>2. QED
        BY <1>1, <1>2, <1>4, <2>1, <2>2, <3>1 DEF MarkOf, Inside, Phases
    <2>5. QED
      BY <1>17, <2>3, <2>4 DEF Save
  <1>18. CASE ReadChat(wk)
    <2>1. UNCHANGED ticket /\ pc[wk] = "read"
      BY <1>18 DEF ReadChat
    <2>2. CASE End(wk, TRUE)
      BY <1>4, <2>1, <2>2, EndMark
    <2>3. CASE /\ Len(said[r.task]) > r.old.mark /\ Goto(wk, "relay")
               /\ run' = [run EXCEPT ![wk].newest = r.old.mark, ![wk].upto = Len(said[r.task])]
      <3>1. Len(said[r.task]) \in Nat
        BY <1>1, LenProperties DEF TypeOK, OutsideOK
      <3>2. /\ run'[wk].newest = r.old.mark /\ run'[wk].upto = Len(said[r.task])
            /\ run'[wk].task = r.task /\ pc'[wk] = "relay"
        BY <1>2, <2>3 DEF Goto, Run
      <3>3. ticket[r.task].mark = r.old.mark
        BY <1>2, <2>1 DEF MarkOf, Inside, Phases
      <3>4. MarkOf(wk)'
        BY <1>1, <2>1, <2>3, <3>1, <3>2, <3>3 DEF MarkOf
      <3>5. QED
        BY <1>4, <2>1, <3>4
    <2>4. QED
      BY <1>18, <2>2, <2>3 DEF ReadChat
  <1>19. CASE Relay(wk)
    <2>1. PICK n \in ToRelay(r.task, r.newest, r.upto) : run' = [run EXCEPT ![wk].newest = n]
      BY <1>19 DEF Relay
    <2>2. n \in Nat /\ r.newest <= n /\ n <= r.upto
      BY <1>1, <2>1 DEF ToRelay
    <2>3. /\ pc[wk] = "relay" /\ pc'[wk] = "relaysave" /\ run'[wk].newest = n
          /\ run'[wk].task = r.task /\ run'[wk].upto = r.upto
      BY <1>2, <1>19, <2>1 DEF Relay, Goto, Run
    <2>4. \A t \in Tasks : ticket'[t].mark = ticket[t].mark
      BY <1>5, <1>19 DEF Relay
    <2>5. ticket'[r.task].mark <= n
      BY <1>1, <1>2, <1>3, <2>2, <2>3, <2>4 DEF MarkOf
    <2>6. MarkOf(wk)'
      BY <2>2, <2>3, <2>5 DEF MarkOf
    <2>7. QED
      BY <1>4, <2>4, <2>6
  <1>20. CASE RelaySave(wk)
    <2>1. /\ pc[wk] = "relaysave" /\ ticket' = [ticket EXCEPT ![r.task].mark = r.newest]
          /\ pc'[wk] = "relay" /\ run' = run
      BY <1>2, <1>20 DEF RelaySave, Goto
    <2>2. Inside(wk) /\ r.newest >= ticket[r.task].mark /\ r.newest <= r.upto
      BY <1>1, <1>2, <1>3, <2>1 DEF MarkOf, Inside, Phases
    <2>3. ticket'[r.task].mark = r.newest
      BY <1>1, <1>2, <2>1 DEF Ticket
    <2>4. MarkOf(wk)'
      BY <1>1, <2>1, <2>2, <2>3 DEF MarkOf
    <2>5. QED
      BY <1>1, <1>6, <2>1, <2>2, <2>4
  <1>21. CASE RelayEnd(wk)
    <2>1. /\ pc[wk] = "relay" /\ ticket' = [ticket EXCEPT ![r.task].mark = r.upto]
          /\ End(wk, TRUE)
      BY <1>21 DEF RelayEnd
    <2>2. Inside(wk) /\ r.upto >= ticket[r.task].mark
      BY <1>1, <1>2, <1>3, <2>1 DEF MarkOf, Inside, Phases
    <2>3. QED
      BY <1>1, <1>6, <2>1, <2>2, EndMark
  <1>22. QED
    BY <1>7, <1>8, <1>9, <1>10, <1>11, <1>12, <1>13, <1>14, <1>15, <1>16, <1>17, <1>18,
       <1>19, <1>20, <1>21 DEF Works

LEMMA RaisesMark ==
  ASSUME TypeOK, NEW wk \in Workers,
         YougileFails(wk) \/ TelegramDown(wk) \/ TelegramUnanswered(wk)
  PROVE  MarkStep(wk)
  <1>1. /\ run[wk].task \in Tasks /\ ticket \in [Tasks -> Ticket]
        /\ \A t \in Tasks : ticket[t].mark \in Nat
    BY DEF TypeOK, WorkersOK, Run, Ticket
  <1>2. End(wk, FALSE)
    BY DEF YougileFails, TelegramDown, TelegramUnanswered
  <1>3. UNCHANGED ticket \/ ticket' = [ticket EXCEPT ![run[wk].task].topic = FALSE]
    BY DEF YougileFails, TelegramDown, TelegramUnanswered
  <1>4. \A t \in Tasks : ticket'[t].mark = ticket[t].mark
    BY <1>1, <1>3 DEF Ticket
  <1>5. \A t \in Tasks : ticket'[t].mark >= ticket[t].mark
    BY <1>1, <1>4
  <1>6. MarkOf(wk)'
    BY <1>2, EndMark
  <1>7. QED
    BY <1>4, <1>5, <1>6 DEF MarkStep

\* What starts a refresh writes no ticket, and whoever it starts has read none yet.
LEMMA StartsMark ==
  ASSUME TypeOK, MarkInv,
         \/ StartRetry \/ StartListing \/ StartCheck \/ NextCheck \/ Restart
         \/ \E t \in Tasks : Expire(t) \/ \E kind \in {"task", "chat"} : Deliver(t, kind)
  PROVE  MarkInv' /\ UNCHANGED ticket
  <1>1. /\ Retry \in Workers /\ Check \in Workers /\ Tasks \subseteq Workers /\ WorkersOK
        /\ pc \in [Workers -> Phases \cup {"idle", "wait", "pause", "list"}]
        /\ run \in [Workers -> Run]
    BY DEF Workers, TypeOK, WorkersOK
  <1>2. UNCHANGED ticket
    BY DEF StartRetry, StartListing, StartCheck, NextCheck, Restart, Expire, Deliver
  <1>3. ASSUME NEW wk \in Workers, NEW phase \in {"ticket", "wait", "idle", "list"},
               pc' = [pc EXCEPT ![wk] = phase],
               \A v \in Workers \ {wk} : run'[v] = run[v]
        PROVE  MarkInv'
    <2>1. MarkOf(wk)'
      BY <1>1, <1>3 DEF MarkOf, Inside, Phases
    <2>2. \A v \in Workers \ {wk} : pc'[v] = pc[v] /\ run'[v] = run[v]
      BY <1>1, <1>3
    <2>3. \A v \in Workers \ {wk} : MarkOf(v)'
      BY <1>2, <2>2 DEF MarkInv, MarkOf, Inside
    <2>4. QED
      BY <2>1, <2>3 DEF MarkInv
  <1>4. ASSUME NEW wk \in Workers, NEW t, NEW chat, NEW table, Enters(wk, t, chat, table)
        PROVE  MarkInv'
    <2>1. /\ \E phase \in {"ticket", "wait"} : pc' = [pc EXCEPT ![wk] = phase]
          /\ \A v \in Workers \ {wk} : run'[v] = run[v]
      BY <1>1, <1>4 DEF Enters
    <2>2. QED
      BY <1>3, <2>1
  <1>5. CASE StartRetry \/ NextCheck
    BY <1>1, <1>4, <1>5 DEF StartRetry, NextCheck
  <1>6. CASE StartListing
    BY <1>1, <1>3, <1>6 DEF StartListing, Goto
  <1>7. CASE StartCheck
    <2>1. CASE pc' = [pc EXCEPT ![Check] = "idle"] /\ UNCHANGED run
      <3>1. \A v \in Workers \ {Check} : run'[v] = run[v]
        BY <2>1
      <3>2. QED
        BY <1>1, <1>2, <1>3, <2>1, <3>1
    <2>2. CASE \E t \in Due : \E table : Enters(Check, t, TRUE, table)
      BY <1>1, <1>2, <1>4, <2>2
    <2>3. QED
      BY <1>7, <2>1, <2>2 DEF StartCheck
  <1>8. CASE Restart
    BY <1>8 DEF Restart, MarkInv, MarkOf, Inside, Phases
  <1>9. ASSUME NEW t \in Tasks, Expire(t)
        PROVE  MarkInv'
    BY <1>2, <1>9 DEF Expire, MarkInv, MarkOf, Inside
  <1>10. ASSUME NEW t \in Tasks, NEW kind \in {"task", "chat"}, Deliver(t, kind)
         PROVE  MarkInv'
    <2>1. CASE Enters(t, t, kind = "chat", locks)
      BY <1>1, <1>4, <2>1
    <2>2. CASE UNCHANGED <<locks, pc, run>>
      BY <1>2, <2>2 DEF MarkInv, MarkOf, Inside
    <2>3. QED
      BY <1>10, <2>1, <2>2 DEF Deliver
  <1>11. QED
    BY <1>2, <1>5, <1>6, <1>7, <1>8, <1>9, <1>10

LEMMA NextMark ==
  ASSUME IInv, [Next]_vars
  PROVE  MarkInv' /\ \A t \in Tasks : ticket'[t].mark >= ticket[t].mark
  <1> USE DEF IInv
  <1>1. \A t \in Tasks : ticket[t].mark \in Nat
    BY DEF TypeOK, Ticket
  <1>2. ASSUME UNCHANGED ticket
        PROVE  \A t \in Tasks : ticket'[t].mark >= ticket[t].mark
    BY <1>1, <1>2
  <1>3. ASSUME NEW wk \in Workers, LockStep(wk), MarkStep(wk)
        PROVE  MarkInv' /\ \A t \in Tasks : ticket'[t].mark >= ticket[t].mark
    BY <1>3, MarkFrame DEF LockStep, MarkStep
  <1>4. CASE Service
    BY <1>2, <1>3, <1>4, WorksLock, WorksMark, RaisesLock, RaisesMark, StartsMark DEF Service
  <1>5. CASE World
    BY <1>2, <1>5, WorldStays DEF MarkInv, MarkOf, Inside
  <1>6. CASE UNCHANGED vars
    BY <1>2, <1>6 DEF vars, MarkInv, MarkOf, Inside
  <1>7. QED
    BY <1>4, <1>5, <1>6 DEF Next

\* The invariant is inductive.
LEMMA Inductive == ASSUME HandoffRace = FALSE PROVE Spec => []IInv
  <1>1. Init => IInv
    <2>1. Init => MarkInv
      BY DEF Init, MarkInv, MarkOf, Inside, Phases
    <2>2. QED
      BY <2>1, InitType, InitLock DEF IInv
  <1>2. IInv /\ [Next]_vars => IInv'
    BY NextType, NextLock, NextMark DEF IInv
  <1>3. QED
    BY <1>1, <1>2, PTL DEF Spec

\* The watermark of a ticket never goes back, although every refresh writes it from a snapshot
\* that is several awaits old: whatever was reported or skipped stays behind it.
THEOREM WatermarkStays == ASSUME HandoffRace = FALSE PROVE Spec => WatermarkNeverBack
  <1>1. IInv /\ [Next]_vars => [\A t \in Tasks : ticket'[t].mark >= ticket[t].mark]_vars
    BY NextMark
  <1>2. QED
    BY <1>1, Inductive, PTL DEF Spec, WatermarkNeverBack
=============================================================================
