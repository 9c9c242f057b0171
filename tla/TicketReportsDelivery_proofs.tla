--------------------- MODULE TicketReportsDelivery_proofs ---------------------
(***************************************************************************)
(* Proofs about what TicketReports promises of every message and report,   *)
(* for every set of tasks and every bound: that a failed report stays      *)
(* pending until it is made, that the watermark passes no message that is  *)
(* not settled, that what was skipped is never sent, and that a message is *)
(* sent again only at the price of a restart or an unanswered send.        *)
(*                                                                         *)
(* The argument: a worker writes the watermark from what it read several   *)
(* awaits before.  Holding the lock of the task it is the only one to do   *)
(* so (LockInv), so what it read of the ticket still stands (MarkInv); the *)
(* chat only grows, so what it read of the chat does too (ChatInv).        *)
(***************************************************************************)
EXTENDS TicketReports_proofs, FiniteSetTheorems

-----------------------------------------------------------------------------
(* Who is at work: the runner of a task works for that task and is busy while it does; the two
   loops always read the chat. *)
WorkInv ==
  /\ \A t \in Tasks : run[t].task = t /\ (t \in busy \/ pc[t] = "idle")
  /\ run[Retry].chat = TRUE /\ run[Check].chat = TRUE

OthersStay(wk) == \A v \in Workers \ {wk} : pc'[v] = pc[v] /\ run'[v] = run[v]

\* What a step of a refresh is, seen from the workers: it resumes, ends, or goes on.
LEMMA WorksShape ==
  ASSUME TypeOK, NEW wk \in Workers, Works(wk)
  PROVE  /\ UNCHANGED <<said, cuts, lapses>>
         /\ \/ Resume(wk)
            \/ End(wk, TRUE) /\ UNCHANGED faults
            \/ /\ \E phase \in Phases : Goto(wk, phase)
               /\ OthersStay(wk)
               /\ run'[wk].task = run[wk].task /\ run'[wk].chat = run[wk].chat
         /\ ~Resume(wk) => Inside(wk)
  <1> DEFINE r == run[wk]
  <1>1. /\ run \in [Workers -> Run]
        /\ pc \in [Workers -> Phases \cup {"idle", "wait", "pause", "list"}]
    BY DEF TypeOK, WorkersOK
  <1>2. UNCHANGED <<said, cuts, lapses>>
    BY DEF Works, Resume, ReadTicket, ReadTask, ReadSender, SkipRead, SkipSave, Keep, TellGone,
           Drop, Tell, Save, ReadChat, Relay, RelaySave, RelayEnd, outside, counters
  <1>3. ~Resume(wk) => Inside(wk)
    BY DEF Works, ReadTicket, ReadTask, ReadSender, SkipRead, SkipSave, Keep, TellGone,
           Drop, Tell, Save, ReadChat, Relay, RelaySave, RelayEnd, Inside, Phases
  <1>4. ASSUME NEW phase, Goto(wk, phase),
               \/ UNCHANGED run
               \/ run' = [run EXCEPT ![wk].old = ticket[r.task]]
               \/ run' = [run EXCEPT ![wk].new = task[r.task]]
               \/ \E n : run' = [run EXCEPT ![wk].newest = n]
               \/ \E n, u : run' = [run EXCEPT ![wk].newest = n, ![wk].upto = u]
        PROVE  /\ OthersStay(wk)
               /\ run'[wk].task = run[wk].task /\ run'[wk].chat = run[wk].chat
    BY <1>1, <1>4, ZenonT(40) DEF Goto, OthersStay, Run
  <1>5. \A phase \in {"task", "skip", "sender", "skipsave", "drop", "save", "read",
                      "relay", "relaysave"} : phase \in Phases
    BY DEF Phases
  <1>6. CASE ReadTicket(wk) \/ ReadTask(wk) \/ SkipRead(wk) \/ SkipSave(wk) \/ Keep(wk)
             \/ TellGone(wk) \/ Drop(wk)
    BY <1>2, <1>3, <1>4, <1>5, <1>6
       DEF ReadTicket, ReadTask, SkipRead, SkipSave, Keep, TellGone, Drop, counters
  <1>7. CASE ReadSender(wk)
    <2> DEFINE branch == Branch(r.old, r.new, ~approved[r.task], r.chat)
    <2>1. branch # "return" => branch \in Phases
      BY DEF Branch, Phases
    <2>2. QED
      BY <1>2, <1>3, <1>4, <1>7, <2>1 DEF ReadSender, counters
  <1>8. CASE Tell(wk) \/ Save(wk) \/ RelaySave(wk) \/ RelayEnd(wk)
    BY <1>2, <1>3, <1>4, <1>5, <1>8 DEF Tell, Save, RelaySave, RelayEnd, counters
  <1>9. CASE Relay(wk)
    <2>1. Goto(wk, "relaysave") /\ \E n : run' = [run EXCEPT ![wk].newest = n]
      BY <1>9 DEF Relay
    <2>2. QED
      BY <1>2, <1>3, <1>4, <1>5, <1>9, <2>1
  <1>10. CASE ReadChat(wk)
    <2>1. \/ End(wk, TRUE)
          \/ /\ Goto(wk, "relay")
             /\ \E n, u : run' = [run EXCEPT ![wk].newest = n, ![wk].upto = u]
      BY <1>10 DEF ReadChat
    <2>2. QED
      BY <1>2, <1>3, <1>4, <1>5, <1>10, <2>1 DEF ReadChat, counters
  <1>11. QED
    BY <1>2, <1>3, <1>6, <1>7, <1>8, <1>9, <1>10 DEF Works

\* The end of a refresh: what it does to pending, and to the worker.
LEMMA EndWork ==
  ASSUME TypeOK, WorkInv, NEW wk \in Workers, NEW ok \in BOOLEAN, Inside(wk), End(wk, ok)
  PROVE  /\ WorkInv'
         /\ \A t \in pending \ pending' :
               ok /\ wk \in {Retry, Check} /\ run[wk].task = t /\ run[wk].chat
  <1> DEFINE t == run[wk].task
             table == Released(locks, t, wk)
  <1>1. /\ run \in [Workers -> Run] /\ t \in Tasks
        /\ pc \in [Workers -> Phases \cup {"idle", "wait", "pause", "list"}]
    BY DEF TypeOK, WorkersOK, Run
  <1>2. /\ Retry \notin Tasks /\ Check \notin Tasks /\ Retry # Check
        /\ Retry \in Workers /\ Check \in Workers /\ Tasks \subseteq Workers
    BY WorkersAssumption DEF Workers
  <1>3. OthersStay(wk)
    BY EndLock DEF OthersStay
  <1>4. pc[wk] # "idle"
    BY DEF Inside, Phases
  <1>5. ASSUME NEW next, NEW chat, Enters(wk, next, chat, table)
        PROVE  run'[wk].task = next /\ run'[wk].chat = chat
    BY <1>1, <1>5 DEF Enters, Blank
  <1>6. ASSUME run' = [run EXCEPT ![wk] = Blank(t, TRUE)]
        PROVE  run'[wk].task = t /\ run'[wk].chat = TRUE
    BY <1>1, <1>6 DEF Blank
  <1>7. CASE EventGoesOn(wk, ok)
    <2>1. wk \in Tasks /\ t = wk /\ wk \in busy /\ pending \ pending' = {}
      BY <1>4, <1>7 DEF EventGoesOn, EventLeaves, WorkInv
    <2>2. run'[wk].task = wk
      BY <1>5, <1>6, <1>7, <2>1 DEF EventGoesOn
    <2>3. (wk \in busy' \/ pc'[wk] = "idle") /\ busy \ {wk} = busy' \ {wk}
      BY <1>1, <1>7, <2>1 DEF EventGoesOn
    <2>4. QED
      BY <1>2, <1>3, <2>1, <2>2, <2>3 DEF WorkInv, OthersStay
  <1>8. CASE RetryGoesOn(wk, ok)
    <2>1. run'[wk].chat = TRUE
      BY <1>5, <1>6, <1>8 DEF RetryGoesOn
    <2>2. wk = Retry /\ busy' = busy /\ pending \ pending' \subseteq IF ok THEN {t} ELSE {}
      BY <1>8 DEF RetryGoesOn, RetryLeaves
    <2>3. QED
      BY <1>2, <1>3, <2>1, <2>2 DEF WorkInv, OthersStay
  <1>9. CASE CheckGoesOn(wk, ok)
    <2>1. run'[wk].chat = TRUE
      BY <1>6, <1>9 DEF CheckGoesOn
    <2>2. wk = Check /\ busy' = busy /\ pending \ pending' \subseteq IF ok THEN {t} ELSE {}
      BY <1>9 DEF CheckGoesOn
    <2>3. QED
      BY <1>2, <1>3, <2>1, <2>2 DEF WorkInv, OthersStay
  <1>10. QED
    BY <1>7, <1>8, <1>9 DEF End

LEMMA WorkStays ==
  ASSUME WorkInv, NEW wk \in Workers, OthersStay(wk), busy' = busy,
         run'[wk].task = run[wk].task, run'[wk].chat = run[wk].chat,
         wk \in Tasks => wk \in busy \/ pc'[wk] = "idle"
  PROVE  WorkInv'
  BY DEF WorkInv, OthersStay, Workers

LEMMA NextWork ==
  ASSUME TypeOK, WorkInv, [Next]_vars
  PROVE  /\ WorkInv'
         /\ \A t \in pending \ pending' :
              \/ cuts' # cuts
              \/ /\ faults' = faults
                 /\ \E wk \in {Retry, Check} : Inside(wk) /\ run[wk].task = t /\ run[wk].chat
  <1> DEFINE Kept == \A t \in pending \ pending' :
              \/ cuts' # cuts
              \/ /\ faults' = faults
                 /\ \E wk \in {Retry, Check} : Inside(wk) /\ run[wk].task = t /\ run[wk].chat
  <1>1. /\ run \in [Workers -> Run]
        /\ pc \in [Workers -> Phases \cup {"idle", "wait", "pause", "list"}]
        /\ cuts \in Nat
    BY DEF TypeOK, WorkersOK, HistoryOK
  <1>2. /\ Retry \notin Tasks /\ Check \notin Tasks /\ Retry # Check
        /\ Retry \in Workers /\ Check \in Workers /\ Tasks \subseteq Workers
    BY WorkersAssumption DEF Workers
  <1>3. ASSUME NEW wk \in Workers, Works(wk)
        PROVE  WorkInv' /\ Kept
    <2>1. CASE Resume(wk)
      <3>1. /\ busy' = busy /\ pending' = pending /\ run' = run
            /\ pc[wk] = "wait" /\ pc' = [pc EXCEPT ![wk] = "ticket"]
        BY <2>1 DEF Resume
      <3>2. OthersStay(wk) /\ (wk \in Tasks => wk \in busy)
        BY <1>1, <3>1 DEF OthersStay, WorkInv
      <3>3. QED
        BY <3>1, <3>2, WorkStays
    <2>2. CASE End(wk, TRUE) /\ UNCHANGED faults /\ ~Resume(wk)
      <3>1. Inside(wk)
        BY <1>3, <2>2, WorksShape
      <3>2. QED
        BY <2>2, <3>1, EndWork
    <2>3. CASE /\ ~Resume(wk)
               /\ \E phase \in Phases : Goto(wk, phase)
               /\ OthersStay(wk)
               /\ run'[wk].task = run[wk].task /\ run'[wk].chat = run[wk].chat
      <3>1. busy' = busy /\ pending' = pending
        BY <2>3 DEF Goto, memory
      <3>2. Inside(wk)
        BY <1>3, <2>3, WorksShape
      <3>3. wk \in Tasks => wk \in busy
        BY <3>2 DEF Inside, Phases, WorkInv
      <3>4. QED
        BY <2>3, <3>1, <3>3, WorkStays
    <2>4. QED
      BY <1>3, <2>1, <2>2, <2>3, WorksShape
  <1>4. ASSUME NEW wk \in Workers,
               YougileFails(wk) \/ TelegramDown(wk) \/ TelegramUnanswered(wk)
        PROVE  WorkInv' /\ Kept
    <2>1. Inside(wk) /\ End(wk, FALSE)
      BY <1>4 DEF YougileFails, TelegramDown, TelegramUnanswered, Telling, Inside, Phases
    <2>2. QED
      BY <2>1, EndWork
  <1>5. ASSUME NEW wk \in {Retry, Check}, NEW t, NEW table, Enters(wk, t, TRUE, table),
               busy' = busy, pending' = pending
        PROVE  WorkInv' /\ Kept
    <2>1. OthersStay(wk) /\ run'[wk].chat = TRUE
      BY <1>1, <1>2, <1>5 DEF Enters, Blank, OthersStay
    <2>2. QED
      BY <1>2, <1>5, <2>1 DEF WorkInv, OthersStay
  <1>6. CASE StartRetry \/ NextCheck
    BY <1>5, <1>6 DEF StartRetry, NextCheck
  <1>7. CASE StartListing
    <2>1. /\ run' = run /\ busy' = busy /\ pending' = pending
          /\ pc' = [pc EXCEPT ![Check] = "list"]
      BY <1>7 DEF StartListing, Goto, memory
    <2>2. QED
      BY <1>2, <2>1 DEF WorkInv
  <1>8. CASE StartCheck
    <2>1. busy' = busy /\ pending' = pending
      BY <1>8 DEF StartCheck
    <2>2. CASE pc' = [pc EXCEPT ![Check] = "idle"] /\ UNCHANGED run
      BY <1>2, <2>1, <2>2 DEF WorkInv
    <2>3. CASE \E t \in Due : \E table : Enters(Check, t, TRUE, table)
      BY <1>5, <2>1, <2>3
    <2>4. QED
      BY <1>8, <2>2, <2>3 DEF StartCheck
  <1>9. CASE Restart
    <2>1. cuts' # cuts
      BY <1>1, <1>9 DEF Restart
    <2>2. WorkInv'
      BY <1>2, <1>9 DEF Restart, WorkInv, Blank
    <2>3. QED
      BY <2>1, <2>2
  <1>10. ASSUME NEW t \in Tasks, Expire(t)
         PROVE  WorkInv' /\ Kept
    BY <1>10 DEF Expire, WorkInv
  <1>11. ASSUME NEW t \in Tasks, NEW kind \in {"task", "chat"}, Deliver(t, kind)
         PROVE  WorkInv' /\ Kept
    <2>1. pending' = pending
      BY <1>11 DEF Deliver
    <2>2. CASE UNCHANGED <<locks, pc, run, busy>>
      BY <2>1, <2>2 DEF WorkInv
    <2>3. CASE busy' = busy \cup {t} /\ Enters(t, t, kind = "chat", locks)
      <3>1. OthersStay(t) /\ run'[t].task = t
        BY <1>1, <1>2, <2>3 DEF Enters, Blank, OthersStay
      <3>2. QED
        BY <1>2, <2>1, <2>3, <3>1 DEF WorkInv, OthersStay
    <2>4. QED
      BY <1>11, <2>2, <2>3 DEF Deliver
  <1>12. CASE World
    <2>1. pending' = pending /\ busy' = busy /\ pc' = pc /\ run' = run
      BY <1>12 DEF World, Move, Remove, ChangeAccess, Say, Lose, Around, memory
    <2>2. QED
      BY <2>1 DEF WorkInv
  <1>13. CASE UNCHANGED vars
    BY <1>13 DEF vars, WorkInv
  <1>14. QED
    BY <1>3, <1>4, <1>6, <1>7, <1>8, <1>9, <1>10, <1>11, <1>12, <1>13 DEF Next, Service

LEMMA InitWork == Init => WorkInv
  BY WorkersAssumption DEF Init, WorkInv, Blank, Workers

\* A failed report is never forgotten: a task leaves pending only when one of the two loops has
\* refreshed that very task, chat included and without a fault, or when the process ends.
THEOREM PendingStays == Spec => PendingUntilReported
  <1>1. Init => TypeOK /\ WorkInv
    BY InitType, InitWork
  <1>2. TypeOK /\ WorkInv /\ [Next]_vars => (TypeOK /\ WorkInv)'
    BY NextType, NextWork
  <1>3. TypeOK /\ WorkInv /\ [Next]_vars =>
          [\A t \in pending \ pending' :
             \/ cuts' # cuts
             \/ /\ faults' = faults
                /\ \E wk \in {Retry, Check} : Inside(wk) /\ run[wk].task = t /\ run[wk].chat]_vars
    BY NextWork
  <1>4. QED
    BY <1>1, <1>2, <1>3, PTL DEF Spec, PendingUntilReported

-----------------------------------------------------------------------------
(* The messages of a chat.  Settled: the message is nothing the sender still has to get. *)
Settled(t, m) == said[t][m].mute \/ relayed[t][m] > 0 \/ m \in skipped[t]

\* What the watermark of a ticket says of the chat.
TicketChat(t) ==
  /\ Len(said[t]) <= MaxMessages
  /\ ticket[t].mark <= Len(said[t])
  /\ \A m \in 1 .. ticket[t].mark : Settled(t, m)
  /\ skipped[t] \subseteq 1 .. ticket[t].mark

\* What a worker that relays or skips may write as the next watermark.
ChatOf(wk) ==
  LET r == run[wk]
  IN /\ pc[wk] = "skipsave" => r.newest <= Len(said[r.task])
     /\ pc[wk] \in {"relay", "relaysave"} =>
          r.upto <= Len(said[r.task]) /\ \A m \in 1 .. r.newest : Settled(r.task, m)

ChatInv == (\A t \in Tasks : TicketChat(t)) /\ (\A wk \in Workers : ChatOf(wk))

LEMMA LenType ==
  ASSUME TypeOK, NEW t \in Tasks
  PROVE  Len(said[t]) \in Nat
  BY LenProperties DEF TypeOK, OutsideOK

LEMMA ValueTypes ==
  ASSUME TypeOK, NEW wk \in Workers
  PROVE  /\ run[wk].task \in Tasks /\ run[wk].old.mark \in Nat /\ run[wk].newest \in Nat
         /\ run[wk].upto \in Nat /\ run[wk].old \in Ticket /\ run[wk].new \in Task
         /\ \A t \in Tasks : ticket[t].mark \in Nat /\ skipped[t] \subseteq Nat
         /\ \A t \in Tasks, m \in 1 .. MaxMessages : relayed[t][m] \in Nat
         /\ MaxMessages \in Nat
         /\ run \in [Workers -> Run] /\ ticket \in [Tasks -> Ticket]
         /\ pc \in [Workers -> Phases \cup {"idle", "wait", "pause", "list"}]
  BY BoundsAssumption DEF TypeOK, WorkersOK, HistoryOK, Run, Ticket

\* What is settled stays so: a message is not edited, not unsent, not taken back from the
\* skipped ones.
LEMMA StaysSettled ==
  ASSUME TypeOK, NEW t \in Tasks, NEW m \in 1 .. Len(said[t]), Len(said[t]) <= MaxMessages,
         Settled(t, m), said'[t][m] = said[t][m], skipped[t] \subseteq skipped'[t],
         relayed'[t][m] \in Nat, relayed'[t][m] >= relayed[t][m]
  PROVE  Settled(t, m)'
  <1>1. relayed[t][m] \in Nat
    BY LenType, ValueTypes, BoundsAssumption DEF TypeOK, HistoryOK
  <1>2. QED
    BY <1>1 DEF Settled

(* A step of one worker, seen from the chats. *)
ChatStep(wk) ==
  /\ said' = said
  /\ \A t \in Tasks, m \in 1 .. MaxMessages : relayed'[t][m] >= relayed[t][m]
  /\ \A t \in Tasks : skipped[t] \subseteq skipped'[t]
  /\ \A t \in Tasks : \/ ticket'[t].mark = ticket[t].mark /\ skipped'[t] = skipped[t]
                      \/ TicketChat(t)'
  /\ ChatOf(wk)'

LEMMA ChatFrame ==
  ASSUME TypeOK, TypeOK', MarkInv, ChatInv, NEW wk \in Workers, ChatStep(wk),
         OthersStay(wk)
  PROVE  ChatInv'
  <1>1. ASSUME NEW t \in Tasks, NEW m \in 1 .. Len(said[t]), Settled(t, m)
        PROVE  Settled(t, m)'
    <2>1. Len(said[t]) \in Nat /\ Len(said[t]) <= MaxMessages /\ MaxMessages \in Nat
      BY LenType, BoundsAssumption DEF ChatInv, TicketChat
    <2>2. m \in 1 .. MaxMessages
      BY <2>1
    <2>3. relayed'[t][m] \in Nat
      <3>1. HistoryOK'
        BY DEF TypeOK
      <3>2. relayed' \in [Tasks -> [1 .. MaxMessages -> Nat]]
        BY <3>1 DEF HistoryOK
      <3>3. QED
        BY <2>2, <3>2
    <2>4. QED
      BY <1>1, <2>1, <2>2, <2>3, StaysSettled DEF ChatStep
  <1>2. ASSUME NEW t \in Tasks
        PROVE  TicketChat(t)'
    <2>1. CASE ticket'[t].mark = ticket[t].mark /\ skipped'[t] = skipped[t]
      <3>1. TicketChat(t) /\ said' = said /\ Len(said[t]) \in Nat /\ ticket[t].mark \in Nat
        BY LenType DEF ChatInv, ChatStep, TypeOK, Ticket
      <3>2. \A m \in 1 .. ticket[t].mark : m \in 1 .. Len(said[t]) /\ Settled(t, m)
        BY <3>1 DEF TicketChat
      <3>3. \A m \in 1 .. ticket[t].mark : Settled(t, m)'
        BY <1>1, <3>2
      <3>4. QED
        BY <2>1, <3>1, <3>3 DEF TicketChat
    <2>2. QED
      BY <2>1 DEF ChatStep
  <1>3. ASSUME NEW v \in Workers
        PROVE  ChatOf(v)'
    <2>1. CASE v = wk
      BY <2>1 DEF ChatStep
    <2>2. CASE v # wk
      <3>1. /\ pc'[v] = pc[v] /\ run'[v] = run[v] /\ said' = said /\ ChatOf(v)
            /\ run[v].task \in Tasks /\ run[v].newest \in Nat /\ run[v].upto \in Nat
            /\ Len(said[run[v].task]) \in Nat
        BY <2>2, LenType, ValueTypes DEF OthersStay, ChatStep, ChatInv
      <3>2. CASE pc[v] \in {"relay", "relaysave"}
        <4>1. /\ run[v].upto <= Len(said[run[v].task])
              /\ \A m \in 1 .. run[v].newest : Settled(run[v].task, m)
              /\ run[v].newest <= run[v].upto
          BY <3>1, <3>2 DEF ChatOf, MarkInv, MarkOf
        <4>2. \A m \in 1 .. run[v].newest : m \in 1 .. Len(said[run[v].task])
          BY <3>1, <4>1
        <4>3. \A m \in 1 .. run[v].newest : Settled(run[v].task, m)'
          BY <1>1, <3>1, <4>1, <4>2
        <4>4. QED
          BY <3>1, <3>2, <4>1, <4>3 DEF ChatOf
      <3>3. CASE pc[v] \notin {"relay", "relaysave"}
        BY <3>1, <3>3 DEF ChatOf
      <3>4. QED
        BY <3>2, <3>3
    <2>3. QED
      BY <2>1, <2>2
  <1>4. QED
    BY <1>2, <1>3 DEF ChatInv

\* The message that is handed over: the first of the team that is newer than the watermark.
LEMMA HandOverOne ==
  ASSUME TypeOK, MarkInv, ChatInv, NEW wk \in Workers, pc[wk] = "relay",
         NEW m \in ToRelay(run[wk].task, run[wk].newest, run[wk].upto),
         HandOver(run[wk].task, m)
  PROVE  /\ m \in 1 .. MaxMessages /\ m > ticket[run[wk].task].mark
         /\ m > run[wk].newest /\ m <= run[wk].upto
         /\ m <= Len(said[run[wk].task])
         /\ relayed'[run[wk].task][m] = relayed[run[wk].task][m] + 1
         /\ \A u \in Tasks, n \in 1 .. MaxMessages :
               u # run[wk].task \/ n # m => relayed'[u][n] = relayed[u][n]
         /\ \A u \in Tasks, n \in 1 .. MaxMessages : relayed'[u][n] >= relayed[u][n]
  <1> DEFINE t == run[wk].task
  <1>1. /\ t \in Tasks /\ run[wk].newest \in Nat /\ run[wk].upto \in Nat
        /\ ticket[t].mark \in Nat /\ MaxMessages \in Nat /\ Len(said[t]) \in Nat
        /\ \A u \in Tasks, n \in 1 .. MaxMessages : relayed[u][n] \in Nat
    BY ValueTypes, LenType
  <1>2. m \in Nat /\ m > run[wk].newest /\ m <= run[wk].upto
    BY <1>1 DEF ToRelay
  <1>3. ticket[t].mark <= run[wk].newest
    BY DEF MarkInv, MarkOf
  <1>4. run[wk].upto <= Len(said[t]) /\ Len(said[t]) <= MaxMessages
    BY <1>1 DEF ChatInv, ChatOf, TicketChat
  <1>5. m \in 1 .. MaxMessages /\ m > ticket[t].mark /\ m <= Len(said[t])
    BY <1>1, <1>2, <1>3, <1>4, SMTT(30)
  <1>6. relayed \in [Tasks -> [1 .. MaxMessages -> Nat]]
    BY DEF TypeOK, HistoryOK
  <1>7. /\ relayed'[t][m] = relayed[t][m] + 1
        /\ \A u \in Tasks, n \in 1 .. MaxMessages :
              u # t \/ n # m => relayed'[u][n] = relayed[u][n]
    BY <1>1, <1>5, <1>6 DEF HandOver
  <1>8. \A u \in Tasks, n \in 1 .. MaxMessages : relayed'[u][n] >= relayed[u][n]
    BY <1>1, <1>7
  <1>9. QED
    BY <1>2, <1>5, <1>7, <1>8

LEMMA EndChat ==
  ASSUME TypeOK, NEW wk \in Workers, NEW ok \in BOOLEAN, End(wk, ok)
  PROVE  ChatOf(wk)' /\ OthersStay(wk)
  <1>1. Inside(wk)' => pc'[wk] = "ticket"
    BY EndLock
  <1>2. OthersStay(wk)
    BY EndLock DEF OthersStay
  <1>3. pc'[wk] \notin {"skipsave", "relay", "relaysave"}
    BY <1>1 DEF Inside, Phases
  <1>4. QED
    BY <1>2, <1>3 DEF ChatOf

LEMMA WorksChat ==
  ASSUME TypeOK, MarkInv, ChatInv, NEW wk \in Workers, Works(wk)
  PROVE  /\ ChatStep(wk)
         /\ \A t \in Tasks : \A m \in skipped[t] : relayed'[t][m] = relayed[t][m]
  <1> DEFINE r == run[wk]
             Spared == \A u \in Tasks : \A m \in skipped[u] : relayed'[u][m] = relayed[u][m]
  <1> PICK t \in Tasks : t = r.task
    BY ValueTypes
  <1>1. /\ t \in Tasks /\ r.newest \in Nat /\ r.upto \in Nat /\ r.old.mark \in Nat
        /\ ticket[t].mark \in Nat /\ MaxMessages \in Nat /\ Len(said[t]) \in Nat
        /\ \A u \in Tasks, n \in 1 .. MaxMessages : relayed[u][n] \in Nat
        /\ \A u \in Tasks : ticket[u].mark \in Nat
        /\ run \in [Workers -> Run] /\ ticket \in [Tasks -> Ticket]
        /\ pc \in [Workers -> Phases \cup {"idle", "wait", "pause", "list"}]
        /\ r.new \in Task
    BY ValueTypes, LenType
  <1>2. said' = said
    BY WorksShape
  <1>3. TicketChat(t) /\ ChatOf(wk) /\ MarkOf(wk)
    BY <1>1 DEF ChatInv, MarkInv
  <1>4. \A u \in Tasks, m \in 1 .. MaxMessages : relayed[u][m] >= relayed[u][m]
    BY <1>1
  \* A step that hands nothing over and writes no watermark.
  <1>5. ASSUME relayed' = relayed, skipped' = skipped, ChatOf(wk)',
               \A u \in Tasks : ticket'[u].mark = ticket[u].mark
        PROVE  ChatStep(wk) /\ Spared
    BY <1>2, <1>4, <1>5 DEF ChatStep
  <1>6. ASSUME NEW topic, Notified(t, topic)
        PROVE  \A u \in Tasks : ticket'[u].mark = ticket[u].mark
    BY <1>1, <1>6 DEF Notified, Ticket
  <1>7. ASSUME NEW x \in Nat, ticket' = [ticket EXCEPT ![t].mark = x]
        PROVE  /\ ticket'[t].mark = x
               /\ \A u \in Tasks : u # t => ticket'[u].mark = ticket[u].mark
    BY <1>1, <1>7 DEF Ticket
  <1>8. CASE Resume(wk)
    <2>1. /\ relayed' = relayed /\ skipped' = skipped /\ ticket' = ticket
          /\ pc' = [pc EXCEPT ![wk] = "ticket"]
      BY <1>8 DEF Resume, history
    <2>2. pc'[wk] = "ticket"
      BY <1>1, <2>1
    <2>3. QED
      BY <1>5, <2>1, <2>2 DEF ChatOf
  <1>9. CASE ReadTicket(wk) \/ ReadTask(wk) \/ ReadSender(wk) \/ Keep(wk) \/ TellGone(wk)
             \/ Drop(wk) \/ Tell(wk) \/ Save(wk)
    <2>1. relayed' = relayed /\ skipped' = skipped
      BY <1>9 DEF ReadTicket, ReadTask, ReadSender, Keep, TellGone, Drop, Tell, Save, history
    <2>2. \A u \in Tasks : ticket'[u].mark = ticket[u].mark
      <3>1. \/ ticket' = ticket
            \/ \E x : ticket' = [ticket EXCEPT ![t].col = x]
            \/ ticket' = [ticket EXCEPT ![t].deleted = TRUE]
            \/ Notified(t, r.old.topic)
        BY <1>9 DEF ReadTicket, ReadTask, ReadSender, Keep, TellGone, Drop, Tell, Save
      <3>2. ASSUME NEW x, ticket' = [ticket EXCEPT ![t].col = x]
            PROVE  \A u \in Tasks : ticket'[u].mark = ticket[u].mark
        BY <1>1, <3>2 DEF Ticket
      <3>3. CASE ticket' = [ticket EXCEPT ![t].deleted = TRUE]
        BY <1>1, <3>3 DEF Ticket
      <3>4. QED
        BY <1>6, <3>1, <3>2, <3>3
    <2>3. ChatOf(wk)'
      <3>1. \/ End(wk, TRUE)
            \/ \E phase \in Phases \ {"skipsave", "relay", "relaysave"} : Goto(wk, phase)
        <4>1. \A phase \in {"task", "skip", "sender", "drop", "save", "read"} :
                 phase \in Phases \ {"skipsave", "relay", "relaysave"}
          BY DEF Phases
        <4>2. CASE ReadSender(wk)
          <5> DEFINE branch == Branch(r.old, r.new, ~approved[r.task], r.chat)
          <5>1. branch # "return" => branch \in Phases \ {"skipsave", "relay", "relaysave"}
            BY DEF Branch, Phases
          <5>2. QED
            BY <4>2, <5>1 DEF ReadSender
        <4>3. QED
          BY <1>9, <4>1, <4>2 DEF ReadTicket, ReadTask, Keep, TellGone, Drop, Tell, Save
      <3>2. CASE \E phase \in Phases \ {"skipsave", "relay", "relaysave"} : Goto(wk, phase)
        <4>1. pc'[wk] \notin {"skipsave", "relay", "relaysave"}
          BY <1>1, <3>2 DEF Goto
        <4>2. QED
          BY <4>1 DEF ChatOf
      <3>3. QED
        BY <3>1, <3>2, EndChat
    <2>4. QED
      BY <1>5, <2>1, <2>2, <2>3
  <1>10. CASE SkipRead(wk)
    <2> DEFINE mark == Greater(r.old.mark, Len(said[t]))
    <2>1. relayed' = relayed /\ skipped' = skipped /\ ticket' = ticket
      BY <1>10 DEF SkipRead, history
    <2>2. CASE End(wk, TRUE)
      BY <1>5, <2>1, <2>2, EndChat
    <2>3. CASE run' = [run EXCEPT ![wk].newest = mark] /\ Goto(wk, "skipsave")
      <3>1. r.old.mark = ticket[t].mark
        BY <1>3, <1>10 DEF SkipRead, MarkOf, Inside, Phases
      <3>2. mark <= Len(said[t])
        BY <1>1, <1>3, <3>1 DEF Greater, TicketChat
      <3>3. run'[wk].newest = mark /\ run'[wk].task = t /\ pc'[wk] = "skipsave"
        BY <1>1, <2>3 DEF Goto, Run
      <3>4. ChatOf(wk)'
        BY <1>2, <3>2, <3>3 DEF ChatOf
      <3>5. QED
        BY <1>5, <2>1, <3>4
    <2>4. QED
      BY <1>10, <2>2, <2>3 DEF SkipRead
  <1>11. CASE SkipSave(wk)
    <2>1. /\ pc[wk] = "skipsave" /\ End(wk, TRUE) /\ relayed' = relayed
          /\ ticket' = [ticket EXCEPT ![t].mark = r.newest]
          /\ skipped' = [skipped EXCEPT ![t] = @ \cup (r.old.mark + 1 .. r.newest)]
      BY <1>11 DEF SkipSave
    <2>2. /\ r.old.mark = ticket[t].mark /\ ticket[t].mark <= r.newest
          /\ r.newest <= Len(said[t])
      BY <1>3, <2>1 DEF MarkOf, ChatOf, Inside, Phases
    <2>3. /\ skipped'[t] = skipped[t] \cup (r.old.mark + 1 .. r.newest)
          /\ \A u \in Tasks : u # t => skipped'[u] = skipped[u]
      BY <1>1, <2>1 DEF TypeOK, HistoryOK
    <2>4. ticket'[t].mark = r.newest /\ \A u \in Tasks : u # t => ticket'[u].mark = ticket[u].mark
      BY <1>1, <1>7, <2>1
    <2>5. \A m \in 1 .. r.newest : Settled(t, m)'
      <3>1. TAKE m \in 1 .. r.newest
      <3>2. CASE m \in 1 .. ticket[t].mark
        <4>1. Settled(t, m)
          BY <1>3, <3>2 DEF TicketChat
        <4>2. QED
          BY <1>2, <2>1, <2>3, <4>1 DEF Settled
      <3>3. CASE m \notin 1 .. ticket[t].mark
        <4>1. m \in r.old.mark + 1 .. r.newest
          BY <1>1, <2>2, <3>3
        <4>2. QED
          BY <2>3, <4>1 DEF Settled
      <3>4. QED
        BY <3>2, <3>3
    <2>6. skipped'[t] \subseteq 1 .. r.newest
      BY <1>1, <1>3, <2>2, <2>3 DEF TicketChat
    <2>7. TicketChat(t)'
      BY <1>1, <1>2, <1>3, <2>2, <2>4, <2>5, <2>6 DEF TicketChat
    <2>8. QED
      BY <1>2, <1>4, <2>1, <2>3, <2>4, <2>7, EndChat DEF ChatStep
  <1>12. CASE ReadChat(wk)
    <2>1. relayed' = relayed /\ skipped' = skipped /\ ticket' = ticket
      BY <1>12 DEF ReadChat, history
    <2>2. CASE End(wk, TRUE)
      BY <1>5, <2>1, <2>2, EndChat
    <2>3. CASE /\ Goto(wk, "relay")
               /\ run' = [run EXCEPT ![wk].newest = r.old.mark, ![wk].upto = Len(said[t])]
      <3>1. r.old.mark = ticket[t].mark
        BY <1>3, <1>12 DEF ReadChat, MarkOf, Inside, Phases
      <3>2. /\ run'[wk].newest = ticket[t].mark /\ run'[wk].upto = Len(said[t])
            /\ run'[wk].task = t /\ pc'[wk] = "relay"
        BY <1>1, <2>3, <3>1 DEF Goto, Run
      <3>3. \A m \in 1 .. ticket[t].mark : Settled(t, m)'
        BY <1>2, <1>3, <2>1 DEF TicketChat, Settled
      <3>4. ChatOf(wk)'
        BY <1>1, <1>2, <3>2, <3>3 DEF ChatOf
      <3>5. QED
        BY <1>5, <2>1, <3>4
    <2>4. QED
      BY <1>12, <2>2, <2>3 DEF ReadChat
  <1>13. CASE Relay(wk)
    <2>1. PICK m \in ToRelay(t, r.newest, r.upto) :
             /\ \A n \in ToRelay(t, r.newest, r.upto) : m <= n
             /\ HandOver(t, m)
             /\ run' = [run EXCEPT ![wk].newest = m]
      BY <1>13 DEF Relay
    <2>2. pc[wk] = "relay" /\ skipped' = skipped /\ pc'[wk] = "relaysave"
      BY <1>1, <1>13 DEF Relay, Goto
    <2>3. \A u \in Tasks : ticket'[u].mark = ticket[u].mark
      BY <1>6, <1>13 DEF Relay
    <2>4. /\ m \in 1 .. MaxMessages /\ m > ticket[t].mark /\ m > r.newest /\ m <= r.upto
          /\ m <= Len(said[t]) /\ relayed'[t][m] = relayed[t][m] + 1
          /\ \A u \in Tasks, n \in 1 .. MaxMessages :
               u # t \/ n # m => relayed'[u][n] = relayed[u][n]
          /\ \A u \in Tasks, n \in 1 .. MaxMessages : relayed'[u][n] >= relayed[u][n]
      BY <2>1, <2>2, HandOverOne
    <2>5. run'[wk].newest = m /\ run'[wk].task = t /\ run'[wk].upto = r.upto
      BY <1>1, <2>1 DEF Run
    <2>6. r.upto <= Len(said[t]) /\ \A n \in 1 .. r.newest : Settled(t, n)
      BY <1>3, <2>2 DEF ChatOf
    <2>7. ASSUME NEW n \in 1 .. m
          PROVE  Settled(t, n)'
      <3>1. CASE n \in 1 .. r.newest
        <4>1. n \in 1 .. MaxMessages /\ n # m
          BY <1>1, <2>4, <3>1
        <4>2. relayed'[t][n] = relayed[t][n]
          BY <1>1, <2>4, <4>1
        <4>3. QED
          BY <1>2, <2>2, <2>6, <3>1, <4>2 DEF Settled
      <3>2. CASE n \in r.newest + 1 .. m - 1
        <4>1. n \in Nat /\ m \in Nat /\ n < m
          BY <1>1, <2>4, <3>2
        <4>2. \A k \in ToRelay(t, r.newest, r.upto) : m <= k
          BY <2>1
        <4>3. n \notin ToRelay(t, r.newest, r.upto)
          BY <4>1, <4>2
        <4>4. n \in r.newest + 1 .. r.upto
          BY <1>1, <2>4, <3>2
        <4>5. said[t][n].mute
          BY <4>4, <4>3 DEF ToRelay
        <4>6. QED
          BY <1>2, <4>5 DEF Settled
      <3>3. CASE n = m
        <4>1. relayed'[t][m] > 0
          BY <1>1, <2>4
        <4>2. QED
          BY <3>3, <4>1 DEF Settled
      <3>4. QED
        BY <1>1, <2>4, <3>1, <3>2, <3>3
    <2>8. ChatOf(wk)'
      BY <1>2, <2>2, <2>5, <2>6, <2>7 DEF ChatOf
    <2>9. Spared
      <3>1. TAKE u \in Tasks
      <3>2. TAKE n \in skipped[u]
      <3>3. TicketChat(u) /\ ticket[u].mark \in Nat /\ Len(said[u]) \in Nat
        BY <1>1, LenType DEF ChatInv
      <3>4. n \in 1 .. ticket[u].mark /\ n \in 1 .. MaxMessages
        BY <1>1, <3>3 DEF TicketChat
      <3>5. u # t \/ n # m
        BY <1>1, <2>4, <3>4
      <3>6. QED
        BY <2>4, <3>4, <3>5
    <2>10. QED
      BY <1>2, <2>2, <2>3, <2>4, <2>8, <2>9 DEF ChatStep
  <1>14. CASE RelaySave(wk)
    <2>1. /\ pc[wk] = "relaysave" /\ ticket' = [ticket EXCEPT ![t].mark = r.newest]
          /\ pc'[wk] = "relay" /\ run' = run /\ relayed' = relayed /\ skipped' = skipped
      BY <1>1, <1>14 DEF RelaySave, Goto, history
    <2>2. /\ ticket[t].mark <= r.newest /\ r.newest <= r.upto /\ r.upto <= Len(said[t])
          /\ \A m \in 1 .. r.newest : Settled(t, m)
      BY <1>3, <2>1 DEF MarkOf, ChatOf
    <2>3. ticket'[t].mark = r.newest /\ \A u \in Tasks : u # t => ticket'[u].mark = ticket[u].mark
      BY <1>1, <1>7, <2>1
    <2>4. \A m \in 1 .. r.newest : Settled(t, m)'
      BY <1>2, <2>1, <2>2 DEF Settled
    <2>5. ChatOf(wk)'
      BY <1>2, <2>1, <2>2, <2>4 DEF ChatOf
    <2>6. skipped[t] \subseteq 1 .. r.newest
      BY <1>1, <1>3, <2>2 DEF TicketChat
    <2>7. TicketChat(t)'
      BY <1>1, <1>2, <1>3, <2>1, <2>2, <2>3, <2>4, <2>6 DEF TicketChat
    <2>8. QED
      BY <1>2, <1>4, <2>1, <2>3, <2>5, <2>7 DEF ChatStep
  <1>15. CASE RelayEnd(wk)
    <2>1. /\ pc[wk] = "relay" /\ ticket' = [ticket EXCEPT ![t].mark = r.upto]
          /\ End(wk, TRUE) /\ relayed' = relayed /\ skipped' = skipped
          /\ ToRelay(t, r.newest, r.upto) = {}
      BY <1>15 DEF RelayEnd, history
    <2>2. /\ ticket[t].mark <= r.newest /\ r.newest <= r.upto /\ r.upto <= Len(said[t])
          /\ \A m \in 1 .. r.newest : Settled(t, m)
      BY <1>3, <2>1 DEF MarkOf, ChatOf
    <2>3. ticket'[t].mark = r.upto /\ \A u \in Tasks : u # t => ticket'[u].mark = ticket[u].mark
      BY <1>1, <1>7, <2>1
    <2>4. ASSUME NEW m \in 1 .. r.upto
          PROVE  Settled(t, m)'
      <3>1. CASE m \in 1 .. r.newest
        BY <1>2, <2>1, <2>2, <3>1 DEF Settled
      <3>2. CASE m \in r.newest + 1 .. r.upto
        <4>1. said[t][m].mute
          BY <2>1, <3>2 DEF ToRelay
        <4>2. QED
          BY <1>2, <4>1 DEF Settled
      <3>3. QED
        BY <1>1, <3>1, <3>2
    <2>5. skipped[t] \subseteq 1 .. r.upto
      BY <1>1, <1>3, <2>2 DEF TicketChat
    <2>6. TicketChat(t)'
      BY <1>1, <1>2, <1>3, <2>1, <2>2, <2>3, <2>4, <2>5 DEF TicketChat
    <2>7. QED
      BY <1>2, <1>4, <2>1, <2>3, <2>6, EndChat DEF ChatStep
  <1>16. QED
    BY <1>8, <1>9, <1>10, <1>11, <1>12, <1>13, <1>14, <1>15 DEF Works

LEMMA RaisesChat ==
  ASSUME TypeOK, MarkInv, ChatInv, NEW wk \in Workers,
         YougileFails(wk) \/ TelegramDown(wk) \/ TelegramUnanswered(wk)
  PROVE  /\ ChatStep(wk) /\ OthersStay(wk)
         /\ \A t \in Tasks : \A m \in skipped[t] : relayed'[t][m] = relayed[t][m]
  <1> DEFINE r == run[wk]
  <1> PICK t \in Tasks : t = r.task
    BY ValueTypes
  <1>1. /\ t \in Tasks /\ MaxMessages \in Nat
        /\ \A u \in Tasks, n \in 1 .. MaxMessages : relayed[u][n] \in Nat
        /\ \A u \in Tasks : ticket[u].mark \in Nat
        /\ ticket \in [Tasks -> Ticket]
    BY ValueTypes
  <1>2. End(wk, FALSE) /\ said' = said /\ skipped' = skipped
    BY DEF YougileFails, TelegramDown, TelegramUnanswered, outside, history
  <1>3. ChatOf(wk)' /\ OthersStay(wk)
    BY <1>2, EndChat
  <1>4. \A u \in Tasks : ticket'[u].mark = ticket[u].mark
    <2>1. UNCHANGED ticket \/ ticket' = [ticket EXCEPT ![t].topic = FALSE]
      BY DEF YougileFails, TelegramDown, TelegramUnanswered
    <2>2. QED
      BY <1>1, <2>1 DEF Ticket
  <1>5. \/ relayed' = relayed
        \/ pc[wk] = "relay" /\ \E m \in ToRelay(t, r.newest, r.upto) : HandOver(t, m)
    BY DEF YougileFails, TelegramDown, TelegramUnanswered, history
  <1>6. CASE relayed' = relayed
    <2>1. \A u \in Tasks, m \in 1 .. MaxMessages : relayed'[u][m] >= relayed[u][m]
      BY <1>1, <1>6
    <2>2. QED
      BY <1>2, <1>3, <1>4, <1>6, <2>1 DEF ChatStep
  <1>7. CASE pc[wk] = "relay" /\ \E m \in ToRelay(t, r.newest, r.upto) : HandOver(t, m)
    <2>1. PICK m \in ToRelay(t, r.newest, r.upto) : HandOver(t, m)
      BY <1>7
    <2>2. pc[wk] = "relay"
      BY <1>7
    <2>3. /\ m \in 1 .. MaxMessages /\ m > ticket[t].mark
          /\ \A u \in Tasks, n \in 1 .. MaxMessages :
               u # t \/ n # m => relayed'[u][n] = relayed[u][n]
          /\ \A u \in Tasks, n \in 1 .. MaxMessages : relayed'[u][n] >= relayed[u][n]
      BY <2>1, <2>2, HandOverOne, ZenonT(40)
    <2>4. ASSUME NEW u \in Tasks, NEW n \in skipped[u]
          PROVE  relayed'[u][n] = relayed[u][n]
      <3>1. TicketChat(u) /\ ticket[u].mark \in Nat /\ Len(said[u]) \in Nat
        BY <1>1, LenType DEF ChatInv
      <3>2. n \in 1 .. ticket[u].mark /\ n \in 1 .. MaxMessages
        BY <1>1, <3>1 DEF TicketChat
      <3>3. u # t \/ n # m
        BY <1>1, <2>3, <3>2
      <3>4. QED
        BY <2>3, <3>2, <3>3
    <2>5. QED
      BY <1>2, <1>3, <1>4, <2>3, <2>4 DEF ChatStep
  <1>8. QED
    BY <1>5, <1>6, <1>7

\* What starts a refresh touches neither tickets nor chats; a worker that enters was outside.
LEMMA StartsShape ==
  ASSUME TypeOK, WorkInv,
         \/ StartRetry \/ StartListing \/ StartCheck \/ NextCheck \/ Restart
         \/ \E t \in Tasks : Expire(t) \/ \E kind \in {"task", "chat"} : Deliver(t, kind)
  PROVE  /\ said' = said /\ ticket' = ticket /\ relayed' = relayed /\ skipped' = skipped
         /\ \/ cuts' = cuts + 1 /\ \A wk \in Workers : pc'[wk] = "idle"
            \/ /\ cuts' = cuts
               /\ \A wk \in Workers :
                     \/ pc'[wk] = pc[wk] /\ run'[wk] = run[wk]
                     \/ ~Inside(wk) /\ pc'[wk] \in {"ticket", "wait", "idle", "list"}
  <1> DEFINE Same == said' = said /\ ticket' = ticket /\ relayed' = relayed /\ skipped' = skipped
             Entered(wk) == \/ pc'[wk] = pc[wk] /\ run'[wk] = run[wk]
                            \/ ~Inside(wk) /\ pc'[wk] \in {"ticket", "wait", "idle", "list"}
  <1>1. /\ Retry \in Workers /\ Check \in Workers /\ Tasks \subseteq Workers
        /\ pc \in [Workers -> Phases \cup {"idle", "wait", "pause", "list"}]
        /\ run \in [Workers -> Run]
    BY DEF Workers, TypeOK, WorkersOK
  <1>2. Same
    BY DEF StartRetry, StartListing, StartCheck, NextCheck, Restart, Expire, Deliver, outside,
           history
  <1>3. ASSUME NEW wk \in Workers, ~Inside(wk), NEW phase \in {"ticket", "wait", "idle", "list"},
               pc' = [pc EXCEPT ![wk] = phase],
               \A v \in Workers \ {wk} : run'[v] = run[v]
        PROVE  \A v \in Workers : Entered(v)
    BY <1>1, <1>3
  <1>4. ASSUME NEW wk \in Workers, ~Inside(wk), NEW t, NEW chat, NEW table,
               Enters(wk, t, chat, table)
        PROVE  \A v \in Workers : Entered(v)
    <2>1. /\ \E phase \in {"ticket", "wait"} : pc' = [pc EXCEPT ![wk] = phase]
          /\ \A v \in Workers \ {wk} : run'[v] = run[v]
      BY <1>1, <1>4 DEF Enters
    <2>2. QED
      BY <1>3, <1>4, <2>1
  <1>5. CASE StartRetry
    <2>1. ~Inside(Retry) /\ cuts' = cuts /\ \E t \in pending : Enters(Retry, t, TRUE, locks)
      BY <1>5 DEF StartRetry, Inside, Phases, counters
    <2>2. QED
      BY <1>1, <1>2, <1>4, <2>1
  <1>6. CASE NextCheck
    <2>1. /\ ~Inside(Check) /\ cuts' = cuts
          /\ \E t \in todo[Check] : Enters(Check, t, TRUE, locks)
      BY <1>6 DEF NextCheck, Inside, Phases, counters
    <2>2. QED
      BY <1>1, <1>2, <1>4, <2>1
  <1>7. CASE StartListing
    <2>1. ~Inside(Check) /\ cuts' = cuts /\ run' = run /\ pc' = [pc EXCEPT ![Check] = "list"]
      BY <1>7 DEF StartListing, Goto, Inside, Phases, counters
    <2>2. QED
      BY <1>1, <1>2, <1>3, <2>1
  <1>8. CASE StartCheck
    <2>1. ~Inside(Check) /\ cuts' = cuts
      BY <1>8 DEF StartCheck, Inside, Phases, counters
    <2>2. CASE pc' = [pc EXCEPT ![Check] = "idle"] /\ UNCHANGED run
      BY <1>1, <1>2, <1>3, <2>1, <2>2
    <2>3. CASE \E t \in Due : \E table : Enters(Check, t, TRUE, table)
      BY <1>1, <1>2, <1>4, <2>1, <2>3
    <2>4. QED
      BY <1>8, <2>2, <2>3 DEF StartCheck
  <1>9. CASE Restart
    BY <1>2, <1>9 DEF Restart
  <1>10. ASSUME NEW t \in Tasks, Expire(t)
         PROVE  cuts' = cuts /\ \A v \in Workers : Entered(v)
    BY <1>10 DEF Expire, counters
  <1>11. ASSUME NEW t \in Tasks, NEW kind \in {"task", "chat"}, Deliver(t, kind)
         PROVE  cuts' = cuts /\ \A v \in Workers : Entered(v)
    <2>1. cuts' = cuts
      BY <1>11 DEF Deliver, counters
    <2>2. CASE UNCHANGED <<locks, pc, run, busy>>
      BY <2>1, <2>2
    <2>3. CASE t \notin busy /\ Enters(t, t, kind = "chat", locks)
      <3>1. ~Inside(t)
        BY <2>3 DEF WorkInv, Inside, Phases
      <3>2. QED
        BY <1>1, <1>4, <2>1, <2>3, <3>1
    <2>4. QED
      BY <1>11, <2>2, <2>3 DEF Deliver
  <1>12. QED
    BY <1>2, <1>5, <1>6, <1>7, <1>8, <1>9, <1>10, <1>11

\* Outside, the chats may only grow.
LEMMA WorldShape ==
  ASSUME World
  PROVE  /\ UNCHANGED <<ticket, pc, run, relayed, skipped, cuts>>
         /\ \/ said' = said
            \/ \E t \in Tasks, mute \in BOOLEAN : Say(t, mute)
  BY DEF World, Move, Remove, ChangeAccess, Say, Lose, Around, memory, history

-----------------------------------------------------------------------------
(* The bound on the messages of all chats bounds each chat. *)
LEMMA SayBound ==
  ASSUME TypeOK, NEW t \in Tasks, \A x \in Tasks : Len(said[x]) <= MaxMessages,
         Cardinality(UNION {{x} \X DOMAIN said[x] : x \in Tasks}) < MaxMessages
  PROVE  Len(said[t]) < MaxMessages
  <1> DEFINE all == UNION {{x} \X DOMAIN said[x] : x \in Tasks}
             own == {t} \X (1 .. Len(said[t]))
  <1>1. MaxMessages \in Nat /\ \A x \in Tasks : Len(said[x]) \in Nat
    BY LenType, BoundsAssumption
  <1>2. \A x \in Tasks : DOMAIN said[x] = 1 .. Len(said[x])
    BY LenProperties DEF TypeOK, OutsideOK
  <1>3. \A x \in Tasks : DOMAIN said[x] \subseteq 1 .. MaxMessages
    BY <1>1, <1>2
  <1>4. all \subseteq Tasks \X (1 .. MaxMessages)
    BY <1>3
  <1>5. IsFiniteSet(Tasks \X (1 .. MaxMessages))
    <2>1. IsFiniteSet(1 .. MaxMessages)
      BY <1>1, FS_Interval
    <2>2. IsFiniteSet(Tasks)
      BY WorkersAssumption
    <2>3. QED
      BY <2>1, <2>2, FS_Product
  <1>6. IsFiniteSet(all)
    BY <1>4, <1>5, FS_Subset
  <1>7. own \subseteq all
    BY <1>2
  <1>8. IsFiniteSet({t}) /\ Cardinality({t}) = 1
    BY FS_Singleton
  <1>9. IsFiniteSet(1 .. Len(said[t])) /\ Cardinality(1 .. Len(said[t])) = Len(said[t])
    <2>1. /\ IsFiniteSet(1 .. Len(said[t]))
          /\ Cardinality(1 .. Len(said[t])) = IF 1 > Len(said[t]) THEN 0 ELSE Len(said[t]) - 1 + 1
      BY <1>1, FS_Interval
    <2>2. QED
      BY <1>1, <2>1
  <1>10. Cardinality(own) = Len(said[t])
    <2> DEFINE places == 1 .. Len(said[t])
    <2> HIDE DEF places
    <2>1. IsFiniteSet({t}) /\ IsFiniteSet(places)
      BY <1>8, <1>9 DEF places
    <2>2. Cardinality({t} \X places) = Cardinality({t}) * Cardinality(places)
      BY <2>1, FS_Product
    <2>3. Cardinality({t}) = 1 /\ Cardinality(places) = Len(said[t])
      BY <1>8, <1>9 DEF places
    <2>4. Cardinality({t} \X places) = 1 * Len(said[t])
      BY <2>2, <2>3
    <2>5. 1 * Len(said[t]) = Len(said[t])
      BY <1>1
    <2>6. QED
      BY <2>4, <2>5 DEF places
  <1>11. Cardinality(own) <= Cardinality(all) /\ Cardinality(all) \in Nat
    BY <1>6, <1>7, FS_Subset, FS_CardinalityType
  <1>12. QED
    BY <1>1, <1>10, <1>11

LEMMA WorldChat ==
  ASSUME TypeOK, MarkInv, ChatInv, World
  PROVE  ChatInv'
  <1>1. /\ UNCHANGED <<ticket, pc, run, relayed, skipped>>
        /\ said' = said \/ \E t \in Tasks, mute \in BOOLEAN : Say(t, mute)
    BY WorldShape
  <1>2. CASE said' = said
    BY <1>1, <1>2 DEF ChatInv, TicketChat, ChatOf, Settled
  <1>3. CASE \E t \in Tasks, mute \in BOOLEAN : Say(t, mute)
    <2>1. PICK t \in Tasks, mute \in BOOLEAN : Say(t, mute)
      BY <1>3
    <2> DEFINE msg == [mute |-> mute]
    <2>2. /\ said' = [said EXCEPT ![t] = Append(said[t], msg)]
          /\ said \in [Tasks -> Seq(Message)] /\ msg \in Message
      BY <2>1 DEF Say, TypeOK, OutsideOK, Message
    <2> HIDE DEF msg
    <2>3. Len(said[t]) < MaxMessages
      BY <2>1, SayBound DEF Say, ChatInv, TicketChat
    <2>4. /\ said'[t] = Append(said[t], msg) /\ Len(said'[t]) = Len(said[t]) + 1
          /\ \A m \in 1 .. Len(said[t]) : said'[t][m] = said[t][m]
      BY <2>2, AppendProperties
    <2>5. \A u \in Tasks : u # t => said'[u] = said[u]
      BY <2>2
    <2>6. \A u \in Tasks : Len(said[u]) \in Nat /\ ticket[u].mark \in Nat
      BY LenType, ValueTypes DEF TypeOK, Ticket
    <2>7. MaxMessages \in Nat
      BY BoundsAssumption
    <2>8. ASSUME NEW u \in Tasks
          PROVE  /\ Len(said'[u]) \in Nat /\ Len(said[u]) <= Len(said'[u])
                 /\ Len(said'[u]) <= MaxMessages
                 /\ \A m \in 1 .. Len(said[u]) : said'[u][m] = said[u][m]
      <3>1. CASE u = t
        BY <2>3, <2>4, <2>6, <2>7, <3>1
      <3>2. CASE u # t
        BY <2>5, <2>6, <3>2 DEF ChatInv, TicketChat
      <3>3. QED
        BY <3>1, <3>2
    <2>9. \A u \in Tasks : \A m \in 1 .. Len(said[u]) : Settled(u, m) => Settled(u, m)'
      BY <1>1, <2>8 DEF Settled
    <2>10. ASSUME NEW u \in Tasks
           PROVE  TicketChat(u)'
      <3>1. TicketChat(u)
        BY DEF ChatInv
      <3>2. \A m \in 1 .. ticket[u].mark : m \in 1 .. Len(said[u]) /\ Settled(u, m)
        BY <2>6, <3>1 DEF TicketChat
      <3>3. \A m \in 1 .. ticket[u].mark : Settled(u, m)'
        BY <2>9, <3>2
      <3>4. ticket[u].mark <= Len(said'[u]) /\ Len(said'[u]) <= MaxMessages
        BY <2>6, <2>8, <3>1 DEF TicketChat
      <3>5. QED
        BY <1>1, <3>1, <3>3, <3>4 DEF TicketChat
    <2>11. ASSUME NEW v \in Workers
           PROVE  ChatOf(v)'
      <3>1. PICK u \in Tasks : u = run[v].task
        BY ValueTypes
      <3>2. run[v].newest \in Nat /\ run[v].upto \in Nat /\ ChatOf(v) /\ MarkOf(v)
        BY ValueTypes DEF ChatInv, MarkInv
      <3>3. Len(said[u]) \in Nat /\ Len(said'[u]) \in Nat /\ Len(said[u]) <= Len(said'[u])
        BY <2>6, <2>8
      <3>4. pc[v] = "skipsave" => run[v].newest <= Len(said'[u])
        BY <3>1, <3>2, <3>3 DEF ChatOf
      <3>5. CASE pc[v] \in {"relay", "relaysave"}
        <4>1. /\ run[v].newest <= run[v].upto /\ run[v].upto <= Len(said[u])
              /\ \A m \in 1 .. run[v].newest : Settled(u, m)
          BY <3>1, <3>2, <3>5 DEF ChatOf, MarkOf
        <4>2. \A m \in 1 .. run[v].newest : m \in 1 .. Len(said[u])
          BY <3>2, <3>3, <4>1
        <4>3. \A m \in 1 .. run[v].newest : Settled(u, m)'
          BY <2>9, <4>1, <4>2
        <4>4. run[v].upto <= Len(said'[u])
          BY <3>2, <3>3, <4>1
        <4>5. QED
          BY <1>1, <3>1, <3>4, <4>3, <4>4 DEF ChatOf
      <3>6. CASE pc[v] \notin {"relay", "relaysave"}
        BY <1>1, <3>1, <3>4, <3>6 DEF ChatOf
      <3>7. QED
        BY <3>5, <3>6
    <2>12. QED
      BY <2>10, <2>11 DEF ChatInv
  <1>4. QED
    BY <1>1, <1>2, <1>3

LEMMA StartsChat ==
  ASSUME TypeOK, WorkInv, ChatInv,
         \/ StartRetry \/ StartListing \/ StartCheck \/ NextCheck \/ Restart
         \/ \E t \in Tasks : Expire(t) \/ \E kind \in {"task", "chat"} : Deliver(t, kind)
  PROVE  ChatInv'
  <1>1. /\ said' = said /\ ticket' = ticket /\ relayed' = relayed /\ skipped' = skipped
        /\ \/ \A wk \in Workers : pc'[wk] = "idle"
           \/ \A wk \in Workers :
                 \/ pc'[wk] = pc[wk] /\ run'[wk] = run[wk]
                 \/ pc'[wk] \in {"ticket", "wait", "idle", "list"}
    BY StartsShape
  <1>2. \A t \in Tasks : TicketChat(t)'
    BY <1>1 DEF ChatInv, TicketChat, Settled
  <1>3. ASSUME NEW wk \in Workers
        PROVE  ChatOf(wk)'
    <2>1. CASE pc'[wk] = pc[wk] /\ run'[wk] = run[wk]
      BY <1>1, <2>1 DEF ChatInv, ChatOf, Settled
    <2>2. CASE pc'[wk] \in {"ticket", "wait", "idle", "list"}
      BY <2>2 DEF ChatOf
    <2>3. QED
      BY <1>1, <2>1, <2>2
  <1>4. QED
    BY <1>2, <1>3 DEF ChatInv

LEMMA WorksOthers ==
  ASSUME TypeOK, NEW wk \in Workers, Works(wk)
  PROVE  OthersStay(wk)
  <1>1. CASE Resume(wk)
    BY <1>1 DEF Resume, OthersStay, TypeOK, WorkersOK
  <1>2. CASE End(wk, TRUE)
    BY <1>2, EndChat
  <1>3. QED
    BY <1>1, <1>2, WorksShape

LEMMA NextChat ==
  ASSUME TypeOK, WorkInv, MarkInv, ChatInv, [Next]_vars
  PROVE  /\ ChatInv'
         /\ [\A t \in Tasks : \A m \in skipped[t] : relayed'[t][m] = relayed[t][m]]_vars
  <1>1. TypeOK'
    BY NextType
  <1>2. ASSUME NEW wk \in Workers, Works(wk)
        PROVE  ChatInv' /\ \A t \in Tasks : \A m \in skipped[t] : relayed'[t][m] = relayed[t][m]
    BY <1>1, <1>2, WorksChat, WorksOthers, ChatFrame
  <1>3. ASSUME NEW wk \in Workers,
               YougileFails(wk) \/ TelegramDown(wk) \/ TelegramUnanswered(wk)
        PROVE  ChatInv' /\ \A t \in Tasks : \A m \in skipped[t] : relayed'[t][m] = relayed[t][m]
    BY <1>1, <1>3, RaisesChat, ChatFrame
  <1>4. CASE \/ StartRetry \/ StartListing \/ StartCheck \/ NextCheck \/ Restart
             \/ \E t \in Tasks : Expire(t) \/ \E kind \in {"task", "chat"} : Deliver(t, kind)
    <2>1. relayed' = relayed
      BY <1>4, StartsShape
    <2>2. ChatInv'
      BY <1>4, StartsChat
    <2>3. QED
      BY <2>1, <2>2
  <1>5. CASE World
    BY <1>5, WorldChat, WorldShape
  <1>6. CASE UNCHANGED vars
    BY <1>6 DEF vars, ChatInv, TicketChat, ChatOf, Settled
  <1>7. QED
    BY <1>2, <1>3, <1>4, <1>5, <1>6 DEF Next, Service

LEMMA InitChat == Init => ChatInv
  <1> SUFFICES ASSUME Init PROVE ChatInv
    OBVIOUS
  <1>1. \A t \in Tasks : said[t] = <<>> /\ ticket[t].mark = 0 /\ skipped[t] = {}
    BY DEF Init, NewTicket
  <1>2. \A wk \in Workers : pc[wk] = "idle"
    BY DEF Init
  <1>3. QED
    BY <1>1, <1>2, EmptySeq, BoundsAssumption DEF ChatInv, TicketChat, ChatOf

LEMMA InductiveChat == ASSUME HandoffRace = FALSE PROVE Spec => [](IInv /\ WorkInv /\ ChatInv)
  <1>1. Init => WorkInv /\ ChatInv
    BY InitWork, InitChat
  <1>2. IInv /\ WorkInv /\ ChatInv /\ [Next]_vars => (WorkInv /\ ChatInv)'
    BY NextWork, NextChat DEF IInv
  <1>3. QED
    BY <1>1, <1>2, Inductive, PTL DEF Spec

\* No message of the team is lost: whatever the watermark has passed was given to Telegram or
\* skipped on purpose, in every interleaving of the loops, failure and restart (report_messages
\* writes the watermark after each message it hands over, skip_messages in one go).
THEOREM NothingIsLost == ASSUME HandoffRace = FALSE PROVE Spec => []NothingLost
  <1>1. ChatInv => NothingLost
    BY DEF ChatInv, TicketChat, Settled, NothingLost
  <1>2. QED
    BY <1>1, InductiveChat, PTL

\* What was said while the sender could not see the task is never relayed afterwards: a message
\* that is handed over is newer than the watermark, and every skipped one is behind it.
THEOREM SkippedStays == ASSUME HandoffRace = FALSE PROVE Spec => SkippedStaysSkipped
  <1>1. IInv /\ WorkInv /\ ChatInv /\ [Next]_vars =>
          [\A t \in Tasks : \A m \in skipped[t] : relayed'[t][m] = relayed[t][m]]_vars
    BY NextChat DEF IInv
  <1>2. QED
    BY <1>1, InductiveChat, PTL DEF Spec, SkippedStaysSkipped

-----------------------------------------------------------------------------
(* Messages handed over more than once. *)

\* The message was handed over and its worker is about to write the watermark.
Relaying(t, m) ==
  \E wk \in Workers : pc[wk] = "relaysave" /\ run[wk].task = t /\ run[wk].newest = m

\* The message is still to be relayed, for all the table of tickets and the workers know.
ToCome(t, m) == m > ticket[t].mark /\ ~Relaying(t, m)

\* The messages that a cut was spent on: they were handed over twice, or will be.
Spent(t) ==
  {m \in 1 .. MaxMessages : relayed[t][m] > 1 \/ (relayed[t][m] = 1 /\ ToCome(t, m))}

TicketRepeat(t) ==
  /\ Cardinality(Spent(t)) <= cuts
  /\ \A m \in 1 .. MaxMessages :
        /\ relayed[t][m] <= 1 + cuts
        /\ ToCome(t, m) => relayed[t][m] <= cuts
RepeatInv == \A t \in Tasks : TicketRepeat(t)

\* A step hands over at most one message x of a ticket.  Without a cut it must be one that was
\* to come and is not any more.
RepeatStep(t, x) ==
  /\ \A m \in (1 .. MaxMessages) \ {x} :
        relayed'[t][m] = relayed[t][m] /\ (ToCome(t, m)' => ToCome(t, m))
  /\ \/ /\ cuts' = cuts /\ x \notin 1 .. MaxMessages
     \/ /\ cuts' = cuts
        /\ relayed'[t][x] = relayed[t][x] + 1 /\ ToCome(t, x) /\ ~ToCome(t, x)'
     \/ /\ cuts' = cuts + 1
        /\ \/ x \notin 1 .. MaxMessages \/ relayed'[t][x] = relayed[t][x]
           \/ relayed'[t][x] = relayed[t][x] + 1 /\ ToCome(t, x)

LEMMA RepeatFrame ==
  ASSUME TypeOK, NEW t \in Tasks, TicketRepeat(t), NEW x \in Nat, RepeatStep(t, x)
  PROVE  TicketRepeat(t)'
  <1>1. /\ MaxMessages \in Nat /\ cuts \in Nat /\ cuts' \in Nat /\ cuts' >= cuts
        /\ \A m \in 1 .. MaxMessages : relayed[t][m] \in Nat
    <2>1. cuts \in Nat
      BY DEF TypeOK, HistoryOK
    <2>2. cuts' = cuts \/ cuts' = cuts + 1
      BY DEF RepeatStep
    <2>3. \A m \in 1 .. MaxMessages : relayed[t][m] \in Nat
      BY DEF TypeOK, HistoryOK
    <2>4. QED
      BY <2>1, <2>2, <2>3, BoundsAssumption
  <1>2. ASSUME NEW m \in 1 .. MaxMessages
        PROVE  /\ relayed'[t][m] <= 1 + cuts'
               /\ ToCome(t, m)' => relayed'[t][m] <= cuts'
    <2>1. /\ relayed[t][m] \in Nat /\ relayed[t][m] <= 1 + cuts
          /\ ToCome(t, m) => relayed[t][m] <= cuts
      BY <1>1 DEF TicketRepeat
    <2>2. CASE m # x
      <3>1. relayed'[t][m] = relayed[t][m] /\ (ToCome(t, m)' => ToCome(t, m))
        BY <2>2 DEF RepeatStep
      <3>2. QED
        BY <1>1, <2>1, <3>1
    <2>3. CASE m = x
      BY <1>1, <2>1, <2>3 DEF RepeatStep
    <2>4. QED
      BY <2>2, <2>3
  <1>3. IsFiniteSet(1 .. MaxMessages)
    BY <1>1, FS_Interval
  <1>4. IsFiniteSet(Spent(t)) /\ IsFiniteSet(Spent(t)')
    BY <1>3, FS_Subset DEF Spent
  <1>5. Cardinality(Spent(t)) \in Nat /\ Cardinality(Spent(t)') \in Nat
    BY <1>4, FS_CardinalityType
  <1>6. \A m \in Spent(t)' : m # x => m \in Spent(t)
    BY DEF Spent, RepeatStep
  <1>7. CASE cuts' = cuts
    <2>1. Spent(t)' \subseteq Spent(t)
      <3>1. SUFFICES ASSUME x \in Spent(t)' PROVE x \in Spent(t)
        BY <1>6
      <3>2. x \in 1 .. MaxMessages
        BY <3>1 DEF Spent
      <3>3. relayed'[t][x] = relayed[t][x] + 1 /\ ToCome(t, x) /\ ~ToCome(t, x)'
        BY <1>1, <1>7, <3>2 DEF RepeatStep
      <3>4. relayed'[t][x] > 1
        BY <3>1, <3>3 DEF Spent
      <3>5. relayed[t][x] \in Nat /\ relayed[t][x] >= 1
        BY <1>1, <3>2, <3>3, <3>4
      <3>6. QED
        BY <3>2, <3>3, <3>5 DEF Spent
    <2>2. Cardinality(Spent(t)') <= Cardinality(Spent(t))
      BY <1>4, <2>1, FS_Subset
    <2>3. Cardinality(Spent(t)') <= cuts'
      BY <1>1, <1>5, <1>7, <2>2 DEF TicketRepeat
    <2>4. QED
      BY <1>2, <2>3 DEF TicketRepeat
  <1>8. CASE cuts' = cuts + 1
    <2>1. Spent(t)' \subseteq Spent(t) \cup {x}
      BY <1>6
    <2>2. /\ IsFiniteSet(Spent(t) \cup {x})
          /\ Cardinality(Spent(t) \cup {x}) =
               IF x \in Spent(t) THEN Cardinality(Spent(t)) ELSE Cardinality(Spent(t)) + 1
      BY <1>4, FS_AddElement
    <2>3. Cardinality(Spent(t)') <= Cardinality(Spent(t) \cup {x})
      BY <2>1, <2>2, FS_Subset
    <2>4. Cardinality(Spent(t)') <= cuts'
      BY <1>1, <1>5, <1>8, <2>2, <2>3 DEF TicketRepeat
    <2>5. QED
      BY <1>2, <2>4 DEF TicketRepeat
  <1>9. QED
    BY <1>7, <1>8 DEF RepeatStep

\* A step that hands nothing over, and after which no message is to come that was not before.
LEMMA RepeatQuiet ==
  ASSUME TypeOK, RepeatInv, cuts' = cuts, relayed' = relayed,
         \A t \in Tasks, m \in 1 .. MaxMessages : ToCome(t, m)' => ToCome(t, m)
  PROVE  RepeatInv'
  <1>1. ASSUME NEW t \in Tasks
        PROVE  TicketRepeat(t)'
    <2>1. RepeatStep(t, 0)
      BY DEF RepeatStep
    <2>2. QED
      BY <2>1, RepeatFrame DEF RepeatInv
  <1>2. QED
    BY <1>1 DEF RepeatInv

\* A watermark that only moves on, and a worker that was not about to write it, leave what was
\* dealt with behind.
LEMMA ToComeStays ==
  ASSUME TypeOK, TypeOK', \A t \in Tasks : ticket'[t].mark >= ticket[t].mark,
         NEW wk \in Workers, OthersStay(wk), NEW t \in Tasks, NEW m \in 1 .. MaxMessages,
         \/ pc[wk] # "relaysave" \/ run[wk].task # t \/ run[wk].newest # m
         \/ m <= ticket'[t].mark
  PROVE  ToCome(t, m)' => ToCome(t, m)
  <1>1. ticket[t].mark \in Nat /\ ticket'[t].mark \in Nat /\ MaxMessages \in Nat
    BY ValueTypes DEF TypeOK, Ticket
  <1>2. SUFFICES ASSUME m > ticket'[t].mark, ~Relaying(t, m)'
                 PROVE  m > ticket[t].mark /\ ~Relaying(t, m)
    BY DEF ToCome
  <1>3. m > ticket[t].mark
    BY <1>1, <1>2
  <1>4. ASSUME NEW v \in Workers, pc[v] = "relaysave", run[v].task = t, run[v].newest = m
        PROVE  FALSE
    <2>1. CASE v = wk
      BY <1>1, <1>2, <1>4, <2>1
    <2>2. CASE v # wk
      BY <1>2, <1>4, <2>2 DEF OthersStay, Relaying
    <2>3. QED
      BY <2>1, <2>2
  <1>5. QED
    BY <1>3, <1>4 DEF Relaying

\* While a worker relays the chat of a task, no other is about to write its watermark.
LEMMA RelaysAlone ==
  ASSUME TypeOK, LockInv, NEW wk \in Workers, pc[wk] = "relay"
  PROVE  \A m : ~Relaying(run[wk].task, m)
  <1>1. ASSUME NEW v \in Workers, pc[v] = "relaysave", run[v].task = run[wk].task
        PROVE  FALSE
    <2>1. Inside(v) /\ Inside(wk)
      BY <1>1 DEF Inside, Phases
    <2>2. v = wk
      BY <1>1, <2>1 DEF LockInv
    <2>3. QED
      BY <1>1, <2>2
  <1>2. QED
    BY <1>1 DEF Relaying

LEMMA WorksRepeat ==
  ASSUME IInv, TypeOK', ChatInv, RepeatInv, NEW wk \in Workers, Works(wk)
  PROVE  RepeatInv'
  <1> USE DEF IInv
  <1>1. /\ OthersStay(wk) /\ cuts' = cuts
        /\ \A t \in Tasks : ticket'[t].mark >= ticket[t].mark
    BY WorksOthers, WorksShape, WorksMark DEF MarkStep
  <1>2. CASE ~Relay(wk) /\ ~RelaySave(wk)
    <2>1. relayed' = relayed
      BY <1>2 DEF Works, Resume, ReadTicket, ReadTask, ReadSender, SkipRead, SkipSave, Keep,
                  TellGone, Drop, Tell, Save, ReadChat, RelayEnd, history
    <2>2. pc[wk] # "relaysave"
      BY <1>2 DEF Works, Resume, ReadTicket, ReadTask, ReadSender, SkipRead, SkipSave, Keep,
                  TellGone, Drop, Tell, Save, ReadChat, RelayEnd
    <2>3. QED
      BY <1>1, <2>1, <2>2, ToComeStays, RepeatQuiet
  <1>3. CASE RelaySave(wk)
    <2>1. relayed' = relayed /\ ticket' = [ticket EXCEPT ![run[wk].task].mark = run[wk].newest]
      BY <1>3 DEF RelaySave, history
    <2>2. run[wk].newest \in Nat /\ ticket'[run[wk].task].mark = run[wk].newest
      BY <2>1, ValueTypes DEF Ticket
    <2>3. ASSUME NEW t \in Tasks, NEW m \in 1 .. MaxMessages
          PROVE  ToCome(t, m)' => ToCome(t, m)
      <3>1. \/ run[wk].task # t \/ run[wk].newest # m
            \/ m <= ticket'[t].mark
        BY <2>2
      <3>2. QED
        BY <1>1, <3>1, ToComeStays
    <2>4. QED
      BY <1>1, <2>1, <2>3, RepeatQuiet
  <1>4. CASE Relay(wk)
    <2>1. PICK u \in Tasks : u = run[wk].task
      BY ValueTypes
    <2>2. pc[wk] = "relay"
      BY <1>4 DEF Relay
    <2>3. pc'[wk] = "relaysave"
      BY <1>4, ValueTypes DEF Relay, Goto
    <2>4. PICK x \in ToRelay(u, run[wk].newest, run[wk].upto) :
             HandOver(u, x) /\ run' = [run EXCEPT ![wk].newest = x]
      BY <1>4, <2>1 DEF Relay
    <2>5. HandOver(u, x)
      BY <2>4
    <2>6. /\ x \in 1 .. MaxMessages /\ x > ticket[u].mark
          /\ relayed'[u][x] = relayed[u][x] + 1
          /\ \A t \in Tasks, m \in 1 .. MaxMessages :
                t # u \/ m # x => relayed'[t][m] = relayed[t][m]
      BY <2>1, <2>2, <2>5, HandOverOne, ZenonT(40)
    <2>7. x \in Nat
      BY <2>6, BoundsAssumption
    <2>8. \A t \in Tasks, m \in 1 .. MaxMessages : ToCome(t, m)' => ToCome(t, m)
      BY <1>1, <2>2, ToComeStays
    <2>9. ToCome(u, x)
      BY <2>1, <2>2, <2>6, RelaysAlone DEF ToCome
    <2>10. ~ToCome(u, x)'
      <3>1. run'[wk].task = u /\ run'[wk].newest = x
        BY <2>1, <2>4, ValueTypes DEF Run
      <3>2. Relaying(u, x)'
        BY <2>3, <3>1 DEF Relaying
      <3>3. QED
        BY <3>2 DEF ToCome
    <2>11. ASSUME NEW t \in Tasks
          PROVE  TicketRepeat(t)'
      <3>1. CASE t = u
        <4>1. RepeatStep(t, x)
          BY <1>1, <2>6, <2>8, <2>9, <2>10, <3>1 DEF RepeatStep
        <4>2. QED
          BY <2>7, <4>1, RepeatFrame DEF RepeatInv
      <3>2. CASE t # u
        <4>1. RepeatStep(t, 0)
          BY <1>1, <2>6, <2>8, <3>2 DEF RepeatStep
        <4>2. QED
          BY <4>1, RepeatFrame DEF RepeatInv
      <3>3. QED
        BY <3>1, <3>2
    <2>12. QED
      BY <2>11 DEF RepeatInv
  <1>5. QED
    BY <1>2, <1>3, <1>4

LEMMA RaisesRepeat ==
  ASSUME IInv, TypeOK', ChatInv, RepeatInv, NEW wk \in Workers,
         YougileFails(wk) \/ TelegramDown(wk) \/ TelegramUnanswered(wk)
  PROVE  RepeatInv'
  <1> USE DEF IInv
  <1>1. OthersStay(wk) /\ \A t \in Tasks : ticket'[t].mark >= ticket[t].mark
    BY RaisesChat, RaisesMark DEF MarkStep
  <1>2. pc[wk] # "relaysave"
    BY DEF YougileFails, TelegramDown, TelegramUnanswered, Telling
  <1>3. \A t \in Tasks, m \in 1 .. MaxMessages : ToCome(t, m)' => ToCome(t, m)
    BY <1>1, <1>2, ToComeStays
  <1>4. CASE YougileFails(wk) \/ TelegramDown(wk)
    <2>1. relayed' = relayed /\ cuts' = cuts
      BY <1>4 DEF YougileFails, TelegramDown, history
    <2>2. QED
      BY <1>3, <2>1, RepeatQuiet
  <1>5. CASE TelegramUnanswered(wk)
    <2>1. PICK u \in Tasks : u = run[wk].task
      BY ValueTypes
    <2>2. cuts' = cuts + 1
      BY <1>5 DEF TelegramUnanswered
    <2>3. CASE relayed' = relayed
      <3>1. \A t \in Tasks : RepeatStep(t, 0)
        BY <1>3, <2>2, <2>3 DEF RepeatStep
      <3>2. QED
        BY <3>1, RepeatFrame DEF RepeatInv
    <2>4. CASE pc[wk] = "relay" /\ \E m \in ToRelay(u, run[wk].newest, run[wk].upto) :
                                      HandOver(u, m)
      <3>1. PICK x \in ToRelay(u, run[wk].newest, run[wk].upto) : HandOver(u, x)
        BY <2>4
      <3>2. pc[wk] = "relay"
        BY <2>4
      <3>3. /\ x \in 1 .. MaxMessages /\ x > ticket[u].mark
            /\ relayed'[u][x] = relayed[u][x] + 1
            /\ \A t \in Tasks, m \in 1 .. MaxMessages :
                  t # u \/ m # x => relayed'[t][m] = relayed[t][m]
        BY <2>1, <3>1, <3>2, HandOverOne, ZenonT(40)
      <3>4. x \in Nat /\ ToCome(u, x)
        BY <2>1, <3>2, <3>3, RelaysAlone, BoundsAssumption DEF ToCome
      <3>5. ASSUME NEW t \in Tasks
            PROVE  TicketRepeat(t)'
        <4>1. CASE t = u
          <5>1. RepeatStep(t, x)
            BY <1>3, <2>2, <3>3, <3>4, <4>1 DEF RepeatStep
          <5>2. QED
            BY <3>4, <5>1, RepeatFrame DEF RepeatInv
        <4>2. CASE t # u
          <5>1. RepeatStep(t, 0)
            BY <1>3, <2>2, <3>3, <4>2 DEF RepeatStep
          <5>2. QED
            BY <5>1, RepeatFrame DEF RepeatInv
        <4>3. QED
          BY <4>1, <4>2
      <3>6. QED
        BY <3>5 DEF RepeatInv
    <2>5. QED
      BY <1>5, <2>1, <2>3, <2>4 DEF TelegramUnanswered
  <1>6. QED
    BY <1>4, <1>5

\* A restart cuts off at most one worker per task between the message and its watermark.
LEMMA StartsRepeat ==
  ASSUME IInv, WorkInv, RepeatInv,
         \/ StartRetry \/ StartListing \/ StartCheck \/ NextCheck \/ Restart
         \/ \E t \in Tasks : Expire(t) \/ \E kind \in {"task", "chat"} : Deliver(t, kind)
  PROVE  RepeatInv'
  <1> USE DEF IInv
  <1>1. /\ ticket' = ticket /\ relayed' = relayed
        /\ \/ cuts' = cuts + 1
           \/ /\ cuts' = cuts
              /\ \A wk \in Workers :
                    \/ pc'[wk] = pc[wk] /\ run'[wk] = run[wk]
                    \/ ~Inside(wk) /\ pc'[wk] \in {"ticket", "wait", "idle", "list"}
    BY StartsShape
  <1>2. CASE /\ cuts' = cuts
             /\ \A wk \in Workers :
                   \/ pc'[wk] = pc[wk] /\ run'[wk] = run[wk]
                   \/ ~Inside(wk) /\ pc'[wk] \in {"ticket", "wait", "idle", "list"}
    <2>1. \A wk \in Workers : pc[wk] = "relaysave" => pc'[wk] = pc[wk] /\ run'[wk] = run[wk]
      BY <1>2 DEF Inside, Phases
    <2>2. \A t \in Tasks, m \in 1 .. MaxMessages : Relaying(t, m) => Relaying(t, m)'
      BY <2>1 DEF Relaying
    <2>3. QED
      BY <1>1, <1>2, <2>2, RepeatQuiet DEF ToCome
  <1>3. CASE cuts' = cuts + 1
    <2>1. ASSUME NEW t \in Tasks
          PROVE  \E x \in Nat : \A m : Relaying(t, m) => m = x
      <3>1. CASE \E wk \in Workers : pc[wk] = "relaysave" /\ run[wk].task = t
        <4>1. PICK wk \in Workers : pc[wk] = "relaysave" /\ run[wk].task = t
          BY <3>1
        <4>2. \A v \in Workers : pc[v] = "relaysave" /\ run[v].task = t => v = wk
          BY <4>1 DEF LockInv, Inside, Phases
        <4>3. \A m : Relaying(t, m) => m = run[wk].newest
          BY <4>2 DEF Relaying
        <4>4. QED
          BY <4>3, ValueTypes
      <3>2. CASE ~\E wk \in Workers : pc[wk] = "relaysave" /\ run[wk].task = t
        BY <3>2 DEF Relaying
      <3>3. QED
        BY <3>1, <3>2
    <2>2. ASSUME NEW t \in Tasks
          PROVE  TicketRepeat(t)'
      <3>1. PICK x \in Nat : \A m : Relaying(t, m) => m = x
        BY <2>1
      <3>2. RepeatStep(t, x)
        BY <1>1, <1>3, <3>1 DEF RepeatStep, ToCome
      <3>3. QED
        BY <3>2, RepeatFrame DEF RepeatInv
    <2>3. QED
      BY <2>2 DEF RepeatInv
  <1>4. QED
    BY <1>1, <1>2, <1>3

LEMMA NextRepeat ==
  ASSUME IInv, WorkInv, ChatInv, RepeatInv, [Next]_vars
  PROVE  RepeatInv'
  <1>1. TypeOK'
    BY NextType DEF IInv
  <1>2. CASE Service
    BY <1>1, <1>2, WorksRepeat, RaisesRepeat, StartsRepeat DEF Service
  <1>3. ASSUME UNCHANGED <<ticket, pc, run, relayed, cuts>>
        PROVE  RepeatInv'
    BY <1>3, RepeatQuiet DEF IInv, ToCome, Relaying
  <1>4. QED
    BY <1>2, <1>3, WorldShape DEF Next, vars

LEMMA InitRepeat == Init => RepeatInv
  <1> SUFFICES ASSUME Init, NEW t \in Tasks PROVE TicketRepeat(t)
    BY DEF RepeatInv
  <1>1. cuts = 0 /\ \A m \in 1 .. MaxMessages : relayed[t][m] = 0
    BY DEF Init
  <1>2. Spent(t) = {}
    BY <1>1 DEF Spent
  <1>3. QED
    BY <1>1, <1>2, FS_EmptySet DEF TicketRepeat

\* A message is sent again only after a cut (a restart, a send Telegram did not answer), one
\* message of a ticket per cut at most: the message a cut is spent on is the one whose
\* watermark was not written.
THEOREM Repeats == ASSUME HandoffRace = FALSE PROVE Spec => []RepeatsAreCuts
  <1>1. Init => RepeatInv
    BY InitRepeat
  <1>2. IInv /\ WorkInv /\ ChatInv /\ RepeatInv /\ [Next]_vars => RepeatInv'
    BY NextRepeat
  <1>3. IInv /\ RepeatInv => RepeatsAreCuts
    <2> SUFFICES ASSUME IInv, RepeatInv, NEW t \in Tasks
                 PROVE  /\ Cardinality({m \in 1 .. MaxMessages : relayed[t][m] > 1}) <= cuts
                        /\ \A m \in 1 .. MaxMessages : relayed[t][m] <= 1 + cuts
      BY DEF RepeatsAreCuts
    <2> DEFINE twice == {m \in 1 .. MaxMessages : relayed[t][m] > 1}
    <2>1. MaxMessages \in Nat /\ cuts \in Nat
      BY BoundsAssumption DEF IInv, TypeOK, HistoryOK
    <2>2. IsFiniteSet(1 .. MaxMessages)
      BY <2>1, FS_Interval
    <2>3. IsFiniteSet(Spent(t))
      BY <2>2, FS_Subset DEF Spent
    <2>4. twice \subseteq Spent(t)
      BY DEF Spent
    <2>5. /\ Cardinality(twice) <= Cardinality(Spent(t)) /\ Cardinality(twice) \in Nat
          /\ Cardinality(Spent(t)) \in Nat
      BY <2>3, <2>4, FS_Subset, FS_CardinalityType
    <2>6. QED
      BY <2>1, <2>5 DEF RepeatInv, TicketRepeat
  <1>4. QED
    BY <1>1, <1>2, <1>3, InductiveChat, PTL DEF Spec
===============================================================================
