---------------------------- MODULE TicketReports ----------------------------
(***************************************************************************)
(* What the ticket bot tells the sender of a ticket about its YouGile      *)
(* task: src/yougile_cloud/tickets/bot.py (on_event ... notify), driven by *)
(* the loops of tickets/service.py and the rows of tickets/store.py.       *)
(*                                                                         *)
(* One asyncio process.  A step of the model is the code between two       *)
(* awaits that reach the database, YouGile or Telegram.  Three kinds of    *)
(* coroutine refresh a ticket, under a lock per task:                      *)
(*   - the runner of a webhook (coalesced): one per task, named by it;     *)
(*   - Retry, the loop over the reports that failed;                       *)
(*   - Check, the loop over every open ticket.                             *)
(*                                                                         *)
(* Data kept: where the task is (a column, soft deletion), who may hear of *)
(* it, the chat as a sequence whose indices are the message ids (YouGile's *)
(* clock).  Left out: wording, titles, authors, the pages of 100 messages  *)
(* of the chat API, columns that change project.                           *)
(***************************************************************************)
EXTENDS Naturals, Sequences, FiniteSets

CONSTANTS
  Tasks,        \* the tasks made from tickets, one ticket each
  Retry, Check, \* the two loops of service.py that refresh tickets
  Nobody,       \* the holder of a free lock
  Open,         \* columns of the customer's project where work goes on
  Closed,       \* columns of that project that mean done (or: completed there)
  Elsewhere,    \* columns of other projects the bot account can read
  Hidden,       \* columns it cannot read: YouGile answers 403 or 404
  FaultKinds,   \* the faults that may happen, of AllFaults
  HandoffRace,  \* may the check start in the gap between two owners of a lock
  MaxChanges,   \* bound: moves, removals and access changes
  MaxMessages,  \* bound: messages in the chats of all tasks together
  MaxFaults     \* bound: faults of all kinds together

AllFaults == {"down", "unanswered", "yougile", "lost", "restart", "topic"}
InProject == Open \cup Closed
Columns == InProject \cup Elsewhere \cup Hidden
Workers == Tasks \cup {Retry, Check}

ASSUME WorkersAssumption ==
  /\ Tasks # {} /\ IsFiniteSet(Tasks)
  /\ Retry \notin Tasks /\ Check \notin Tasks /\ Retry # Check
  /\ Nobody \notin Workers
ASSUME ColumnsAssumption ==
  /\ Open # {}
  /\ Open \cap Closed = {} /\ InProject \cap Elsewhere = {}
  /\ (InProject \cup Elsewhere) \cap Hidden = {}
ASSUME BoundsAssumption ==
  /\ FaultKinds \subseteq AllFaults /\ HandoffRace \in BOOLEAN
  /\ MaxChanges \in Nat /\ MaxMessages \in Nat /\ MaxFaults \in Nat

VARIABLES
  \* YouGile and Telegram
  task,      \* [col, deleted]: the task itself
  said,      \* the task's chat: messages in order of their ids
  approved,  \* may the sender of the ticket hear of it (ticket_senders)
  hooks,     \* webhooks on their way: "task" or "chat" events
  \* table tickets
  ticket,    \* [col, deleted, mark, topic]; completed is col \in Closed
  \* the memory of TicketBot and of the service's loops
  locks,     \* _locks["task:..."]: [holder, waiters]
  orphan,    \* the lock _tidy took out of _locks while it changed hands
  pending,   \* pending
  busy,      \* _busy
  dirty,     \* _dirty: "no", "status" or "chat"
  fresh,     \* tasks refreshed, chat included, within fresh_within seconds
  first,     \* the service's next check is its first
  todo,      \* what the running loops of Retry and Check have left
  pc, run,   \* of each worker: where it is, and the locals of its refresh
  \* history
  told,      \* the column the sender last heard of (or was spared, unapproved)
  relayed,   \* how often each message was handed to Telegram for good
  skipped,   \* messages skip_messages moved the watermark past
  changes, faults,
  cuts,      \* restarts and unanswered sends so far
  lapses     \* restarts and lost webhooks so far

outside == <<task, said, approved, hooks>>
memory == <<locks, orphan, pending, busy, dirty, fresh, first, todo>>
history == <<told, relayed, skipped>>
counters == <<changes, faults, cuts, lapses>>
vars == <<task, said, approved, hooks, ticket, locks, orphan, pending, busy, dirty,
          fresh, first, todo, pc, run, told, relayed, skipped, changes, faults, cuts,
          lapses>>

-----------------------------------------------------------------------------
(* Values *)

Task == [col : Columns, deleted : BOOLEAN]
Ticket == [col : InProject, deleted : BOOLEAN, mark : Nat, topic : BOOLEAN]
\* mute: deleted, empty, or the bot account's own.
Message == [mute : BOOLEAN]
Lock == [holder : Workers \cup {Nobody}, waiters : Seq(Workers)]
FreeLock == [holder |-> Nobody, waiters |-> <<>>]
Phases == {"ticket", "task", "sender", "skip", "skipsave", "keep", "tellgone", "drop",
           "tell", "save", "read", "relay", "relaysave", "final"}
Run == [task : Tasks, chat : BOOLEAN, old : Ticket, new : Task, newest : Nat, upto : Nat]
StartColumn == CHOOSE c \in Open : TRUE
NewTicket == [col |-> StartColumn, deleted |-> FALSE, mark |-> 0, topic |-> TRUE]
NewTask == [col |-> StartColumn, deleted |-> FALSE]
Blank(t, chat) == [task |-> t, chat |-> chat, old |-> NewTicket, new |-> NewTask,
                   newest |-> 0, upto |-> 0]

Greater(a, b) == IF a > b THEN a ELSE b
IsOpen(t) == ticket[t].col \notin Closed /\ ~ticket[t].deleted
Inside(wk) == pc[wk] \in Phases
Fault(kind) == /\ kind \in FaultKinds
               /\ faults < MaxFaults
               /\ faults' = faults + 1
NoFault == UNCHANGED faults

-----------------------------------------------------------------------------
(* asyncio.Lock: no one overtakes a waiter; a released lock is not locked until the first
   waiter runs, which is when _tidy may take it for idle. *)

Handed(t) == locks[t].holder = Nobody /\ locks[t].waiters # <<>>
Acquired(table, t, wk) ==
  IF table[t] = FreeLock THEN [table EXCEPT ![t].holder = wk]
                         ELSE [table EXCEPT ![t].waiters = Append(@, wk)]
Released(table, t, wk) == IF table[t].holder = wk THEN [table EXCEPT ![t].holder = Nobody]
                                                  ELSE table
\* Mutant of Enters: the lock is not waited for.
EntersUnlocked(wk, t, chat, table) ==
  /\ locks' = [table EXCEPT ![t].holder = wk]
  /\ pc' = [pc EXCEPT ![wk] = "ticket"]
  /\ run' = [run EXCEPT ![wk] = Blank(t, chat)]

\* The worker enters refresh(t): table is the lock table it finds.
Enters(wk, t, chat, table) ==
  /\ locks' = Acquired(table, t, wk)
  /\ pc' = [pc EXCEPT ![wk] = IF table[t] = FreeLock THEN "ticket" ELSE "wait"]
  /\ run' = [run EXCEPT ![wk] = Blank(t, chat)]

\* The waiter a released lock was handed to runs.
Resume(wk) ==
  LET t == run[wk].task
      Takes(table) == /\ table[t].holder = Nobody
                      /\ table[t].waiters # <<>> /\ Head(table[t].waiters) = wk
      Taken(table) == [table EXCEPT ![t] = [holder |-> wk, waiters |-> Tail(@.waiters)]]
  IN /\ pc[wk] = "wait"
     /\ \/ Takes(locks) /\ locks' = Taken(locks) /\ UNCHANGED orphan
        \/ Takes(orphan) /\ orphan' = Taken(orphan) /\ UNCHANGED locks
     /\ pc' = [pc EXCEPT ![wk] = "ticket"]
     /\ UNCHANGED <<outside, ticket, pending, busy, dirty, fresh, first, todo, run,
                    history, counters>>

-----------------------------------------------------------------------------
(* The end of a refresh: the lock is released and the caller goes on, up to its next await. *)

\* Mutant of EventLeaves: a refresh that worked, perhaps without the chat, settles the task.
EventLeavesClear(t, ok) == IF ok THEN pending \ {t} ELSE pending \cup {t}

EventLeaves(t, ok) == IF ok THEN pending ELSE pending \cup {t}

\* coalesced: again if events arrived meanwhile, else the runner is done.
EventGoesOn(wk, ok) ==
  LET t == run[wk].task
      table == Released(locks, t, wk)
  IN /\ wk \in Tasks
     /\ pending' = EventLeaves(t, ok)
     /\ IF dirty[t] = "no"
        THEN /\ busy' = busy \ {t}
             /\ locks' = table
             /\ pc' = [pc EXCEPT ![wk] = "idle"]
             /\ run' = [run EXCEPT ![wk] = Blank(t, TRUE)]
             /\ UNCHANGED dirty
        ELSE /\ dirty' = [dirty EXCEPT ![t] = "no"]
             /\ Enters(wk, t, dirty[t] = "chat", table)
             /\ UNCHANGED busy
     /\ UNCHANGED todo

RetryLeaves(t, ok) == IF ok THEN pending \ {t} ELSE pending

\* retry_pending: on to the next of the list it took.
RetryGoesOn(wk, ok) ==
  LET t == run[wk].task
      table == Released(locks, t, wk)
  IN /\ wk = Retry
     /\ pending' = RetryLeaves(t, ok)
     /\ \/ /\ todo[wk] = {}
           /\ locks' = table
           /\ pc' = [pc EXCEPT ![wk] = "idle"]
           /\ run' = [run EXCEPT ![wk] = Blank(t, TRUE)]
           /\ UNCHANGED todo
        \/ \E next \in todo[wk] :
              /\ todo' = [todo EXCEPT ![wk] = @ \ {next}]
              /\ Enters(wk, next, TRUE, table)
     /\ UNCHANGED <<busy, dirty>>

\* refresh_open: a pause before the next of the list it took.
CheckGoesOn(wk, ok) ==
  LET t == run[wk].task
  IN /\ wk = Check
     /\ pending' = IF ok THEN pending \ {t} ELSE pending \cup {t}
     /\ locks' = Released(locks, t, wk)
     /\ pc' = [pc EXCEPT ![wk] = IF todo[wk] = {} THEN "idle" ELSE "pause"]
     /\ run' = [run EXCEPT ![wk] = Blank(t, TRUE)]
     /\ UNCHANGED <<busy, dirty, todo>>

\* refresh returns (ok) or raises.
End(wk, ok) ==
  LET t == run[wk].task
  IN /\ orphan' = Released(orphan, t, wk)
     /\ fresh' = IF ok /\ run[wk].chat THEN fresh \cup {t} ELSE fresh
     /\ EventGoesOn(wk, ok) \/ RetryGoesOn(wk, ok) \/ CheckGoesOn(wk, ok)
     /\ UNCHANGED first

\* The refresh goes on at another phase; memory but the worker's own is untouched.
Goto(wk, phase) == /\ pc' = [pc EXCEPT ![wk] = phase]
                   /\ UNCHANGED memory

-----------------------------------------------------------------------------
(* _refresh, await by await.  Every step is of a worker that holds the task's lock. *)

ReadTicket(wk) ==
  LET t == run[wk].task
  IN /\ pc[wk] = "ticket"
     /\ \/ /\ ticket[t].deleted
           /\ End(wk, TRUE)
        \/ /\ ~ticket[t].deleted
           /\ run' = [run EXCEPT ![wk].old = ticket[t]]
           /\ Goto(wk, "task")
     /\ UNCHANGED <<outside, ticket, history, counters>>

\* A task out of the bot account's sight (403, 404) is not removal: only its chat is skipped.
ReadTask(wk) ==
  LET t == run[wk].task
  IN /\ pc[wk] = "task"
     /\ \/ /\ task[t].col \in Hidden
           /\ Goto(wk, "skip")
           /\ UNCHANGED run
        \/ /\ task[t].col \notin Hidden
           /\ run' = [run EXCEPT ![wk].new = task[t]]
           /\ Goto(wk, "sender")
     /\ UNCHANGED <<outside, ticket, history, counters>>

\* Mutant of Branch: a task outside the project is reported.
BranchAnywhere(old, new, quiet, chat) ==
  IF new.deleted THEN "drop"
  ELSE IF quiet THEN "keep"
  ELSE IF new.col # old.col THEN "tell"
  ELSE IF chat THEN "read" ELSE "return"

\* The branches of _refresh once task and sender are known.
Branch(old, new, quiet, chat) ==
  IF new.deleted THEN IF new.col \in InProject /\ ~quiet THEN "tellgone" ELSE "drop"
  ELSE IF new.col \notin InProject THEN "skip"
  ELSE IF quiet THEN "keep"
  ELSE IF new.col # old.col THEN "tell"
  ELSE IF chat THEN "read" ELSE "return"

ReadSender(wk) ==
  LET r == run[wk]
      branch == Branch(r.old, r.new, ~approved[r.task], r.chat)
  IN /\ pc[wk] = "sender"
     /\ \/ branch = "return" /\ End(wk, TRUE)
        \/ branch # "return" /\ Goto(wk, branch) /\ UNCHANGED run
     /\ UNCHANGED <<outside, ticket, history, counters>>

\* skip_messages reads the chat; when it cannot (always possible out of sight), the bot's
\* own clock, taken to agree with YouGile's, is the mark.  Both end at the newest message.
SkipRead(wk) ==
  LET t == run[wk].task
      mark == Greater(run[wk].old.mark, Len(said[t]))
  IN /\ pc[wk] = "skip"
     /\ \/ mark = run[wk].old.mark /\ End(wk, TRUE)
        \/ /\ mark # run[wk].old.mark
           /\ run' = [run EXCEPT ![wk].newest = mark]
           /\ Goto(wk, "skipsave")
     /\ UNCHANGED <<outside, ticket, history, counters>>

\* Mutant of SkipSave: the new watermark is not written.
SkipSaveForgets(wk) ==
  LET r == run[wk]
  IN /\ pc[wk] = "skipsave"
     /\ skipped' = [skipped EXCEPT ![r.task] = @ \cup (r.old.mark + 1 .. r.newest)]
     /\ End(wk, TRUE)
     /\ UNCHANGED <<outside, ticket, told, relayed, counters>>

SkipSave(wk) ==
  LET r == run[wk]
  IN /\ pc[wk] = "skipsave"
     /\ ticket' = [ticket EXCEPT ![r.task].mark = r.newest]
     /\ skipped' = [skipped EXCEPT ![r.task] = @ \cup (r.old.mark + 1 .. r.newest)]
     /\ End(wk, TRUE)
     /\ UNCHANGED <<outside, told, relayed, counters>>

\* An unapproved sender's ticket is kept in step silently.
Keep(wk) ==
  LET r == run[wk]
  IN /\ pc[wk] = "keep"
     /\ ticket' = [ticket EXCEPT ![r.task].col = r.new.col]
     /\ told' = [told EXCEPT ![r.task] = r.new.col]
     /\ Goto(wk, "skip")
     /\ UNCHANGED <<outside, run, relayed, skipped, counters>>

Drop(wk) ==
  /\ pc[wk] = "drop"
  /\ ticket' = [ticket EXCEPT ![run[wk].task].deleted = TRUE]
  /\ End(wk, TRUE)
  /\ UNCHANGED <<outside, history, counters>>

(* notify and say: Telegram takes the message, or refuses it for good (400, 403), which
   counts as told; or it refuses the topic, which is dropped for good before the main chat
   is tried; or it is down, and the refresh raises (Raises, in Step). *)
Notified(t, topic) ==
  \/ NoFault /\ UNCHANGED ticket
  \/ topic /\ Fault("topic") /\ ticket' = [ticket EXCEPT ![t].topic = FALSE]

TellGone(wk) ==
  LET r == run[wk]
  IN /\ pc[wk] = "tellgone"
     /\ Notified(r.task, r.old.topic)
     /\ Goto(wk, "drop")
     /\ UNCHANGED <<outside, run, history, changes, cuts, lapses>>

\* report_status: told first, saved after.
Tell(wk) ==
  LET r == run[wk]
  IN /\ pc[wk] = "tell"
     /\ Notified(r.task, r.old.topic)
     /\ told' = [told EXCEPT ![r.task] = r.new.col]
     /\ Goto(wk, "save")
     /\ UNCHANGED <<outside, run, relayed, skipped, changes, cuts, lapses>>

Save(wk) ==
  LET r == run[wk]
  IN /\ pc[wk] = "save"
     /\ ticket' = [ticket EXCEPT ![r.task].col = r.new.col]
     /\ \/ r.chat /\ Goto(wk, "read") /\ UNCHANGED run
        \/ ~r.chat /\ End(wk, TRUE)
     /\ UNCHANGED <<outside, history, counters>>

\* Mutant of ReadChat: the watermark is written when the chat is read.
ReadChatMarks(wk) ==
  LET t == run[wk].task
  IN /\ pc[wk] = "read"
     /\ Len(said[t]) > run[wk].old.mark
     /\ ticket' = [ticket EXCEPT ![t].mark = Len(said[t])]
     /\ run' = [run EXCEPT ![wk].newest = run[wk].old.mark, ![wk].upto = Len(said[t])]
     /\ Goto(wk, "relay")
     /\ UNCHANGED <<outside, history, counters>>

\* report_messages reads what is newer than the watermark it knows, and relays it in order.
ReadChat(wk) ==
  LET t == run[wk].task
  IN /\ pc[wk] = "read"
     /\ \/ Len(said[t]) <= run[wk].old.mark /\ End(wk, TRUE)
        \/ /\ Len(said[t]) > run[wk].old.mark
           /\ run' = [run EXCEPT ![wk].newest = run[wk].old.mark,
                                 ![wk].upto = Len(said[t])]
           /\ Goto(wk, "relay")
     /\ UNCHANGED <<outside, ticket, history, counters>>

ToRelay(t, from, upto) == {m \in from + 1 .. upto : ~said[t][m].mute}

HandOver(t, m) == relayed' = [relayed EXCEPT ![t][m] = @ + 1]

Relay(wk) ==
  LET r == run[wk]
      left == ToRelay(r.task, r.newest, r.upto)
  IN /\ pc[wk] = "relay"
     /\ left # {}
     /\ Notified(r.task, r.old.topic)
     /\ \E m \in left :
           /\ \A n \in left : m <= n
           /\ HandOver(r.task, m)
           /\ run' = [run EXCEPT ![wk].newest = m]
     /\ Goto(wk, "relaysave")
     /\ UNCHANGED <<outside, told, skipped, changes, cuts, lapses>>

\* Mutant of RelaySave: the watermark is only written after the last message.
RelaySaveLater(wk) ==
  /\ pc[wk] = "relaysave"
  /\ Goto(wk, "relay")
  /\ UNCHANGED <<outside, ticket, run, history, counters>>

RelaySave(wk) ==
  LET r == run[wk]
  IN /\ pc[wk] = "relaysave"
     /\ ticket' = [ticket EXCEPT ![r.task].mark = r.newest]
     /\ Goto(wk, "relay")
     /\ UNCHANGED <<outside, run, history, counters>>

\* The mute messages at the end are passed too.
RelayEnd(wk) ==
  LET r == run[wk]
  IN /\ pc[wk] = "relay"
     /\ ToRelay(r.task, r.newest, r.upto) = {}
     /\ ticket' = [ticket EXCEPT ![r.task].mark = r.upto]
     /\ End(wk, TRUE)
     /\ UNCHANGED <<outside, history, counters>>

(* The refresh raises: YouGile does not answer, or Telegram is down (perhaps after the topic
   was dropped).  Nothing is marked as told; the caller keeps the task in pending. *)
YougileFails(wk) ==
  /\ pc[wk] \in {"task", "read"}
  /\ Fault("yougile")
  /\ End(wk, FALSE)
  /\ UNCHANGED <<outside, ticket, history, changes, cuts, lapses>>

Telling(wk) == \/ pc[wk] \in {"tellgone", "tell"}
               \/ /\ pc[wk] = "relay"
                  /\ ToRelay(run[wk].task, run[wk].newest, run[wk].upto) # {}

TelegramDown(wk) ==
  LET r == run[wk]
  IN /\ Telling(wk)
     /\ Fault("down")
     /\ \/ UNCHANGED ticket
        \/ /\ r.old.topic /\ "topic" \in FaultKinds
           /\ ticket' = [ticket EXCEPT ![r.task].topic = FALSE]
     /\ End(wk, FALSE)
     /\ UNCHANGED <<outside, history, changes, cuts, lapses>>

(* Telegram takes the message and its answer does not arrive (a timeout, a dropped reply):
   an error with code 0, so the refresh raises as if nothing had been sent. *)
TelegramUnanswered(wk) ==
  LET r == run[wk]
      left == ToRelay(r.task, r.newest, r.upto)
  IN /\ Telling(wk)
     /\ Fault("unanswered")
     /\ cuts' = cuts + 1
     /\ told' = IF pc[wk] = "tell" THEN [told EXCEPT ![r.task] = r.new.col] ELSE told
     /\ \/ /\ pc[wk] = "relay"
           /\ \E m \in left : (\A n \in left : m <= n) /\ HandOver(r.task, m)
        \/ pc[wk] # "relay" /\ UNCHANGED relayed
     /\ End(wk, FALSE)
     /\ UNCHANGED <<outside, ticket, skipped, changes, lapses>>

Works(wk) ==
  \/ Resume(wk) \/ ReadTicket(wk) \/ ReadTask(wk) \/ ReadSender(wk)
  \/ SkipRead(wk) \/ SkipSave(wk) \/ Keep(wk) \/ TellGone(wk) \/ Drop(wk)
  \/ Tell(wk) \/ Save(wk) \/ ReadChat(wk) \/ Relay(wk) \/ RelaySave(wk) \/ RelayEnd(wk)

-----------------------------------------------------------------------------
(* Who starts a refresh. *)

\* Mutant of TakeAlong: that the chat was to be read too is not remembered.
TakeAlongStatus(was, kind) == "status"

\* What the rerun of a busy task needs, was -> with this event.
TakeAlong(was, kind) == IF kind = "chat" THEN "chat" ELSE IF was = "no" THEN "status" ELSE was

\* on_event, once the event is known to be about a ticket: coalesced.
Deliver(t, kind) ==
  /\ kind \in hooks[t]
  /\ hooks' = [hooks EXCEPT ![t] = @ \ {kind}]
  /\ \/ /\ t \in busy
        /\ dirty' = [dirty EXCEPT ![t] = TakeAlong(@, kind)]
        /\ UNCHANGED <<locks, pc, run, busy>>
     \/ /\ t \notin busy
        /\ busy' = busy \cup {t}
        /\ Enters(t, t, kind = "chat", locks)
        /\ UNCHANGED dirty
  /\ UNCHANGED <<task, said, approved, ticket, orphan, pending, fresh, first, todo,
                 history, counters>>

\* _retry: every minute, when something is pending.
StartRetry ==
  /\ pc[Retry] = "idle"
  /\ \E t \in pending :
        /\ todo' = [todo EXCEPT ![Retry] = pending \ {t}]
        /\ Enters(Retry, t, TRUE, locks)
  /\ UNCHANGED <<outside, ticket, orphan, pending, busy, dirty, fresh, first,
                 history, counters>>

\* _reconcile wakes up and lists the open tickets: by then no lock is still changing hands,
\* for that takes one turn of the event loop and the sleep takes a minute or more.
StartListing ==
  /\ pc[Check] = "idle"
  /\ ~\E t \in Tasks : Handed(t)
  /\ Goto(Check, "list")
  /\ UNCHANGED <<outside, ticket, run, history, counters>>

\* Mutant of Due: only the check after a start looks at the tickets.
DueFirst == {t \in Tasks : IsOpen(t) /\ first}

Due == {t \in Tasks : IsOpen(t) /\ (first \/ t \notin fresh)}

\* refresh_open and its _tidy, once the open tickets are listed.  The first check after a
\* start leaves none out; first is read here only.
StartCheck ==
  LET idle == {t \in Tasks : Handed(t)}
      tidied == [t \in Tasks |-> IF t \in idle THEN FreeLock ELSE locks[t]]
  IN /\ pc[Check] = "list"
     /\ idle # {} => HandoffRace
     /\ \A t \in idle : orphan[t] = FreeLock
     /\ orphan' = [t \in Tasks |-> IF t \in idle THEN locks[t] ELSE orphan[t]]
     /\ first' = FALSE
     /\ \/ /\ Due = {}
           /\ locks' = tidied
           /\ pc' = [pc EXCEPT ![Check] = "idle"]
           /\ UNCHANGED <<todo, run>>
        \/ \E t \in Due :
              /\ todo' = [todo EXCEPT ![Check] = Due \ {t}]
              /\ Enters(Check, t, TRUE, tidied)
     /\ UNCHANGED <<outside, ticket, pending, busy, dirty, fresh, history, counters>>

\* refresh_open after a pause.
NextCheck ==
  /\ pc[Check] = "pause"
  /\ \E t \in todo[Check] :
        /\ todo' = [todo EXCEPT ![Check] = @ \ {t}]
        /\ Enters(Check, t, TRUE, locks)
  /\ UNCHANGED <<outside, ticket, orphan, pending, busy, dirty, fresh, first,
                 history, counters>>

\* reconcile_seconds pass.
Expire(t) ==
  /\ t \in fresh
  /\ fresh' = fresh \ {t}
  /\ UNCHANGED <<outside, ticket, locks, orphan, pending, busy, dirty, first, todo, pc, run,
                 history, counters>>

\* A crash or a deploy: the memory of the process is gone.
Restart ==
  /\ Fault("restart")
  /\ cuts' = cuts + 1 /\ lapses' = lapses + 1
  /\ locks' = [t \in Tasks |-> FreeLock] /\ orphan' = [t \in Tasks |-> FreeLock]
  /\ pending' = {} /\ busy' = {} /\ fresh' = {}
  /\ dirty' = [t \in Tasks |-> "no"]
  /\ first' = TRUE
  /\ todo' = [wk \in {Retry, Check} |-> {}]
  /\ pc' = [wk \in Workers |-> "idle"]
  /\ run' = [wk \in Workers |-> Blank(run[wk].task, TRUE)]
  /\ UNCHANGED <<outside, ticket, history, changes>>

-----------------------------------------------------------------------------
(* YouGile, where the team works, and the approvers. *)

Change == changes < MaxChanges /\ changes' = changes + 1
Posts(t, kind) == hooks' = [hooks EXCEPT ![t] = @ \cup {kind}]
Around == <<ticket, memory, pc, run, history, faults, cuts, lapses>>

Move(t, col) ==
  /\ Change
  /\ col # task[t].col
  /\ task' = [task EXCEPT ![t].col = col]
  /\ Posts(t, "task")
  /\ UNCHANGED <<said, approved, Around>>

Remove(t) ==
  /\ Change
  /\ task' = [task EXCEPT ![t].deleted = ~@]
  /\ Posts(t, "task")
  /\ UNCHANGED <<said, approved, Around>>

Say(t, mute) ==
  /\ Cardinality(UNION {{x} \X DOMAIN said[x] : x \in Tasks}) < MaxMessages
  /\ said' = [said EXCEPT ![t] = Append(@, [mute |-> mute])]
  /\ Posts(t, "chat")
  /\ UNCHANGED <<task, approved, changes, Around>>

\* Blocked or revoked, or approved again (manage: another lock, so at any time).
ChangeAccess(t) ==
  /\ Change
  /\ approved' = [approved EXCEPT ![t] = ~@]
  /\ UNCHANGED <<task, said, hooks, Around>>

\* A webhook YouGile does not deliver, or that meets a stopped service (503).
Lose(t, kind) ==
  /\ kind \in hooks[t]
  /\ Fault("lost")
  /\ lapses' = lapses + 1
  /\ hooks' = [hooks EXCEPT ![t] = @ \ {kind}]
  /\ UNCHANGED <<task, said, approved, ticket, memory, pc, run, history, changes, cuts>>

-----------------------------------------------------------------------------
Init ==
  /\ task = [t \in Tasks |-> NewTask]
  /\ said = [t \in Tasks |-> <<>>]
  /\ approved = [t \in Tasks |-> TRUE]
  /\ hooks = [t \in Tasks |-> {}]
  /\ ticket = [t \in Tasks |-> NewTicket]
  /\ locks = [t \in Tasks |-> FreeLock] /\ orphan = [t \in Tasks |-> FreeLock]
  /\ pending = {} /\ busy = {} /\ fresh = {}
  /\ dirty = [t \in Tasks |-> "no"]
  /\ first = TRUE
  /\ todo = [wk \in {Retry, Check} |-> {}]
  /\ pc = [wk \in Workers |-> "idle"]
  /\ run = [wk \in Workers |-> Blank(IF wk \in Tasks THEN wk ELSE CHOOSE t \in Tasks : TRUE,
                                     TRUE)]
  /\ told = [t \in Tasks |-> StartColumn]
  /\ relayed = [t \in Tasks |-> [m \in 1 .. MaxMessages |-> 0]]
  /\ skipped = [t \in Tasks |-> {}]
  /\ changes = 0 /\ faults = 0 /\ cuts = 0 /\ lapses = 0

Service ==
  \/ StartRetry \/ StartListing \/ StartCheck \/ NextCheck \/ Restart
  \/ \E wk \in Workers : Works(wk) \/ YougileFails(wk) \/ TelegramDown(wk)
                            \/ TelegramUnanswered(wk)
  \/ \E t \in Tasks : Expire(t) \/ \E kind \in {"task", "chat"} : Deliver(t, kind)

World ==
  \E t \in Tasks :
     \/ \E col \in Columns : Move(t, col)
     \/ Remove(t) \/ ChangeAccess(t)
     \/ \E mute \in BOOLEAN : Say(t, mute)
     \/ \E kind \in {"task", "chat"} : Lose(t, kind)

Next == Service \/ World
Spec == Init /\ [][Next]_vars

\* The event loop runs every coroutine that can run; the timers of _retry and _reconcile
\* fire again and again; YouGile delivers what it does not lose.
Fairness ==
  /\ \A wk \in Workers : WF_vars(Works(wk))
  /\ WF_vars(StartRetry) /\ WF_vars(StartListing) /\ WF_vars(StartCheck) /\ WF_vars(NextCheck)
  /\ \A t \in Tasks : WF_vars(Expire(t))
  /\ \A t \in Tasks, kind \in {"task", "chat"} : WF_vars(Deliver(t, kind))
FairSpec == Spec /\ Fairness

-----------------------------------------------------------------------------
(* Properties *)

OutsideOK ==
  /\ task \in [Tasks -> Task]
  /\ said \in [Tasks -> Seq(Message)]
  /\ approved \in [Tasks -> BOOLEAN]
  /\ hooks \in [Tasks -> SUBSET {"task", "chat"}]
MemoryOK ==
  /\ locks \in [Tasks -> Lock] /\ orphan \in [Tasks -> Lock]
  /\ pending \subseteq Tasks /\ busy \subseteq Tasks /\ fresh \subseteq Tasks
  /\ dirty \in [Tasks -> {"no", "status", "chat"}]
  /\ first \in BOOLEAN
  /\ todo \in [{Retry, Check} -> SUBSET Tasks]
WorkersOK ==
  /\ pc \in [Workers -> Phases \cup {"idle", "wait", "pause", "list"}]
  /\ run \in [Workers -> Run]
  /\ \A wk \in Workers : pc[wk] \in {"keep", "tell", "save"} => run[wk].new.col \in InProject
HistoryOK ==
  /\ told \in [Tasks -> InProject]
  /\ relayed \in [Tasks -> [1 .. MaxMessages -> Nat]]
  /\ skipped \in [Tasks -> SUBSET Nat]
  /\ changes \in Nat /\ faults \in 0 .. MaxFaults
  /\ cuts \in Nat /\ lapses \in Nat

\* Every variable keeps its type.  In particular a ticket's saved column, and the column the
\* sender was told, is always one of the customer's project: what happens to the task in
\* another project never shows.
TypeOK == OutsideOK /\ ticket \in [Tasks -> Ticket] /\ MemoryOK /\ WorkersOK /\ HistoryOK

\* "One refresh per task at a time" (the comment on _busy, and the lock of _refresh).
OneRefreshAtATime ==
  \A v, wk \in Workers : Inside(v) /\ Inside(wk) /\ run[v].task = run[wk].task => v = wk

\* The watermark never passes a message of the team that was neither given to Telegram nor
\* skipped on purpose: no failure, restart or interleaving of the loops loses one.
NothingLost ==
  \A t \in Tasks : \A m \in 1 .. ticket[t].mark :
     said[t][m].mute \/ relayed[t][m] > 0 \/ m \in skipped[t]

\* A message is given to Telegram again only after a restart or an unanswered send, and each
\* of those repeats one message of a ticket at most ("saved per message").
RepeatsAreCuts ==
  \A t \in Tasks :
     /\ Cardinality({m \in 1 .. MaxMessages : relayed[t][m] > 1}) <= cuts
     /\ \A m \in 1 .. MaxMessages : relayed[t][m] <= 1 + cuts

\* What was skipped because the task was outside the customer's project, out of sight, or the
\* sender unapproved, is never relayed afterwards, also when the task comes back.
SkippedStaysSkipped ==
  [][\A t \in Tasks : \A m \in skipped[t] : relayed'[t][m] = relayed[t][m]]_vars

\* No two refreshes undo each other: the watermark never goes back.
WatermarkNeverBack == [][\A t \in Tasks : ticket'[t].mark >= ticket[t].mark]_vars

\* A failed report stays pending until one of the loops has refreshed that very ticket, chat
\* included, or the process ends.
PendingUntilReported ==
  [][\A t \in pending \ pending' :
       \/ cuts' # cuts
       \/ /\ faults' = faults
          /\ \E wk \in {Retry, Check} : Inside(wk) /\ run[wk].task = t /\ run[wk].chat]_vars

Reportable(t) == /\ task[t].col \in InProject /\ ~task[t].deleted /\ approved[t]
                 /\ ~ticket[t].deleted
InStep(t) == ticket[t].col = task[t].col /\ ticket[t].mark >= Len(said[t])

\* Webhooks may be lost and reports may fail: an open ticket is in step with its task in the
\* end (once the world stops changing: the changes are bounded).
OpenTicketsCatchUp == \A t \in Tasks : <>[](Reportable(t) /\ IsOpen(t) => InStep(t))

\* When no webhook is lost and the process stays up, every ticket is, the closed ones too,
\* which the check passes over: no event is lost between the busy mark, the dirty mark and
\* pending.  (After a lapse a closed ticket may stay behind: nobody looks at it again.)
EveryEventCounts == \A t \in Tasks : <>[](lapses = 0 /\ Reportable(t) => InStep(t))
=============================================================================
