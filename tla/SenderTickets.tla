---------------------------- MODULE SenderTickets ----------------------------
(***************************************************************************)
(* One person of the ticket bot, in topic mode: how they get access, what  *)
(* happens to what they write meanwhile, and how it becomes tickets.       *)
(* src/yougile_cloud/tickets/bot.py (on_message ... create, manage) and    *)
(* store.py; the CLI's block is another process.                           *)
(*                                                                         *)
(* "person": the poller hands the person's updates over one at a time.     *)
(* "manager": whoever decides about the person; manage holds the lock      *)
(* access:<person>, so there is one at a time.  "cli": tickets block.      *)
(* A step is the code between two awaits of the database or of YouGile.    *)
(*                                                                         *)
(* The lock draft:<person>:<topic> is modelled; draft:<person>:0 only      *)
(* orders steps of the person's own updates, which are in order anyway.    *)
(* Left out: text and files (a message is its number), what Telegram shows,*)
(* whose failures are swallowed, chats without topics, expiry after 2 days.*)
(***************************************************************************)
EXTENDS Naturals, Sequences, FiniteSets

CONSTANTS
  Topics,       \* the topics the person writes in
  Projects,     \* the customers' projects an approver may choose
  NoProject,    \* the project of someone never approved
  Nobody,       \* the holder of a free lock
  FaultKinds,   \* the faults that may happen, of AllFaults
  CliBlocks,    \* is the command line used to block
  MaxWrites,    \* bound: what the person writes or taps
  MaxDecisions, \* bound: decisions about the person
  MaxFaults     \* bound: faults of all kinds together

AllFaults == {"refused", "unanswered", "crash"}
Submitters == {"person", "manager"}
Messages == 1 .. MaxWrites
\* idempotency keys: at most one for each update, and for each time it comes again
Keys == 1 .. MaxWrites * (1 + MaxFaults)

ASSUME ConstantsAssumption ==
  /\ Topics # {} /\ "none" \notin Topics /\ "untied" \notin Topics
  /\ NoProject \notin Projects /\ Nobody \notin Submitters
  /\ FaultKinds \subseteq AllFaults /\ CliBlocks \in BOOLEAN
  /\ MaxWrites \in Nat /\ MaxDecisions \in Nat /\ MaxFaults \in Nat

VARIABLES
  \* Telegram
  written,   \* all the person wrote: a message's number is its place here
  inbox,     \* what the bot has not taken yet
  batch,     \* of what it has taken, the poller's last answer: from, to
  \* YouGile
  tasks,     \* by idempotency key: the project and the messages in the description
  posts,     \* how often a message was posted in a task's chat
  \* the database
  sender,    \* ticket_senders: [status, project]
  note,      \* the person's own draft row: [step, held]
  drafts,    \* by topic: the ticket being written
  rows,      \* tickets, by key: their topic
  links,     \* ticket_tg_messages: the message and the ticket it belongs to
  \* the bot
  lock,      \* by topic: who holds draft:<person>:<topic>
  pc, run,   \* where each worker is, and its locals
  seen,      \* the person's worker: the note it read
  act, held, \* the manager: the action, and the held drafts it took
  keys,      \* keys given out so far
  \* history
  kept,      \* messages that were ever saved in the draft of a topic
  heldTold,  \* messages whose writer was told they are kept until approval
  dropped,   \* messages in what drop_drafts or a cancel threw away
  decisions, approvals, faults,
  slips      \* crashes and unanswered posts so far

telegram == <<written, inbox, batch>>
yougile == <<tasks, posts>>
database == <<sender, note, drafts, rows, links>>
history == <<kept, heldTold, dropped>>
counters == <<decisions, approvals, faults, slips>>
vars == <<written, inbox, batch, tasks, posts, sender, note, drafts, rows, links, lock, pc, run,
          seen, act, held, keys, kept, heldTold, dropped, decisions, approvals, faults,
          slips>>

-----------------------------------------------------------------------------
(* Values *)

Statuses == {"none", "pending", "approved", "rejected", "revoked", "blocked"}
Actions == {"approve", "reject", "move", "revoke", "block", "unblock"}
NewStatus == [approve |-> "approved", reject |-> "rejected", move |-> "approved",
              revoke |-> "revoked", block |-> "blocked", unblock |-> "revoked"]
Draft == [key : Keys \cup {0}, parts : SUBSET Messages]
NoDraft == [key |-> 0, parts |-> {}]
Note == [step : {"none", "intro", "pending"}, held : [Topics -> Draft]]
NoHeld == [t \in Topics |-> NoDraft]
NoteOf(step) == [step |-> step, held |-> NoHeld]
NoTask == [project |-> NoProject, body |-> {}]
Locals == [topic : Topics, msg : Messages \cup {0}, project : Projects \cup {NoProject},
           draft : Draft, left : SUBSET Messages]
SomeTopic == CHOOSE t \in Topics : TRUE
NoLocals == [topic |-> SomeTopic, msg |-> 0, project |-> NoProject, draft |-> NoDraft,
             left |-> {}]
NoAct == [kind |-> "none", project |-> NoProject]

TicketsOf(t) == {k \in Keys : rows[k] = t}  \* ticket_of_thread
Reached(m) == posts[m] > 0 \/ \E k \in Keys : m \in tasks[k].body
Fault(kind) == /\ kind \in FaultKinds
               /\ faults < MaxFaults
               /\ faults' = faults + 1

\* A draft with one more message; a new one gets its idempotency key with it.
With(draft, m) == [key |-> IF draft = NoDraft THEN keys + 1 ELSE draft.key,
                   parts |-> draft.parts \cup {m}]
MintFor(draft) == keys' = IF draft = NoDraft THEN keys + 1 ELSE keys

Free(t) == lock[t] = Nobody
Released(w) == [t \in Topics |-> IF lock[t] = w THEN Nobody ELSE lock[t]]
Goto(w, phase) == pc' = [pc EXCEPT ![w] = phase]
\* The end of submit_topic: of the update, or the manager's next held topic.
Done(w) == Goto(w, IF w = "person" THEN "idle" ELSE "release")

-----------------------------------------------------------------------------
(* The person *)

\* Decisions that have taken full effect: not the one the manager is at.
Settled == IF pc["manager"] \in {"idle", "decided"} THEN decisions ELSE decisions - 1

Write(t, kind) ==
  /\ Len(written) < MaxWrites
  /\ written' = Append(written,
       [topic |-> t, kind |-> kind, decisions |-> Settled, approvals |-> approvals,
        project |-> IF sender.status = "approved" THEN sender.project ELSE NoProject])
  /\ inbox' = Append(inbox, Len(written) + 1)
  /\ UNCHANGED <<batch, yougile, database, lock, pc, run, seen, act, held, keys, history, counters>>

\* Mutant of Way: someone who waits for access is taken for a sender.
WayForAll(status, kind) ==
  IF status \in {"approved", "pending"}
  THEN {CASE kind = "text" -> "topic" [] kind = "tap" -> "submit" [] OTHER -> "cancel"}
  ELSE {"idle"}

\* Where on_message or on_callback goes with an update of someone with that status.  Whoever
\* was rejected today is only told so.
Way(status, kind) ==
  IF status = "approved"
  THEN {CASE kind = "text" -> "topic" [] kind = "tap" -> "submit" [] OTHER -> "cancel"}
  ELSE IF kind # "text" \/ status = "blocked" THEN {"idle"}
  ELSE CASE status = "pending" -> {"asked"}
         [] status = "rejected" -> {"idle", "intro"}
         [] OTHER -> {"intro"}

\* Mutant of BoundTo: the sender of an update is remembered for the next one.
BoundToFirst == IF run["person"].project = NoProject THEN sender.project
                                                     ELSE run["person"].project

\* The project of the sender an update is handled for, as the row says when it is taken.
BoundTo == sender.project

\* The first update of an answer says how far it went; the next one confirmed it.  Only a crash
\* asks for it.
MayCrash == "crash" \in FaultKinds /\ faults < MaxFaults
Received(m) ==
  IF m <= batch.to \/ ~MayCrash THEN batch' = batch
  ELSE \E last \in m .. Len(written) : batch' = [from |-> m, to |-> last]

Take ==
  LET m == Head(inbox)
  IN /\ pc["person"] = "idle" /\ inbox # <<>>
     /\ inbox' = Tail(inbox) /\ Received(m)
     /\ \E phase \in Way(sender.status, written[m].kind) :
           /\ Goto("person", phase)
           /\ run' = IF phase = "idle" THEN run
                     ELSE [run EXCEPT !["person"] = [NoLocals EXCEPT !.topic = written[m].topic,
                                                !.msg = m, !.project = BoundTo]]
     /\ UNCHANGED <<written, yougile, database, lock, seen, act, held, keys, history, counters>>

\* stranger, for someone whose request waits: perhaps it is time to ask again.
Asked ==
  /\ pc["person"] = "asked"
  /\ \/ seen' = note /\ Goto("person", "reask")
     \/ UNCHANGED seen /\ Goto("person", "hold")
  /\ UNCHANGED <<telegram, yougile, database, lock, run, act, held, keys, history, counters>>

Reask ==
  /\ pc["person"] = "reask"
  /\ note' = [seen EXCEPT !.step = "pending"]
  /\ Goto("person", "hold")
  /\ UNCHANGED <<telegram, yougile, sender, drafts, rows, links, lock, run, seen, act, held,
                 keys, history, counters>>

Hold ==
  LET r == run["person"]
  IN /\ pc["person"] = "hold"
     /\ \/ /\ r.msg \in note.held[r.topic].parts
           /\ Goto("person", "idle")
           /\ heldTold' = heldTold \cup {r.msg}
           /\ UNCHANGED seen
        \/ /\ r.msg \notin note.held[r.topic].parts
           /\ seen' = note
           /\ Goto("person", "holdsave")
           /\ UNCHANGED heldTold
     /\ UNCHANGED <<telegram, yougile, database, lock, run, act, held, keys, kept, dropped,
                    counters>>

HoldSave ==
  LET r == run["person"]
      old == seen.held[r.topic]
  IN /\ pc["person"] = "holdsave"
     /\ note' = [step |-> IF seen.step = "none" THEN "pending" ELSE seen.step,
                 held |-> [seen.held EXCEPT ![r.topic] = With(old, r.msg)]]
     /\ MintFor(old)
     /\ heldTold' = heldTold \cup {r.msg}
     /\ Goto("person", "idle")
     /\ UNCHANGED <<telegram, yougile, sender, drafts, rows, links, lock, run, seen, act, held,
                    kept, dropped, counters>>

\* stranger, for someone with no request: who they are is asked first.
Intro ==
  /\ pc["person"] = "intro"
  /\ Goto("person", IF note.step = "intro" THEN "request" ELSE "greet")
  /\ UNCHANGED <<telegram, yougile, database, lock, run, seen, act, held, keys, history,
                 counters>>

Greet ==
  /\ pc["person"] = "greet"
  /\ note' = NoteOf("intro")
  /\ Goto("person", "idle")
  /\ UNCHANGED <<telegram, yougile, sender, drafts, rows, links, lock, run, seen, act, held,
                 keys, history, counters>>

Request ==
  /\ pc["person"] = "request"
  /\ sender' = IF sender.status \in {"none", "rejected", "revoked"}
               THEN [sender EXCEPT !.status = "pending"] ELSE sender
  /\ Goto("person", "requested")
  /\ UNCHANGED <<telegram, yougile, note, drafts, rows, links, lock, run, seen, act, held, keys,
                 history, counters>>

Requested ==
  /\ pc["person"] = "requested"
  /\ note' = NoteOf("pending")
  /\ Goto("person", "idle")
  /\ UNCHANGED <<telegram, yougile, sender, drafts, rows, links, lock, run, seen, act, held,
                 keys, history, counters>>

\* in_topic: the topic of a ticket, or a ticket being written.
InTopic ==
  LET r == run["person"]
  IN /\ pc["person"] = "topic"
     /\ \/ \E k \in TicketsOf(r.topic) :
              IF <<r.msg, k>> \in links
              THEN Goto("person", "idle") /\ UNCHANGED run
              ELSE /\ Goto("person", "post")
                   /\ run' = [run EXCEPT !["person"].draft = [key |-> k, parts |-> {}]]
        \/ TicketsOf(r.topic) = {} /\ Goto("person", "compose") /\ UNCHANGED run
     /\ UNCHANGED <<telegram, yougile, database, lock, seen, act, held, keys, history, counters>>

\* Mutant of Post: linked also when YouGile refused it.
PostLinked ==
  LET m == run["person"].msg
  IN /\ pc["person"] = "post"
     /\ Goto("person", "link")
     /\ \/ posts' = [posts EXCEPT ![m] = @ + 1] /\ UNCHANGED faults
        \/ Fault("refused") /\ UNCHANGED posts
     /\ UNCHANGED <<telegram, tasks, database, lock, run, seen, act, held, keys, history,
                    decisions, approvals, slips>>

\* relay: posted in the chat of the task, then linked.
Post ==
  LET m == run["person"].msg
      posted == [posts EXCEPT ![m] = @ + 1]
  IN /\ pc["person"] = "post"
     /\ \/ posts' = posted /\ Goto("person", "link") /\ UNCHANGED <<faults, slips>>
        \/ Fault("refused") /\ Goto("person", "idle") /\ UNCHANGED <<posts, slips>>
        \/ /\ Fault("unanswered") /\ slips' = slips + 1
           /\ posts' = posted /\ Goto("person", "idle")
     /\ UNCHANGED <<telegram, tasks, database, lock, run, seen, act, held, keys, history,
                    decisions, approvals>>

\* A message has one ticket: ON CONFLICT DO NOTHING.
Linked(m, k) == IF \E j \in Keys : <<m, j>> \in links THEN links ELSE links \cup {<<m, k>>}

LinkPost ==
  LET r == run["person"]
  IN /\ pc["person"] = "link"
     /\ links' = Linked(r.msg, r.draft.key)
     /\ Goto("person", "idle")
     /\ UNCHANGED <<telegram, yougile, sender, note, drafts, rows, lock, run, seen, act, held,
                    keys, history, counters>>

\* Mutant of Compose: the lock of the draft is not taken.
ComposeUnlocked ==
  LET r == run["person"]
      draft == drafts[r.topic]
  IN /\ pc["person"] = "compose"
     /\ run' = [run EXCEPT !["person"].draft = draft]
     /\ Goto("person", IF r.msg \in draft.parts THEN "idle" ELSE "composed")
     /\ UNCHANGED <<telegram, yougile, database, lock, seen, act, held, keys, history, counters>>

\* compose: a message that is in the draft already came twice; it does not send the draft.
Compose ==
  LET r == run["person"]
      draft == drafts[r.topic]
  IN /\ pc["person"] = "compose"
     /\ Free(r.topic)
     /\ \/ /\ r.msg \in draft.parts
           /\ Goto("person", "idle")
           /\ UNCHANGED <<run, lock>>
        \/ /\ r.msg \notin draft.parts
           /\ lock' = [lock EXCEPT ![r.topic] = "person"]
           /\ run' = [run EXCEPT !["person"].draft = draft]
           /\ Goto("person", "composed")
     /\ UNCHANGED <<telegram, yougile, database, seen, act, held, keys, history, counters>>

Composed ==
  LET r == run["person"]
  IN /\ pc["person"] = "composed"
     /\ drafts' = [drafts EXCEPT ![r.topic] = With(r.draft, r.msg)]
     /\ MintFor(r.draft)
     /\ kept' = kept \cup {r.msg}
     /\ lock' = Released("person")
     /\ Goto("person", "submit")
     /\ UNCHANGED <<telegram, yougile, sender, note, rows, links, run, seen, act, held,
                    heldTold, dropped, counters>>

\* cancel_topic: without the lock.
Cancel ==
  LET t == run["person"].topic
  IN /\ pc["person"] = "cancel"
     /\ Goto("person", IF TicketsOf(t) = {} THEN "cancelled" ELSE "idle")
     /\ UNCHANGED <<telegram, yougile, database, lock, run, seen, act, held, keys, history,
                    counters>>

Cancelled ==
  LET t == run["person"].topic
  IN /\ pc["person"] = "cancelled"
     /\ drafts' = [drafts EXCEPT ![t] = NoDraft]
     /\ dropped' = dropped \cup drafts[t].parts
     /\ Goto("person", "idle")
     /\ UNCHANGED <<telegram, yougile, sender, note, rows, links, lock, run, seen, act, held,
                    keys, kept, heldTold, counters>>

-----------------------------------------------------------------------------
(* submit_topic and create: of the person's update, or of release_held. *)

Submit(w) ==
  LET t == run[w].topic
  IN /\ pc[w] = "submit"
     /\ Free(t)
     /\ \/ drafts[t] = NoDraft /\ Done(w) /\ UNCHANGED <<run, lock>>
        \/ /\ drafts[t] # NoDraft
           /\ lock' = [lock EXCEPT ![t] = w]
           /\ run' = [run EXCEPT ![w].draft = drafts[t]]
           /\ Goto(w, "create")
     /\ UNCHANGED <<telegram, yougile, database, seen, act, held, keys, history, counters>>

\* Mutant of Filed: the key is not sent, so a repeat is another task.
FiledAgain(draft, project) ==
  LET k == CHOOSE k \in Keys : tasks[k] = NoTask /\ k >= draft.key
  IN [tasks EXCEPT ![k] = [project |-> project, body |-> draft.parts]]

\* YouGile: the key of a task that exists returns it as it is.
Filed(draft, project) ==
  IF tasks[draft.key] # NoTask THEN tasks
  ELSE [tasks EXCEPT ![draft.key] = [project |-> project, body |-> draft.parts]]

\* Mutant of GivesUp: the lock is kept when the send failed.
GivesUpLocked(w) == UNCHANGED lock /\ Done(w)

\* The draft stays, and the person is told to write again.
GivesUp(w) == lock' = Released(w) /\ Done(w)

Create(w) ==
  LET r == run[w]
      filed == Filed(r.draft, r.project)
  IN /\ pc[w] = "create"
     /\ \/ tasks' = filed /\ Goto(w, "row") /\ UNCHANGED <<lock, faults>>
        \/ Fault("refused") /\ GivesUp(w) /\ UNCHANGED tasks
        \/ Fault("unanswered") /\ GivesUp(w) /\ tasks' = filed
     /\ UNCHANGED <<telegram, posts, database, run, seen, act, held, keys, history,
                    decisions, approvals, slips>>

AddRow(w) ==
  LET k == run[w].draft.key
  IN /\ pc[w] = "row"
     /\ rows' = [rows EXCEPT ![k] = IF @ = "none" THEN "untied" ELSE @]
     /\ Goto(w, "tie")
     /\ UNCHANGED <<telegram, yougile, sender, note, drafts, links, lock, run, seen, act, held,
                    keys, history, counters>>

Tie(w) ==
  LET r == run[w]
  IN /\ pc[w] = "tie"
     /\ rows' = [rows EXCEPT ![r.draft.key] = r.topic]
     /\ run' = [run EXCEPT ![w].left = r.draft.parts]
     /\ Goto(w, "linkparts")
     /\ UNCHANGED <<telegram, yougile, sender, note, drafts, links, lock, seen, act, held,
                    keys, history, counters>>

LinkParts(w) ==
  LET r == run[w]
  IN /\ pc[w] = "linkparts"
     /\ \/ r.left = {} /\ Goto(w, "clear") /\ UNCHANGED <<links, run>>
        \/ \E m \in r.left :
              /\ \A n \in r.left : m <= n
              /\ links' = Linked(m, r.draft.key)
              /\ run' = [run EXCEPT ![w].left = @ \ {m}]
              /\ UNCHANGED pc
     /\ UNCHANGED <<telegram, yougile, sender, note, drafts, rows, lock, seen, act, held,
                    keys, history, counters>>

\* The draft is cleared; the files and the confirmation that follow change nothing here.
Clear(w) ==
  /\ pc[w] = "clear"
  /\ drafts' = [drafts EXCEPT ![run[w].topic] = NoDraft]
  /\ lock' = Released(w)
  /\ run' = [run EXCEPT ![w].draft = NoDraft]
  /\ Done(w)
  /\ UNCHANGED <<telegram, yougile, sender, note, rows, links, seen, act, held, keys, history,
                 counters>>

-----------------------------------------------------------------------------
(* manage: what an approver decides, from a button or through the admin page. *)

\* refused: does the action apply to the person as they are?
Applies(action, status) ==
  CASE action = "approve" -> status \notin {"approved", "blocked"}
    [] action = "reject" -> status = "pending"
    [] action \in {"move", "revoke"} -> status = "approved"
    [] action = "block" -> status # "blocked"
    [] action = "unblock" -> status = "blocked"

Decide(action, project) ==
  /\ pc["manager"] = "idle" /\ decisions < MaxDecisions
  /\ sender.status # "none" /\ Applies(action, sender.status)
  /\ project = NoProject <=> action \notin {"approve", "move"}
  /\ action = "move" => project # sender.project
  /\ act' = [kind |-> action, project |-> project]
  /\ Goto("manager", "decided")
  /\ UNCHANGED <<telegram, yougile, database, lock, run, seen, held, keys, history, counters>>

\* store.decide, whatever the status is by now; done is the row it returns.
Decided ==
  LET project == IF act.project = NoProject THEN sender.project ELSE act.project
  IN /\ pc["manager"] = "decided"
     /\ sender' = [status |-> NewStatus[act.kind], project |-> project]
     /\ run' = [run EXCEPT !["manager"] = [NoLocals EXCEPT !.project = project]]
     /\ decisions' = decisions + 1
     /\ approvals' = IF act.kind = "approve" THEN approvals + 1 ELSE approvals
     /\ Goto("manager", CASE act.kind = "approve" -> "heldread"
                          [] act.kind = "reject" -> "forget"
                          [] OTHER -> "drop")
     /\ UNCHANGED <<telegram, yougile, note, drafts, rows, links, lock, seen, act, held, keys,
                    history, faults, slips>>

HeldRead ==
  /\ pc["manager"] = "heldread"
  /\ held' = note.held
  /\ Goto("manager", "forget")
  /\ UNCHANGED <<telegram, yougile, database, lock, run, seen, act, keys, history, counters>>

Forget ==
  /\ pc["manager"] = "forget"
  /\ note' = NoteOf("none")
  /\ IF act.kind = "approve"
     THEN Goto("manager", "release") /\ UNCHANGED <<act, dropped>>
     ELSE /\ Goto("manager", "idle") /\ act' = NoAct
          /\ dropped' = dropped \cup UNION {note.held[t].parts : t \in Topics}
  /\ UNCHANGED <<telegram, yougile, sender, drafts, rows, links, lock, run, seen, held, keys,
                 kept, heldTold, counters>>

Thrown == (UNION {drafts[t].parts : t \in Topics}) \cup UNION {note.held[t].parts : t \in Topics}
Drop ==
  /\ pc["manager"] = "drop"
  /\ drafts' = NoHeld /\ note' = NoteOf("none")
  /\ dropped' = dropped \cup Thrown
  /\ IF act.kind = "revoke"
     THEN Goto("manager", "reintro") /\ UNCHANGED act
     ELSE Goto("manager", "idle") /\ act' = NoAct
  /\ UNCHANGED <<telegram, yougile, sender, rows, links, lock, run, seen, held, keys, kept,
                 heldTold, counters>>

Reintro ==
  /\ pc["manager"] = "reintro"
  /\ note' = NoteOf("intro")
  /\ act' = NoAct
  /\ Goto("manager", "idle")
  /\ UNCHANGED <<telegram, yougile, sender, drafts, rows, links, lock, run, seen, held, keys,
                 history, counters>>

\* release_held: topic by topic; one that has a ticket or a draft keeps it.
Release ==
  /\ pc["manager"] = "release"
  /\ \/ /\ held = NoHeld
        /\ act' = NoAct
        /\ Goto("manager", "idle")
        /\ UNCHANGED <<run, held>>
     \/ \E t \in Topics :
           /\ held[t] # NoDraft
           /\ IF TicketsOf(t) # {}
              THEN held' = [held EXCEPT ![t] = NoDraft] /\ UNCHANGED <<pc, run>>
              ELSE /\ run' = [run EXCEPT !["manager"].topic = t]
                   /\ Goto("manager", "heldcheck")
                   /\ UNCHANGED held
           /\ UNCHANGED act
  /\ UNCHANGED <<telegram, yougile, database, lock, seen, keys, history, counters>>

HeldCheck ==
  LET t == run["manager"].topic
  IN /\ pc["manager"] = "heldcheck"
     /\ Free(t)
     /\ \/ /\ drafts[t] # NoDraft
           /\ held' = [held EXCEPT ![t] = NoDraft]
           /\ Goto("manager", "release")
           /\ UNCHANGED lock
        \/ /\ drafts[t] = NoDraft
           /\ lock' = [lock EXCEPT ![t] = "manager"]
           /\ Goto("manager", "heldsave")
           /\ UNCHANGED held
     /\ UNCHANGED <<telegram, yougile, database, run, seen, act, keys, history, counters>>

HeldSave ==
  LET t == run["manager"].topic
  IN /\ pc["manager"] = "heldsave"
     /\ drafts' = [drafts EXCEPT ![t] = held[t]]
     /\ kept' = kept \cup held[t].parts
     /\ held' = [held EXCEPT ![t] = NoDraft]
     /\ lock' = Released("manager")
     /\ Goto("manager", "submit")
     /\ UNCHANGED <<telegram, yougile, sender, note, rows, links, run, seen, act, keys,
                    heldTold, dropped, counters>>

\* tickets block, from the command line: another process, no lock, no refusal.
CliBlock ==
  /\ CliBlocks /\ pc["cli"] = "idle" /\ decisions < MaxDecisions
  /\ sender.status # "none"
  /\ sender' = [sender EXCEPT !.status = "blocked"]
  /\ decisions' = decisions + 1
  /\ Goto("cli", "drop")
  /\ UNCHANGED <<telegram, yougile, note, drafts, rows, links, lock, run, seen, act, held, keys,
                 history, approvals, faults, slips>>

CliDrop ==
  /\ pc["cli"] = "drop"
  /\ drafts' = NoHeld /\ note' = NoteOf("none")
  /\ dropped' = dropped \cup Thrown
  /\ Goto("cli", "idle")
  /\ UNCHANGED <<telegram, yougile, sender, rows, links, lock, run, seen, act, held, keys,
                 kept, heldTold, counters>>

-----------------------------------------------------------------------------
\* The updates from n on.
From(n) == [i \in 1 .. Len(written) + 1 - n |-> n + i - 1]

\* The bot stops without its drain: what it was doing is gone.  If the poller had not asked again,
\* Telegram gives its last answer again, the whole of it; else what it had asked past is lost.
Crash ==
  /\ Fault("crash") /\ slips' = slips + 1
  /\ pc' = [pc EXCEPT !["person"] = "idle", !["manager"] = "idle"]
  /\ \E n \in {batch.from} \cup (batch.to + 1 .. Len(written) + 1) :
       inbox' = From(n) /\ batch' = [from |-> n, to |-> n - 1]
  /\ run' = [w \in Submitters |-> NoLocals]
  /\ lock' = [t \in Topics |-> Nobody]
  /\ seen' = NoteOf("none") /\ act' = NoAct /\ held' = NoHeld
  /\ UNCHANGED <<written, yougile, database, keys, history, decisions, approvals>>

Init ==
  /\ written = <<>> /\ inbox = <<>> /\ batch = [from |-> 1, to |-> 0]
  /\ tasks = [k \in Keys |-> NoTask]
  /\ posts = [m \in Messages |-> 0]
  /\ \/ sender = [status |-> "none", project |-> NoProject] /\ note = NoteOf("none")
     \/ sender = [status |-> "pending", project |-> NoProject] /\ note = NoteOf("pending")
     \/ \E p \in Projects : sender = [status |-> "approved", project |-> p]
                            /\ note = NoteOf("none")
  /\ drafts = NoHeld
  /\ rows = [k \in Keys |-> "none"]
  /\ links = {}
  /\ lock = [t \in Topics |-> Nobody]
  /\ pc = [w \in {"person", "manager", "cli"} |-> "idle"]
  /\ run = [w \in Submitters |-> NoLocals]
  /\ seen = NoteOf("none") /\ act = NoAct /\ held = NoHeld
  /\ keys = 0
  /\ kept = {} /\ heldTold = {} /\ dropped = {}
  /\ decisions = 0 /\ approvals = 0 /\ faults = 0 /\ slips = 0

Submits(w) == \/ Submit(w) \/ Create(w) \/ AddRow(w) \/ Tie(w) \/ LinkParts(w) \/ Clear(w)
Handles == \/ Take \/ Asked \/ Reask \/ Hold \/ HoldSave \/ Intro \/ Greet \/ Request
           \/ Requested \/ InTopic \/ Post \/ LinkPost \/ Compose \/ Composed \/ Cancel
           \/ Cancelled \/ Submits("person")
Manages == \/ Decided \/ HeldRead \/ Forget \/ Drop \/ Reintro \/ Release \/ HeldCheck
           \/ HeldSave \/ Submits("manager")
Outside == \/ \E t \in Topics, kind \in {"text", "tap", "cancel"} : Write(t, kind)
           \/ \E action \in Actions, p \in Projects \cup {NoProject} : Decide(action, p)
           \/ CliBlock \/ CliDrop \/ Crash

Next == Handles \/ Manages \/ Outside
Spec == Init /\ [][Next]_vars
\* The event loop runs whoever can run; nobody is made to write, to decide or to crash.
FairSpec == Spec /\ WF_vars(Handles) /\ WF_vars(Manages)

-----------------------------------------------------------------------------
(* Properties *)

Phases == {"idle", "asked", "reask", "hold", "holdsave", "intro", "greet", "request",
           "requested", "topic", "post", "link", "compose", "composed", "cancel", "cancelled",
           "submit", "create", "row", "tie", "linkparts", "clear", "decided", "heldread",
           "forget", "drop", "reintro", "release", "heldcheck", "heldsave"}

\* Every variable keeps its type; in particular a task of YouGile always has a project, and a
\* lock is held exactly by a worker between its read of the draft and the write that ends it.
TypeOK ==
  /\ written \in Seq([topic : Topics, kind : {"text", "tap", "cancel"}, decisions : Nat,
                      approvals : Nat, project : Projects \cup {NoProject}])
  /\ inbox \in Seq(Messages) /\ batch \in [from : Nat \ {0}, to : Nat]
  /\ tasks \in [Keys -> [project : Projects \cup {NoProject}, body : SUBSET Messages]]
  /\ \A k \in Keys : tasks[k] # NoTask => tasks[k].project \in Projects
  /\ posts \in [Messages -> Nat]
  /\ sender \in [status : Statuses, project : Projects \cup {NoProject}]
  /\ note \in Note /\ seen \in Note
  /\ drafts \in [Topics -> Draft] /\ held \in [Topics -> Draft]
  /\ rows \in [Keys -> {"none", "untied"} \cup Topics]
  /\ links \subseteq Messages \X Keys
  /\ lock \in [Topics -> Submitters \cup {Nobody}]
  /\ \A w \in Submitters, t \in Topics :
        lock[t] = w <=> run[w].topic = t /\ pc[w] \in
          {"composed", "create", "row", "tie", "linkparts", "clear", "heldsave"}
  /\ pc \in [{"person", "manager", "cli"} -> Phases]
  /\ run \in [Submitters -> Locals]
  /\ act \in [kind : Actions \cup {"none"}, project : Projects \cup {NoProject}]
  /\ keys \in Keys \cup {0}
  /\ kept \subseteq Messages /\ heldTold \subseteq Messages /\ dropped \subseteq Messages
  /\ decisions \in Nat /\ approvals \in Nat /\ faults \in 0 .. MaxFaults
  /\ slips \in 0 .. faults

\* What was saved as a draft stays in the draft until YouGile has it, or until the person or
\* an approver threw it away ("a failed send must not lose what was written").
\* True of a send that was refused; one that was made and its answer lost does lose what is
\* written next, as the run SenderTickets_unanswered shows.
NothingKeptIsLost ==
  \A m \in kept : \/ Reached(m) \/ m \in dropped
                  \/ \E t \in Topics : m \in drafts[t].parts

\* A message reaches YouGile once; only an unanswered post or a crash repeats one.
Copies(m) == posts[m] + Cardinality({k \in Keys : m \in tasks[k].body})
OnlyFaultsRepeat == \A m \in Messages : Copies(m) <= 1 + slips

\* "Nothing written from now on is a ticket": what was written without access is in a ticket
\* only if an approval came after it was written.
NoAccessNoTicket ==
  \A m \in 1 .. Len(written) :
     Reached(m) => written[m].project # NoProject \/ approvals > written[m].approvals

\* A ticket is made in the project its writer had when writing it, unless an approver decided
\* something since: nothing is filed where the person no longer belongs.  (Only while no answer
\* of YouGile is lost: a draft that a move fails to drop comes back with the key of a task that
\* was made in the old project.)
FiledWhereItBelongs ==
  [][\A w \in Submitters :
       pc[w] = "create" /\ pc'[w] = "row" =>
         \A m \in run[w].draft.parts :
            \/ written[m].project = tasks'[run[w].draft.key].project
            \/ decisions > written[m].decisions]_vars

\* What counts as delivered ("the messages it was made of") has reached YouGile.  True while
\* no answer of YouGile is lost: then YouGile may return the task it has, without the new text.
LinkedHasReached == \A m \in Messages, k \in Keys : <<m, k>> \in links => Reached(m)

\* Every update is handled in the end, and so is every decision: no lock stays taken.
EverythingIsHandled == []<>(pc["person"] = "idle" /\ inbox = <<>> /\ pc["manager"] = "idle")

-----------------------------------------------------------------------------
(* What the documentation says and the code does not keep. *)

\* "What they wrote while waiting, the bot keeps and after the approval sends at once": no
\* message that was told to be kept is left behind once the approval is done.
HeldIsReleased ==
  \A m \in heldTold :
     sender.status = "approved" /\ pc["manager"] = "idle" =>
       Reached(m) \/ m \in kept \cup dropped

\* "Each ticket is a topic, and what is written in the topic goes to the ticket": a topic has one
\* ticket, whatever an approval releases between an update's look at the topic and its draft.
OneTicketATopic ==
  \A j, k \in Keys : rows[j] = rows[k] /\ rows[j] \in Topics => j = k

\* "Blocked: unblock first": who has been blocked, from the bot or from the command line, is not
\* approved without being unblocked before.
BlockHolds == [][sender.status = "blocked" => sender'.status # "approved"]_vars
=============================================================================
