------------------------------ MODULE BotService ------------------------------
(***************************************************************************)
(* The process of the ticket bot (tickets/service.py): how it takes what   *)
(* people write from Telegram and hands it to the bot in order, how it     *)
(* follows the token of the admin page, stops and starts again, and how it *)
(* carries out the requests of the admin page (TicketBot.run_actions).     *)
(*                                                                         *)
(* We follow one bot account, "ours".  Under another token the service     *)
(* runs as well, but takes the updates of another account.  An update is   *)
(* its number in Telegram's queue; what the bot does with it is            *)
(* SenderTickets.  Requests are about one person, to approve or to revoke. *)
(***************************************************************************)
EXTENDS Naturals, Sequences, FiniteSets

CONSTANTS
  People,  \* who writes to the bot
  Slots,   \* CONCURRENT_UPDATES: how many updates are handled at once
  Batch,   \* how many requests one round looks at
  Budgets  \* bound: how many of each kind of step; a behaviour starts with one of them

Kinds == {"updates", "requests", "buttons", "tokens", "deploys", "days", "faults"}
ASSUME ConstantsAssumption ==
  /\ Slots \in Nat \ {0} /\ Batch \in Nat \ {0}
  /\ Budgets \subseteq [Kinds -> Nat]

VARIABLES
  \* Telegram
  who,       \* the updates so far: whose each one is
  confirmed, \* updates up to this one are no longer in Telegram
  \* the database
  config,    \* the token of the admin page
  rows,      \* ticket_actions: [kind, aged, state]
  status,    \* the person's, of ticket_senders
  \* the process
  svc,       \* "watch", "stopping" the bot for another token, "exiting", "down"
  token,     \* _token: the one the bot runs with
  bot,       \* the bot, 0 when there is none
  poller,    \* _poll: "away", "ask", "asked", "pause" or "drain"
  offset,    \* the next update to ask for; 0: whatever Telegram still has
  tasks,     \* running: [n, lock, on], on when it is being handled
  lockOf,    \* the lock of each person with tasks, named by the batch it was made for
  worker,    \* _actions: [pc, todo, row, bot, answer]
  bots,      \* the last bot
  left,      \* what is left of the budget
  \* history
  handled,   \* how often each update was handled
  cut,       \* updates whose handling was cut short, or never begun, by a stop or a crash
  stops,     \* how often a poller ended
  carried,   \* how often each request was carried out
  slips      \* requests that a crash, an exit or a failure left without their answer

telegram == <<who, confirmed>>
database == <<config, rows, status>>
service == <<svc, token, bot, bots>>
intake == <<poller, offset, tasks, lockOf, handled, cut, stops>>
actions == <<worker, carried, slips>>
vars == <<telegram, database, service, intake, actions, left>>

Spend(kind) == left[kind] > 0 /\ left' = [left EXCEPT ![kind] = @ - 1]
Up == svc # "down"
Rests == [pc |-> "rest", todo |-> {}, row |-> 0, bot |-> 0, answer |-> "open"]

-----------------------------------------------------------------------------
(* Telegram and the poller *)

Write(p) ==
  /\ Spend("updates")
  /\ who' = Append(who, p) /\ handled' = Append(handled, 0)
  /\ UNCHANGED <<confirmed, database, service, poller, offset, tasks, lockOf, cut, stops, actions>>

\* getUpdates: what is before the offset is confirmed when the request arrives.
Reach ==
  /\ poller = "ask" /\ poller' = "asked"
  /\ confirmed' = IF offset > confirmed + 1 THEN offset - 1 ELSE confirmed
  /\ UNCHANGED <<who, database, service, offset, tasks, lockOf, handled, cut, stops, actions, left>>

\* Mutant of Fails: an error of Telegram ends the loop.
FailsForGood ==
  /\ poller \in {"ask", "asked"} /\ Spend("faults")
  /\ poller' = "away"
  /\ UNCHANGED <<telegram, database, service, offset, tasks, lockOf, handled, cut, stops, actions>>

\* The request fails, or its answer is lost.
Fails ==
  /\ poller \in {"ask", "asked"} /\ Spend("faults")
  /\ poller' = "pause"
  /\ UNCHANGED <<telegram, database, service, offset, tasks, lockOf, handled, cut, stops, actions>>

Resume ==
  /\ poller = "pause" /\ poller' = "ask"
  /\ UNCHANGED <<telegram, database, service, offset, tasks, lockOf, handled, cut, stops, actions,
                 left>>

NoLock == <<>>

\* Whoever has tasks keeps the lock; else there is a new one.
LockIn(p, last) == IF lockOf[p] # NoLock THEN lockOf[p] ELSE <<p, last>>

\* Mutant of Following: the last update is asked for again.
Same(n) == n

\* Mutant of Following: one is passed over.
AfterNext(n) == n + 2

Following(n) == n + 1

\* The answer: some of what there is, in order; a task for each.
Receive(last) ==
  LET batch == confirmed + 1 .. last IN
  /\ poller = "asked" /\ last > confirmed
  /\ poller' = "ask" /\ offset' = Following(last)
  /\ tasks' = tasks \cup {[n |-> n, lock |-> LockIn(who[n], last), on |-> FALSE] : n \in batch}
  /\ lockOf' = [p \in People |-> IF \E n \in batch : who[n] = p THEN LockIn(p, last)
                                 ELSE lockOf[p]]
  /\ UNCHANGED <<telegram, database, service, handled, cut, stops, actions, left>>

Handling == {t \in tasks : t.on}

\* First the person's lock, in the order of arrival; then one of the slots.
Start(t) ==
  /\ ~ t.on /\ \A s \in tasks \ {t} : s.lock = t.lock => s.n > t.n
  /\ Cardinality(Handling) < Slots
  /\ tasks' = (tasks \ {t}) \cup {[t EXCEPT !.on = TRUE]}
  /\ UNCHANGED <<telegram, database, service, poller, offset, lockOf, handled, cut, stops, actions,
                 left>>

\* Mutant of Forgets: the person's entry goes whenever one of their updates is done.
ForgetsAlways(t) == TRUE

\* The last update of a person takes their entry with it.
Forgets(t) == \A s \in tasks \ {t} : s.lock # t.lock

\* Handled, or failed: a failure is logged, and that is all.
Done(t) ==
  /\ t.on /\ tasks' = tasks \ {t}
  /\ handled' = [handled EXCEPT ![t.n] = @ + 1]
  /\ lockOf' = IF Forgets(t) THEN [lockOf EXCEPT ![who[t.n]] = NoLock] ELSE lockOf
  /\ UNCHANGED <<telegram, database, service, poller, offset, cut, stops, actions, left>>

-----------------------------------------------------------------------------
(* The service: its token, a deploy, a crash *)

SaveToken(new) ==
  /\ new # config /\ Spend("tokens")
  /\ config' = new
  /\ UNCHANGED <<telegram, rows, status, service, intake, actions>>

\* The bot of a token; only ours is polled for the updates we follow.
Runs(new) ==
  /\ token' = new
  /\ bots' = IF new = "none" THEN bots ELSE bots + 1
  /\ bot' = IF new = "none" THEN 0 ELSE bots'
  /\ poller' = IF new = "ours" THEN "ask" ELSE "away"
  /\ offset' = 0

\* Mutant of Cancels: the tasks are dropped with the poller.
CancelsAtOnce ==
  /\ poller' = IF poller = "away" THEN "away" ELSE "drain"
  /\ tasks' = {} /\ lockOf' = [p \in People |-> NoLock]

\* The poller is cancelled: it asks no more and waits for its tasks.
Cancels ==
  /\ poller' = IF poller = "away" THEN "away" ELSE "drain"
  /\ UNCHANGED <<tasks, lockOf>>

\* Every WATCH_SECONDS, and at the start: nothing when the token is the same.
ApplyConfig ==
  /\ svc = "watch" /\ config # token
  /\ IF bot = 0 THEN Runs(config) /\ UNCHANGED <<svc, tasks, lockOf>>
     ELSE svc' = "stopping" /\ Cancels /\ UNCHANGED <<token, bot, bots, offset>>
  /\ UNCHANGED <<telegram, database, handled, cut, stops, actions, left>>

\* A second cancellation comes while the poller waits for its tasks: the wait is over, and nothing
\* waits for them any more.
WaitsNoMore ==
  /\ poller' = "away" /\ stops' = IF poller = "away" THEN stops ELSE stops + 1
  /\ UNCHANGED <<tasks, lockOf>>

\* The process is told to end, be it in the middle of a change of the token.
Deploy ==
  /\ svc \in {"watch", "stopping"} /\ Spend("deploys")
  /\ svc' = "exiting"
  /\ IF svc = "watch" THEN Cancels /\ UNCHANGED stops ELSE WaitsNoMore
  /\ UNCHANGED <<telegram, database, token, bot, bots, offset, handled, cut, actions>>

\* What is in memory goes; for requests only when the process does.
Drops == /\ tasks' = {} /\ lockOf' = [p \in People |-> NoLock]
         /\ cut' = cut \cup {t.n : t \in tasks}
         /\ stops' = IF poller = "away" THEN stops ELSE stops + 1
InDoubt == {n \in {worker.row} : worker.pc \in {"tell", "finish"} /\ carried[n] > 0}
Leaves == worker' = Rests /\ slips' = slips \cup InDoubt

\* The drain is over, in time, interrupted or, a fault, after DRAIN_SECONDS; the old bot's client is
\* closed.
\* The token is the one that was read before.
Stopped ==
  /\ svc \in {"stopping", "exiting"}
  /\ IF tasks = {} \/ poller = "away" THEN UNCHANGED left ELSE Spend("faults")
  /\ Drops
  /\ \/ /\ svc = "stopping" /\ svc' = "watch"
        /\ \E new \in {"ours", "other"} \ {token} : Runs(new)
        /\ UNCHANGED <<worker, slips>>
     \/ /\ svc = "exiting" /\ svc' = "down" /\ Leaves
        /\ token' = "none" /\ bot' = 0 /\ poller' = "away" /\ UNCHANGED <<bots, offset>>
  /\ UNCHANGED <<telegram, database, handled, carried>>

Crash ==
  /\ Up /\ Spend("faults")
  /\ svc' = "down" /\ token' = "none" /\ bot' = 0 /\ poller' = "away" /\ Drops /\ Leaves
  /\ UNCHANGED <<telegram, database, bots, offset, handled, carried>>

Boot ==
  /\ svc = "down" /\ svc' = "watch" /\ Runs(config)
  /\ UNCHANGED <<telegram, database, tasks, lockOf, handled, cut, stops, actions, left>>
-----------------------------------------------------------------------------
(* The requests of the admin page *)

NewStatus == [approve |-> "approved", revoke |-> "revoked"]
Applies(kind) == IF kind = "approve" THEN status # "approved" ELSE status = "approved"

\* manage_sender: only what applies to the person as they are is asked of the bot.
Ask(kind) ==
  /\ Applies(kind) /\ Spend("requests")
  /\ rows' = Append(rows, [kind |-> kind, aged |-> FALSE, state |-> "open"])
  /\ carried' = Append(carried, 0)
  /\ UNCHANGED <<telegram, config, status, service, intake, worker, slips>>

\* An approver decides by the bot's own button.
Button(kind) ==
  /\ Applies(kind) /\ worker.pc # "tell" /\ Spend("buttons")
  /\ status' = NewStatus[kind]
  /\ UNCHANGED <<telegram, config, rows, service, intake, actions>>

\* ACTION_TTL.
Age ==
  /\ Spend("days")
  /\ rows' = [n \in DOMAIN rows |-> [rows[n] EXCEPT !.aged = TRUE]]
  /\ UNCHANGED <<telegram, config, status, service, intake, actions>>

\* Mutant of Waiting: the limit is put before the condition.
WaitingOfFirst == {n \in DOMAIN rows : n <= Batch /\ rows[n].state = "open"}

Waiting == {n \in DOMAIN rows : rows[n].state = "open"}

\* The first of those that wait, as many as Batch.
RunActions ==
  /\ worker.pc = "rest" /\ Up /\ bot # 0 /\ Waiting # {}
  /\ worker' = [Rests EXCEPT !.pc = "next",
       !.todo = {n \in Waiting : Cardinality({m \in Waiting : m < n}) < Batch}, !.bot = bot]
  /\ UNCHANGED <<telegram, database, service, intake, carried, slips, left>>

Goes(n, pc, answer) ==
  worker' = [worker EXCEPT !.pc = pc, !.todo = @ \ {n}, !.row = n, !.answer = answer]

\* The first of the round: too old, or refused as the person is now, or decided.
Manage(n) ==
  /\ worker.pc = "next" /\ \A m \in worker.todo : n <= m
  /\ \/ rows[n].aged /\ Goes(n, "finish", "late") /\ UNCHANGED <<status, carried>>
     \/ /\ ~ rows[n].aged /\ ~ Applies(rows[n].kind)
        /\ Goes(n, "finish", "failed") /\ UNCHANGED <<status, carried>>
     \/ /\ ~ rows[n].aged /\ Applies(rows[n].kind)
        /\ status' = NewStatus[rows[n].kind] /\ carried' = [carried EXCEPT ![n] = @ + 1]
        /\ Goes(n, "tell", "open")
  /\ UNCHANGED <<telegram, config, rows, service, intake, slips, left>>

Concludes(answer) == worker' = [worker EXCEPT !.pc = "finish", !.answer = answer]

\* Mutant of Tell: a request whose telling fails is left open, to be tried again.
TellOrAgain ==
  /\ worker.pc = "tell"
  /\ \/ /\ worker' = IF bot = worker.bot THEN [worker EXCEPT !.pc = "finish", !.answer = "done"]
                    ELSE Rests
        /\ UNCHANGED left
     \/ Spend("faults") /\ worker' = Rests
  /\ UNCHANGED <<telegram, database, service, intake, carried, slips>>

\* The person is told; that fails when the bot was stopped meanwhile, and its client closed.
Tell ==
  /\ worker.pc = "tell"
  /\ \/ Concludes(IF bot = worker.bot THEN "done" ELSE "failed") /\ UNCHANGED left
     \/ Spend("faults") /\ Concludes("failed")
  /\ UNCHANGED <<telegram, database, service, intake, carried, slips>>

\* The answer is stored; if that fails, the round is over and the request is still open.
Finish ==
  /\ worker.pc = "finish"
  /\ \/ /\ rows' = [rows EXCEPT ![worker.row].state = worker.answer]
        /\ worker' = IF worker.todo = {} THEN Rests
                     ELSE [Rests EXCEPT !.pc = "next", !.todo = worker.todo, !.bot = worker.bot]
        /\ UNCHANGED <<slips, left>>
     \/ /\ Spend("faults") /\ worker' = Rests /\ slips' = slips \cup InDoubt
        /\ UNCHANGED rows
  /\ UNCHANGED <<telegram, config, status, service, intake, carried>>

-----------------------------------------------------------------------------
Init ==
  /\ who = <<>> /\ confirmed = 0 /\ config = "ours" /\ rows = <<>> /\ status = "pending"
  /\ svc = "down" /\ token = "none" /\ bot = 0 /\ bots = 0
  /\ poller = "away" /\ offset = 0 /\ tasks = {} /\ lockOf = [p \in People |-> NoLock]
  /\ worker = Rests /\ handled = <<>> /\ cut = {} /\ stops = 0 /\ carried = <<>> /\ slips = {}
  /\ left \in Budgets

Polls == Reach \/ Resume \/ \E last \in 1 .. Len(who) : Receive(last)
Carries == RunActions \/ (\E n \in worker.todo : Manage(n)) \/ Tell \/ Finish
Outside == (\E p \in People : Write(p))
           \/ (\E kind \in {"approve", "revoke"} : Ask(kind) \/ Button(kind))
           \/ (\E new \in {"ours", "other"} : SaveToken(new)) \/ Age \/ Deploy \/ Crash \/ Fails
Next == Polls \/ Carries \/ Outside \/ ApplyConfig \/ Stopped \/ Boot
        \/ \E t \in tasks : Start(t) \/ Done(t)
Spec == Init /\ [][Next]_vars

\* The loops go on, what can be handled is (the semaphore is first come, first served), every
\* handling ends, a drain ends, and Docker starts the process again.
FairSpec ==
  /\ Spec
  /\ WF_vars(Polls) /\ WF_vars(Carries) /\ WF_vars(ApplyConfig) /\ WF_vars(Stopped) /\ WF_vars(Boot)
  /\ WF_vars(\E t \in tasks : Start(t)) /\ WF_vars(\E t \in tasks : Done(t))

-----------------------------------------------------------------------------
(* Properties *)

\* Every variable keeps its type, and a bot there is exactly while there is a token.
TypeOK ==
  /\ who \in Seq(People) /\ confirmed \in 0 .. Len(who)
  /\ config \in {"none", "ours", "other"} /\ token \in {"none", "ours", "other"}
  /\ rows \in Seq([kind : {"approve", "revoke"}, aged : BOOLEAN,
                   state : {"open", "done", "failed", "late"}])
  /\ status \in {"pending", "approved", "revoked"}
  /\ svc \in {"watch", "stopping", "exiting", "down"} /\ bot \in 0 .. bots /\ bots \in Nat
  /\ bot = 0 <=> token = "none"
  /\ poller \in {"away", "ask", "asked", "pause", "drain"} /\ offset \in 0 .. Len(who) + 1
  /\ tasks \subseteq [n : 1 .. Len(who), lock : People \X (1 .. Len(who)), on : BOOLEAN]
  /\ lockOf \in [People -> {NoLock} \cup (People \X (1 .. Len(who)))]
  /\ worker \in [pc : {"rest", "next", "tell", "finish"}, todo : SUBSET DOMAIN rows,
                 row : 0 .. Len(rows), bot : 0 .. bots, answer : {"open", "done", "failed", "late"}]
  /\ Len(handled) = Len(who) /\ Len(carried) = Len(rows)
  /\ cut \subseteq 1 .. Len(who) /\ stops \in Nat /\ slips \subseteq DOMAIN rows

\* While an update of a person is handled, no other of theirs is, and none of those before it
\* still waits: side by side with everyone else's, but in order for each person.
OneByOne ==
  \A t \in Handling : \A s \in tasks \ {t} : who[s.n] = who[t.n] => s.n > t.n /\ ~ s.on

\* "Telegram already counts these as delivered": an update that Telegram no longer has was handled,
\* or is about to be, unless a crash came or a stop could not wait for it any longer.
NothingDropped ==
  \A n \in 1 .. confirmed : handled[n] > 0 \/ n \in cut \/ \E t \in tasks : t.n = n

\* An update is handled once, and once more for each poller that ended before it could confirm it.
AgainOnlyAfterStop ==
  \A n \in 1 .. Len(who) :
    handled[n] + Cardinality({t \in tasks : t.n = n}) <= 1 + stops

\* What the page reads of a request is so: done is done; "not carried out" was not, and a request
\* is carried out once, unless a crash, an exit or a failure fell between the deed and the answer.
AnswersAreTrue ==
  \A n \in DOMAIN rows :
    /\ rows[n].state = "done" => carried[n] > 0
    /\ n \notin slips => carried[n] <= 1 /\ (rows[n].state = "late" => carried[n] = 0)

\* If the token of the bot stays, every update is handled in the end or was cut short: no error of
\* Telegram, no change of the token and no restart makes the bot deaf.
EveryUpdateHandled ==
  <>[](config = "ours") => []<>(\A n \in 1 .. Len(who) : handled[n] > 0 \/ n \in cut)

\* Every request of the page gets its answer, whatever failed on the way.
EveryRequestAnswered == []<>(\A n \in DOMAIN rows : rows[n].state # "open")

-----------------------------------------------------------------------------
(* What a comment says and the code does not keep. *)

\* "a stop (a deploy) lets them finish instead of dropping what someone just wrote": without faults,
\* what Telegram no longer has was handled or is about to be.
StopsDropNothing ==
  \A n \in 1 .. confirmed : handled[n] > 0 \/ \E t \in tasks : t.n = n
=============================================================================
