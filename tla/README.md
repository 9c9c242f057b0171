# yougile-mcp-cloud in TLA+

Models, model-checking runs and proofs for `src/src/yougile_cloud/`: a multi-tenant MCP
server for YouGile and the Telegram ticket bot that runs beside it.  Paths below are relative to
`src/src/yougile_cloud/` unless they start with `src/`.

## The system

Two processes share a PostgreSQL database (autocommit: every database call is its own atomic
step), a Valkey server and the YouGile API:

- **app** (`app.py`): the MCP server with its OAuth provider, sign-in pages and admin console;
- **tickets** (`tickets/`): the Telegram bot, present when it is configured.

Each is one asyncio event loop, so code interleaves at its awaits and nowhere else.  A third
actor is the command line (`__main__.py`, `tickets/cli.py`), which writes to the same database
from a process of its own.  A step of the models is the code between two awaits that reach the
database, Valkey, YouGile or Telegram.

| Component | State it keeps | Operations | What makes it correct |
|---|---|---|---|
| ticket reports: `tickets/bot.py` `on_event` … `notify`, loops of `tickets/service.py` | table `tickets` (column, `completed`, `deleted`, `last_message_id`, topic); in memory `_locks`, `pending`, `_busy`, `_dirty`, `fresh` | webhook, refresh, retry loop, periodic check, `_tidy` | nothing lost, repeats only after a crash or a lost answer, an open ticket catches up |
| ticket senders: `stranger`, `hold`, `manage`, `release_held` | `ticket_senders`, the person's note in `ticket_drafts` | request, hold, approve, reject, move, revoke, block, unblock, CLI block | no ticket without access, what is held is released |
| ticket drafts: `compose`, `submit_topic`, `create`, `relay`, `cancel_topic` | `ticket_drafts`, `tickets`, `ticket_tg_messages`, locks `draft:<uid>:<thread>`, the idempotency key of a draft | write, tap, cancel, retry after a failure | nothing saved is lost, a retry does not make a second task, a ticket goes where its writer belongs |
| bot polling: `service._poll` | Telegram's offset, a lock per person, at most 8 updates at once | poll, dispatch, drain on stop | updates of a person in order, none lost by a clean stop |
| actions queue: `store.queue_action` … `run_actions` | table `ticket_actions` | queue (app), take, carry out, finish (bot) | carried out once, a true answer for each |
| tickets configuration: `service.apply_config` | the running bot, its token | start, watch, stop, replace | one bot at a time, none deaf for good |
| tickets admin page, desk, Telegram client | `ticket_accounts`, webhook subscriptions | save account, save token, subscribe | no key left behind, the stored key works |
| rate limiter and attempt counters: `kv.py` | Valkey: a sorted set and a block per company, a counter per login and address | acquire, penalize, peek, hit | the limit holds in every window; failed sign-ins are bounded |
| tenancy: `tenancy.py` | in memory: a runtime per user, 30 s old at most | `runtime_for`, `forget` | no runtime with a dead key or without access for longer than the cache lives |
| sign-in and YouGile keys: `signin.py`, `db.py` | `users` (encrypted key), `companies` | connect, upsert, delete the previous key, disconnect, block | no living key outside the database, none dead inside it |
| OAuth provider and sign-in pages: `oauth.py`, `web.py` | Valkey: requests, passwords, codes; `oauth_clients`, `refresh_tokens` | register, authorize, sign in, exchange, refresh, revoke, purge | codes and refresh tokens work once, what is revoked stays so, nobody is locked out for nothing |
| admin console: `admin.py`, `access.py` | sessions in Valkey, `companies`, `users` | sign in, pages, rights, block, disconnect, reset | a role withdrawn stops working, a session lives while its person does |
| migrations: `db.migrate` | `schema_migrations` | migrate under an advisory lock | each file once |
| deployment: `src/deploy/deploy.sh` | the tag in `.env` | set tag, pull, up, roll back | a failed start returns to the running tag |

**Interactions.**  The app puts requests for the bot into `ticket_actions`; the bot looks for them
every few seconds and carries out such a request and an approver's button with the same `manage`.
YouGile calls the webhook of the bot; the bot believes only the id in the event and reads the task
itself.  The command line writes `ticket_senders` and drafts without any of the bot's locks.  A
person's row in `users` is shared by sign-ins, the OAuth provider, the console and every call.

**Hard behaviours.**  Coroutines that refresh one task; locks with different names over one row;
a snapshot written back several awaits later; failures of YouGile and Telegram between two steps
that belong together, and answers that are lost after the request took effect; crashes, after
which only the database remains; webhooks that are lost; a queue whose reading is what confirms it;
a secret that two requests bring at once; counters read before and written after an answer; two
processes that decide about one person.  `PROJECT.json` lists each at its line under "hazards".

## Modules

| Module | Models |
|---|---|
| `TicketReports`, `TicketReports_proofs`, `TicketReportsDelivery_proofs` | what the sender of a ticket is told, under every interleaving of the coroutines that refresh it, with faults |
| `SenderTickets`, `SenderTickets_proofs` | one person's access, held messages, drafts and submission in topic mode, against the approver, the command line, faults and crashes |
| `BotService`, `MCBotService`, `BotService_proofs` | the process of the bot: how updates come from Telegram and are handled, changes of the token, stops and crashes, the requests of the admin page |
| `RequestBudget` | what the rate limiter promises, without scripts, sets and sleep |
| `RateLimiter`, `RateLimiter_proofs` | the scripts of `kv.py` on one company's bucket, and the loop of `acquire` over them, with a clock; it implements `RequestBudget` |
| `Accounts`, `MCAccounts`, `Accounts_proofs` | one person's row, key, rights and cached runtime: sign-ins, the admin, calls, faults, restarts |
| `Tokens`, `MCTokens`, `Tokens_proofs` | registration, sign-in flow, codes, refresh tokens, revocation and the purge, with three requests at once |
| `AdminPages`, `MCAdminPages`, `AdminPages_proofs` | the attempt counters, the admin's sign-in and sessions, the check of every page, the bot's YouGile account |

An `MC` module holds the values a `.cfg` cannot write: the mixtures of budgets, the symmetry of the
requests.  The modules meet at the steps one of them takes as a whole: `BotService.Done` is an
update of `SenderTickets`, `BotService.Manage` one of its decisions; `Tokens.Connect` is the
sign-in of `Accounts`; `AdminPages.Act` is a step of the admin of `Accounts` or `BotService`.

### TicketReports

`task`, `said`, `approved`, `hooks` are the outside world; `ticket` is the row; `locks` (with the
waiters of an `asyncio.Lock`), `orphan`, `pending`, `busy`, `dirty`, `fresh`, `first` and `todo`
are the memory of `TicketBot` and of the service's loops; `pc` and `run` are where each coroutine
is and its locals.  There is one runner per task for webhooks (`coalesced`), `Retry`
(`retry_pending`) and `Check` (`refresh_open`).  `_refresh` is one action per await: `ReadTicket`,
`ReadTask`, `ReadSender` (which chooses the branch), `SkipRead`, `SkipSave`, `Keep`, `TellGone`,
`Drop`, `Tell`, `Save`, `ReadChat`, `Relay`, `RelaySave`, `RelayEnd`; `End` is its return to
whoever called it, up to that caller's next await.  `told`, `relayed`, `skipped` are history.

Data: a column is one of the project, open or closed, of another project the bot can read, or
hidden from it (403, 404); the ids of messages are their places in the chat; `mute` messages are
deleted, empty or the bot's own.  The bot's clock is taken to agree with YouGile's.

Faults, each counted: Telegram is down, its answer is lost, it refuses the topic; YouGile fails;
a webhook is lost; the process restarts.

| Run | Bounds | Shows |
|---|---|---|
| `TicketReports_moves` | one task, 2 changes, 1 message, 1 fault (not the refusal of a topic), fairness | `TypeOK`, `OneRefreshAtATime`, `NothingLost`, `SkippedStaysSkipped`, `OpenTicketsCatchUp`, `EveryEventCounts` |
| `TicketReports_two` | two tasks, 2 messages, 1 fault of any kind | `RepeatsAreCuts`, `WatermarkNeverBack`, `PendingUntilReported` |
| `TicketReports_tidy` | `HandoffRace = TRUE` | a violation of `OneRefreshAtATime` |

*Why the bounds are enough.*  The locks, marks and watermark of a task are its own, so tasks meet
only in the lists that the two loops walk: two tasks show that.  A column that changes twice can
leave and come back; two messages are needed for a failure between them; a fault is at most what
separates two steps, and each is tried at every await.

*Fairness.*  Weak, on each coroutine (the event loop runs whoever can run), on the timers of
`_retry` and `_reconcile`, on the expiry of `fresh` and on the delivery of a webhook that is not
lost.  Nothing makes the team, the approvers or the faults act.

*`HandoffRace`.*  `_tidy` forgets a lock that is not `locked()`, and an `asyncio.Lock` is not
locked between its release and the first step of the waiter it woke.  With `HandoffRace = TRUE`
the check may start in that gap; then two refreshes of one task run at once.  The gap is one turn
of the event loop, so the other runs and the theorems assume it is not hit; what rests on that
assumption is exactly what `TicketReports_tidy` refutes without it.

*Also seen.*  `_refresh` reads the task first and its chat after (bot.py:1426): what is said after
the task has left the project, between the two, is relayed all the same, though
`src/README.md:113` promises news "only while the task is in the project"; and a message said inside
is skipped for good if the task has left before the refresh runs.  A closed ticket whose report
failed is not looked at again after a restart, for the check lists open tickets only; hence
`lapses = 0` in `EveryEventCounts`.  A send whose answer was lost is repeated by the retry loop,
which is the "unanswered" part of `cuts` in `RepeatsAreCuts`.

### SenderTickets

The actors are "person" (the poller hands over a person's updates one at a time: `OneByOne` of
`BotService`), "manager" (`manage`, under the lock `access:<person>`) and "cli" (`tickets block`).
`sender`, `note`, `drafts`, `rows`, `links` are the tables; `tasks` and `posts` are what YouGile
has; `lock` is `draft:<person>:<topic>`.  An update goes from `Take` through `stranger` (`Asked` …
`Requested`), or through `in_topic` to `relay` (`Post`, `LinkPost`) or `compose` and `submit_topic`
(`Compose` … `Clear`).  A decision goes from `Decide` through `Decided` to `release_held`, which
submits what was held with the same actions as the person's own (`Submits`).

`batch` is what the poller's last answer held: `Take` of the first update of a new answer says how far
it goes (`Received`), and confirms the one before it.  After a `Crash` Telegram gives the whole
of that answer again (`From`), or, if the poller had asked past it, nothing of it.  A message belongs
to the ticket it was linked to first (`Linked`: ON CONFLICT DO NOTHING).

An idempotency key is a number, handed out with the draft; `Filed` is YouGile's side of it: a key
it knows returns the task as it is.  A "refused" request changes nothing, an "unanswered" one has
taken effect; a crash loses locks and locals, and Telegram may give the last answer again, the whole of
it.  So one update makes a key at most once for each time it comes: `Keys`.

| Run | Bounds | Shows |
|---|---|---|
| `SenderTickets_writing` | 1 topic, 2 projects, 3 messages or taps, 2 decisions, 1 refusal | `TypeOK`, `NothingKeptIsLost`, `NoAccessNoTicket`, `LinkedHasReached`, `FiledWhereItBelongs` |
| `SenderTickets_faults` | 2 topics, 2 messages, 1 decision or CLI block, 1 fault of any kind, fairness | `OnlyFaultsRepeat`, `EverythingIsHandled` |
| `SenderTickets_held` | 1 topic, 2 messages, 1 decision, no faults | a violation of `HeldIsReleased` |
| `SenderTickets_unanswered` | 1 topic, 2 messages, no decision, 1 lost answer | a violation of `NothingKeptIsLost` |

*Why the bounds are enough.*  A decision can meet an update at one await and a second decision (a
move, a revocation) what the first left; three messages are one in the draft, one on its way, one
after; topics share nothing but the note, so two of them show what crosses.  Deadlock is not
checked: when everything is handled and the bounds are used up, the person and the approver may
simply do nothing more.

*Fairness.*  The event loop runs the person's worker and the manager whenever they can take a
step; nobody is made to write, decide or crash.

*What the violations show.*  `hold` writes the note it read under `draft:<uid>:0`, `manage`
clears it under `access:<uid>`: a message held meanwhile ends in a note nobody reads again
(`HeldIsReleased`).  After the answer of a create was lost, the next message of the topic is sent under the
key of a task that exists: YouGile returns it without the new text, and `submit_topic` counts the message
as delivered (`NothingKeptIsLost`; bot.py:563).  `NothingKeptIsLost` holds, and is proved, while answers
are not lost and nothing crashes.

*What else the code does not keep.*  `in_topic` asks for the topic's ticket before it waits for the draft's
lock: an approval that releases what was held there, between the two, makes the waiting message a second
ticket of the topic (`OneTicketATopic`).  `manage` checks the row it has read and `store.decide` writes
whatever the row says by then: a block from the command line, which takes no lock, is overwritten
(`BlockHolds`).

*Also seen.*  After an unanswered create a draft that a move should have dropped can come back and be
filed in the old project: `FiledWhereItBelongs` and `LinkedHasReached` are checked without lost answers.
A crash alone breaks these properties as well: an update is given again while what it had saved
is there already, or what an approval had taken from the note is gone with the process.

### BotService

`who` is Telegram's queue (an update is its place in it), `confirmed` what Telegram no longer
gives; `config`, `rows`, `status` are the database: the token of the page, `ticket_actions`, the
status of the person the requests are about; `svc`, `token`, `bot` are the service, `poller`,
`offset`, `tasks`, `lockOf` one `_poll`, `worker` the round of `run_actions`.

- `Reach` is the arrival of `getUpdates`, which confirms what is before its offset; `Receive` the
  answer, of any length, which makes a task for each update.  `Start` is the task's entry into its
  person's lock and a slot, `Done` its end, with the person's entry if it was their last.
- `ApplyConfig` reads the token every WATCH_SECONDS; a bot that runs is cancelled (`Cancels`) and
  replaced when its tasks are done or DRAIN_SECONDS are over (`Stopped`).  The token it goes on with
  is the one read before the drain.  `Deploy` and `Crash` end the process, `Boot` starts it.  A
  `Deploy` that finds the service in the drain of a change of the token cancels the poller a second time,
  and the wait for its tasks is over at once (`WaitsNoMore`).
- `Ask` is `manage_sender` on the page, `Button` an approver's tap on Telegram.  `RunActions` takes
  the open requests, `Manage` decides on the first, `Tell` tells the person by the client of the bot
  the round began with, `Finish` stores the answer; `Age` is ACTION_TTL.

Approve and revoke stand for the six actions; their effect on drafts is `SenderTickets`.  Under
another token the bot takes the updates of another account, which we do not follow.

| Run | Bounds | Shows |
|---|---|---|
| `BotService_intake` | 2 people, 2 slots, rounds of 1; four mixtures of at most 3 updates, 2 requests, 1 button, 2 tokens, 1 deploy, 2 faults; fairness | `TypeOK`, `OneByOne`, `NothingDropped`, `AgainOnlyAfterStop`, `AnswersAreTrue`, `EveryUpdateHandled`, `EveryRequestAnswered` |

*Why the bounds are enough.*  Three updates are two of one person in two batches and one beside
them; a lock that is forgotten too early needs exactly that.  Two changes of the token stop the
poller and bring it back, after which its last batch comes again; rounds of one request make the
order of the page's requests matter.  The proofs hold for any number of each.

*Fairness.*  Weak on the poller, on the service's loops, on the start and the end of a handling, on
the end of a drain and on `Boot`: the event loop runs who can run, locks and the semaphore are first
come, first served, `asyncio.wait` has a timeout, and Docker starts a process that ended.  Nothing
makes anybody write, save a token or fail.

*What the code does not keep.*  `stop` runs while `apply_config` waits for the updates of the bot it
replaces; the second `CancelledError` leaves the wait at service.py:261, and the updates that Telegram
counts as delivered end with the process.

*Also seen.*  A request that was carried out just before a crash is carried out again or, when it
no longer applies, answered "not done"; after a day it reads "Не выполнено" though it was
(`AnswersAreTrue` excepts these, `slips`).  A change of the token closes the client of the bot in
whose name a round still runs: the decision is made, the page reads that it failed, and what the
person had written while waiting is lost (bot.py:931).  A drain that is over time or cut short, and a
crash, drop updates that Telegram counts as delivered (`cut`, which `NothingDropped` excepts).

### RateLimiter

`slots` and `block` are the two keys of the company in Valkey; `grants` is the history of the times
at which requests went, and the scores of the sorted set are looked up in it.  A script is one step
(`Grant`, `GiveUp` and `Sleep` are the ways `acquire` goes on after it, `Penalize` is the other
script); `Expire` is the expiry that `_ACQUIRE` renews with each grant, at any time from a tick after
the last request has left the window.  `Begin`, `Sleep` and `Wake` are the loop.

| Run | Bounds | Shows |
|---|---|---|
| `RateLimiter_window` | 2 workers, 2 requests in 3 ticks, sleeps of 2, deadline of 5, 5 requests, 2 penalties of 1 or 3 ticks, 6 ticks | `TypeOK`, `WaitIsExact`, `KeepsBudget` |

`KeepsBudget` is the refinement of `RequestBudget`: its requests wait from `Begin` to their answer,
a grant is `Go`, giving up is `Refuse`, a penalty is `HoldOff`; sleeping, waking, the cleaning and the
expiry of the set are stutters.  It says at once that the limit holds in every window, that a longer
penalty is not cut by a shorter one, that nobody is refused who might go, and that a request is
answered by its deadline.

*Why the bounds are enough.*  Five requests against a limit of two make three overlapping windows;
a maximal sleep shorter than the window makes workers wake, lose the slot and sleep again; a
deadline a little longer than the window makes some give up.  The proofs need none of it.

*What is assumed.*  A timer that is due and the script after it take no time: the deadline bounds
what `acquire` chooses to wait, not the latency of Valkey.  Ticks pass for as long as somebody sleeps.

### Accounts

`row`, `rights`, `company` are the person's rows of `users` and `user_rights` and the company's;
`keys` is what exists in YouGile; `cache` is `Tenancy._cache`, where a runtime is what it was built
of; `run` is the requests under way, each with the locals its code carries over an await.

- `SignIn` … `Delete` are `SignIn.connect`: access of the company, a new key, who it is, the ban,
  the row, `forget`, the key that was before.  `Undo` is every `delete_key` of a key that is not
  kept.
- `Disconnect`, `Block` … `Find` are the console: the ban and the disconnect share
  `_drop_connection` (`List`, `Drop`, `Forget`, `Delete`); rights are saved for a person read
  before; a reset keeps a ban.  `SetCompany` is the settings page and `company` of the command line,
  neither of which forgets anything.
- `Call` … `Enter` are `runtime_for`: three reads, one await each, then `touch_user`, then the entry.

The versions of the code are times and counters; here they are numbers that never repeat
(`stamps`, `settings`, the key for the row).  `signed` are the ids that have tokens, and a token
outlives its row, so a call may come for an id that is gone.  `changed`, `stranded`, `unsure` are
history: when a fact last changed, keys that nothing will delete, keys whose commit was in doubt.

| Run | Bounds | Shows |
|---|---|---|
| `Accounts_keys` | 3 requests at once, RECHECK of 2 ticks, four mixtures of at most 2 sign-ins, 2 steps of the admin, 2 calls, 1 fault, 3 ticks | `TypeOK`, `StaleAtMostRecheck`, `StoredKeyWorks`, `OnlyFaultsStrand` |

*Why the bounds are enough.*  The hazards are crossings of two requests (a sign-in and a
disconnect, two sign-ins, a load and a `forget`) with a third before them that made the row; a
stale entry needs RECHECK and one tick more.  The budgets are mixtures because all kinds of steps at
full measure are out of reach; the proofs hold for any number of requests and any budget.

*Fairness.*  None: the properties are about safety only, and a request may be abandoned.
Deadlock is not checked, as a budget that is used up ends a behaviour.

*What the code does not keep.*  A disconnect reads the key, a sign-in stores another, the disconnect
deletes the row and the key it read (admin.py:754): the new key is in YouGile and in no row, although
`src/README.md:61` says that a disconnect deletes the key.  `OnlyFaultsStrand` excepts exactly this, a
lost answer, a failed deletion and a restart.

*Also seen.*  `src/README.md:24` says that the company's access is
looked at on each call; it is looked at every RECHECK, which is what `StaleAtMostRecheck` promises.  A
load that takes longer than RECHECK serves its own call with what it read, however old; no later call.
A ban that comes while a sign-in is past its look at the rights leaves a row and a key for a banned
person; the calls are refused, the key stays.  `set_default_board` leaves `updated_at` as it is
(tenancy.py:132), so another process would keep an older board; there is one.

### Tokens

`clients`, `tokens`, `user`, `open` are Postgres, `flows`, `creds`, `codes` Valkey, `run` three
requests, `purge` the daily one.  Every secret is a number that never repeats; the *grant* of a token
is the code it began with, and `held` is what the clients hold.

- `Register`, `Authorize`, then `Submit` → `Companies` → `Choose` → `Connect` → `IssueCode` →
  `ForgetFlow` are the sign-in: the flow is read once, at the start of the request, and deleted after
  the code was issued.
- `LoadCode` → `ReadCode` → `TakeCode` → `Save` and `LoadRefresh` → `Rotate` → `LookUpUser` →
  `LookUpCompany` → `Save` → `Answer` are the two exchanges, as the library calls them: loading looks,
  taking deletes, and only who has deleted goes on.
- `Revoke`, `Disconnect`, `SetCompany`, `Lapse`, `PurgeTokens`, `PurgeClients`, `Fails`, `Crash` come in
  between.  `Save` is one statement, which inserts nothing when the person is gone.

| Run | Bounds | Shows |
|---|---|---|
| `Tokens_grants` | 3 requests at once, 3 clients (a new one, one of a month ago, one whose callback is not in the list), four mixtures of at most 2 flows, 6 requests, 2 steps of the admin, 1 lapse, 1 purge, 1 fault | `TypeOK`, `GrantIsOne`, `EndedIsOver`, `LockedOutForAReason`, `GoneHaveNothing` |

*Why the bounds are enough.*  A secret is brought twice by two requests; the third is the revocation,
the disconnect or the other flow.  Two flows are needed for a code of one client that another brings.
The proofs hold for any number of requests, clients and secrets.

*Fairness.*  None; deadlock is not checked, as a budget that is used up ends a behaviour.

*What the code does not keep.*  The purge deletes a client of a month ago that has no refresh token at that
instant, although its code or the token it rotates is in a request's hands (db.py:366 says "registered
and never used for a month").  `LockedOutForAReason` excepts such a client by `forgotten`, and one
whose token was taken for nothing (oauth.py:222) by `burnt`.

*Also seen.*  A form sent twice makes two
codes of one flow, hence two grants.  A revocation that comes in the middle of a rotation finds no
token and the grant lives on.  The exchange of a code does not ask whether the company may use the
service; the next rotation does.

### AdminPages

`admin`, `keys` are YouGile; `row`, `acct` the person's row and the bot's account in Postgres;
`sessions`, `creds`, `count` Valkey; `run` the requests.  An *origin* is a login from an address; it
has three counters (the address, the login from it, the login).

- `Submit` → `Peek` (one counter at a time) → `Companies` → `Hit` when YouGile refuses, else
  `Choose` or on to `CreateKey` → `Me` → `Previous` → `Store` → `DropOld` → `Open`: an admin's sign-in.
  The same actions, for a request that belongs to a session, are `save_account` of the bot's account.
- `Request` → `Row` → `Check` → `Act` is the frame of every page: the session, the person's row, YouGile's
  word that they are still an admin, the page.  A request that finds its session no longer good sets out
  to close it; `Close` is the deletion, an await later, which may come late or fail.
- `Disconnect` → `Listed` → `DropRow` → `DropKey` is `_drop_connection`, of another admin or, with
  `DisconnectSelf`, of the person's own session: the key is read with the list, the row goes in a
  statement of its own, the key that was read is deleted last.  In `DropUnsure` the row goes and the
  answer is lost.  A sign-in may store another key at any of these awaits; what it leaves is `stranded`.
- `Logout` and `SetAdmin` end a session from elsewhere.
- `LapseCount`, `LapseCreds`, `Fails`, `FailsWithKey`, `StoreUnsure`, `DeletionFails`, `Crash`: what ends
  by itself, and what fails.

| Run | Bounds | Shows |
|---|---|---|
| `AdminPages_console` | 2 requests at once, the admin from two addresses and the bot from one of them, limits of 2 and 1, four mixtures of at most 4 sign-ins, 2 pages, 2 changes of the admin, 1 lapse, 1 fault | `TypeOK`, `AttemptsBounded`, `ActsOnlyAdmins`, `KeysHaveAPlace`, `SessionsLast` |

*Why the bounds are enough.*  The three ways share each counter with one another and with none, in
all combinations the code has; a limit of two is passed by two requests at once and not by two one
after the other.  Sessions cross with at most a sign-in and a change of rights, keys with a second
save.  The proofs hold for any number of requests, ways and counters.

*Fairness.*  None; deadlock is not checked, as a budget that is used up ends a behaviour.

*What the code does not keep.*  `save_account` reads the account that was before, and replaces it in
another statement; two saves at once both read the same one, and the key of the first is in no row
once the second has stored its own (admin_page.py:307).  `KeysHaveAPlace` excepts this, an error, a
crash and a disconnect that a sign-in has crossed, and nothing else.

*Also seen.*  A failure of the question whose key it is leaves the bot's new key for good
(admin_page.py:283), and `tickets account-add` of the command line never deletes the key that was
before.  A page under way whose key another sign-in replaced gets a 401 and closes a session that was
good (admin.py:307): `SessionsLast` excepts it.  Two subscriptions at once register two webhooks.

## Also refuted

Five modules end with properties that say what a comment or the README of the repository says, and
that the code does not keep.  Beside the violations in the run tables, TLC refutes each of these within
seconds, with `FaultKinds = {}` or a budget without faults:

| Property | Configuration | Says | The trace |
|---|---|---|---|
| `OneTicketATopic` | `SenderTickets_second.cfg` | bot.py:468 "a ticket's topic talks to the ticket" | an update looks for the topic's ticket, an approval makes it, the update makes another |
| `BlockHolds` | `SenderTickets_block.cfg` | bot.py:267 "Заблокирован: сначала разблокируйте" | an approval is checked, the command line blocks, the approval is written |
| `StopsDropNothing` | `BotService_deploy.cfg` | service.py:257 "a stop (a deploy) lets them finish" | a new token drains, a deploy cancels the drain |
| `DisconnectTakesTheKey` | `Accounts_disconnect.cfg` | admin.py:745 "Delete the person's server key and sessions" | the list is read, a sign-in stores another key, the row is deleted |
| `UsedAreKnown` | `Tokens_purge.cfg` | db.py:366 "registered and never used for a month" | a code is taken, its client purged, its token stored |
| `NothingPilesUp` | `AdminPages_saves.cfg` | admin_page.py:314 "one key per account for the bot: don't let them pile up" | two saves read the same key, each stores its own |

They are listed apart because their cause is one that a passing property of the same module names
as its exception (`stranded`, `cut`, `forgotten`), or its hypothesis (`CliBlocks`).

## Proofs

Each `_proofs` module is checked by TLAPS for every value of the constants; all theorems follow one
argument: an inductive invariant `IInv`, that `Init` implies it and every step keeps it, and that it
implies the property.  They assume what the modules assume of their constants (`ConstantsAssumption`,
`LimitAssumption`, `TimesAssumption`, `BoundsAssumption` and those of `TicketReports`), which TLC
evaluates in the runs.  The theorems are about `Spec`; the runs with `FairSpec` check a stronger
specification.

`TicketReports_proofs`:

- `TypeCorrect`: `Spec => []TypeOK`.
- `OneRefresh`: without the hand-off race, `Spec => []OneRefreshAtATime`.  The invariant says who
  holds a lock: `LockInv`, a worker inside a refresh holds the lock of its task, and no lock is
  orphaned.
- `WatermarkStays`: without the hand-off race, `Spec => WatermarkNeverBack`.  `LockInv` is not
  enough: a refresh writes a mark it computed from a snapshot several awaits old.  `MarkInv` adds
  that, while a worker is inside, the stored mark is still the one it read (or the one it wrote
  last), and that what it is about to write is not below it.

`TicketReportsDelivery_proofs`, which builds on it: `PendingStays`, `NothingIsLost`, `SkippedStays`,
`Repeats`; all but the first without the hand-off race.

- `PendingStays` needs only to know for whom each worker works (`WorkInv`): the runner of a task for
  that task, and the two loops always with the chat.
- `NothingIsLost` and `SkippedStays` follow the chat through a refresh.  `ChatInv` says that the
  watermark is inside the chat and passes only messages that are `Settled` (handed over, skipped or
  mute), and that the mark a worker is about to write does so too.  It rests on `MarkInv` (nobody else
  writes the mark meanwhile) and on the chat only growing.
- `Repeats`: `RepeatInv` says what a cut was spent on: a message still to come (`ToCome`) was handed over
  at most once for each cut, any other at most once more, and no more messages than there were cuts
  were handed over twice or are about to be (`Spent`).

`SenderTickets_proofs`: `TypeCorrect`, `NoTicketWithoutAccess`, `RepeatsAreFaults`, `KeptUntilSent`,
`LinkedIsThere`, `FiledInItsProject`.

- `TypeOK` holds the locks of the drafts and the range of the keys.  `LockInv`: a worker holds the lock
  of its topic exactly while it is between its read of the draft and its write (`Holders`).  `CountInv`:
  an update makes one key at most (`Owed`), and one more for each time it comes again: a crash gives at most
  everything written so far once more (`Again`).
- `NoTicketWithoutAccess` follows what may become a ticket from hand to hand: the messages that are
  `Clean` (their writer had access, or was approved since) only grow, an approved sender's are all clean
  (`AccessInv`), and drafts, held drafts, locals, tasks and posts hold nothing else (`CleanInv`,
  `PastInv`).  What waits in the note need not be clean, only written (`NotesInv`): the approval that
  takes it makes it so.  It assumes `CliBlocks = FALSE`, as the run does: with the command line, a move
  read before a block and written after it gives the access back, and what was written in between
  becomes a ticket.
- `RepeatsAreFaults` has no hypothesis.  Updates come in their order, also when one is given again
  (`QueueInv`); then `CopiesInv` counts, for each message, the posts, the keys of all the places it is in
  (`KeysOf`: tasks, drafts, the note, the hands of a worker) and the one it may still get (`Load`): the
  sum is at most one more than the slips.  A message that moves with its key adds nothing.
- `KeptUntilSent` and `LinkedIsThere` rest on what a key is for (`KeyInv`): it belongs to one topic and
  was handed out (`TopicInv`); the ticket of a task that was made is tied to its topic, or its maker is
  about to tie it (`FiledInv`); a draft that a worker is filing has no task before its create, and all of it is in
  the task after (`HandInv`); a saved draft has no task yet, or its filer is about to clear it (`DraftInv`); the held drafts that an approval
  took are nowhere else (`HeldInv`), and what it may still take is in no draft (`LiveInv`).  A step is
  either `Quiet`, touching none of this, or one of the few about a draft (`KeyStep`).
- `FiledInItsProject`: a message about which nobody decided since it was written (`Fresh`) was written
  for the project its writer has now, and so is every draft that holds it (`PlaceInv`); that it is in
  one draft only is `CopiesInv`.
- The last three assume `FaultKinds \subseteq {"refused"}`, as the run that checks them does: YouGile
  may refuse any request, the command line may block at any moment, but no process crashes and no answer
  is lost.  It cannot be weakened: on one topic with two writes and two decisions, TLC finds each of the
  three violated after a single crash, and after a single lost answer.

`BotService_proofs`: `TypeCorrect`, `InOrder`, `NoneDropped`, `RepeatsBounded`, `TruthfulAnswers`.

- `OneByOne` needs to know that the updates of a person share one lock: `LockInv`, the lock of a task is
  its person's entry, and no two tasks have one number; the latter rests on `OffsetInv`, the offset is
  beyond all that the poller has got and, when asked, directly after what is confirmed.
- `NothingDropped` says nothing of what was received and is confirmed only by the next request:
  `DropInv` accounts for all that is below the offset.  `CountInv` counts handlings per poller:
  an update the present poller has not got, or has still to handle, was handled at most once
  by each poller before.
- `AnswersAreTrue` needs what the worker has in hand: `OpenInv` (a request in the round is open and in
  one place) and `CarriedInv` (an open one that is not in hand was not carried out, unless it slipped).
- A step is first put into one of ten classes of what it does to the intake (`IntakeMoves`), so that each
  part is proved for classes rather than for twenty actions.

`RateLimiter_proofs`: `TypeCorrect`, `WindowNeverOverrun`, `WaitsExactly`, `GivesUpInTime`,
`PenaltyKept`, `ImplementsBudget`.

- `WindowHolds` speaks of the whole history, the script only of its set.  The invariant ties them:
  `Sorted` (the history is in order of time), `Recent` (every grant of the last window is still in
  the set, whatever was cleaned or expired), `Few` (the set holds at most Limit).  If a grant came
  less than a window after the one Limit before it, the Limit requests from that one on would all be
  live in the set, and the script would have answered "wait".  `Timely` (who sleeps wakes before the
  deadline) gives `GivesUpInTime`.
- `ImplementsBudget` is the refinement `Spec => KeepsBudget`, step by step under the invariant: the
  size of the set against the length of the history (`Recent`, `Few`) is what makes the script's answer
  the abstract `Room`.

`Accounts_proofs`: `TypeCorrect`, `Fresh`, `KeyWorks`, `KeysAccountedFor`.

- `StaleAtMostRecheck` is not inductive, since it says nothing of loads under way.  `SinceInv` says of
  a load and of an entry alike: what has not changed since it began (since it counts as checked) is
  what it read.  The lemmas `LoadKept` and `EntryKept` carry this over any step that says when it
  changes a fact (`Told`), and `Enter` hands it from the load to the entry.
- `KeyWorks` and `KeysAccountedFor` share `KeyInv`: a key that is made and not yet stored is in
  YouGile, is not the stored one and is in nobody else's hands (`Apart`); a key to be deleted is not
  the stored one, unless a commit was in doubt or the row that stores it is about to be dropped
  (`KeyOf`).

`Tokens_proofs`: `TypeCorrect`, `GrantStaysOne`, `WhatEndedIsOver`, `GoneAreGone`, `NobodyLockedOut`.

- `GrantIsOne` and `EndedIsOver` keep each other (`OneInv`, with: what is over has no code either), once
  no secret is made twice: `NumInv` (no number is ahead of the counter that hands them out) and
  `NameInv` (a number names one thing, wherever a request carries it).
- `LockedOutForAReason` is about what clients hold: `AnswerInv` follows a token from the request that
  stores it to its client, `ClientInv` the client of a request past the purge, and `ReasonInv` the
  reasons from where they arise.

`AdminPages_proofs`: `TypeCorrect`, `WithinBounds`, `OnlyAdminsAct`, `SessionsOutlive`,
`EveryKeyHasAPlace`.

- `AttemptsBounded` is a count of requests: `CountInv` says that a counter and the requests that have
  looked at it and may yet add to it (`Past`) are together below the limit and the number of requests,
  and that the counter and those that YouGile has refused (`Pending`) are no more than the refusals;
  each step moves one element of a set whose `Cardinality` is taken.
- `ActsOnlyAdmins` follows a session from the row it was opened for: a new row has a new id, and
  `SessionInv` says that a request whose session's row was gone when it began finds no row, however late
  the deletion of the session is.
- `KeysHaveAPlace` rests on `CarryInv` and `KeyInv`: a key in the hands of a request is in nobody else's,
  and neither the stored key nor the one another request is to delete.  A disconnect holds the key it has
  read until it has deleted it; the row may have another one by the time it goes, which is then stranded.

Only model-checked is liveness, since fairness and ENABLED are out of the prover's reach:
`OpenTicketsCatchUp` and `EveryEventCounts` of `TicketReports`, `EverythingIsHandled` of
`SenderTickets`, `EveryUpdateHandled` and `EveryRequestAnswered` of `BotService`.  Every safety property
of a passing run is stated by a theorem.  Nothing here computes by recursion over data, which the prover could
not follow either.

## Not modelled, and why

- Text, titles, files, buttons, formatting, the wording of replies: no property is about them.
- The chat without topics (`take_title`, `take_details`, `submit`, `start_reply`).  It keeps one
  unfinished ticket for a person, and we read it without a model: starting a reply or a new ticket
  overwrites a half-written one; the mode is cleared before the relay, so that a retry after a failure
  is not a reply; details added after a send that was not answered are lost; a move while
  `take_details` runs is undone by its save.
- `TicketReports`: pages of 100 chat messages (which end YouGile cuts is not documented in the
  repository), the limit of 90 days for tickets, skew between the two clocks.  Nor a change of the token,
  after which a new bot with locks of its own runs while coroutines of the old one may still be in
  a refresh (service.py:148): then two refreshes of one task are possible, as in `TicketReports_tidy`.
- `RateLimiter`: the rounding of seconds.
- `Accounts`: company admins (they are not banned), keys that cannot be decrypted, the eviction
  of the oldest of 2000 runtimes, `default_board`.
- `Tokens`: PKCE and scopes, which the library checks; access tokens, which are signed and kept
  nowhere, so that one lives to its end (or its revocation record) whatever happens to its grant.
- `AdminPages`: webhook subscriptions (`_subscribe`), the status shown and its cache, CSRF and Origin.
- `crypto.py`, `logredact.py`, `requestlog.py`, `redirects.py`, `pages.py`, `admin_pages.py`,
  `permissions.py`: pure functions, rendering or logging.
- `db.migrate` runs once, under an advisory lock, before anything is served; the table of access modes
  and dates (`access.py`) is a sequential decision, here one value that changes at any moment.
- `src/deploy/deploy.sh`: a shell script run by hand; what it does to the processes is `Deploy` and
  `Crash` of `BotService`.

## Plan

What would add most next:

1. An abstract channel "a message is delivered in order, repeats only after a cut", implemented by
   `TicketReports`; `ChatInv` and `RepeatInv` hold most of what the refinement needs.
2. The chat without topics, whose half-written ticket is shared by its steps without a lock.
3. Webhook subscriptions of several accounts, and the migration under its lock.
