------------------------------ MODULE AdminPages ------------------------------
(***************************************************************************)
(* The admin console from outside in: the counters of failed sign-ins      *)
(* (signin.py, kv.py), an admin's sign-in and sessions (admin.py), the     *)
(* check every page begins with, and the page that takes the bot's YouGile *)
(* account (tickets/admin_page.py), which signs in there as well.          *)
(*                                                                         *)
(* One admin of one company, in several tabs; another admin may disconnect *)
(* them, or ban them once they are no admin.  A request is a worker of the *)
(* one process; an await on Valkey, Postgres or YouGile is where another   *)
(* may run.                                                                *)
(*                                                                         *)
(* What a page does once it may is module Accounts (rights, bans) and      *)
(* module BotService (token, requests to the bot), the ban of a person who *)
(* signs in included.  Left out: the forms' CSRF and Origin, HTML, audit.  *)
(***************************************************************************)
EXTENDS Naturals, Sequences, FiniteSets

CONSTANTS
  Workers,   \* requests under way at once
  Origins,   \* a login from an address
  Own,       \* those with the admin's own login; the others are the bot's
  CountersOf, \* for each, the counters of failed sign-ins in the order they are read
  Limit,     \* of each counter
  Budgets    \* bound: how many of each kind of step; a behaviour starts with one of them

Kinds == {"signins", "requests", "admin", "ends", "faults"}
Counters == DOMAIN Limit
ASSUME ConstantsAssumption ==
  /\ IsFiniteSet(Workers) /\ Origins # {} /\ Own \subseteq Origins
  /\ Limit \in [Counters -> Nat \ {0}]
  /\ CountersOf \in [Origins -> Seq(Counters) \ {<<>>}]
  /\ \A o \in Origins : \A i, j \in DOMAIN CountersOf[o] :
       CountersOf[o][i] = CountersOf[o][j] => i = j
  /\ Budgets \subseteq [Kinds -> Nat]

VARIABLES
  \* YouGile
  admin,    \* is the person an admin of the company
  keys,     \* the API keys there are, of the person and of the bot
  \* Postgres
  row,      \* the person in users: id, key, is_admin; of zeros when there is none
  issued,   \* the last id of users
  acct,     \* the key in ticket_accounts, 0 when there is none
  \* Valkey
  sessions, \* admin: [n, id]
  creds,    \* admincred: is the password kept while a company is chosen
  count,    \* try: failed sign-ins
  \* the app
  run,      \* the requests
  made,     \* the last key or session
  left,     \* what is left of the budget
  \* history
  failed,   \* sign-ins YouGile refused, for each counter
  stranded  \* keys no step will delete

vars == <<admin, keys, row, issued, acct, sessions, creds, count, run, made, left, failed, stranded>>
yougile == <<admin, keys, stranded>>
postgres == <<row, issued, acct>>
cookies == <<sessions, creds>>
attempts == <<count, failed>>

Idle == [pc |-> "idle", origin |-> CHOOSE o \in Origins : TRUE, todo |-> <<>>, n |-> 0, id |-> 0,
         live |-> FALSE, admin |-> FALSE, key |-> 0, old |-> 0, who |-> 0]
NoRow == [id |-> 0, key |-> 0, admin |-> FALSE]

Spend(kind) == left[kind] > 0 /\ left' = [left EXCEPT ![kind] = @ - 1]
At(w, pc) == run[w].pc = pc
Goes(w, pc) == run' = [run EXCEPT ![w].pc = pc]
Begins(w, locals) == At(w, "idle") /\ run' = [run EXCEPT ![w] = locals]
Ends(w) == run' = [run EXCEPT ![w] = Idle]
SignsIn(w) == run[w].n = 0 \* the others are of a session: the bot's account is being saved

-----------------------------------------------------------------------------
(* Whose password it is *)

Trying(o) == [Idle EXCEPT !.pc = "peek", !.origin = o, !.todo = CountersOf[o]]

Submit(w, o) ==
  /\ o \in Own /\ Spend("signins") /\ Begins(w, Trying(o))
  /\ UNCHANGED <<yougile, postgres, cookies, attempts, made>>

\* The next counter is looked at, or the last.
NextCounter(w, after) ==
  run' = [run EXCEPT ![w].todo = Tail(@), ![w].pc = IF Len(run[w].todo) = 1 THEN after ELSE @]

\* Mutant of Peek: one more than the limit is let through.
PeekOver(w) ==
  /\ At(w, "peek")
  /\ IF count[Head(run[w].todo)] > Limit[Head(run[w].todo)]
     THEN Ends(w)
     ELSE NextCounter(w, "companies")
  /\ UNCHANGED <<yougile, postgres, cookies, attempts, made, left>>

\* count_attempt refuses; it counts nothing.
Peek(w) ==
  /\ At(w, "peek")
  /\ IF count[Head(run[w].todo)] >= Limit[Head(run[w].todo)]
     THEN Ends(w)
     ELSE NextCounter(w, "companies")
  /\ UNCHANGED <<yougile, postgres, cookies, attempts, made, left>>

Concerned(c, o) == \E i \in DOMAIN CountersOf[o] : CountersOf[o][i] = c

\* YouGile's answer: wrong; no company of theirs; one; or, to an admin of several, a choice.
Companies(w) ==
  /\ At(w, "companies")
  /\ \/ /\ run' = [run EXCEPT ![w].pc = "hit", ![w].todo = CountersOf[run[w].origin]]
        /\ failed' = [c \in Counters |->
             failed[c] + IF Concerned(c, run[w].origin) THEN 1 ELSE 0]
        /\ UNCHANGED creds
     \/ Ends(w) /\ UNCHANGED <<failed, creds>>
     \/ Goes(w, "key") /\ UNCHANGED <<failed, creds>>
     \/ SignsIn(w) /\ Ends(w) /\ creds' = TRUE /\ UNCHANGED failed
  /\ UNCHANGED <<yougile, postgres, sessions, count, made, left>>

\* One counter after another; the last one over, the page says so.
Hit(w) ==
  /\ At(w, "hit")
  /\ count' = [count EXCEPT ![Head(run[w].todo)] = @ + 1]
  /\ IF Len(run[w].todo) = 1 THEN Ends(w) ELSE NextCounter(w, "hit")
  /\ UNCHANGED <<yougile, postgres, cookies, failed, made, left>>

Choose(w, o) ==
  /\ o \in Own /\ creds /\ Spend("signins")
  /\ Begins(w, [Idle EXCEPT !.pc = "key", !.origin = o])
  /\ UNCHANGED <<yougile, postgres, cookies, attempts, made>>

-----------------------------------------------------------------------------
(* A key of their own: for the person (SignIn.connect), for the bot (save_account) *)

CreateKey(w) ==
  /\ At(w, "key")
  /\ made' = made + 1
  /\ keys' = keys \cup {made'}
  /\ run' = [run EXCEPT ![w].pc = "me", ![w].key = made']
  /\ UNCHANGED <<admin, stranded, postgres, cookies, attempts, left>>

\* Mutant of Me: the key of the admin's own account is left.
MeLeaves(w) ==
  /\ At(w, "me")
  /\ IF ~SignsIn(w) /\ run[w].origin \in Own
     THEN Ends(w)
     ELSE run' = [run EXCEPT ![w].pc = IF SignsIn(w) THEN "store" ELSE "previous",
                             ![w].admin = admin]
  /\ UNCHANGED <<yougile, postgres, cookies, attempts, made, left>>

\* Whose key it is. The bot may not be given the admin's own account.
Me(w) ==
  /\ At(w, "me")
  /\ run' = [run EXCEPT ![w].admin = admin,
       ![w].pc = CASE SignsIn(w) -> "store"
                   [] ~SignsIn(w) /\ run[w].origin \in Own -> "undo"
                   [] OTHER -> "previous"]
  /\ UNCHANGED <<yougile, postgres, cookies, attempts, made, left>>

Undo(w) ==
  /\ At(w, "undo") /\ Ends(w)
  /\ keys' = keys \ {run[w].key}
  /\ creds' = (creds /\ ~SignsIn(w))
  /\ UNCHANGED <<admin, stranded, postgres, sessions, attempts, made, left>>

\* The account that is there is read, and replaced in another statement.
Previous(w) ==
  /\ At(w, "previous")
  /\ run' = [run EXCEPT ![w].pc = "store", ![w].old = acct]
  /\ UNCHANGED <<yougile, postgres, cookies, attempts, made, left>>

Upserted(w) ==
  /\ issued' = IF row.id = 0 THEN issued + 1 ELSE issued
  /\ row' = [id |-> IF row.id = 0 THEN issued' ELSE row.id, key |-> run[w].key,
             admin |-> run[w].admin]
  /\ UNCHANGED acct

\* The key that was saved meanwhile is not the one that will be deleted.
Replaced(w) ==
  /\ acct' = run[w].key
  /\ stranded' = stranded \cup ({acct} \ {0, run[w].old})
  /\ UNCHANGED <<row, issued>>

Store(w) ==
  /\ At(w, "store")
  /\ \/ /\ SignsIn(w) /\ Upserted(w)
        /\ run' = [run EXCEPT ![w].pc = "old", ![w].old = row.key, ![w].id = row'.id]
        /\ UNCHANGED stranded
     \/ ~SignsIn(w) /\ Replaced(w) /\ Goes(w, "old")
  /\ UNCHANGED <<admin, keys, cookies, attempts, made, left>>

\* The old key is deleted; then a sign-in opens a session for those who are admins.
DropOld(w) ==
  /\ At(w, "old")
  /\ keys' = keys \ {run[w].old}
  /\ creds' = (creds /\ ~SignsIn(w))
  /\ IF SignsIn(w) /\ run[w].admin THEN Goes(w, "open") ELSE Ends(w)
  /\ UNCHANGED <<admin, stranded, postgres, sessions, attempts, made, left>>

Open(w) ==
  /\ At(w, "open") /\ Ends(w)
  /\ made' = made + 1
  /\ sessions' = sessions \cup {[n |-> made', id |-> run[w].id]}
  /\ UNCHANGED <<yougile, postgres, creds, attempts, left>>

-----------------------------------------------------------------------------
(* A page *)

Request(w, s) ==
  /\ Spend("requests")
  /\ Begins(w, [Idle EXCEPT !.pc = "row", !.n = s.n, !.id = s.id, !.live = s.id = row.id])
  /\ UNCHANGED <<yougile, postgres, cookies, attempts, made>>

\* Mutant of Row: a session is good for whoever the person is now.
RowOfPerson(w) ==
  /\ At(w, "row")
  /\ \/ row.admin /\ run' = [run EXCEPT ![w].pc = "check", ![w].key = row.key]
     \/ ~row.admin /\ Goes(w, "close")
  /\ UNCHANGED <<yougile, postgres, cookies, attempts, made, left>>

\* A session is of a row of users, which is still there and is an admin's.
Row(w) ==
  /\ At(w, "row")
  /\ \/ /\ row.id = run[w].id /\ row.admin
        /\ run' = [run EXCEPT ![w].pc = "check", ![w].key = row.key]
     \/ ~(row.id = run[w].id /\ row.admin) /\ Goes(w, "close")
  /\ UNCHANGED <<yougile, postgres, cookies, attempts, made, left>>

\* YouGile's answer: it knows no such key (401), the person is no admin, or they are.
Check(w) ==
  /\ At(w, "check")
  /\ Goes(w, IF run[w].key \in keys /\ admin THEN "act" ELSE "close")
  /\ UNCHANGED <<yougile, postgres, cookies, attempts, made, left>>

\* The page is done; its own call to YouGile found no such key; it asks for the bot's account.
Act(w) ==
  /\ At(w, "act")
  /\ \/ Ends(w)
     \/ run[w].key \notin keys /\ Goes(w, "close")
     \/ \E o \in Origins :
          run' = [run EXCEPT ![w].pc = "peek", ![w].origin = o, ![w].todo = CountersOf[o],
                             ![w].key = 0]
  /\ UNCHANGED <<yougile, postgres, cookies, attempts, made, left>>

\* What was found of the session is acted upon a call to Valkey later.
Closed(n) == sessions' = {s \in sessions : s.n # n}
Close(w) ==
  /\ At(w, "close") /\ Ends(w) /\ Closed(run[w].n)
  /\ UNCHANGED <<yougile, postgres, creds, attempts, made, left>>

Logout(s) ==
  /\ Spend("ends") /\ Closed(s.n)
  /\ UNCHANGED <<yougile, postgres, creds, attempts, run, made>>

-----------------------------------------------------------------------------
(* _drop_connection, for the page of another admin or of the person themselves *)

\* The list of users: id and key as they are now.
Listed(w, locals) ==
  /\ row.id # 0
  /\ run' = [run EXCEPT ![w] = [locals EXCEPT !.pc = "drop", !.who = row.id, !.old = row.key]]

Disconnect(w) ==
  /\ At(w, "idle") /\ Spend("admin") /\ Listed(w, Idle)
  /\ UNCHANGED <<yougile, postgres, cookies, attempts, made>>

DisconnectSelf(w) ==
  /\ At(w, "act") /\ Listed(w, run[w])
  /\ UNCHANGED <<yougile, postgres, cookies, attempts, made, left>>

\* Mutant of Dropped: the row is emptied of its id only.
DroppedHalf == row' = [row EXCEPT !.id = 0] /\ UNCHANGED <<issued, acct>>

Dropped == row' = NoRow /\ UNCHANGED <<issued, acct>>

\* delete_user: a key that a sign-in has stored since the list was read goes with the row, and
\* is not the one that will be deleted.
DropRow(w) ==
  /\ At(w, "drop") /\ Goes(w, "revoke")
  /\ IF row.id = run[w].who
     THEN Dropped /\ stranded' = stranded \cup ({row.key} \ {run[w].old})
     ELSE UNCHANGED <<postgres, stranded>>
  /\ UNCHANGED <<admin, keys, cookies, attempts, made, left>>

\* The key that was read is deleted, as best it can; who disconnected themselves loses the session.
DropKey(w) ==
  /\ At(w, "revoke")
  /\ \/ keys' = keys \ {run[w].old} /\ UNCHANGED <<stranded, left>>
     \/ Spend("faults") /\ stranded' = stranded \cup {run[w].old} /\ UNCHANGED keys
  /\ IF run[w].who = run[w].id THEN Goes(w, "close") ELSE Ends(w)
  /\ UNCHANGED <<admin, postgres, cookies, attempts, made>>

-----------------------------------------------------------------------------
(* The others, time and faults *)

SetAdmin ==
  /\ Spend("admin") /\ admin' = ~admin
  /\ UNCHANGED <<keys, stranded, postgres, cookies, attempts, run, made>>

LapseCount(c) ==
  /\ count[c] > 0 /\ Spend("ends")
  /\ count' = [count EXCEPT ![c] = 0]
  /\ UNCHANGED <<yougile, postgres, cookies, failed, run, made>>

LapseCreds ==
  /\ creds /\ Spend("ends") /\ creds' = FALSE
  /\ UNCHANGED <<yougile, postgres, sessions, attempts, run, made>>

Unhurt == {"companies", "row", "check", "act", "key", "open", "close", "drop"}

\* Mutant of Fails: a session does not outlive an error of YouGile.
FailsClosed(w) ==
  /\ Spend("faults") /\ run[w].pc \in Unhurt
  /\ creds' = (creds /\ ~(SignsIn(w) /\ At(w, "key")))
  /\ IF At(w, "check") THEN Goes(w, "close") ELSE Ends(w)
  /\ UNCHANGED <<yougile, postgres, sessions, attempts, made>>

\* An error where nothing has to be put right; a session that was to be closed stays.
Fails(w) ==
  /\ Spend("faults") /\ run[w].pc \in Unhurt
  /\ creds' = (creds /\ ~(SignsIn(w) /\ At(w, "key")))
  /\ Ends(w)
  /\ UNCHANGED <<yougile, postgres, sessions, attempts, made>>

\* With the new key in hand: a sign-in deletes it, save_account does not.
FailsWithKey(w) ==
  /\ Spend("faults") /\ run[w].pc \in {"me", "previous", "store"}
  /\ \/ SignsIn(w) /\ Goes(w, "undo") /\ UNCHANGED stranded
     \/ ~SignsIn(w) /\ Ends(w) /\ stranded' = stranded \cup {run[w].key}
  /\ UNCHANGED <<admin, keys, postgres, cookies, attempts, made>>

\* A commit goes through and its answer is lost: the key that is stored is deleted.
StoreUnsure(w) ==
  /\ At(w, "store") /\ Spend("faults")
  /\ \/ /\ SignsIn(w) /\ Upserted(w) /\ Goes(w, "undo")
        /\ stranded' = stranded \cup ({row.key} \ {0})
     \/ /\ ~SignsIn(w) /\ Ends(w) /\ acct' = run[w].key
        /\ stranded' = stranded \cup ({acct} \ {0})
        /\ UNCHANGED <<row, issued>>
  /\ UNCHANGED <<admin, keys, cookies, attempts, made>>

\* The row is deleted and the answer is lost: its key is not looked for again.
DropUnsure(w) ==
  /\ At(w, "drop") /\ row.id = run[w].who /\ Spend("faults")
  /\ Dropped /\ Ends(w)
  /\ stranded' = stranded \cup {row.key}
  /\ UNCHANGED <<admin, keys, cookies, attempts, made>>

\* delete_key is not tried again.
DeletionFails(w) ==
  /\ run[w].pc \in {"undo", "old"} /\ Spend("faults")
  /\ stranded' = stranded \cup ({IF At(w, "undo") THEN run[w].key ELSE run[w].old} \ {0})
  /\ creds' = (creds /\ ~SignsIn(w))
  /\ IF At(w, "old") /\ SignsIn(w) /\ run[w].admin THEN Goes(w, "open") ELSE Ends(w)
  /\ UNCHANGED <<admin, keys, postgres, sessions, attempts, made>>

\* Keys a request has yet to store or to delete.
InHand(w) ==
  CASE run[w].pc \in {"me", "undo", "previous", "store"} -> {run[w].key}
    [] run[w].pc \in {"old", "revoke"} -> {run[w].old}
    [] OTHER -> {}

Crash ==
  /\ Spend("faults")
  /\ run' = [w \in Workers |-> Idle]
  /\ stranded' = stranded \cup ((UNION {InHand(w) : w \in Workers}) \cap keys)
  /\ UNCHANGED <<admin, keys, postgres, cookies, attempts, made>>

-----------------------------------------------------------------------------
Init ==
  /\ admin \in BOOLEAN
  /\ keys = {} /\ row = NoRow /\ issued = 0 /\ acct = 0
  /\ sessions = {} /\ creds = FALSE
  /\ count = [c \in Counters |-> 0] /\ failed = count
  /\ run = [w \in Workers |-> Idle] /\ made = 0
  /\ left \in Budgets
  /\ stranded = {}

Signing(w) ==
  \/ \E o \in Origins : Submit(w, o) \/ Choose(w, o)
  \/ Peek(w) \/ Companies(w) \/ Hit(w)
  \/ CreateKey(w) \/ Me(w) \/ Undo(w) \/ Previous(w) \/ Store(w) \/ DropOld(w) \/ Open(w)

Paging(w) ==
  \/ \E s \in sessions : Request(w, s)
  \/ Row(w) \/ Check(w) \/ Act(w) \/ Close(w)
  \/ Disconnect(w) \/ DisconnectSelf(w) \/ DropRow(w) \/ DropKey(w)

Breaking(w) ==
  Fails(w) \/ FailsWithKey(w) \/ StoreUnsure(w) \/ DropUnsure(w) \/ DeletionFails(w)

Next ==
  \/ \E w \in Workers : Signing(w) \/ Paging(w) \/ Breaking(w)
  \/ \E s \in sessions : Logout(s)
  \/ \E c \in Counters : LapseCount(c)
  \/ SetAdmin \/ LapseCreds \/ Crash

Spec == Init /\ [][Next]_vars

-----------------------------------------------------------------------------
(* Properties *)

Pcs == {"idle", "peek", "companies", "hit", "key", "me", "undo", "previous", "store", "old", "open",
        "row", "check", "act", "close", "drop", "revoke"}

\* Every variable keeps its type; there is a key where there is a row, and a session has one row.
TypeOK ==
  /\ admin \in BOOLEAN /\ creds \in BOOLEAN /\ made \in Nat /\ issued \in Nat
  /\ keys \subseteq 1..made /\ stranded \subseteq 1..made /\ acct \in 0..made
  /\ row \in [id : 0..issued, key : 0..made, admin : BOOLEAN]
  /\ row.id = 0 <=> row.key = 0
  /\ sessions \subseteq [n : 1..made, id : 1..issued]
  /\ \A s, t \in sessions : s.n = t.n => s = t
  /\ count \in [Counters -> Nat] /\ failed \in [Counters -> Nat]
  /\ run \in [Workers -> [pc : Pcs, origin : Origins, todo : Seq(Counters), n : 0..made,
                          id : 0..issued, live : BOOLEAN, admin : BOOLEAN, key : 0..made,
                          old : 0..made, who : 0..issued]]
  /\ left \in [Kinds -> Nat]

\* signin.py:52: the counters are looked at before YouGile is asked and added to after it has
\* answered.  The limit is passed by as many attempts as run at once, less one, and no more;
\* and nothing but a refused sign-in is ever counted.
AttemptsBounded ==
  \A c \in Counters :
    /\ count[c] < Limit[c] + Cardinality(Workers)
    /\ count[c] <= failed[c]

\* admin.py:252: what the console does, it does for a request whose session was good when it
\* began: a session does not come back to life when its person signs in again after having been
\* disconnected, though the deletion of the session may have failed or not have been tried.
ActsOnlyAdmins == \A w \in Workers : At(w, "act") => run[w].live

\* admin.py:312: an error of YouGile, Postgres or Valkey ends no session.  A request sets out to
\* close its session only when the person is gone, is no admin, or when its key was replaced under
\* it: by another sign-in, or by one whose commit was in doubt.
SessionsLast ==
  [][\A w \in Workers :
       ~At(w, "close") /\ run'[w].pc = "close" =>
         \/ run[w].id # row.id
         \/ ~row.admin \/ ~admin
         \/ run[w].key # row.key \/ row.key \notin keys]_vars

\* admin.py:757, admin_page.py:314: a key in YouGile is the person's or the bot's, or in the hands
\* of a request, unless an error, a crash, two saves at once or a disconnect that crossed a sign-in
\* have left it there; and the bot's key, whatever has happened, works: no disconnect, undo or
\* replacement deletes it.
KeysHaveAPlace ==
  /\ keys \subseteq {row.key, acct} \cup stranded \cup UNION {InHand(w) : w \in Workers}
  /\ acct # 0 => acct \in keys

-----------------------------------------------------------------------------
(* What a comment says and the code does not keep. *)

\* "one key per account for the bot: don't let them pile up": without faults and disconnects,
\* every key in YouGile is stored or in the hands of a request.
NothingPilesUp ==
  keys \subseteq {row.key, acct} \cup UNION {InHand(w) : w \in Workers}
=============================================================================
