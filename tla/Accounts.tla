------------------------------- MODULE Accounts -------------------------------
(***************************************************************************)
(* One person of one company: the sign-in that gives them a YouGile key of *)
(* their own (signin.py), what the company admin does to them meanwhile    *)
(* (admin.py), and the calls of their assistant, served from a cache       *)
(* (tenancy.py).  A request is a worker of the one process; an await on    *)
(* Postgres or YouGile is where another one may run.                       *)
(*                                                                         *)
(* The person is no admin of the company in YouGile: admins are not        *)
(* banned.  The clock counts ticks, Recheck of them to RECHECK.            *)
(***************************************************************************)
EXTENDS Integers, FiniteSets

CONSTANTS
  Workers, \* requests under way at once
  Recheck, \* RECHECK: for how long a cached runtime is not checked
  Budgets  \* bound: how many of each kind of step; a behaviour starts with one of them

Kinds == {"signins", "admin", "calls", "faults", "ticks"}
ASSUME BoundsAssumption ==
  /\ Recheck \in Nat \ {0}
  /\ Budgets \subseteq [Kinds -> Nat]

VARIABLES
  now,
  row,      \* the person's row of users: its id and key, 0 when there is none
  issued,   \* the last id of users
  signed,   \* the ids whose owner was let in: tokens exist for them
  rights,   \* their row of user_rights: when it was last written (0: no row), and blocked
  stamps,   \* the last time of a write of user_rights
  company,  \* settings_version, and whether it may use the service
  keys,     \* the keys in YouGile
  made,     \* the last key
  cache,    \* Tenancy._cache: runtimes by id, built of a key, rights and settings
  run,      \* the requests
  left,     \* what is left of the budget
  changed,  \* history: when the row, the rights and the company last changed
  stranded, \* history: keys no step of the service will delete
  unsure    \* history: keys stored by a commit whose answer was lost

vars == <<now, row, issued, signed, rights, stamps, company, keys, made, cache, run, left, changed,
          stranded, unsure>>
yougile == <<keys, made, stranded>>
db == <<row, issued, rights, stamps, company, changed, unsure>>

NoRow == [id |-> 0, key |-> 0]
Idle == [pc |-> "idle", id |-> 0, key |-> 0, old |-> 0, rights |-> 0, settings |-> 0,
         open |-> FALSE, start |-> 0]

Spend(kind) == left[kind] > 0 /\ left' = [left EXCEPT ![kind] = @ - 1]
Goes(w, pc) == run' = [run EXCEPT ![w].pc = pc]
Ends(w) == run' = [run EXCEPT ![w] = Idle]
Changed(fact) == changed' = [changed EXCEPT ![fact] = now]
At(w, pc) == run[w].pc = pc

-----------------------------------------------------------------------------
(* Sign-in *)

\* A company without access gets no key.
SignIn(w) ==
  /\ At(w, "idle") /\ Spend("signins")
  /\ company.open
  /\ Goes(w, "create")
  /\ UNCHANGED <<now, signed, db, yougile, cache>>

\* The key is refused (the 30 of an account, a wrong password), made, or made and its answer lost.
Create(w) ==
  /\ At(w, "create")
  /\ \/ Ends(w) /\ UNCHANGED <<yougile, left>>
     \/ /\ made' = made + 1 /\ keys' = keys \cup {made'}
        /\ \/ /\ run' = [run EXCEPT ![w].pc = "me", ![w].key = made']
              /\ UNCHANGED <<stranded, left>>
           \/ Spend("faults") /\ stranded' = stranded \cup {made'} /\ Ends(w)
  /\ UNCHANGED <<now, signed, db, cache>>

Me(w) ==
  /\ At(w, "me") /\ Goes(w, "rights")
  /\ UNCHANGED <<now, signed, db, yougile, cache, left>>

Banned(w) ==
  /\ At(w, "rights")
  /\ Goes(w, IF rights.blocked THEN "undo" ELSE "store")
  /\ UNCHANGED <<now, signed, db, yougile, cache, left>>

\* Mutant of Fails: what comes after the storing is guarded too.
FailsLate(w) ==
  /\ run[w].pc \in {"me", "rights", "store", "forget"} /\ Spend("faults")
  /\ Goes(w, "undo")
  /\ UNCHANGED <<now, signed, db, yougile, cache>>

\* YouGile or the database fails before the key is stored.
Fails(w) ==
  /\ run[w].pc \in {"me", "rights", "store"} /\ Spend("faults")
  /\ Goes(w, "undo")
  /\ UNCHANGED <<now, signed, db, yougile, cache>>

\* What upsert_user leaves for the key it is given.
Upserted(key) ==
  /\ row' = [id |-> IF row.id = 0 THEN issued + 1 ELSE row.id, key |-> key]
  /\ issued' = IF row.id = 0 THEN issued + 1 ELSE issued
  /\ Changed("row")

Store(w) ==
  /\ At(w, "store") /\ Upserted(run[w].key)
  /\ run' = [run EXCEPT ![w].pc = "forget", ![w].id = row'.id, ![w].old = row.key]
  /\ UNCHANGED <<now, signed, rights, stamps, company, unsure, yougile, cache, left>>

\* The commit goes through and its answer is lost: the key is deleted though it is stored,
\* and the one before it is not.
StoreUnsure(w) ==
  /\ At(w, "store") /\ Spend("faults") /\ Upserted(run[w].key)
  /\ unsure' = unsure \cup {run[w].key}
  /\ stranded' = stranded \cup ({row.key} \ {0})
  /\ Goes(w, "undo")
  /\ UNCHANGED <<now, signed, rights, stamps, company, keys, made, cache>>

\* Mutant of Undo: a sign-in that is refused leaves its key.
UndoNothing(w) ==
  /\ At(w, "undo") /\ Ends(w)
  /\ UNCHANGED <<now, signed, db, yougile, cache, left>>

\* delete_key is best effort.
Undo(w) ==
  /\ At(w, "undo") /\ Ends(w)
  /\ \/ keys' = keys \ {run[w].key} /\ UNCHANGED <<stranded, left>>
     \/ Spend("faults") /\ stranded' = stranded \cup {run[w].key} /\ UNCHANGED keys
  /\ UNCHANGED <<now, signed, db, made, cache>>

\* A sign-in that is over lets its person in; the admin's steps have no key of their own.
Over(w) ==
  /\ Ends(w)
  /\ signed' = IF run[w].key = 0 THEN signed ELSE signed \cup {run[w].id}

\* Tenancy.forget
Forget(w) ==
  /\ At(w, "forget")
  /\ cache' = {e \in cache : e.id # run[w].id}
  /\ IF run[w].old = 0 THEN Over(w) ELSE Goes(w, "delete") /\ UNCHANGED signed
  /\ UNCHANGED <<now, db, yougile, left>>

Delete(w) ==
  /\ At(w, "delete") /\ Over(w)
  /\ \/ keys' = keys \ {run[w].old} /\ UNCHANGED <<stranded, left>>
     \/ Spend("faults") /\ stranded' = stranded \cup {run[w].old} /\ UNCHANGED keys
  /\ UNCHANGED <<now, db, made, cache>>

-----------------------------------------------------------------------------
(* The admin *)

\* Disconnecting begins with the list of users, banning with the ban.
Disconnect(w) ==
  /\ At(w, "idle") /\ Spend("admin") /\ Goes(w, "list")
  /\ UNCHANGED <<now, signed, db, yougile, cache>>

\* A write of user_rights.
Written(ver, blocked) ==
  /\ rights' = [ver |-> ver, blocked |-> blocked]
  /\ stamps' = stamps + 1
  /\ Changed("rights")

Block(w) ==
  /\ At(w, "idle") /\ Spend("admin")
  /\ Written(stamps + 1, TRUE) /\ Goes(w, "list")
  /\ UNCHANGED <<now, signed, row, issued, company, unsure, yougile, cache>>

Unblock(w) ==
  /\ At(w, "idle") /\ Spend("admin")
  /\ Written(stamps + 1, FALSE)
  /\ UNCHANGED <<now, signed, row, issued, company, unsure, yougile, cache, run>>

List(w) ==
  /\ At(w, "list")
  /\ IF row = NoRow THEN Ends(w)
     ELSE run' = [run EXCEPT ![w].pc = "drop", ![w].id = row.id, ![w].old = row.key]
  /\ UNCHANGED <<now, signed, db, yougile, cache, left>>

\* delete_user: a sign-in may have put another key into the row since it was read.
Drop(w) ==
  /\ At(w, "drop") /\ Goes(w, "forget")
  /\ IF row.id = run[w].id
     THEN row' = NoRow /\ Changed("row") /\ stranded' = stranded \cup ({row.key} \ {run[w].old})
     ELSE UNCHANGED <<row, changed, stranded>>
  /\ UNCHANGED <<now, signed, issued, rights, stamps, company, unsure, keys, made, cache, left>>

\* Rights are saved for a person that was read before.
SaveRights(w) ==
  /\ At(w, "idle") /\ Spend("admin")
  /\ run' = [run EXCEPT ![w].pc = "set", ![w].id = row.id]
  /\ UNCHANGED <<now, signed, db, yougile, cache>>

SetRights(w) ==
  /\ At(w, "set")
  /\ Written(stamps + 1, rights.blocked)
  /\ IF run[w].id = 0 THEN Ends(w) ELSE Goes(w, "forget")
  /\ UNCHANGED <<now, signed, row, issued, company, unsure, yougile, cache, left>>

\* delete_rights: back to no row, unless it holds a ban.
ResetRights(w) ==
  /\ At(w, "idle") /\ Spend("admin")
  /\ Written(IF rights.blocked THEN stamps + 1 ELSE 0, rights.blocked)
  /\ Goes(w, "find")
  /\ UNCHANGED <<now, signed, row, issued, company, unsure, yougile, cache>>

Find(w) ==
  /\ At(w, "find")
  /\ IF row = NoRow THEN Ends(w)
     ELSE run' = [run EXCEPT ![w].pc = "forget", ![w].id = row.id]
  /\ UNCHANGED <<now, signed, db, yougile, cache, left>>

\* Settings are saved, or access is opened or closed from the command line: nothing is forgotten.
SetCompany ==
  /\ Spend("admin")
  /\ \/ company' = [company EXCEPT !.settings = @ + 1]
     \/ company' = [company EXCEPT !.open = ~ @]
  /\ Changed("company")
  /\ UNCHANGED <<now, signed, row, issued, rights, stamps, unsure, yougile, cache, run>>

-----------------------------------------------------------------------------
(* Calls *)

Usable(e) == now - e.checked < Recheck

\* A call with a token of this id; one that finds a usable runtime changes nothing.
Call(w, id) ==
  /\ At(w, "idle") /\ Spend("calls")
  /\ ~ \E e \in cache : e.id = id /\ Usable(e)
  /\ run' = [run EXCEPT ![w].pc = "user", ![w].id = id, ![w].start = now]
  /\ UNCHANGED <<now, signed, db, yougile, cache>>

LoadUser(w) ==
  /\ At(w, "user")
  /\ IF row.id = run[w].id THEN run' = [run EXCEPT ![w].pc = "company", ![w].key = row.key]
     ELSE Ends(w)
  /\ UNCHANGED <<now, signed, db, yougile, cache, left>>

LoadCompany(w) ==
  /\ At(w, "company")
  /\ run' = [run EXCEPT ![w].pc = "check", ![w].settings = company.settings,
                        ![w].open = company.open]
  /\ UNCHANGED <<now, signed, db, yougile, cache, left>>

\* The rights come last; then access and the ban are looked at.
Check(w) ==
  /\ At(w, "check")
  /\ IF run[w].open /\ ~ rights.blocked
     THEN run' = [run EXCEPT ![w].pc = "enter", ![w].rights = rights.ver] ELSE Ends(w)
  /\ cache' = IF run[w].open /\ rights.blocked THEN {e \in cache : e.id # run[w].id} ELSE cache
  /\ UNCHANGED <<now, signed, db, yougile, left>>

Entry(w, checked) ==
  [id |-> run[w].id, key |-> run[w].key, rights |-> run[w].rights, settings |-> run[w].settings,
   checked |-> checked]

\* Mutant of Enter: the entry counts as checked when it is made, not when the reading began.
EnterNow(w) ==
  /\ At(w, "enter") /\ Ends(w)
  /\ cache' = {e \in cache : e.id # run[w].id} \cup {Entry(w, now)}
  /\ UNCHANGED <<now, signed, db, yougile, left>>

\* Mutant of Enter: what another call has entered stays beside it.
EnterBeside(w) ==
  /\ At(w, "enter") /\ Ends(w)
  /\ cache' = cache \cup {Entry(w, run[w].start)}
  /\ UNCHANGED <<now, signed, db, yougile, left>>

\* The entry of the same version, checked anew, or a new one: alike but for the client.
Enter(w) ==
  /\ At(w, "enter") /\ Ends(w)
  /\ cache' = {e \in cache : e.id # run[w].id} \cup {Entry(w, run[w].start)}
  /\ UNCHANGED <<now, signed, db, yougile, left>>

-----------------------------------------------------------------------------
Tick ==
  /\ Spend("ticks") /\ now' = now + 1
  /\ UNCHANGED <<signed, db, yougile, cache, run>>

\* The key that a request still has to store or to delete.
Holds(w) == IF run[w].pc \in {"me", "rights", "store", "undo"} THEN {run[w].key}
            ELSE IF run[w].pc \in {"forget", "delete", "drop"} THEN {run[w].old} \ {0} ELSE {}

\* The process restarts.
Crash ==
  /\ Spend("faults")
  /\ cache' = {} /\ run' = [w \in Workers |-> Idle]
  /\ stranded' = stranded \cup ((UNION {Holds(w) : w \in Workers}) \ {row.key})
  /\ UNCHANGED <<now, signed, db, keys, made>>

Init ==
  /\ now = 0 /\ issued = 0 /\ signed = {} /\ row = NoRow
  /\ rights = [ver |-> 0, blocked |-> FALSE] /\ stamps = 0
  /\ company = [settings |-> 0, open |-> TRUE]
  /\ keys = {} /\ made = 0 /\ stranded = {} /\ unsure = {}
  /\ cache = {} /\ run = [w \in Workers |-> Idle]
  /\ changed = [fact \in {"row", "rights", "company"} |-> 0]
  /\ left \in Budgets

Signs(w) == SignIn(w) \/ Create(w) \/ Me(w) \/ Banned(w) \/ Fails(w) \/ Store(w)
            \/ StoreUnsure(w) \/ Undo(w) \/ Forget(w) \/ Delete(w)
Manages(w) == Disconnect(w) \/ Block(w) \/ Unblock(w) \/ List(w) \/ Drop(w)
              \/ SaveRights(w) \/ SetRights(w) \/ ResetRights(w) \/ Find(w)
Calls(w) == LoadUser(w) \/ LoadCompany(w) \/ Check(w) \/ Enter(w)
            \/ \E id \in signed : Call(w, id)
Next == (\E w \in Workers : Signs(w) \/ Manages(w) \/ Calls(w)) \/ SetCompany \/ Tick \/ Crash
Spec == Init /\ [][Next]_vars

-----------------------------------------------------------------------------
(* Properties *)

Phases == {"idle", "create", "me", "rights", "store", "undo", "forget", "delete", "list", "drop",
           "set", "find", "user", "company", "check", "enter"}

\* Every variable keeps its type, and one runtime is cached for an id.
TypeOK ==
  /\ now \in Nat /\ issued \in Nat /\ stamps \in Nat /\ made \in Nat
  /\ row \in [id : Nat, key : Nat]
  /\ rights \in [ver : Nat, blocked : BOOLEAN]
  /\ company \in [settings : Nat, open : BOOLEAN]
  /\ signed \in SUBSET Nat /\ keys \in SUBSET Nat /\ stranded \in SUBSET Nat /\ unsure \in SUBSET Nat
  /\ cache \in SUBSET [id : Nat, key : Nat, rights : Nat, settings : Nat, checked : Nat]
  /\ \A e, f \in cache : e.id = f.id => e = f
  /\ run \in [Workers -> [pc : Phases, id : Nat, key : Nat, old : Nat, rights : Nat,
                          settings : Nat, open : BOOLEAN, start : Nat]]
  /\ changed \in [{"row", "rights", "company"} -> Nat]
  /\ left \in [Kinds -> Nat]

\* A call that begins is not served from the cache without what was changed RECHECK ago or
\* earlier: a disconnect, a ban, a new key, other rights, other settings, access closed to the
\* company - whatever loads were slow, whatever was forgotten under a wrong id, and whoever wrote
\* the entry last.
StaleAtMostRecheck ==
  \A e \in cache : Usable(e) =>
    LET long == {fact \in DOMAIN changed : changed[fact] + Recheck <= now}
    IN /\ "row" \in long => row = [id |-> e.id, key |-> e.key]
       /\ "rights" \in long => e.rights = rights.ver /\ ~ rights.blocked
       /\ "company" \in long => e.settings = company.settings /\ company.open

\* The key that is stored works in YouGile, whatever sign-ins, bans and disconnects ran across
\* each other: nobody deletes the key another one has just stored, unless a commit was in doubt.
StoredKeyWorks == row.id # 0 => row.key \in keys \cup unsure

\* "Not stored: the key would be an orphan": every key in YouGile is the stored one, or some
\* request still has it to store or to delete, or a fault or a disconnect that crossed a sign-in
\* left it.
OnlyFaultsStrand ==
  \A key \in keys : key = row.key \/ key \in stranded \/ \E w \in Workers : key \in Holds(w)

-----------------------------------------------------------------------------
(* What the documentation says and the code does not keep. *)

\* "Disconnecting deletes the server's key": once the person has no row, no key made for them is
\* in YouGile, but for those a request still has to store or to delete.
DisconnectTakesTheKey ==
  row = NoRow => \A key \in keys : \E w \in Workers : key \in Holds(w)
=============================================================================
