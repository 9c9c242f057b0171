--------------------------- MODULE Accounts_proofs ---------------------------
(***************************************************************************)
(* Proofs about Accounts, for any number of requests at once, any budget   *)
(* and any RECHECK: type correctness, that no call is served what changed  *)
(* RECHECK ago, and that the stored key works in YouGile.                  *)
(***************************************************************************)
EXTENDS Accounts, TLAPS

Run == [pc : Phases, id : Nat, key : Nat, old : Nat, rights : Nat, settings : Nat,
        open : BOOLEAN, start : Nat]
Facts == {"row", "rights", "company"}
Cached == [id : Nat, key : Nat, rights : Nat, settings : Nat, checked : Nat]

-----------------------------------------------------------------------------
(* Types. *)

LEMMA IdleType == Idle \in Run
  BY DEF Idle, Run, Phases

LEMMA TypeInit == Init => TypeOK
  BY IdleType, BoundsAssumption DEF Init, TypeOK, NoRow, Run, Kinds

\* A kind of step is taken from the budget.
LEMMA SpendType ==
  ASSUME TypeOK, NEW kind \in Kinds, Spend(kind)
  PROVE  left' \in [Kinds -> Nat]
  BY DEF TypeOK, Spend

\* A request goes on to another phase, or ends.
LEMMA GoesType ==
  ASSUME TypeOK, NEW w \in Workers, NEW pc \in Phases, Goes(w, pc)
  PROVE  run' \in [Workers -> Run]
  BY DEF TypeOK, Goes, Run

LEMMA EndsType ==
  ASSUME TypeOK, NEW w \in Workers, Ends(w)
  PROVE  run' \in [Workers -> Run]
  BY IdleType DEF TypeOK, Ends, Run

\* A row that is written or deleted.
LEMMA UpsertedType ==
  ASSUME TypeOK, NEW key \in Nat, Upserted(key)
  PROVE  row' \in [id : Nat, key : Nat] /\ issued' \in Nat /\ changed' \in [Facts -> Nat]
  BY DEF TypeOK, Upserted, Changed, Facts

LEMMA SignsType ==
  ASSUME TypeOK, NEW w \in Workers, Signs(w)
  PROVE  TypeOK'
  <1> USE DEF db, yougile
  <1>0. run[w] \in Run /\ run[w].key \in Nat
    BY DEF TypeOK, Run
  <1>1. CASE SignIn(w)
    BY <1>1, SpendType, GoesType DEF SignIn, TypeOK, Run, Phases, Kinds
  <1>2. CASE Create(w)
    BY <1>0, <1>2, SpendType, EndsType DEF Create, TypeOK, Run, Phases, Kinds
  <1>3. CASE Me(w)
    BY <1>3, GoesType DEF Me, TypeOK, Run, Phases
  <1>4. CASE Banned(w)
    BY <1>4, GoesType DEF Banned, TypeOK, Run, Phases
  <1>5. CASE Fails(w)
    BY <1>5, SpendType, GoesType DEF Fails, TypeOK, Run, Phases, Kinds
  <1>6. CASE Store(w)
    <2>1. row' \in [id : Nat, key : Nat] /\ issued' \in Nat /\ changed' \in [Facts -> Nat]
      BY <1>0, <1>6, UpsertedType DEF Store
    <2>2. run' \in [Workers -> Run]
      BY <1>0, <1>6, <2>1 DEF Store, TypeOK, Run, Phases
    <2>3. QED
      BY <1>6, <2>1, <2>2 DEF Store, TypeOK, Run, Facts
  <1>7. CASE StoreUnsure(w)
    <2>1. row' \in [id : Nat, key : Nat] /\ issued' \in Nat /\ changed' \in [Facts -> Nat]
      BY <1>0, <1>7, UpsertedType DEF StoreUnsure
    <2>2. run' \in [Workers -> Run] /\ left' \in [Kinds -> Nat]
      BY <1>7, SpendType, GoesType DEF StoreUnsure, Phases, Kinds
    <2>3. unsure' \in SUBSET Nat /\ stranded' \in SUBSET Nat
      BY <1>0, <1>7 DEF StoreUnsure, TypeOK, Run
    <2>4. QED
      BY <1>7, <2>1, <2>2, <2>3 DEF StoreUnsure, TypeOK, Run, Facts
  <1>8. CASE Undo(w)
    BY <1>0, <1>8, SpendType, EndsType DEF Undo, TypeOK, Run, Kinds
  <1>9. CASE Forget(w)
    BY <1>0, <1>9, GoesType, EndsType DEF Forget, Over, TypeOK, Run, Phases
  <1>10. CASE Delete(w)
    BY <1>0, <1>10, SpendType, EndsType DEF Delete, Over, TypeOK, Run, Kinds
  <1>11. QED
    BY <1>1, <1>2, <1>3, <1>4, <1>5, <1>6, <1>7, <1>8, <1>9, <1>10 DEF Signs

\* Rights that are written.
LEMMA WrittenType ==
  ASSUME TypeOK, NEW ver \in Nat, NEW blocked \in BOOLEAN, Written(ver, blocked)
  PROVE  /\ rights' \in [ver : Nat, blocked : BOOLEAN] /\ stamps' \in Nat
         /\ changed' \in [Facts -> Nat]
  BY DEF TypeOK, Written, Changed, Facts

LEMMA ManagesType ==
  ASSUME TypeOK, NEW w \in Workers, Manages(w)
  PROVE  TypeOK'
  <1> USE DEF db, yougile
  <1>0. /\ run[w] \in Run /\ stamps + 1 \in Nat /\ 0 \in Nat /\ rights.blocked \in BOOLEAN
        /\ TRUE \in BOOLEAN /\ FALSE \in BOOLEAN
    BY DEF TypeOK, Run
  <1>1. CASE Disconnect(w)
    BY <1>1, SpendType, GoesType DEF Disconnect, TypeOK, Run, Phases, Kinds
  <1>2. CASE Block(w)
    <2>1. Written(stamps + 1, TRUE) /\ Goes(w, "list") /\ Spend("admin")
      BY <1>2 DEF Block
    <2>2. QED
      BY <1>0, <1>2, <2>1, SpendType, GoesType, WrittenType
         DEF Block, TypeOK, Run, Phases, Kinds, Facts
  <1>3. CASE Unblock(w)
    <2>1. Written(stamps + 1, FALSE) /\ Spend("admin")
      BY <1>3 DEF Unblock
    <2>2. QED
      BY <1>0, <1>3, <2>1, SpendType, WrittenType DEF Unblock, TypeOK, Run, Kinds, Facts
  <1>4. CASE List(w)
    <2>1. run' \in [Workers -> Run]
      BY <1>0, <1>4, EndsType DEF List, TypeOK, Run, Phases
    <2>2. QED
      BY <1>4, <2>1 DEF List, TypeOK, Run
  <1>5. CASE Drop(w)
    <2>1. run' \in [Workers -> Run]
      BY <1>5, GoesType DEF Drop, Phases
    <2>2. row' \in [id : Nat, key : Nat]
      BY <1>5 DEF Drop, TypeOK, NoRow
    <2>3. changed' \in [Facts -> Nat]
      BY <1>5 DEF Drop, TypeOK, Changed, Facts
    <2>4. stranded' \in SUBSET Nat
      BY <1>5 DEF Drop, TypeOK
    <2>5. QED
      BY <1>5, <2>1, <2>2, <2>3, <2>4 DEF Drop, TypeOK, Run, Facts
  <1>6. CASE SaveRights(w)
    <2>1. run' \in [Workers -> Run]
      BY <1>0, <1>6 DEF SaveRights, TypeOK, Run, Phases
    <2>2. QED
      BY <1>6, <2>1, SpendType DEF SaveRights, TypeOK, Run, Kinds
  <1>7. CASE SetRights(w)
    <2>1. run' \in [Workers -> Run]
      BY <1>7, GoesType, EndsType DEF SetRights, Phases
    <2>2. Written(stamps + 1, rights.blocked)
      BY <1>7 DEF SetRights
    <2>3. QED
      BY <1>0, <1>7, <2>1, <2>2, WrittenType DEF SetRights, TypeOK, Run, Facts
  <1>8. CASE ResetRights(w)
    <2> DEFINE ver == IF rights.blocked THEN stamps + 1 ELSE 0
    <2>1. Written(ver, rights.blocked) /\ ver \in Nat /\ Goes(w, "find") /\ Spend("admin")
      BY <1>0, <1>8 DEF ResetRights
    <2> HIDE DEF ver
    <2>2. QED
      BY <1>0, <1>8, <2>1, SpendType, GoesType, WrittenType
         DEF ResetRights, TypeOK, Run, Phases, Kinds, Facts
  <1>9. CASE Find(w)
    <2>1. run' \in [Workers -> Run]
      BY <1>0, <1>9, EndsType DEF Find, TypeOK, Run, Phases
    <2>2. QED
      BY <1>9, <2>1 DEF Find, TypeOK, Run
  <1>10. QED
    BY <1>1, <1>2, <1>3, <1>4, <1>5, <1>6, <1>7, <1>8, <1>9 DEF Manages

LEMMA CallsType ==
  ASSUME TypeOK, NEW w \in Workers, Calls(w)
  PROVE  TypeOK'
  <1> USE DEF db, yougile
  <1>0. run[w] \in Run
    BY DEF TypeOK, Run
  <1>1. ASSUME NEW id \in signed, Call(w, id) PROVE TypeOK'
    <2>1. run' \in [Workers -> Run]
      BY <1>0, <1>1 DEF Call, TypeOK, Run, Phases
    <2>2. QED
      BY <1>1, <2>1, SpendType DEF Call, TypeOK, Run, Kinds
  <1>2. CASE LoadUser(w)
    <2>1. run' \in [Workers -> Run]
      BY <1>0, <1>2, EndsType DEF LoadUser, TypeOK, Run, Phases
    <2>2. QED
      BY <1>2, <2>1 DEF LoadUser, TypeOK, Run
  <1>3. CASE LoadCompany(w)
    <2>1. run' \in [Workers -> Run]
      BY <1>0, <1>3 DEF LoadCompany, TypeOK, Run, Phases
    <2>2. QED
      BY <1>3, <2>1 DEF LoadCompany, TypeOK, Run
  <1>4. CASE Check(w)
    <2>1. run' \in [Workers -> Run]
      BY <1>0, <1>4, EndsType DEF Check, TypeOK, Run, Phases
    <2>2. cache' \subseteq cache
      BY <1>4 DEF Check
    <2>3. QED
      BY <1>4, <2>1, <2>2 DEF Check, TypeOK, Run
  <1>5. CASE Enter(w)
    <2>1. Entry(w, run[w].start) \in Cached /\ Entry(w, run[w].start).id = run[w].id
      BY <1>0 DEF Entry, Run, Cached
    <2>2. cache' \in SUBSET Cached /\ \A e, f \in cache' : e.id = f.id => e = f
      BY <1>5, <2>1 DEF Enter, TypeOK, Cached
    <2>3. run' \in [Workers -> Run]
      BY <1>5, EndsType DEF Enter
    <2>4. QED
      BY <1>5, <2>2, <2>3 DEF Enter, TypeOK, Run, Cached
  <1>6. QED
    BY <1>1, <1>2, <1>3, <1>4, <1>5 DEF Calls

LEMMA TypeStep == TypeOK /\ [Next]_vars => TypeOK'
  <1> SUFFICES ASSUME TypeOK, [Next]_vars PROVE TypeOK'
    OBVIOUS
  <1> USE DEF db, yougile
  <1>1. CASE SetCompany
    <2>1. company' \in [settings : Nat, open : BOOLEAN]
      <3>1. company.settings + 1 \in Nat /\ (~ company.open) \in BOOLEAN
        BY DEF TypeOK
      <3>2. CASE company' = [company EXCEPT !.settings = company.settings + 1]
        BY <3>1, <3>2, Zenon DEF TypeOK
      <3>3. CASE company' = [company EXCEPT !.open = ~ company.open]
        BY <3>1, <3>3, Zenon DEF TypeOK
      <3>4. QED
        BY <1>1, <3>2, <3>3 DEF SetCompany
    <2>4. changed' \in [Facts -> Nat]
      BY <1>1 DEF SetCompany, Changed, TypeOK, Facts
    <2>2. left' \in [Kinds -> Nat]
      BY <1>1, SpendType DEF SetCompany, Kinds
    <2>3. QED
      BY <1>1, <2>1, <2>2, <2>4 DEF SetCompany, TypeOK, Facts
  <1>2. CASE Tick
    BY <1>2, SpendType DEF Tick, TypeOK, Kinds
  <1>3. CASE Crash
    <2>1. \A w \in Workers : Holds(w) \in SUBSET Nat
      BY DEF Holds, TypeOK
    <2>2. run' \in [Workers -> Run]
      BY <1>3, IdleType DEF Crash
    <2>3. stranded' \in SUBSET Nat
      <3>1. UNION {Holds(w) : w \in Workers} \in SUBSET Nat
        BY <2>1
      <3>2. QED
        BY <1>3, <3>1 DEF Crash, TypeOK
    <2>4. left' \in [Kinds -> Nat]
      BY <1>3, SpendType DEF Crash, Kinds
    <2>5. QED
      BY <1>3, <2>2, <2>3, <2>4 DEF Crash, TypeOK, Run
  <1>4. CASE UNCHANGED vars
    BY <1>4 DEF vars, TypeOK
  <1>5. QED
    BY <1>1, <1>2, <1>3, <1>4, SignsType, ManagesType, CallsType DEF Next

\* Every variable keeps its type; in particular an id has one cached runtime, whichever calls
\* loaded it at once.
THEOREM TypeCorrect == Spec => []TypeOK
  BY TypeInit, TypeStep, PTL DEF Spec

-----------------------------------------------------------------------------
(* Staleness. *)

(* What was read since start is as it was when it last changed before start. *)
RowSince(id, key, start) == changed.row < start => row = [id |-> id, key |-> key]
CompanySince(settings, start) == changed.company < start => settings = company.settings /\ company.open
RightsSince(ver, start) == changed.rights < start => ver = rights.ver /\ ~ rights.blocked

Loading == {"company", "check", "enter"}

LoadOf(r) ==
  /\ r.start <= now
  /\ r.pc \in Loading => RowSince(r.id, r.key, r.start)
  /\ r.pc \in {"check", "enter"} /\ r.open => CompanySince(r.settings, r.start)
  /\ r.pc = "enter" => r.open /\ RightsSince(r.rights, r.start)

EntryOf(e) ==
  /\ e.checked <= now
  /\ RowSince(e.id, e.key, e.checked)
  /\ CompanySince(e.settings, e.checked)
  /\ RightsSince(e.rights, e.checked)

Past == changed.row <= now /\ changed.company <= now /\ changed.rights <= now

SinceInv ==
  /\ Past
  /\ \A w \in Workers : LoadOf(run[w])
  /\ \A e \in cache : EntryOf(e)

(* A step that changes a fact says so. *)
Told ==
  /\ now' \in Nat /\ now <= now'
  /\ \/ row' = row /\ changed'.row = changed.row
     \/ changed'.row = now
  /\ \/ company' = company /\ changed'.company = changed.company
     \/ changed'.company = now
  /\ \/ rights' = rights /\ changed'.rights = changed.rights
     \/ changed'.rights = now

LEMMA Times ==
  ASSUME TypeOK
  PROVE  /\ now \in Nat /\ changed.row \in Nat /\ changed.company \in Nat /\ changed.rights \in Nat
         /\ \A w \in Workers : run[w].start \in Nat
         /\ \A e \in cache : e.checked \in Nat
  BY DEF TypeOK

\* What was read stays right when a step says what it changes.
LEMMA EntryKept ==
  ASSUME TypeOK, Told, Past, NEW e \in cache, EntryOf(e)
  PROVE  EntryOf(e)'
  BY Times DEF Told, Past, EntryOf, RowSince, CompanySince, RightsSince

LEMMA LoadKept ==
  ASSUME TypeOK, Told, Past, NEW w \in Workers, LoadOf(run[w]), run'[w] = run[w]
  PROVE  LoadOf(run[w])'
  BY Times DEF Told, Past, LoadOf, RowSince, CompanySince, RightsSince

LEMMA PastKept ==
  ASSUME TypeOK, Told, Past
  PROVE  Past'
  BY Times DEF Told, Past

\* So a step that starts, ends or interrupts requests, and takes entries away, keeps the invariant.
LEMMA SinceKept ==
  ASSUME TypeOK, SinceInv, Told, cache' \subseteq cache,
         \A w \in Workers : run'[w] = run[w] \/ (run'[w].pc \notin Loading /\ run'[w].start <= now')
  PROVE  SinceInv'
  <1>1. ASSUME NEW w \in Workers PROVE LoadOf(run[w])'
    <2>1. CASE run'[w] = run[w]
      BY <2>1, LoadKept DEF SinceInv
    <2>2. CASE run'[w].pc \notin Loading /\ run'[w].start <= now'
      BY <2>2 DEF LoadOf, Loading
    <2>3. QED
      BY <2>1, <2>2
  <1>2. ASSUME NEW e \in cache' PROVE EntryOf(e)'
    BY <1>2, EntryKept DEF SinceInv
  <1>3. QED
    BY <1>1, <1>2, PastKept DEF SinceInv

LEMMA ToldUnchanged ==
  ASSUME TypeOK, UNCHANGED <<now, db>>
  PROVE  Told
  BY Times DEF Told, db

(* One request leaves what it read, and the others stay where they are. *)
Aside(w) ==
  /\ \A v \in Workers \ {w} : run'[v] = run[v]
  /\ run'[w].pc \notin Loading
  /\ run'[w].start \in {run[w].start, now, 0}

LEMMA AsideKept ==
  ASSUME TypeOK, SinceInv, Told, cache' \subseteq cache, NEW w \in Workers, Aside(w)
  PROVE  SinceInv'
  <1>1. run'[w].start <= now'
    BY Times DEF Aside, Told, SinceInv, LoadOf
  <1>2. \A v \in Workers : run'[v] = run[v] \/ (run'[v].pc \notin Loading /\ run'[v].start <= now')
    BY <1>1 DEF Aside
  <1>3. QED
    BY <1>2, SinceKept

LEMMA GoesAside ==
  ASSUME TypeOK, NEW w \in Workers, NEW pc \in Phases \ Loading, Goes(w, pc)
  PROVE  Aside(w)
  BY DEF TypeOK, Goes, Aside

LEMMA EndsAside ==
  ASSUME TypeOK, NEW w \in Workers, Ends(w)
  PROVE  Aside(w)
  BY DEF TypeOK, Ends, Aside, Idle, Loading

LEMMA SignsSince ==
  ASSUME TypeOK, SinceInv, NEW w \in Workers, Signs(w)
  PROVE  SinceInv'
  <1>1. Told
    BY Times DEF Signs, SignIn, Create, Me, Banned, Fails, Store, StoreUnsure, Undo, Forget,
                 Delete, Upserted, Changed, db, Told, TypeOK
  <1>2. cache' \subseteq cache
    BY DEF Signs, SignIn, Create, Me, Banned, Fails, Store, StoreUnsure, Undo, Forget, Delete
  <1>3. Aside(w)
    <2>1. CASE \E pc \in Phases \ Loading : Goes(w, pc)
      BY <2>1, GoesAside
    <2>2. CASE Ends(w)
      BY <2>2, EndsAside
    <2>3. CASE Create(w)
      BY <2>2, <2>3 DEF Create, Aside, TypeOK, Loading
    <2>4. CASE Store(w)
      BY <2>4 DEF Store, Aside, TypeOK, Loading
    <2>5. QED
      BY <2>1, <2>2, <2>3, <2>4
         DEF Signs, SignIn, Me, Banned, Fails, StoreUnsure, Undo, Forget, Delete, Over,
             Phases, Loading
  <1>4. QED
    BY <1>1, <1>2, <1>3, AsideKept

LEMMA ManagesSince ==
  ASSUME TypeOK, SinceInv, NEW w \in Workers, Manages(w)
  PROVE  SinceInv'
  <1>1. Told
    BY Times DEF Manages, Disconnect, Block, Unblock, List, Drop, SaveRights, SetRights,
                 ResetRights, Find, Written, Changed, db, Told, TypeOK
  <1>2. cache' \subseteq cache
    BY DEF Manages, Disconnect, Block, Unblock, List, Drop, SaveRights, SetRights, ResetRights, Find
  <1>3. CASE Unblock(w)
    BY <1>1, <1>2, <1>3, SinceKept DEF Unblock
  <1>4. CASE ~ Unblock(w)
    <2>1. CASE \E pc \in Phases \ Loading : Goes(w, pc)
      BY <2>1, <1>1, <1>2, GoesAside, AsideKept
    <2>2. CASE Ends(w)
      BY <2>2, <1>1, <1>2, EndsAside, AsideKept
    <2>3. CASE (List(w) \/ SaveRights(w) \/ Find(w)) /\ ~ Ends(w)
      <3>1. Aside(w)
        BY <2>3 DEF List, SaveRights, Find, Aside, TypeOK, Loading
      <3>2. QED
        BY <3>1, <1>1, <1>2, AsideKept
    <2>4. QED
      BY <1>4, <2>1, <2>2, <2>3
         DEF Manages, Disconnect, Block, Drop, SetRights, ResetRights, Phases, Loading
  <1>5. QED
    BY <1>3, <1>4

LEMMA CallsSince ==
  ASSUME TypeOK, SinceInv, NEW w \in Workers, Calls(w)
  PROVE  SinceInv'
  <1> DEFINE r == run[w]
  <1>0. Told /\ UNCHANGED <<now, db>>
    BY ToldUnchanged DEF Calls, Call, LoadUser, LoadCompany, Check, Enter, Told
  <1>1. ASSUME NEW id \in signed, Call(w, id) PROVE SinceInv'
    <2>1. Aside(w) /\ cache' = cache
      BY <1>1 DEF Call, Aside, TypeOK, Loading
    <2>2. QED
      BY <1>0, <2>1, AsideKept
  <1>2. CASE Ends(w) /\ cache' \subseteq cache
    BY <1>0, <1>2, EndsAside, AsideKept
  <1>3. ASSUME cache' \subseteq cache, \A v \in Workers \ {w} : run'[v] = run[v], LoadOf(r)'
        PROVE  SinceInv'
    <2>1. \A v \in Workers : LoadOf(run[v])'
      BY <1>0, <1>3, LoadKept DEF SinceInv
    <2>2. \A e \in cache' : EntryOf(e)'
      BY <1>0, <1>3, EntryKept DEF SinceInv
    <2>3. QED
      BY <1>0, <2>1, <2>2, PastKept DEF SinceInv
  <1>4. LoadOf(r) /\ r \in Run
    BY DEF SinceInv, TypeOK, Run
  <1>5. CASE LoadUser(w) /\ ~ Ends(w)
    <2>1. /\ \A v \in Workers \ {w} : run'[v] = run[v]
          /\ r' = [r EXCEPT !.pc = "company", !.key = row.key] /\ row.id = r.id
          /\ cache' = cache
      BY <1>5 DEF LoadUser, TypeOK
    <2>2. LoadOf(r)'
      BY <1>0, <1>4, <2>1 DEF LoadOf, Run, Loading, RowSince, db, TypeOK
    <2>3. QED
      BY <1>3, <2>1, <2>2
  <1>6. CASE LoadCompany(w)
    <2>1. /\ \A v \in Workers \ {w} : run'[v] = run[v]
          /\ r' = [r EXCEPT !.pc = "check", !.settings = company.settings, !.open = company.open]
          /\ cache' = cache /\ r.pc = "company"
      BY <1>6 DEF LoadCompany, At, TypeOK
    <2>2. LoadOf(r)'
      BY <1>0, <1>4, <2>1 DEF LoadOf, Run, Loading, RowSince, CompanySince, db, TypeOK
    <2>3. QED
      BY <1>3, <2>1, <2>2
  <1>7. CASE Check(w) /\ ~ Ends(w)
    <2>1. /\ \A v \in Workers \ {w} : run'[v] = run[v]
          /\ r' = [r EXCEPT !.pc = "enter", !.rights = rights.ver]
          /\ cache' \subseteq cache /\ r.pc = "check" /\ r.open /\ ~ rights.blocked
      BY <1>7 DEF Check, At, TypeOK
    <2>2. LoadOf(r)'
      BY <1>0, <1>4, <2>1
         DEF LoadOf, Run, Loading, RowSince, CompanySince, RightsSince, db, TypeOK
    <2>3. QED
      BY <1>3, <2>1, <2>2
  <1>8. CASE Enter(w)
    <2>0. PICK new \in Cached : new = Entry(w, r.start)
      BY <1>4 DEF Entry, Cached, Run
    <2>1. EntryOf(new)
      BY <1>4, <1>8, <2>0
         DEF Enter, At, LoadOf, Loading, EntryOf, Entry, RowSince, CompanySince, RightsSince
    <2>2. EntryOf(new)'
      BY <1>0, <2>1 DEF EntryOf, RowSince, CompanySince, RightsSince, db
    <2>3. \A e \in cache' : EntryOf(e)'
      BY <1>0, <1>8, <2>0, <2>2, EntryKept DEF Enter, SinceInv
    <2>4. \A v \in Workers : LoadOf(run[v])'
      <3>1. Aside(w)
        BY <1>8, EndsAside DEF Enter
      <3>2. run'[w].start <= now' /\ run'[w].pc \notin Loading
        BY <3>1, <1>0, Times DEF Aside, Told, SinceInv, LoadOf
      <3>3. LoadOf(run[w])'
        BY <3>2 DEF LoadOf, Loading
      <3>4. QED
        BY <1>0, <3>1, <3>3, LoadKept DEF Aside, SinceInv
    <2>5. QED
      BY <1>0, <2>3, <2>4, PastKept DEF SinceInv
  <1>9. QED
    BY <1>1, <1>2, <1>5, <1>6, <1>7, <1>8 DEF Calls, LoadUser, Check

LEMMA SinceInit == Init => SinceInv
  BY DEF Init, SinceInv, Past, LoadOf, Loading, Idle

LEMMA SinceStep == TypeOK /\ SinceInv /\ [Next]_vars => SinceInv'
  <1> SUFFICES ASSUME TypeOK, SinceInv, [Next]_vars PROVE SinceInv'
    OBVIOUS
  <1>1. CASE SetCompany
    <2>1. Told
      BY <1>1, Times DEF SetCompany, Changed, Told, TypeOK
    <2>2. QED
      BY <1>1, <2>1, SinceKept DEF SetCompany
  <1>2. CASE Tick
    <2>1. Told
      BY <1>2, Times DEF Tick, Told, db
    <2>2. QED
      BY <1>2, <2>1, SinceKept DEF Tick
  <1>3. CASE Crash
    <2>1. \A w \in Workers : run'[w].pc \notin Loading /\ run'[w].start <= now'
      BY <1>3, Times DEF Crash, Idle, Loading
    <2>2. QED
      BY <1>3, <2>1, ToldUnchanged, SinceKept DEF Crash
  <1>4. CASE UNCHANGED vars
    BY <1>4, ToldUnchanged, SinceKept DEF vars, db
  <1>5. QED
    BY <1>1, <1>2, <1>3, <1>4, SignsSince, ManagesSince, CallsSince DEF Next

\* A call is never served what changed RECHECK ago or earlier, however slow the loads, whatever
\* was forgotten, and however many requests run across each other.
THEOREM Fresh == Spec => []StaleAtMostRecheck
  <1>1. TypeOK /\ SinceInv => StaleAtMostRecheck
    BY Times, BoundsAssumption
       DEF SinceInv, EntryOf, RowSince, CompanySince, RightsSince, StaleAtMostRecheck, Usable, TypeOK
  <1>2. QED
    BY <1>1, TypeInit, TypeStep, SinceInit, SinceStep, PTL DEF Spec

-----------------------------------------------------------------------------
(* Keys. *)

Pending == {"me", "rights", "store"}
Dropping == {"drop", "forget", "delete"}

(* What a request has in hand: a new key nobody else knows of, or an old one nobody stores. *)
KeyOf(r) ==
  /\ r.key <= made /\ r.old <= made
  /\ r.pc \in Pending => r.key # 0 /\ r.key \in keys /\ r.key # row.key /\ r.key \notin unsure
  /\ r.pc = "undo" => r.key # 0 /\ (r.key # row.key \/ r.key \in unsure)
  /\ r.pc \in {"forget", "delete"} => r.old = 0 \/ r.old # row.key
  /\ r.pc = "drop" => r.old # 0 /\ (r.old = row.key => row.id = r.id)
  /\ r.pc \notin Dropping => r.old = 0

Apart(r, q) ==
  r.pc \in Pending => /\ q.pc \in Pending \cup {"undo"} => q.key # r.key
                      /\ q.old # r.key

RowKey == row.key <= made /\ (row.id = 0 <=> row.key = 0)
          /\ keys \subseteq 1 .. made /\ unsure \subseteq 1 .. made

KeyInv ==
  /\ RowKey
  /\ \A w \in Workers : KeyOf(run[w])
  /\ \A v, w \in Workers : v # w => Apart(run[v], run[w])
  /\ StoredKeyWorks
  /\ OnlyFaultsStrand

Keyring == <<row, keys, made, unsure, stranded>>

\* A request goes on with what it has in hand, or puts nothing down.
Carries(r, q) ==
  /\ q.pc \in Pending => r.pc \in Pending /\ q.key = r.key
  /\ q.pc = "undo" => r.pc \in Pending /\ q.key = r.key
  /\ q.old \in {0, r.old, row.key}

Hand(r) == IF r.pc \in {"me", "rights", "store", "undo"} THEN {r.key}
           ELSE IF r.pc \in {"forget", "delete", "drop"} THEN {r.old} \ {0} ELSE {}

LEMMA HandHolds == \A w \in Workers : Holds(w) = Hand(run[w])
  BY DEF Holds, Hand

\* Whoever goes on without touching a key keeps the invariant.
LEMMA CarriesOn ==
  ASSUME TypeOK, KeyInv, UNCHANGED Keyring, NEW w \in Workers,
         \A v \in Workers \ {w} : run'[v] = run[v],
         KeyOf(run'[w]), Carries(run[w], run'[w]), Hand(run[w]) \subseteq Hand(run'[w])
  PROVE  KeyInv'
  <1> USE DEF Keyring
  <1>1. RowKey' /\ StoredKeyWorks'
    BY DEF KeyInv, RowKey, StoredKeyWorks
  <1>2. \A v \in Workers : KeyOf(run[v])'
    BY DEF KeyInv, KeyOf
  <1>3. ASSUME NEW v \in Workers, v # w PROVE Apart(run[v], run[w])' /\ Apart(run[w], run[v])'
    <2>1. KeyOf(run[v]) /\ KeyOf(run[w]) /\ Apart(run[v], run[w]) /\ Apart(run[w], run[v])
      BY <1>3 DEF KeyInv
    <2>2. QED
      BY <1>3, <2>1 DEF Apart, KeyOf, Carries, Pending
  <1>4. \A u, v \in Workers : u # v => Apart(run[u], run[v])'
    BY <1>3 DEF KeyInv, Apart
  <1>5. OnlyFaultsStrand'
    <2>1. \A v \in Workers : Hand(run[v]) \subseteq Hand(run'[v])
      OBVIOUS
    <2>2. \A v \in Workers : Holds(v)' = Hand(run'[v])
      BY DEF Holds, Hand
    <2>3. QED
      BY <2>1, <2>2, HandHolds DEF KeyInv, OnlyFaultsStrand
  <1>6. QED
    BY <1>1, <1>2, <1>4, <1>5 DEF KeyInv

LEMMA Numbers ==
  ASSUME TypeOK
  PROVE  /\ made \in Nat /\ row.key \in Nat /\ row.id \in Nat /\ issued \in Nat
         /\ \A w \in Workers : /\ run[w].key \in Nat /\ run[w].old \in Nat /\ run[w].id \in Nat
                               /\ run[w].pc \in Phases
  BY DEF TypeOK

LEMMA IdleKey ==
  ASSUME TypeOK, NEW r
  PROVE  KeyOf(Idle) /\ Carries(r, Idle)
  BY Numbers DEF KeyOf, Idle, Pending, Dropping, Carries

\* The steps that move no key.
LEMMA Passing ==
  ASSUME TypeOK, KeyInv, NEW w \in Workers, UNCHANGED Keyring,
         \/ SignIn(w) \/ Me(w) \/ Banned(w) \/ Fails(w) \/ Forget(w)
         \/ Manages(w) /\ ~ Drop(w) /\ ~ Unblock(w)
         \/ Calls(w)
  PROVE  KeyInv'
  <1> USE DEF Keyring
  <1> DEFINE r == run[w]
             q == run'[w]
  <1>0. KeyOf(r) /\ r \in Run
    BY DEF KeyInv, TypeOK, Run
  <1>1. \A v \in Workers \ {w} : run'[v] = run[v]
    BY DEF SignIn, Me, Banned, Fails, Forget, Over, Goes, Ends, Manages, Disconnect, Block, List,
           SaveRights, SetRights, ResetRights, Find, Calls, Call, LoadUser, LoadCompany, Check,
           Enter, TypeOK
  <1>2. CASE SignIn(w) \/ Me(w) \/ Banned(w) \/ Fails(w)
    <2>1. KeyOf(q) /\ Carries(r, q) /\ Hand(r) \subseteq Hand(q)
      BY <1>0, <1>2
         DEF SignIn, Me, Banned, Fails, Goes, At, TypeOK, KeyOf, Carries, Hand, Pending, Dropping
    <2>2. QED
      BY <1>1, <2>1, CarriesOn
  <1>3. CASE Forget(w)
    <2>1. CASE r.old = 0
      <3>1. q = Idle /\ Hand(r) = {}
        BY <1>3, <2>1 DEF Forget, Over, Ends, At, Hand, TypeOK
      <3>2. QED
        BY <1>1, <3>1, IdleKey, CarriesOn
    <2>2. CASE r.old # 0
      <3>1. KeyOf(q) /\ Carries(r, q) /\ Hand(r) \subseteq Hand(q)
        BY <1>0, <1>3, <2>2 DEF Forget, Goes, At, TypeOK, KeyOf, Carries, Hand, Pending, Dropping
      <3>2. QED
        BY <1>1, <3>1, CarriesOn
    <2>3. QED
      BY <2>1, <2>2
  <1>4. CASE Manages(w) /\ ~ Drop(w) /\ ~ Unblock(w)
    <2>1. r.pc \notin Pending \cup {"undo", "drop", "forget", "delete"}
      BY <1>4 DEF Manages, Disconnect, Block, List, SaveRights, SetRights, ResetRights, Find, At,
                  Pending
    <2>2. Hand(r) = {} /\ r.old = 0
      BY <1>0, <2>1 DEF Hand, Pending, KeyOf, Dropping
    <2>3. KeyOf(q) /\ Carries(r, q)
      <3>1. CASE q = Idle
        BY <3>1, IdleKey
      <3>5. CASE ~ List(w) /\ q # Idle
        <4>1. q.pc \in {"list", "set", "find", "forget"} /\ q.old = 0 /\ q.key = r.key
          <5>1. CASE Disconnect(w) \/ Block(w) \/ ResetRights(w)
            <6>1. PICK pc \in {"list", "find"} : Goes(w, pc)
              BY <5>1 DEF Disconnect, Block, ResetRights
            <6>2. QED
              BY <1>0, <2>2, <6>1 DEF Goes, TypeOK
          <5>2. CASE SaveRights(w) \/ Find(w) \/ SetRights(w)
            BY <1>0, <2>2, <3>5, <5>2 DEF SaveRights, Find, SetRights, Goes, Ends, TypeOK
          <5>3. QED
            BY <1>4, <3>5, <5>1, <5>2 DEF Manages
        <4>2. QED
          BY <1>0, <4>1, Numbers DEF KeyOf, Carries, Pending, Dropping
      <3>2. CASE List(w) /\ row = NoRow
        BY <3>2, IdleKey DEF List, Ends, TypeOK
      <3>3. CASE List(w) /\ row # NoRow
        <4>1. q = [r EXCEPT !.pc = "drop", !.id = row.id, !.old = row.key]
          BY <3>3 DEF List, TypeOK
        <4>2. row.key # 0
          BY <3>3 DEF KeyInv, RowKey, TypeOK, NoRow
        <4>3. QED
          BY <1>0, <4>1, <4>2 DEF KeyInv, RowKey, Run, KeyOf, Carries, Pending, Dropping
      <3>4. QED
        BY <3>1, <3>5, <3>2, <3>3
    <2>4. QED
      BY <1>1, <2>2, <2>3, CarriesOn
  <1>5. CASE Calls(w)
    <2>1. r.pc \in {"idle", "user", "company", "check", "enter"}
      BY <1>5 DEF Calls, Call, LoadUser, LoadCompany, Check, Enter, At
    <2>2. Hand(r) = {} /\ r.old = 0
      BY <1>0, <2>1 DEF Hand, KeyOf, Dropping
    <2>3. KeyOf(q) /\ Carries(r, q)
      <3>1. CASE q = Idle
        BY <3>1, IdleKey
      <3>2. CASE q # Idle
        <4>1. /\ q.pc \in {"user", "company", "check", "enter"} /\ q.old = 0
              /\ q.key \in {r.key, row.key}
          <5>1. ~ Ends(w) /\ ~ Enter(w)
            BY <3>2 DEF Enter, Ends, TypeOK
          <5>2. CASE \E id \in signed : Call(w, id)
            BY <1>0, <2>2, <5>2 DEF Call, TypeOK
          <5>3. CASE LoadUser(w)
            BY <1>0, <2>2, <5>1, <5>3 DEF LoadUser, TypeOK
          <5>4. CASE LoadCompany(w) \/ Check(w)
            BY <1>0, <2>2, <5>1, <5>4 DEF LoadCompany, Check, TypeOK
          <5>5. QED
            BY <1>5, <5>1, <5>2, <5>3, <5>4 DEF Calls
        <4>2. QED
          BY <1>0, <4>1, Numbers DEF KeyInv, RowKey, KeyOf, Carries, Pending, Dropping
      <3>3. QED
        BY <3>1, <3>2
    <2>4. QED
      BY <1>1, <2>2, <2>3, CarriesOn
  <1>6. QED
    BY <1>2, <1>3, <1>4, <1>5

\* A new key is a number nobody has.
LEMMA CreateKey ==
  ASSUME TypeOK, KeyInv, NEW w \in Workers, Create(w)
  PROVE  KeyInv'
  <1> DEFINE q == run'[w]
  <1>0. KeyOf(run[w]) /\ run[w].pc = "create" /\ run[w].old = 0
    BY DEF KeyInv, Create, At, KeyOf, Dropping
  <1>1. CASE UNCHANGED yougile /\ Ends(w)
    <2>1. /\ UNCHANGED Keyring /\ \A v \in Workers \ {w} : run'[v] = run[v]
          /\ q = Idle /\ Hand(run[w]) = {}
      BY <1>0, <1>1 DEF Create, db, yougile, Keyring, Ends, Hand, TypeOK
    <2>2. QED
      BY <2>1, IdleKey, CarriesOn
  <1>2. CASE made' = made + 1 /\ keys' = keys \cup {made'}
    <2>1. /\ row' = row /\ unsure' = unsure /\ stranded \subseteq stranded'
          /\ \A v \in Workers \ {w} : run'[v] = run[v]
          /\ q.old = 0
          /\ \/ q.pc = "me" /\ q.key = made'
             \/ q.pc = "idle" /\ q.key = 0 /\ made' \in stranded'
      <3>1. made' # made
        BY <1>2, Numbers
      <3>2. CASE run' = [run EXCEPT ![w].pc = "me", ![w].key = made'] /\ UNCHANGED stranded
        BY <1>0, <3>2 DEF Create, db, TypeOK
      <3>3. CASE stranded' = stranded \cup {made'} /\ Ends(w)
        BY <3>3 DEF Create, db, Ends, Idle, TypeOK
      <3>4. QED
        BY <3>1, <3>2, <3>3 DEF Create, yougile
    <2>2. RowKey' /\ StoredKeyWorks'
      <3>1. made' \in Nat /\ 1 .. made \subseteq 1 .. made' /\ made' \in 1 .. made'
        BY <1>2, Numbers
      <3>2. keys' \subseteq 1 .. made' /\ unsure' \subseteq 1 .. made'
        BY <1>2, <2>1, <3>1 DEF KeyInv, RowKey
      <3>3. row'.key <= made' /\ (row'.id = 0 <=> row'.key = 0)
        BY <1>2, <2>1, Numbers DEF KeyInv, RowKey
      <3>4. QED
        BY <1>2, <2>1, <3>2, <3>3 DEF KeyInv, RowKey, StoredKeyWorks
    <2>3. \A v \in Workers : KeyOf(run[v])'
      BY <1>2, <2>1, Numbers DEF KeyInv, KeyOf, RowKey, Pending, Dropping
    <2>4. ASSUME NEW v \in Workers, v # w PROVE Apart(run[v], run[w])' /\ Apart(run[w], run[v])'
      BY <1>2, <2>1, <2>4, Numbers DEF KeyInv, KeyOf, Apart, Pending
    <2>5. \A u, v \in Workers : u # v => Apart(run[u], run[v])'
      BY <2>1, <2>4 DEF KeyInv, Apart
    <2>6. OnlyFaultsStrand'
      <3>1. \A v \in Workers \ {w} : Holds(v)' = Holds(v)
        BY <2>1 DEF Holds
      <3>2. Holds(w) = {} /\ (q.pc = "me" => made' \in Holds(w)')
        BY <1>0, <2>1 DEF Holds
      <3>3. QED
        BY <1>2, <2>1, <3>1, <3>2 DEF KeyInv, OnlyFaultsStrand
    <2>7. QED
      BY <2>2, <2>3, <2>5, <2>6 DEF KeyInv
  <1>3. QED
    BY <1>1, <1>2 DEF Create

\* Storing puts the key in hand into the row, and the key that was there into the hand.
LEMMA StoreKey ==
  ASSUME TypeOK, KeyInv, NEW w \in Workers, Store(w) \/ StoreUnsure(w)
  PROVE  KeyInv'
  <1> DEFINE r == run[w]
             q == run'[w]
  <1>0. /\ KeyOf(r) /\ r.pc = "store" /\ r.old = 0 /\ r.key # 0 /\ r.key \in keys
        /\ r.key # row.key /\ r.key \notin unsure
    BY DEF KeyInv, Store, StoreUnsure, At, KeyOf, Pending, Dropping
  <1>1. /\ row'.key = r.key /\ row'.id # 0 /\ UNCHANGED <<made, keys>>
        /\ row.id # 0 => row'.id = row.id
        /\ \A v \in Workers \ {w} : run'[v] = run[v]
        /\ q.key = r.key
    BY Numbers DEF Store, StoreUnsure, Upserted, yougile, Goes, TypeOK
  <1>2. \/ q.pc = "forget" /\ q.old = row.key /\ UNCHANGED <<unsure, stranded>>
        \/ /\ q.pc = "undo" /\ q.old = 0 /\ unsure' = unsure \cup {r.key}
           /\ stranded' = stranded \cup ({row.key} \ {0})
    BY <1>0 DEF Store, StoreUnsure, yougile, Goes, TypeOK
  <1>3. RowKey' /\ StoredKeyWorks'
    BY <1>0, <1>1, <1>2, Numbers DEF KeyInv, RowKey, StoredKeyWorks, KeyOf
  <1>4. ASSUME NEW v \in Workers, v # w
        PROVE  KeyOf(run[v])' /\ Apart(run[v], run[w])' /\ Apart(run[w], run[v])'
    <2>1. /\ KeyOf(run[v]) /\ Apart(r, run[v]) /\ Apart(run[v], r) /\ run'[v] = run[v]
          /\ run[v].old # r.key
      BY <1>0, <1>1, <1>4 DEF KeyInv, Apart, Pending
    <2>2. KeyOf(run[v])'
      BY <1>0, <1>1, <1>2, <2>1, Numbers DEF KeyOf, Apart, Pending, Dropping
    <2>3. Apart(run[v], run[w])' /\ Apart(run[w], run[v])'
      BY <1>0, <1>1, <1>2, <2>1 DEF KeyOf, Apart, Pending
    <2>4. QED
      BY <2>2, <2>3
  <1>5. KeyOf(run[w])'
    BY <1>0, <1>1, <1>2, Numbers DEF KeyInv, RowKey, KeyOf, Pending, Dropping
  <1>6. \A u, v \in Workers : u # v => Apart(run[u], run[v])'
    BY <1>1, <1>4 DEF KeyInv, Apart
  <1>7. OnlyFaultsStrand'
    <2>1. \A v \in Workers \ {w} : Holds(v)' = Holds(v)
      BY <1>1 DEF Holds
    <2>2. Holds(w) = {r.key} /\ (row.key # 0 => row.key \in Holds(w)' \/ row.key \in stranded')
      BY <1>0, <1>1, <1>2 DEF Holds
    <2>3. 0 \notin keys
      BY Numbers DEF KeyInv, RowKey
    <2>4. stranded \subseteq stranded'
      BY <1>2
    <2>5. QED
      BY <1>1, <2>1, <2>2, <2>3, <2>4 DEF KeyInv, OnlyFaultsStrand
  <1>8. QED
    BY <1>3, <1>4, <1>5, <1>6, <1>7 DEF KeyInv

\* A key that is deleted is not the stored one, nor one that is about to be stored.
LEMMA DeleteKey ==
  ASSUME TypeOK, KeyInv, NEW w \in Workers, Undo(w) \/ Delete(w)
  PROVE  KeyInv'
  <1> DEFINE r == run[w]
             gone == IF r.pc = "undo" THEN r.key ELSE r.old
  <1>0. /\ KeyOf(r) /\ r.pc \in {"undo", "delete"} /\ gone \in Nat
        /\ gone # row.key \/ gone \in unsure \/ gone = 0
    BY Numbers DEF KeyInv, Undo, Delete, At, KeyOf
  <1>1. /\ UNCHANGED <<row, made, unsure>> /\ \A v \in Workers \ {w} : run'[v] = run[v]
        /\ run'[w] = Idle
        /\ stranded \subseteq stranded'
        /\ keys' \subseteq keys /\ \A key \in keys : key \in keys' \/ key = gone
        /\ gone \in keys' => gone \in stranded'
    BY DEF Undo, Delete, Over, Ends, At, db, TypeOK
  <1>2. RowKey' /\ StoredKeyWorks'
    <2>1. 0 \notin keys
      BY Numbers DEF KeyInv, RowKey
    <2>2. QED
      BY <1>0, <1>1, <2>1 DEF KeyInv, RowKey, StoredKeyWorks
  <1>3. ASSUME NEW v \in Workers, v # w PROVE KeyOf(run[v])'
    <2>1. KeyOf(run[v]) /\ Apart(run[v], r) /\ run'[v] = run[v]
      BY <1>1, <1>3 DEF KeyInv
    <2>2. run[v].pc \in Pending => run[v].key # gone
      BY <1>0, <2>1 DEF Apart, KeyOf, Dropping
    <2>3. QED
      BY <1>1, <2>1, <2>2 DEF KeyOf, Pending
  <1>4. KeyOf(run[w])'
    BY <1>1, Numbers DEF KeyOf, Idle, Pending, Dropping
  <1>5. \A u, v \in Workers : u # v => Apart(run[u], run[v])'
    <2>1. ASSUME NEW v \in Workers, v # w PROVE Apart(run[v], run[w])' /\ Apart(run[w], run[v])'
      BY <1>1, <2>1 DEF KeyInv, KeyOf, Apart, Idle, Pending
    <2>2. QED
      BY <1>1, <2>1 DEF KeyInv, Apart
  <1>6. OnlyFaultsStrand'
    <2>1. \A v \in Workers \ {w} : Holds(v)' = Holds(v)
      BY <1>1 DEF Holds
    <2>2. Holds(w) \subseteq {gone}
      BY <1>0 DEF Holds
    <2>3. QED
      BY <1>1, <2>1, <2>2 DEF KeyInv, OnlyFaultsStrand
  <1>7. QED
    BY <1>2, <1>3, <1>4, <1>5, <1>6 DEF KeyInv

\* A row that goes takes its key along; the admin's request deletes the one it read.
LEMMA DropKey ==
  ASSUME TypeOK, KeyInv, NEW w \in Workers, Drop(w)
  PROVE  KeyInv'
  <1> DEFINE r == run[w]
  <1>0. KeyOf(r) /\ r.pc = "drop"
    BY DEF KeyInv, Drop, At
  <1>1. /\ UNCHANGED <<made, keys, unsure>> /\ \A v \in Workers \ {w} : run'[v] = run[v]
        /\ run'[w] = [r EXCEPT !.pc = "forget"]
        /\ stranded \subseteq stranded'
        /\ \/ row' = NoRow /\ (row.key = r.old \/ row.key = 0 \/ row.key \in stranded')
           \/ row' = row /\ row.id # r.id
    BY DEF Drop, Goes, TypeOK
  <1>2. run'[w].pc = "forget" /\ run'[w].old = r.old /\ run'[w].key = r.key
    BY <1>1 DEF TypeOK
  <1>3. (row'.key = 0 /\ row'.id = 0) \/ row' = row
    BY <1>1 DEF NoRow
  <1>4. RowKey' /\ StoredKeyWorks'
    BY <1>1, <1>3, Numbers DEF KeyInv, RowKey, StoredKeyWorks
  <1>5. \A v \in Workers : KeyOf(run[v])'
    <2>1. ASSUME NEW v \in Workers, v # w PROVE KeyOf(run[v])'
      <3>1. KeyOf(run[v]) /\ run'[v] = run[v]
        BY <1>1, <2>1 DEF KeyInv
      <3>2. CASE row' = row
        BY <1>1, <3>1, <3>2 DEF KeyOf
      <3>3. CASE row'.key = 0 /\ row'.id = 0
        BY <1>1, <3>1, <3>3, Numbers DEF KeyOf, Pending
      <3>4. QED
        BY <1>3, <3>2, <3>3
    <2>2. KeyOf(run[w])'
      <3>1. r.old # row'.key /\ r.key <= made' /\ r.old <= made'
        BY <1>0, <1>1, Numbers DEF KeyOf, NoRow
      <3>2. QED
        BY <1>2, <3>1 DEF KeyOf, Pending, Dropping
    <2>3. QED
      BY <2>1, <2>2
  <1>6. \A u, v \in Workers : u # v => Apart(run[u], run[v])'
    <2>1. ASSUME NEW v \in Workers, v # w PROVE Apart(run[v], run[w])' /\ Apart(run[w], run[v])'
      <3>1. Apart(run[v], r) /\ run'[v] = run[v]
        BY <1>1, <2>1 DEF KeyInv
      <3>2. QED
        BY <1>2, <3>1 DEF Apart, Pending
    <2>2. ASSUME NEW u \in Workers \ {w}, NEW v \in Workers \ {w}, u # v
          PROVE  Apart(run[u], run[v])'
      <3>1. run'[u] = run[u] /\ run'[v] = run[v] /\ Apart(run[u], run[v])
        BY <1>1, <2>2 DEF KeyInv
      <3>2. QED
        BY <3>1 DEF Apart
    <2>3. QED
      BY <2>1, <2>2
  <1>7. OnlyFaultsStrand'
    <2>1. \A v \in Workers : Holds(v)' = Holds(v)
      BY <1>0, <1>1, <1>2 DEF Holds
    <2>2. row.key # 0 /\ row' # row => row.key \in Holds(w) \/ row.key \in stranded'
      BY <1>0, <1>1 DEF Holds
    <2>3. 0 \notin keys
      BY Numbers DEF KeyInv, RowKey
    <2>4. QED
      BY <1>1, <1>3, <2>1, <2>2, <2>3 DEF KeyInv, OnlyFaultsStrand
  <1>8. QED
    BY <1>4, <1>5, <1>6, <1>7 DEF KeyInv

LEMMA CrashKey ==
  ASSUME TypeOK, KeyInv, Crash
  PROVE  KeyInv'
  <1> DEFINE held == UNION {Holds(w) : w \in Workers}
             lost == stranded \cup (held \ {row.key})
  <1>0. stranded' = lost
    BY DEF Crash
  <1>1. /\ UNCHANGED <<row, made, unsure, keys>> /\ \A w \in Workers : run'[w] = Idle
    BY DEF Crash, db
  <1>2. RowKey' /\ StoredKeyWorks'
    BY <1>1 DEF KeyInv, RowKey, StoredKeyWorks
  <1>3. \A w \in Workers : KeyOf(run[w])'
    BY <1>1, Numbers DEF KeyOf, Idle, Pending, Dropping
  <1>4. \A v, w \in Workers : Apart(run[v], run[w])'
    BY <1>1 DEF Apart, Idle, Pending
  <1>5. OnlyFaultsStrand'
    <2>1. ASSUME NEW key \in keys' PROVE key = row'.key \/ key \in stranded'
      <3>1. key = row.key \/ key \in stranded \/ \E w \in Workers : key \in Holds(w)
        BY <1>1, <2>1 DEF KeyInv, OnlyFaultsStrand
      <3>2. ASSUME NEW w \in Workers, key \in Holds(w), key # row.key PROVE key \in stranded'
        <4>1. key \in held
          BY <3>2
        <4>2. key \in lost
          <5> HIDE DEF held
          <5> QED
            BY <3>2, <4>1
        <4>3. QED
          <5> HIDE DEF lost
          <5> QED
            BY <1>0, <4>2
      <3>3. key \in stranded => key \in stranded'
        BY <1>0
      <3> HIDE DEF held, lost
      <3>4. QED
        BY <1>1, <3>1, <3>2, <3>3
    <2>2. QED
      BY <2>1 DEF OnlyFaultsStrand
  <1>6. QED
    BY <1>2, <1>3, <1>4, <1>5 DEF KeyInv

LEMMA KeyInit == Init => KeyInv
  BY DEF Init, KeyInv, RowKey, KeyOf, Apart, NoRow, Idle, Pending, Dropping, StoredKeyWorks,
         OnlyFaultsStrand

\* Requests stay as they are when nothing they have in hand changes.
LEMMA KeyStill ==
  ASSUME KeyInv, UNCHANGED <<Keyring, run>>
  PROVE  KeyInv'
  BY DEF KeyInv, Keyring, RowKey, KeyOf, Apart, StoredKeyWorks, OnlyFaultsStrand, Holds

LEMMA KeyStep == TypeOK /\ KeyInv /\ [Next]_vars => KeyInv'
  <1> SUFFICES ASSUME TypeOK, KeyInv, [Next]_vars PROVE KeyInv'
    OBVIOUS
  <1> USE DEF Keyring, db, yougile
  <1>1. ASSUME NEW w \in Workers, Signs(w) PROVE KeyInv'
    <2>1. CASE SignIn(w) \/ Me(w) \/ Banned(w) \/ Fails(w) \/ Forget(w)
      <3>1. UNCHANGED Keyring
        BY <2>1 DEF SignIn, Me, Banned, Fails, Forget
      <3>2. QED
        BY <2>1, <3>1, Passing
    <2>2. QED
      BY <1>1, <2>1, CreateKey, StoreKey, DeleteKey DEF Signs
  <1>2. ASSUME NEW w \in Workers, Manages(w) PROVE KeyInv'
    <2>1. CASE Drop(w)
      BY <2>1, DropKey
    <2>2. CASE Unblock(w)
      BY <2>2, KeyStill DEF Unblock
    <2>3. CASE ~ Drop(w) /\ ~ Unblock(w)
      <3>1. UNCHANGED Keyring
        BY <1>2, <2>3 DEF Manages, Disconnect, Block, List, SaveRights, SetRights, ResetRights, Find
      <3>2. QED
        BY <1>2, <2>3, <3>1, Passing
    <2>4. QED
      BY <2>1, <2>2, <2>3
  <1>3. ASSUME NEW w \in Workers, Calls(w) PROVE KeyInv'
    <2>1. UNCHANGED Keyring
      BY <1>3 DEF Calls, Call, LoadUser, LoadCompany, Check, Enter
    <2>2. QED
      BY <1>3, <2>1, Passing
  <1>4. CASE SetCompany \/ Tick \/ UNCHANGED vars
    BY <1>4, KeyStill DEF SetCompany, Tick, vars
  <1>5. QED
    BY <1>1, <1>2, <1>3, <1>4, CrashKey DEF Next

\* The key that is stored works in YouGile, whatever sign-ins, bans and disconnects run across
\* each other, unless a commit was in doubt.
THEOREM KeyWorks == Spec => []StoredKeyWorks
  BY TypeInit, TypeStep, KeyInit, KeyStep, PTL DEF Spec, KeyInv

\* A key in YouGile is the stored one or in somebody's hands; what else there is, a fault left
\* or a disconnect that crossed a sign-in.
THEOREM KeysAccountedFor == Spec => []OnlyFaultsStrand
  BY TypeInit, TypeStep, KeyInit, KeyStep, PTL DEF Spec, KeyInv
=============================================================================
