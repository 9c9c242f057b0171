-------------------------- MODULE SenderTickets_proofs --------------------------
(***************************************************************************)
(* Proofs about SenderTickets, for any topics, projects and bounds: type   *)
(* correctness, with the locks of the drafts; that nothing written without *)
(* access becomes a ticket, but by an approval after it; that only a crash *)
(* or a lost answer repeats a message; and, with neither, that nothing     *)
(* that was kept is lost, that what is linked has reached YouGile, and     *)
(* that a task is made in the project its writer had.                      *)
(***************************************************************************)
EXTENDS SenderTickets, SequenceTheorems, FiniteSetTheorems, TLAPS

Workers == {"person", "manager", "cli"}
Known == 1 .. Len(written)
Update == [topic : Topics, kind : {"text", "tap", "cancel"}, decisions : Nat,
           approvals : Nat, project : Projects \cup {NoProject}]

\* Where each worker can be.
Filing == {"create", "row", "tie", "linkparts", "clear"}
Sending == {"submit"} \cup Filing
Past == {"topic", "post", "link", "compose", "composed", "cancel", "cancelled"} \cup Sending
Strange == {"asked", "reask", "hold", "holdsave", "intro", "greet", "request", "requested"}
Releasing == {"heldread", "release", "heldcheck", "heldsave"} \cup Sending
Holders == {"composed", "heldsave"} \cup Filing
PhaseInv ==
  /\ pc \in [Workers -> Phases]
  /\ pc["person"] \in {"idle"} \cup Strange \cup Past
  /\ pc["manager"] \in {"idle", "decided", "forget", "drop", "reintro"} \cup Releasing
  /\ pc["cli"] \in {"idle", "drop"}

\* A draft that is begun has a key.
Proper == {d \in Draft : d = NoDraft \/ d.key # 0}
Letter == [step : {"none", "intro", "pending"}, held : [Topics -> Proper]]
Local == [topic : Topics, msg : Messages \cup {0}, project : Projects \cup {NoProject},
          draft : Proper, left : SUBSET Messages]

TelegramType ==
  /\ written \in Seq(Update) /\ Len(written) <= MaxWrites
  /\ inbox \in Seq(Known) /\ batch \in [from : Nat \ {0}, to : Nat]
YouGileType ==
  /\ tasks \in [Keys -> [project : Projects \cup {NoProject}, body : SUBSET Messages]]
  /\ \A k \in Keys : tasks[k] # NoTask => tasks[k].project \in Projects
  /\ posts \in [Messages -> Nat]
DatabaseType ==
  /\ sender \in [status : Statuses, project : Projects \cup {NoProject}]
  /\ sender.status = "approved" => sender.project \in Projects
  /\ rows \in [Keys -> {"none", "untied"} \cup Topics]
  /\ links \subseteq Messages \X Keys
DraftsType ==
  /\ note \in Letter /\ seen \in Letter
  /\ drafts \in [Topics -> Proper] /\ held \in [Topics -> Proper]
RunType ==
  /\ run \in [Submitters -> Local]
  /\ pc["person"] # "idle" => run["person"].msg \in Known
  /\ pc["person"] \in Past => run["person"].project \in Projects
  /\ \A w \in Submitters : pc[w] \in Filing \cup {"post", "link"} => run[w].draft.key # 0
ActType ==
  /\ act \in [kind : Actions \cup {"none"}, project : Projects \cup {NoProject}]
  /\ pc["manager"] = "decided" =>
       act.kind \in Actions /\ (act.kind \in {"approve", "move"} => act.project \in Projects)
  /\ pc["manager"] \in Releasing => act.kind = "approve"
  /\ pc["manager"] \in Releasing \cup {"forget"} /\ act.kind = "approve" =>
       run["manager"].project \in Projects

\* A worker holds the lock of its draft, and no other, between reading the draft and writing it.
LockInv ==
  /\ lock \in [Topics -> Submitters \cup {Nobody}]
  /\ \A w \in Submitters, t \in Topics : lock[t] = w <=> run[w].topic = t /\ pc[w] \in Holders

\* An update makes one key at most, and one more for each time it comes again; a crash gives at
\* most all of them again.
Again == MaxWrites * faults
Unminted == Strange \cup {"topic", "compose", "composed"}
Owed == IF pc["person"] \in Unminted THEN 1 ELSE 0
CountInv ==
  /\ keys \in Nat /\ faults \in 0 .. MaxFaults /\ slips \in 0 .. faults
  /\ decisions \in Nat /\ approvals \in Nat
  /\ pc["manager"] \notin {"idle", "decided"} => decisions > 0
  /\ keys + Len(inbox) + Owed <= Len(written) + Again
HistoryType == kept \subseteq Messages /\ heldTold \subseteq Messages
/\ dropped \subseteq Messages

\* The messages that may become tickets: their writer had access, or was approved since.
Cleared(m) == written[m].project # NoProject \/ approvals > written[m].approvals
Clean == {m \in Known : Cleared(m)}
AccessInv ==
  /\ pc["cli"] = "idle"
  /\ \A m \in Known : written[m].approvals <= approvals
  /\ sender.status = "approved" => Known \subseteq Clean
  /\ pc["manager"] = "decided" /\ act.kind = "move" => sender.status = "approved"
  /\ pc["manager"] = "heldread" => sender.status = "approved"
NotesInv == \A t \in Topics : note.held[t].parts \subseteq Known
/\ seen.held[t].parts \subseteq Known
PastInv == pc["person"] \in Past => run["person"].msg \in Clean
CleanInv ==
  /\ \A t \in Topics : drafts[t].parts \subseteq Clean /\ held[t].parts \subseteq Clean
  /\ \A w \in Submitters : run[w].draft.parts \subseteq Clean
  /\ \A k \in Keys : tasks[k].body \subseteq Clean
  /\ \A m \in Messages : posts[m] > 0 => m \in Clean

Types == /\ PhaseInv /\ TelegramType /\ YouGileType /\ DatabaseType /\ DraftsType /\ RunType
         /\ ActType /\ LockInv /\ CountInv /\ HistoryType
NoAccessInv == AccessInv /\ NotesInv /\ PastInv /\ CleanInv

-----------------------------------------------------------------------------
(* Values *)

\* What is assumed of the constants.
LEMMA Parameters ==
  /\ Topics # {} /\ SomeTopic \in Topics
  /\ MaxWrites \in Nat /\ MaxFaults \in Nat /\ MaxDecisions \in Nat
  /\ NoProject \notin Projects /\ Nobody \notin Submitters
  BY ConstantsAssumption DEF SomeTopic

\* The initial values are of their types.
LEMMA Blanks ==
  /\ NoDraft \in Proper /\ NoHeld \in [Topics -> Proper] /\ NoLocals \in Local
  /\ \A step \in {"none", "intro", "pending"} : NoteOf(step) \in Letter
  <1>1. NoDraft \in Proper
    BY Parameters DEF NoDraft, Proper, Draft
  <1>2. NoHeld \in [Topics -> Proper]
    BY <1>1 DEF NoHeld
  <1>3. NoLocals \in Local
    BY <1>1, Parameters DEF NoLocals, Local
  <1>4. QED
    BY <1>1, <1>2, <1>3 DEF NoteOf, Letter

\* A message more: the draft has a key, its own or the next one.
LEMMA Begun ==
  ASSUME NEW d \in Proper, NEW m \in Messages, keys + 1 \in Keys
  PROVE  With(d, m) \in Proper /\ With(d, m).parts = d.parts \cup {m}
  <1> DEFINE key == IF d = NoDraft THEN keys + 1 ELSE d.key
  <1>1. d.key \in Keys \cup {0} /\ d.parts \subseteq Messages /\ (d = NoDraft \/ d.key # 0)
    BY DEF Proper, Draft
  <1>2. 0 \notin Keys
    BY DEF Keys
  <1>3. key \in Keys /\ key # 0
    BY <1>1, <1>2
  <1>4. With(d, m) = [key |-> key, parts |-> d.parts \cup {m}]
    BY DEF With
  <1> HIDE DEF key
  <1>5. QED
    BY <1>1, <1>3, <1>4 DEF Proper, Draft

\* What a request to YouGile or the database is about.
LEMMA LocalIs ==
  ASSUME RunType, NEW w \in Submitters
  PROVE  /\ run[w].topic \in Topics /\ run[w].draft \in Proper /\ run[w].left \subseteq Messages
         /\ run[w].project \in Projects \cup {NoProject}
         /\ run[w].draft.parts \subseteq Messages /\ run[w].draft.key \in Keys \cup {0}
  BY DEF RunType, Local, Proper, Draft

\* Products of the bounds.
LEMMA Products ==
  ASSUME NEW a \in Nat, NEW b \in Nat, NEW c \in Nat
  PROVE  a * b \in Nat /\ a * (b + 1) = a * b + a /\ a * (b + c) = a * b + a * c
  OBVIOUS

\* What comes again, and how much of it there may be.
LEMMA AgainIs ==
  ASSUME faults \in 0 .. MaxFaults
  PROVE  /\ Again \in Nat /\ MaxWrites * (1 + MaxFaults) \in Nat
         /\ MaxWrites + Again <= MaxWrites * (1 + MaxFaults)
  <1>1. PICK r \in Nat : MaxFaults = faults + r /\ faults \in Nat
    <2>1. MaxFaults - faults \in Nat /\ MaxFaults = faults + (MaxFaults - faults)
      BY Parameters
    <2>2. QED
      BY <2>1
  <1>2. /\ MaxWrites * faults \in Nat /\ MaxWrites * r \in Nat
        /\ MaxWrites * MaxFaults = MaxWrites * faults + MaxWrites * r
        /\ MaxWrites * (MaxFaults + 1) = MaxWrites * MaxFaults + MaxWrites
    BY <1>1, Products, Parameters
  <1>3. 1 + MaxFaults = MaxFaults + 1
    BY Parameters
  <1>4. QED
    BY <1>2, <1>3, Parameters DEF Again

\* There is a key left for a draft that is begun.
LEMMA NextKey ==
  ASSUME CountInv, TelegramType, pc["person"] \in Unminted
  PROVE  keys + 1 \in Keys
  <1>1. Len(inbox) \in Nat /\ Len(written) \in Nat /\ Len(written) <= MaxWrites
    BY DEF TelegramType
  <1>2. /\ Again \in Nat /\ MaxWrites * (1 + MaxFaults) \in Nat
        /\ MaxWrites + Again <= MaxWrites * (1 + MaxFaults)
    BY AgainIs DEF CountInv
  <1>3. keys \in Nat /\ keys + Len(inbox) + 1 <= Len(written) + Again
    BY DEF CountInv, Owed
  <1> DEFINE all == MaxWrites * (1 + MaxFaults)
  <1>4. Keys = 1 .. all
    BY DEF Keys
  <1> HIDE DEF all
  <1>5. all \in Nat /\ keys + 1 <= all
    BY <1>1, <1>2, <1>3, Parameters DEF all
  <1>6. QED
    BY <1>3, <1>4, <1>5

\* What a crash gives again.
LEMMA FromIs ==
  ASSUME TelegramType, NEW n \in Nat \ {0}
  PROVE  /\ From(n) \in Seq(Known) /\ Len(From(n)) \in Nat /\ Len(From(n)) <= Len(written)
         /\ \A i \in 1 .. Len(From(n)) : From(n)[i] = n + i - 1
  <1> DEFINE k == IF Len(written) + 1 - n > 0 THEN Len(written) + 1 - n ELSE 0
  <1>1. Len(written) \in Nat
    BY DEF TelegramType
  <1>2. k \in Nat /\ k <= Len(written) /\ 1 .. k = 1 .. Len(written) + 1 - n
    BY <1>1
  <1>3. From(n) = [i \in 1 .. k |-> n + i - 1]
    BY <1>2 DEF From
  <1>4. \A i \in 1 .. k : n + i - 1 \in Known
    BY <1>1, <1>2 DEF Known
  <1> HIDE DEF k
  <1>5. From(n) \in [1 .. k -> Known]
    BY <1>3, <1>4
  <1>6. From(n) \in Seq(Known) /\ Len(From(n)) = k
    <2>1. From(n) \in Seq(Known)
      BY <1>2, <1>5
    <2>2. DOMAIN From(n) = 1 .. k
      BY <1>3
    <2>3. Len(From(n)) \in Nat /\ DOMAIN From(n) = 1 .. Len(From(n))
      BY <2>1, LenProperties
    <2>4. QED
      BY <1>2, <2>1, <2>2, <2>3
  <1>7. QED
    BY <1>2, <1>3, <1>6

-----------------------------------------------------------------------------
(* Where each action leads *)

AfterAll(w) == IF w = "person" THEN "idle" ELSE "release"
Moved(w, from, to) ==
  /\ pc[w] = from /\ pc'[w] \in to
  /\ \A v \in Workers \ {w} : pc'[v] = pc[v]

\* Where the actions that branch lead.
LEMMA Moves ==
  ASSUME PhaseInv
  PROVE  /\ Take =>
               Moved("person", "idle", {"idle", "topic", "submit", "cancel", "asked", "intro"})
         /\ Asked => Moved("person", "asked", {"reask", "hold"})
         /\ Hold => Moved("person", "hold", {"idle", "holdsave"})
         /\ InTopic => Moved("person", "topic", {"idle", "post", "compose"})
         /\ Post => Moved("person", "post", {"idle", "link"})
         /\ Compose => Moved("person", "compose", {"idle", "composed"})
         /\ \A w \in Submitters : Submit(w) => Moved(w, "submit", {"create", AfterAll(w)})
         /\ \A w \in Submitters : Create(w) => Moved(w, "create", {"row", AfterAll(w)})
         /\ \A w \in Submitters : LinkParts(w) =>
               Moved(w, "linkparts", {"linkparts", "clear"})
         /\ \A w \in Submitters : Clear(w) => Moved(w, "clear", {AfterAll(w)})
         /\ Decided => Moved("manager", "decided", {"heldread", "forget", "drop"})
         /\ Forget => Moved("manager", "forget", {"idle", "release"})
         /\ Drop => Moved("manager", "drop", {"idle", "reintro"})
         /\ Release => Moved("manager", "release", {"idle", "release", "heldcheck"})
         /\ HeldCheck => Moved("manager", "heldcheck", {"heldsave", "release"})
  <1>1. Take =>
          Moved("person", "idle", {"idle", "topic", "submit", "cancel", "asked", "intro"})
    BY DEF Take, Goto, Moved, PhaseInv, Workers, Submitters, Way
  <1>2. Asked => Moved("person", "asked", {"reask", "hold"})
    BY DEF Asked, Goto, Moved, PhaseInv, Workers, Submitters
  <1>3. Hold => Moved("person", "hold", {"idle", "holdsave"})
    BY DEF Hold, Goto, Moved, PhaseInv, Workers, Submitters
  <1>4. InTopic => Moved("person", "topic", {"idle", "post", "compose"})
    BY DEF InTopic, Goto, Moved, PhaseInv, Workers, Submitters
  <1>5. Post => Moved("person", "post", {"idle", "link"})
    BY DEF Post, Goto, Moved, PhaseInv, Workers, Submitters
  <1>6. Compose => Moved("person", "compose", {"idle", "composed"})
    BY DEF Compose, Goto, Moved, PhaseInv, Workers, Submitters
  <1>7. \A w \in Submitters : Submit(w) => Moved(w, "submit", {"create", AfterAll(w)})
    BY DEF Submit, Goto, Moved, PhaseInv, Workers, Submitters, Done, AfterAll
  <1>8. \A w \in Submitters : Create(w) => Moved(w, "create", {"row", AfterAll(w)})
    BY DEF Create, Goto, Moved, PhaseInv, Workers, Submitters, GivesUp, Done, AfterAll
  <1>9. \A w \in Submitters : LinkParts(w) =>
          Moved(w, "linkparts", {"linkparts", "clear"})
    BY DEF LinkParts, Goto, Moved, PhaseInv, Workers, Submitters
  <1>10. \A w \in Submitters : Clear(w) => Moved(w, "clear", {AfterAll(w)})
    BY DEF Clear, Goto, Moved, PhaseInv, Workers, Submitters, Done, AfterAll
  <1>11. Decided => Moved("manager", "decided", {"heldread", "forget", "drop"})
    BY DEF Decided, Goto, Moved, PhaseInv, Workers, Submitters
  <1>12. Forget => Moved("manager", "forget", {"idle", "release"})
    BY DEF Forget, Goto, Moved, PhaseInv, Workers, Submitters
  <1>13. Drop => Moved("manager", "drop", {"idle", "reintro"})
    BY DEF Drop, Goto, Moved, PhaseInv, Workers, Submitters
  <1>14. Release => Moved("manager", "release", {"idle", "release", "heldcheck"})
    BY DEF Release, Goto, Moved, PhaseInv, Workers, Submitters
  <1>15. HeldCheck => Moved("manager", "heldcheck", {"heldsave", "release"})
    BY DEF HeldCheck, Goto, Moved, PhaseInv, Workers, Submitters
  <1>16. QED
    BY <1>1, <1>2, <1>3, <1>4, <1>5, <1>6, <1>7, <1>8, <1>9, <1>10, <1>11, <1>12, <1>13, <1>14,
       <1>15

\* What was written is within the bound.
LEMMA KnownIs ==
  ASSUME TelegramType
  PROVE  Known \subseteq Messages
  BY Parameters, LenProperties DEF TelegramType, Known, Messages

\* What a worker files or posts: to a key, and in a project.
LEMMA Sends ==
  ASSUME PhaseInv, RunType, ActType, NEW w \in Submitters, pc[w] \in Filing \cup {"post", "link"}
  PROVE  run[w].draft.key \in Keys /\ run[w].project \in Projects
  <1>1. run[w].draft.key # 0
    BY DEF RunType
  <1>2. CASE w = "person"
    BY <1>1, <1>2, LocalIs DEF RunType, Past, Sending, Filing
  <1>3. CASE w = "manager"
    <2>1. pc[w] \in Filing
      BY <1>3 DEF PhaseInv, Releasing, Sending, Filing
    <2>2. QED
      BY <1>1, <1>3, <2>1, LocalIs DEF ActType, Releasing, Sending, Filing
  <1>4. QED
    BY <1>2, <1>3 DEF Submitters

\* New locals for one worker.
LEMMA RunSet ==
  ASSUME RunType, NEW w \in Submitters, NEW l \in Local,
         run' = [run EXCEPT ![w] = l], written' = written,
         \A v \in Workers \ {w} : pc'[v] = pc[v],
         w = "person" /\ pc'[w] # "idle" => l.msg \in Known,
         w = "person" /\ pc'[w] \in Past => l.project \in Projects,
         pc'[w] \in Filing \cup {"post", "link"} => l.draft.key # 0
  PROVE  RunType'
  <1>1. run' \in [Submitters -> Local] /\ run'[w] = l
        /\ \A v \in Submitters \ {w} : run'[v] = run[v]
    BY DEF RunType
  <1>2. Known' = Known
    BY DEF Known
  <1>3. Submitters \subseteq Workers /\ "person" \in Submitters
    BY DEF Submitters, Workers
  <1>4. pc'["person"] # "idle" => run'["person"].msg \in Known
    BY <1>1, <1>3 DEF RunType
  <1>5. pc'["person"] \in Past => run'["person"].project \in Projects
    BY <1>1, <1>3 DEF RunType
  <1>6. ASSUME NEW v \in Submitters, pc'[v] \in Filing \cup {"post", "link"}
        PROVE  run'[v].draft.key # 0
    BY <1>1, <1>3, <1>6 DEF RunType
  <1>7. QED
    BY <1>1, <1>2, <1>4, <1>5, <1>6 DEF RunType

\* The same, for locals that stay.
LEMMA RunKept ==
  ASSUME RunType, NEW w \in Submitters, run' = run
  PROVE  run[w] \in Local /\ run' = [run EXCEPT ![w] = run[w]]
  BY DEF RunType

\* Steps that are not about the decision at hand.
LEMMA ActKept ==
  ASSUME ActType, act' = act, run'["manager"].project = run["manager"].project,
         \/ pc'["manager"] = pc["manager"]
         \/ pc["manager"] \in Releasing /\ pc'["manager"] \in Releasing
  PROVE  ActType'
  BY DEF ActType, Releasing, Sending, Filing

\* The end of a decision.
LEMMA NoActKept ==
  ASSUME ActType, act' = NoAct, pc'["manager"] = "idle"
  PROVE  ActType'
  BY DEF ActType, NoAct, Releasing, Sending, Filing

\* Steps that leave the locks alone.
LEMMA LockKept ==
  ASSUME LockInv, lock' = lock,
         \A w \in Submitters : /\ pc'[w] \in Holders <=> pc[w] \in Holders
                               /\ pc[w] \in Holders => run'[w].topic = run[w].topic
  PROVE  LockInv'
  BY DEF LockInv

\* A free lock is taken with the read of the draft.
LEMMA LockTaken ==
  ASSUME LockInv, RunType, NEW w \in Submitters,
         Free(run[w].topic), lock' = [lock EXCEPT ![run[w].topic] = w],
         pc[w] \notin Holders, pc'[w] \in Holders, run'[w].topic = run[w].topic,
         \A v \in Submitters \ {w} : pc'[v] = pc[v] /\ run'[v] = run[v]
  PROVE  LockInv'
  <1>1. run[w].topic \in Topics /\ Nobody \notin Submitters
    BY LocalIs, Parameters
  <1>2. lock' \in [Topics -> Submitters \cup {Nobody}]
    BY <1>1 DEF LockInv
  <1>3. \A t \in Topics : lock'[t] = IF t = run[w].topic THEN w ELSE lock[t]
    BY <1>1 DEF LockInv
  <1>4. ASSUME NEW v \in Submitters, NEW t \in Topics
        PROVE  lock'[t] = v <=> run'[v].topic = t /\ pc'[v] \in Holders
    <2>1. lock[run[w].topic] = Nobody
      BY DEF Free
    <2>2. CASE v = w
      BY <1>1, <1>3, <2>1, <2>2 DEF LockInv
    <2>3. CASE v # w
      <3>1. pc'[v] = pc[v] /\ run'[v] = run[v]
        BY <2>3
      <3>2. lock[t] = v <=> run[v].topic = t /\ pc[v] \in Holders
        BY DEF LockInv
      <3>3. lock'[t] = v <=> lock[t] = v
        BY <1>1, <1>3, <2>1, <2>3
      <3>4. QED
        BY <3>1, <3>2, <3>3
    <2>4. QED
      BY <2>2, <2>3
  <1>5. QED
    BY <1>2, <1>4 DEF LockInv

\* A lock is given back with the write.
LEMMA LockFreed ==
  ASSUME LockInv, NEW w \in Submitters, lock' = Released(w), pc'[w] \notin Holders,
         \A v \in Submitters \ {w} : pc'[v] = pc[v] /\ run'[v] = run[v]
  PROVE  LockInv'
  BY Parameters DEF LockInv, Released

\* A fault more gives at most everything again.
LEMMA GivenAgain ==
  ASSUME faults \in 0 .. MaxFaults
  PROVE  /\ Again \in Nat
         /\ faults' = faults => Again' = Again
         /\ faults' = faults + 1 => Again' = Again + MaxWrites
  <1>1. faults \in Nat /\ Again \in Nat
    BY AgainIs, Parameters
  <1>2. MaxWrites * (faults + 1) = MaxWrites * faults + MaxWrites
    BY <1>1, Products, Parameters
  <1>3. QED
    BY <1>1, <1>2 DEF Again

\* Steps that add nothing to what the person wrote.
LEMMA CountKept ==
  ASSUME TelegramType, CountInv, UNCHANGED <<written, inbox, decisions, approvals>>,
         \/ faults' = faults /\ slips' = slips
         \/ faults < MaxFaults /\ faults' = faults + 1 /\ slips' \in {slips, slips + 1},
         pc'["manager"] \in {"idle", "decided"} \/ pc["manager"] \notin {"idle", "decided"},
         keys' \in Nat, keys' + Owed' <= keys + Owed
  PROVE  CountInv'
  <1>1. Len(inbox) \in Nat /\ Len(written) \in Nat /\ Owed \in Nat /\ Owed' \in Nat
    BY LenProperties DEF TelegramType, Owed
  <1>2. keys \in Nat /\ faults \in 0 .. MaxFaults /\ slips \in 0 .. faults
        /\ keys + Len(inbox) + Owed <= Len(written) + Again
    BY DEF CountInv
  <1>3. faults' \in 0 .. MaxFaults /\ slips' \in 0 .. faults'
    BY <1>2, Parameters
  <1>7. Again \in Nat /\ Again' \in Nat /\ Again <= Again'
    BY <1>2, GivenAgain, Parameters
  <1>4. /\ Len(inbox') = Len(inbox) /\ Len(written') = Len(written)
        /\ Len(inbox') \in Nat /\ Len(written') \in Nat /\ faults \in Nat /\ faults' \in Nat
    BY <1>1, <1>3, Parameters DEF CountInv
  <1>5. keys' + Len(inbox') + Owed' <= Len(written') + Again'
    <2>1. PICK k \in Nat, o \in Nat, i \in Nat, l \in Nat, f \in Nat :
             k = keys' /\ o = Owed' /\ i = Len(inbox') /\ l = Len(written') /\ f = Again'
      BY <1>1, <1>4, <1>7
    <2>2. k + o <= keys + Owed /\ keys + i + Owed <= l + Again /\ Again <= f
      BY <1>2, <1>4, <1>7, <2>1
    <2>3. k + i + o <= l + f
      BY <1>1, <1>2, <1>4, <1>7, <2>2
    <2>4. QED
      BY <2>1, <2>3
  <1>6. QED
    BY <1>3, <1>5 DEF CountInv

\* Drafts are made of messages.
LEMMA PartsAre ==
  ASSUME DraftsType
  PROVE  \A t \in Topics : /\ drafts[t].parts \subseteq Messages
                           /\ note.held[t].parts \subseteq Messages
                           /\ held[t].parts \subseteq Messages
  BY DEF DraftsType, Letter, Proper, Draft

\* What is clean stays so, as the person writes and approvers approve.
LEMMA Growing ==
  ASSUME TelegramType, CountInv, \A m \in Known : written'[m] = written[m],
         Known \subseteq Known', approvals' \in Nat, approvals <= approvals'
  PROVE  Clean \subseteq Clean'
  <1>1. ASSUME NEW m \in Clean PROVE m \in Clean'
    <2>1. m \in Known /\ Cleared(m) /\ written[m].approvals \in Nat /\ approvals \in Nat
      <3>1. m \in Known /\ Cleared(m)
        BY DEF Clean
      <3>2. written[m] \in Update
        BY <3>1, ElementOfSeq DEF TelegramType, Known
      <3>3. QED
        BY <3>1, <3>2 DEF Update, CountInv
    <2>2. m \in Known' /\ written'[m] = written[m]
      BY <2>1
    <2>3. written'[m].project # NoProject \/ approvals' > written'[m].approvals
      BY <2>1, <2>2 DEF Cleared
    <2>4. QED
      BY <2>2, <2>3 DEF Clean, Cleared
  <1>2. QED
    BY <1>1

\* Every step keeps clean what is.
LEMMA GrowingStep ==
  ASSUME TelegramType, CountInv, Next
  PROVE  /\ \A m \in Known : written'[m] = written[m]
         /\ Known \subseteq Known' /\ Clean \subseteq Clean'
  <1> DEFINE Grown == \/ UNCHANGED <<written, approvals>>
                      \/ written' = written /\ approvals' = approvals + 1
                      \/ \E u : written' = Append(written, u) /\ approvals' = approvals
  <1>1. Grown
    <2> USE DEF telegram, counters, history, yougile, database
    <2>1. CASE Handles
      BY <2>1 DEF Handles, Submits, Take, Asked, Reask, Hold, HoldSave, Intro, Greet, Request,
         Requested, InTopic, Post, LinkPost, Compose, Composed, Cancel, Cancelled, Submit, Create,
         AddRow, Tie, LinkParts, Clear
    <2>2. CASE Manages
      BY <2>2 DEF Manages, Submits, Decided, HeldRead, Forget, Drop, Reintro, Release,
         HeldCheck,
         HeldSave, Submit, Create, AddRow, Tie, LinkParts, Clear
    <2>3. CASE Outside
      <3>1. ASSUME NEW t \in Topics, NEW kind \in {"text", "tap", "cancel"}, Write(t, kind)
            PROVE  Grown
        BY <3>1 DEF Write
      <3>2. CASE ~ \E t \in Topics, kind \in {"text", "tap", "cancel"} : Write(t, kind)
        BY <2>3, <3>2 DEF Outside, Decide, CliBlock, CliDrop, Crash
      <3>3. QED
        BY <3>1, <3>2
    <2>4. QED
      BY <2>1, <2>2, <2>3 DEF Next
  <1>2. Len(written) \in Nat /\ approvals \in Nat
    BY LenProperties DEF TelegramType, CountInv
  <1>3. CASE written' = written
    <2>1. Known' = Known /\ approvals' \in Nat /\ approvals <= approvals'
      <3>1. approvals' = approvals \/ approvals' = approvals + 1
        <4>1. ASSUME NEW u, written' = Append(written, u) PROVE FALSE
          BY <1>3, <4>1, AppendProperties, LenProperties DEF TelegramType
        <4>2. QED
          BY <1>1, <4>1
      <3>2. QED
        BY <1>2, <1>3, <3>1 DEF Known
    <2>2. QED
      BY <1>3, <2>1, Growing
  <1>4. ASSUME NEW u, written' = Append(written, u), approvals' = approvals
        PROVE  /\ \A m \in Known : written'[m] = written[m]
               /\ Known \subseteq Known' /\ Clean \subseteq Clean'
    <2>1. Len(written') = Len(written) + 1 /\ \A m \in Known : written'[m] = written[m]
      BY <1>2, <1>4, AppendProperties DEF TelegramType, Known
    <2>2. Known \subseteq Known'
      BY <1>2, <2>1 DEF Known
    <2>3. approvals' \in Nat /\ approvals <= approvals'
      BY <1>2, <1>4
    <2>4. Clean \subseteq Clean'
      BY <2>1, <2>2, <2>3, Growing
    <2>5. QED
      BY <2>1, <2>2, <2>4
  <1>5. QED
    BY <1>1, <1>3, <1>4

\* Steps that send nothing new.
LEMMA PastKept ==
  ASSUME PastInv, Clean \subseteq Clean', run'["person"].msg = run["person"].msg,
         pc'["person"] \in Past => pc["person"] \in Past
  PROVE  PastInv'
  BY DEF PastInv

\* Steps that change locals only.
LEMMA RunClean ==
  ASSUME CleanInv, Clean \subseteq Clean', UNCHANGED <<drafts, held, tasks, posts>>,
         \A w \in Submitters : run'[w].draft.parts \subseteq Clean
  PROVE  CleanInv'
  BY DEF CleanInv

\* Steps that change drafts only.
LEMMA DraftsClean ==
  ASSUME CleanInv, Clean \subseteq Clean', UNCHANGED <<run, tasks, posts>>,
         \A t \in Topics : drafts'[t].parts \subseteq Clean /\ held'[t].parts \subseteq Clean
  PROVE  CleanInv'
  BY DEF CleanInv

\* Steps after which the person has access only if they had it.
LEMMA AccessKept ==
  ASSUME AccessInv, Clean \subseteq Clean', written' = written, approvals' = approvals,
         sender'.status = "approved" <=> sender.status = "approved",
         pc'["cli"] = "idle",
         pc'["manager"] \in {"decided", "heldread"} => pc'["manager"] = pc["manager"]
         /\ act' = act
  PROVE  AccessInv'
  <1>1. Known' = Known
    BY DEF Known
  <1>2. QED
    BY <1>1 DEF AccessInv

-----------------------------------------------------------------------------
(* Types *)

\* Every step keeps each worker where it can be.
LEMMA PhaseStep ==
  ASSUME PhaseInv, Next
  PROVE  PhaseInv'
  <1> USE DEF telegram, yougile, database, history, counters, Submitters
  <1>1. ASSUME Take PROVE PhaseInv'
    BY <1>1 DEF Take, Goto, Way, PhaseInv, Phases, Workers, Strange, Past, Sending, Filing,
       Releasing
  <1>2. ASSUME Asked PROVE PhaseInv'
    BY <1>2 DEF Asked, Goto, PhaseInv, Phases, Workers, Strange, Past, Sending, Filing,
       Releasing
  <1>3. ASSUME Reask PROVE PhaseInv'
    BY <1>3 DEF Reask, Goto, PhaseInv, Phases, Workers, Strange, Past, Sending, Filing,
       Releasing
  <1>4. ASSUME Hold PROVE PhaseInv'
    BY <1>4 DEF Hold, Goto, PhaseInv, Phases, Workers, Strange, Past, Sending, Filing, Releasing
  <1>5. ASSUME HoldSave PROVE PhaseInv'
    BY <1>5 DEF HoldSave, Goto, PhaseInv, Phases, Workers, Strange, Past, Sending, Filing,
       Releasing
  <1>6. ASSUME Intro PROVE PhaseInv'
    BY <1>6 DEF Intro, Goto, PhaseInv, Phases, Workers, Strange, Past, Sending, Filing,
       Releasing
  <1>7. ASSUME Greet PROVE PhaseInv'
    BY <1>7 DEF Greet, Goto, PhaseInv, Phases, Workers, Strange, Past, Sending, Filing,
       Releasing
  <1>8. ASSUME Request PROVE PhaseInv'
    BY <1>8 DEF Request, Goto, PhaseInv, Phases, Workers, Strange, Past, Sending, Filing,
       Releasing
  <1>9. ASSUME Requested PROVE PhaseInv'
    BY <1>9 DEF Requested, Goto, PhaseInv, Phases, Workers, Strange, Past, Sending, Filing,
       Releasing
  <1>10. ASSUME InTopic PROVE PhaseInv'
    <2>1. \E phase \in {"idle", "post", "compose"} : pc' = [pc EXCEPT !["person"] = phase]
      BY <1>10 DEF InTopic, Goto
    <2>2. QED
      BY <1>10, <2>1 DEF PhaseInv, Phases, Workers, Strange, Past, Sending, Filing, Releasing
  <1>11. ASSUME Post PROVE PhaseInv'
    BY <1>11 DEF Post, Goto, PhaseInv, Phases, Workers, Strange, Past, Sending, Filing,
       Releasing
  <1>12. ASSUME LinkPost PROVE PhaseInv'
    BY <1>12 DEF LinkPost, Goto, PhaseInv, Phases, Workers, Strange, Past, Sending, Filing,
       Releasing
  <1>13. ASSUME Compose PROVE PhaseInv'
    BY <1>13 DEF Compose, Goto, PhaseInv, Phases, Workers, Strange, Past, Sending, Filing,
       Releasing
  <1>14. ASSUME Composed PROVE PhaseInv'
    BY <1>14 DEF Composed, Goto, PhaseInv, Phases, Workers, Strange, Past, Sending, Filing,
       Releasing
  <1>15. ASSUME Cancel PROVE PhaseInv'
    BY <1>15 DEF Cancel, Goto, PhaseInv, Phases, Workers, Strange, Past, Sending, Filing,
       Releasing
  <1>16. ASSUME Cancelled PROVE PhaseInv'
    BY <1>16 DEF Cancelled, Goto, PhaseInv, Phases, Workers, Strange, Past, Sending, Filing,
       Releasing
  <1>17. ASSUME NEW w \in Submitters, Submit(w) PROVE PhaseInv'
    BY <1>17 DEF Submit, Goto, Done, PhaseInv, Phases, Workers, Strange, Past, Sending, Filing,
       Releasing
  <1>18. ASSUME NEW w \in Submitters, Create(w) PROVE PhaseInv'
    BY <1>18 DEF Create, Goto, GivesUp, Done, PhaseInv, Phases, Workers, Strange, Past,
       Sending, Filing, Releasing
  <1>19. ASSUME NEW w \in Submitters, AddRow(w) PROVE PhaseInv'
    BY <1>19 DEF AddRow, Goto, PhaseInv, Phases, Workers, Strange, Past, Sending, Filing,
       Releasing
  <1>20. ASSUME NEW w \in Submitters, Tie(w) PROVE PhaseInv'
    BY <1>20 DEF Tie, Goto, PhaseInv, Phases, Workers, Strange, Past, Sending, Filing, Releasing
  <1>21. ASSUME NEW w \in Submitters, LinkParts(w) PROVE PhaseInv'
    BY <1>21 DEF LinkParts, Goto, PhaseInv, Phases, Workers, Strange, Past, Sending, Filing,
       Releasing
  <1>22. ASSUME NEW w \in Submitters, Clear(w) PROVE PhaseInv'
    BY <1>22 DEF Clear, Goto, Done, PhaseInv, Phases, Workers, Strange, Past, Sending, Filing,
       Releasing
  <1>23. ASSUME Decided PROVE PhaseInv'
    BY <1>23 DEF Decided, Goto, PhaseInv, Phases, Workers, Strange, Past, Sending, Filing,
       Releasing
  <1>24. ASSUME HeldRead PROVE PhaseInv'
    BY <1>24 DEF HeldRead, Goto, PhaseInv, Phases, Workers, Strange, Past, Sending, Filing,
       Releasing
  <1>25. ASSUME Forget PROVE PhaseInv'
    BY <1>25 DEF Forget, Goto, PhaseInv, Phases, Workers, Strange, Past, Sending, Filing,
       Releasing
  <1>26. ASSUME Drop PROVE PhaseInv'
    BY <1>26 DEF Drop, Goto, PhaseInv, Phases, Workers, Strange, Past, Sending, Filing,
       Releasing
  <1>27. ASSUME Reintro PROVE PhaseInv'
    BY <1>27 DEF Reintro, Goto, PhaseInv, Phases, Workers, Strange, Past, Sending, Filing,
       Releasing
  <1>28. ASSUME Release PROVE PhaseInv'
    BY <1>28 DEF Release, Goto, PhaseInv, Phases, Workers, Strange, Past, Sending, Filing,
       Releasing
  <1>29. ASSUME HeldCheck PROVE PhaseInv'
    BY <1>29 DEF HeldCheck, Goto, PhaseInv, Phases, Workers, Strange, Past, Sending, Filing,
       Releasing
  <1>30. ASSUME HeldSave PROVE PhaseInv'
    BY <1>30 DEF HeldSave, Goto, PhaseInv, Phases, Workers, Strange, Past, Sending, Filing,
       Releasing
  <1>31. ASSUME NEW t \in Topics, NEW kind \in {"text", "tap", "cancel"}, Write(t, kind)
        PROVE PhaseInv'
    BY <1>31 DEF Write, Goto, PhaseInv, Phases, Workers, Strange, Past, Sending, Filing,
       Releasing
  <1>32. ASSUME NEW action \in Actions, NEW p \in Projects \cup {NoProject}, Decide(action, p)
        PROVE PhaseInv'
    BY <1>32 DEF Decide, Goto, PhaseInv, Phases, Workers, Strange, Past, Sending, Filing,
       Releasing
  <1>33. ASSUME CliBlock PROVE PhaseInv'
    BY <1>33 DEF CliBlock, Goto, PhaseInv, Phases, Workers, Strange, Past, Sending, Filing,
       Releasing
  <1>34. ASSUME CliDrop PROVE PhaseInv'
    BY <1>34 DEF CliDrop, Goto, PhaseInv, Phases, Workers, Strange, Past, Sending, Filing,
       Releasing
  <1>35. ASSUME Crash PROVE PhaseInv'
    BY <1>35 DEF Crash, Goto, PhaseInv, Phases, Workers, Strange, Past, Sending, Filing,
       Releasing
  <1>36. QED
    BY <1>1, <1>2, <1>3, <1>4, <1>5, <1>6, <1>7, <1>8, <1>9, <1>10, <1>11, <1>12, <1>13, <1>14,
       <1>15, <1>16, <1>17, <1>18, <1>19, <1>20, <1>21, <1>22, <1>23, <1>24, <1>25, <1>26,
       <1>27, <1>28, <1>29, <1>30, <1>31, <1>32, <1>33, <1>34, <1>35
       DEF Next, Handles, Manages, Outside, Submits

\* A crash gives the updates from one of them on.
LEMMA GivenFrom ==
  ASSUME TelegramType, NEW n \in {batch.from} \cup (batch.to + 1 .. Len(written) + 1)
  PROVE  n \in Nat \ {0}
  <1>1. batch.from \in Nat \ {0} /\ batch.to \in Nat /\ Len(written) \in Nat
    BY DEF TelegramType
  <1>2. QED
    BY <1>1

\* Every step keeps the types of Telegram.
LEMMA TelegramStep ==
  ASSUME PhaseInv, TelegramType, DatabaseType, RunType, CountInv, Next
  PROVE  TelegramType'
  <1> USE DEF telegram, yougile, database, history, counters, Submitters
  <1>1. ASSUME Take PROVE TelegramType'
    <2>1. inbox # <<>> /\ inbox' = Tail(inbox) /\ written' = written /\ Received(Head(inbox))
      BY <1>1 DEF Take
    <2>2. Head(inbox) \in Nat \ {0} /\ Len(written) \in Nat
      BY <2>1 DEF TelegramType, Known
    <2>3. batch' \in [from : Nat \ {0}, to : Nat]
      BY <2>1, <2>2 DEF Received, TelegramType
    <2>4. QED
      BY <2>1, <2>3 DEF TelegramType, Known
  <1>2. ASSUME Asked PROVE TelegramType'
    BY <1>2 DEF Asked, TelegramType, Known
  <1>3. ASSUME Reask PROVE TelegramType'
    BY <1>3 DEF Reask, TelegramType, Known
  <1>4. ASSUME Hold PROVE TelegramType'
    BY <1>4 DEF Hold, TelegramType, Known
  <1>5. ASSUME HoldSave PROVE TelegramType'
    BY <1>5 DEF HoldSave, TelegramType, Known
  <1>6. ASSUME Intro PROVE TelegramType'
    BY <1>6 DEF Intro, TelegramType, Known
  <1>7. ASSUME Greet PROVE TelegramType'
    BY <1>7 DEF Greet, TelegramType, Known
  <1>8. ASSUME Request PROVE TelegramType'
    BY <1>8 DEF Request, TelegramType, Known
  <1>9. ASSUME Requested PROVE TelegramType'
    BY <1>9 DEF Requested, TelegramType, Known
  <1>10. ASSUME InTopic PROVE TelegramType'
    BY <1>10 DEF InTopic, TelegramType, Known
  <1>11. ASSUME Post PROVE TelegramType'
    BY <1>11 DEF Post, TelegramType, Known
  <1>12. ASSUME LinkPost PROVE TelegramType'
    BY <1>12 DEF LinkPost, TelegramType, Known
  <1>13. ASSUME Compose PROVE TelegramType'
    BY <1>13 DEF Compose, TelegramType, Known
  <1>14. ASSUME Composed PROVE TelegramType'
    BY <1>14 DEF Composed, TelegramType, Known
  <1>15. ASSUME Cancel PROVE TelegramType'
    BY <1>15 DEF Cancel, TelegramType, Known
  <1>16. ASSUME Cancelled PROVE TelegramType'
    BY <1>16 DEF Cancelled, TelegramType, Known
  <1>17. ASSUME NEW w \in Submitters, Submit(w) PROVE TelegramType'
    BY <1>17 DEF Submit, TelegramType, Known
  <1>18. ASSUME NEW w \in Submitters, Create(w) PROVE TelegramType'
    BY <1>18 DEF Create, TelegramType, Known
  <1>19. ASSUME NEW w \in Submitters, AddRow(w) PROVE TelegramType'
    BY <1>19 DEF AddRow, TelegramType, Known
  <1>20. ASSUME NEW w \in Submitters, Tie(w) PROVE TelegramType'
    BY <1>20 DEF Tie, TelegramType, Known
  <1>21. ASSUME NEW w \in Submitters, LinkParts(w) PROVE TelegramType'
    BY <1>21 DEF LinkParts, TelegramType, Known
  <1>22. ASSUME NEW w \in Submitters, Clear(w) PROVE TelegramType'
    BY <1>22 DEF Clear, TelegramType, Known
  <1>23. ASSUME Decided PROVE TelegramType'
    BY <1>23 DEF Decided, TelegramType, Known
  <1>24. ASSUME HeldRead PROVE TelegramType'
    BY <1>24 DEF HeldRead, TelegramType, Known
  <1>25. ASSUME Forget PROVE TelegramType'
    BY <1>25 DEF Forget, TelegramType, Known
  <1>26. ASSUME Drop PROVE TelegramType'
    BY <1>26 DEF Drop, TelegramType, Known
  <1>27. ASSUME Reintro PROVE TelegramType'
    BY <1>27 DEF Reintro, TelegramType, Known
  <1>28. ASSUME Release PROVE TelegramType'
    BY <1>28 DEF Release, TelegramType, Known
  <1>29. ASSUME HeldCheck PROVE TelegramType'
    BY <1>29 DEF HeldCheck, TelegramType, Known
  <1>30. ASSUME HeldSave PROVE TelegramType'
    BY <1>30 DEF HeldSave, TelegramType, Known
  <1>31. ASSUME NEW t \in Topics, NEW kind \in {"text", "tap", "cancel"}, Write(t, kind)
        PROVE TelegramType'
    <2> DEFINE u == [topic |-> t, kind |-> kind, decisions |-> Settled, approvals |-> approvals,
                     project |-> IF sender.status = "approved" THEN sender.project ELSE NoProject]
    <2>1. /\ Len(written) < MaxWrites /\ written' = Append(written, u)
          /\ inbox' = Append(inbox, Len(written) + 1)
      BY <1>31 DEF Write
    <2>2. Settled \in Nat
      BY DEF Settled, CountInv
    <2>3. u \in Update
      BY <2>2 DEF Update, CountInv, DatabaseType
    <2> HIDE DEF u
    <2>4. written' \in Seq(Update) /\ Len(written') = Len(written) + 1 /\ Len(written) \in Nat
      BY <2>1, <2>3, AppendProperties DEF TelegramType
    <2>5. Known \subseteq Known' /\ Len(written) + 1 \in Known'
      BY <2>4 DEF Known
    <2>6. inbox \in Seq(Known')
      BY <2>5 DEF TelegramType
    <2>7. inbox' \in Seq(Known')
      BY <2>1, <2>5, <2>6, AppendProperties
    <2>8. batch' = batch
      BY <1>31 DEF Write
    <2>9. QED
      BY <2>1, <2>4, <2>7, <2>8, Parameters DEF TelegramType
  <1>32. ASSUME NEW action \in Actions, NEW p \in Projects \cup {NoProject}, Decide(action, p)
        PROVE TelegramType'
    BY <1>32 DEF Decide, TelegramType, Known
  <1>33. ASSUME CliBlock PROVE TelegramType'
    BY <1>33 DEF CliBlock, TelegramType, Known
  <1>34. ASSUME CliDrop PROVE TelegramType'
    BY <1>34 DEF CliDrop, TelegramType, Known
  <1>35. ASSUME Crash PROVE TelegramType'
    <2>1. PICK n \in Nat \ {0} : inbox' = From(n) /\ batch' = [from |-> n, to |-> n - 1]
      BY <1>35, GivenFrom DEF Crash
    <2>2. written' = written
      BY <1>35 DEF Crash
    <2>3. Known' = Known
      BY <2>2 DEF Known
    <2>4. inbox' \in Seq(Known') /\ batch' \in [from : Nat \ {0}, to : Nat]
      BY <2>1, <2>3, FromIs
    <2>5. QED
      BY <2>2, <2>4 DEF TelegramType
  <1>36. QED
    BY <1>1, <1>2, <1>3, <1>4, <1>5, <1>6, <1>7, <1>8, <1>9, <1>10, <1>11, <1>12, <1>13, <1>14,
       <1>15, <1>16, <1>17, <1>18, <1>19, <1>20, <1>21, <1>22, <1>23, <1>24, <1>25, <1>26,
       <1>27, <1>28, <1>29, <1>30, <1>31, <1>32, <1>33, <1>34, <1>35
       DEF Next, Handles, Manages, Outside, Submits

\* Every step keeps the types of YouGile.
LEMMA YouGileStep ==
  ASSUME PhaseInv, TelegramType, YouGileType, RunType, ActType, Next
  PROVE  YouGileType'
  <1> USE DEF telegram, yougile, database, history, counters, Submitters
  <1>1. ASSUME Take PROVE YouGileType'
    BY <1>1 DEF Take, YouGileType
  <1>2. ASSUME Asked PROVE YouGileType'
    BY <1>2 DEF Asked, YouGileType
  <1>3. ASSUME Reask PROVE YouGileType'
    BY <1>3 DEF Reask, YouGileType
  <1>4. ASSUME Hold PROVE YouGileType'
    BY <1>4 DEF Hold, YouGileType
  <1>5. ASSUME HoldSave PROVE YouGileType'
    BY <1>5 DEF HoldSave, YouGileType
  <1>6. ASSUME Intro PROVE YouGileType'
    BY <1>6 DEF Intro, YouGileType
  <1>7. ASSUME Greet PROVE YouGileType'
    BY <1>7 DEF Greet, YouGileType
  <1>8. ASSUME Request PROVE YouGileType'
    BY <1>8 DEF Request, YouGileType
  <1>9. ASSUME Requested PROVE YouGileType'
    BY <1>9 DEF Requested, YouGileType
  <1>10. ASSUME InTopic PROVE YouGileType'
    BY <1>10 DEF InTopic, YouGileType
  <1>11. ASSUME Post PROVE YouGileType'
    BY <1>11 DEF Post, YouGileType
  <1>12. ASSUME LinkPost PROVE YouGileType'
    BY <1>12 DEF LinkPost, YouGileType
  <1>13. ASSUME Compose PROVE YouGileType'
    BY <1>13 DEF Compose, YouGileType
  <1>14. ASSUME Composed PROVE YouGileType'
    BY <1>14 DEF Composed, YouGileType
  <1>15. ASSUME Cancel PROVE YouGileType'
    BY <1>15 DEF Cancel, YouGileType
  <1>16. ASSUME Cancelled PROVE YouGileType'
    BY <1>16 DEF Cancelled, YouGileType
  <1>17. ASSUME NEW w \in Submitters, Submit(w) PROVE YouGileType'
    BY <1>17 DEF Submit, YouGileType
  <1>18. ASSUME NEW w \in Submitters, Create(w) PROVE YouGileType'
    <2>1. run[w].draft.key \in Keys /\ run[w].project \in Projects
          /\ run[w].draft.parts \subseteq Messages
      BY <1>18, Sends, LocalIs DEF Create, Filing
    <2> DEFINE task == [project |-> run[w].project, body |-> run[w].draft.parts]
    <2>3. tasks' = tasks \/ tasks' = [tasks EXCEPT ![run[w].draft.key] = task]
      BY <1>18 DEF Create, Filed
    <2>4. task \in [project : Projects \cup {NoProject}, body : SUBSET Messages]
          /\ task.project \in Projects
      BY <2>1
    <2> HIDE DEF task
    <2>5. posts' = posts
      BY <1>18 DEF Create
    <2>6. CASE tasks' = tasks
      BY <2>5, <2>6 DEF YouGileType
    <2>7. CASE tasks' = [tasks EXCEPT ![run[w].draft.key] = task]
      BY <2>1, <2>4, <2>5, <2>7 DEF YouGileType
    <2>8. QED
      BY <2>3, <2>6, <2>7
  <1>19. ASSUME NEW w \in Submitters, AddRow(w) PROVE YouGileType'
    BY <1>19 DEF AddRow, YouGileType
  <1>20. ASSUME NEW w \in Submitters, Tie(w) PROVE YouGileType'
    BY <1>20 DEF Tie, YouGileType
  <1>21. ASSUME NEW w \in Submitters, LinkParts(w) PROVE YouGileType'
    BY <1>21 DEF LinkParts, YouGileType
  <1>22. ASSUME NEW w \in Submitters, Clear(w) PROVE YouGileType'
    BY <1>22 DEF Clear, YouGileType
  <1>23. ASSUME Decided PROVE YouGileType'
    BY <1>23 DEF Decided, YouGileType
  <1>24. ASSUME HeldRead PROVE YouGileType'
    BY <1>24 DEF HeldRead, YouGileType
  <1>25. ASSUME Forget PROVE YouGileType'
    BY <1>25 DEF Forget, YouGileType
  <1>26. ASSUME Drop PROVE YouGileType'
    BY <1>26 DEF Drop, YouGileType
  <1>27. ASSUME Reintro PROVE YouGileType'
    BY <1>27 DEF Reintro, YouGileType
  <1>28. ASSUME Release PROVE YouGileType'
    BY <1>28 DEF Release, YouGileType
  <1>29. ASSUME HeldCheck PROVE YouGileType'
    BY <1>29 DEF HeldCheck, YouGileType
  <1>30. ASSUME HeldSave PROVE YouGileType'
    BY <1>30 DEF HeldSave, YouGileType
  <1>31. ASSUME NEW t \in Topics, NEW kind \in {"text", "tap", "cancel"}, Write(t, kind)
        PROVE YouGileType'
    BY <1>31 DEF Write, YouGileType
  <1>32. ASSUME NEW action \in Actions, NEW p \in Projects \cup {NoProject}, Decide(action, p)
        PROVE YouGileType'
    BY <1>32 DEF Decide, YouGileType
  <1>33. ASSUME CliBlock PROVE YouGileType'
    BY <1>33 DEF CliBlock, YouGileType
  <1>34. ASSUME CliDrop PROVE YouGileType'
    BY <1>34 DEF CliDrop, YouGileType
  <1>35. ASSUME Crash PROVE YouGileType'
    BY <1>35 DEF Crash, YouGileType
  <1>36. QED
    BY <1>1, <1>2, <1>3, <1>4, <1>5, <1>6, <1>7, <1>8, <1>9, <1>10, <1>11, <1>12, <1>13, <1>14,
       <1>15, <1>16, <1>17, <1>18, <1>19, <1>20, <1>21, <1>22, <1>23, <1>24, <1>25, <1>26,
       <1>27, <1>28, <1>29, <1>30, <1>31, <1>32, <1>33, <1>34, <1>35
       DEF Next, Handles, Manages, Outside, Submits

\* Every step keeps the types of the database.
LEMMA DatabaseStep ==
  ASSUME PhaseInv, TelegramType, DatabaseType, RunType, ActType, Next
  PROVE  DatabaseType'
  <1> USE DEF telegram, yougile, database, history, counters, Submitters
  <1>1. ASSUME Take PROVE DatabaseType'
    BY <1>1 DEF Take, DatabaseType
  <1>2. ASSUME Asked PROVE DatabaseType'
    BY <1>2 DEF Asked, DatabaseType
  <1>3. ASSUME Reask PROVE DatabaseType'
    BY <1>3 DEF Reask, DatabaseType
  <1>4. ASSUME Hold PROVE DatabaseType'
    BY <1>4 DEF Hold, DatabaseType
  <1>5. ASSUME HoldSave PROVE DatabaseType'
    BY <1>5 DEF HoldSave, DatabaseType
  <1>6. ASSUME Intro PROVE DatabaseType'
    BY <1>6 DEF Intro, DatabaseType
  <1>7. ASSUME Greet PROVE DatabaseType'
    BY <1>7 DEF Greet, DatabaseType
  <1>8. ASSUME Request PROVE DatabaseType'
    <2>1. sender' = sender \/ sender' = [sender EXCEPT !.status = "pending"]
      BY <1>8 DEF Request
    <2>2. rows' = rows /\ links' = links
      BY <1>8 DEF Request
    <2>3. [sender EXCEPT !.status = "pending"] \in [status : Statuses, project : Projects \cup {NoProject}]
      BY DEF DatabaseType, Statuses
    <2>4. [sender EXCEPT !.status = "pending"].status # "approved"
      BY DEF DatabaseType
    <2>5. QED
      BY <2>1, <2>2, <2>3, <2>4 DEF DatabaseType
  <1>9. ASSUME Requested PROVE DatabaseType'
    BY <1>9 DEF Requested, DatabaseType
  <1>10. ASSUME InTopic PROVE DatabaseType'
    BY <1>10 DEF InTopic, DatabaseType
  <1>11. ASSUME Post PROVE DatabaseType'
    BY <1>11 DEF Post, DatabaseType
  <1>12. ASSUME LinkPost PROVE DatabaseType'
    <2>1. run["person"].msg \in Messages /\ run["person"].draft.key \in Keys
      BY <1>12, KnownIs, Sends DEF LinkPost, RunType
    <2>2. links' \in {links, links \cup {<<run["person"].msg, run["person"].draft.key>>}}
          /\ UNCHANGED <<sender, rows>>
      BY <1>12 DEF LinkPost, Linked
    <2>3. QED
      BY <2>1, <2>2 DEF DatabaseType
  <1>13. ASSUME Compose PROVE DatabaseType'
    BY <1>13 DEF Compose, DatabaseType
  <1>14. ASSUME Composed PROVE DatabaseType'
    BY <1>14 DEF Composed, DatabaseType
  <1>15. ASSUME Cancel PROVE DatabaseType'
    BY <1>15 DEF Cancel, DatabaseType
  <1>16. ASSUME Cancelled PROVE DatabaseType'
    BY <1>16 DEF Cancelled, DatabaseType
  <1>17. ASSUME NEW w \in Submitters, Submit(w) PROVE DatabaseType'
    BY <1>17 DEF Submit, DatabaseType
  <1>18. ASSUME NEW w \in Submitters, Create(w) PROVE DatabaseType'
    BY <1>18 DEF Create, DatabaseType
  <1>19. ASSUME NEW w \in Submitters, AddRow(w) PROVE DatabaseType'
    BY <1>19 DEF AddRow, DatabaseType
  <1>20. ASSUME NEW w \in Submitters, Tie(w) PROVE DatabaseType'
    <2>1. run[w].topic \in Topics /\ run[w].draft.key \in Keys
      BY <1>20, LocalIs, Sends DEF Tie, Filing
    <2>2. rows' = [rows EXCEPT ![run[w].draft.key] = run[w].topic] /\ UNCHANGED <<sender, links>>
      BY <1>20 DEF Tie
    <2>3. QED
      BY <2>1, <2>2 DEF DatabaseType
  <1>21. ASSUME NEW w \in Submitters, LinkParts(w) PROVE DatabaseType'
    <2>1. run[w].left \subseteq Messages /\ run[w].draft.key \in Keys
      BY <1>21, LocalIs, Sends DEF LinkParts, Filing
    <2>2. links' = links \/ \E m \in run[w].left : links' = links \cup {<<m, run[w].draft.key>>}
      BY <1>21 DEF LinkParts, Linked
    <2>3. UNCHANGED <<sender, rows>>
      BY <1>21 DEF LinkParts
    <2>4. QED
      BY <2>1, <2>2, <2>3 DEF DatabaseType
  <1>22. ASSUME NEW w \in Submitters, Clear(w) PROVE DatabaseType'
    BY <1>22 DEF Clear, DatabaseType
  <1>23. ASSUME Decided PROVE DatabaseType'
    <2> DEFINE project == IF act.project = NoProject THEN sender.project ELSE act.project
    <2>1. sender' = [status |-> NewStatus[act.kind], project |-> project]
          /\ UNCHANGED <<rows, links>>
      BY <1>23 DEF Decided
    <2>2. act.kind \in Actions /\ (act.kind \in {"approve", "move"} => act.project \in Projects)
      BY <1>23 DEF Decided, ActType
    <2>3. project \in Projects \cup {NoProject}
          /\ (act.project \in Projects => project \in Projects)
      BY Parameters DEF DatabaseType, ActType
    <2>4. NewStatus[act.kind] \in Statuses
          /\ (NewStatus[act.kind] = "approved" => act.kind \in {"approve", "move"})
      BY <2>2 DEF NewStatus, Actions, Statuses
    <2> HIDE DEF project
    <2>5. QED
      BY <2>1, <2>2, <2>3, <2>4 DEF DatabaseType
  <1>24. ASSUME HeldRead PROVE DatabaseType'
    BY <1>24 DEF HeldRead, DatabaseType
  <1>25. ASSUME Forget PROVE DatabaseType'
    BY <1>25 DEF Forget, DatabaseType
  <1>26. ASSUME Drop PROVE DatabaseType'
    BY <1>26 DEF Drop, DatabaseType
  <1>27. ASSUME Reintro PROVE DatabaseType'
    BY <1>27 DEF Reintro, DatabaseType
  <1>28. ASSUME Release PROVE DatabaseType'
    BY <1>28 DEF Release, DatabaseType
  <1>29. ASSUME HeldCheck PROVE DatabaseType'
    BY <1>29 DEF HeldCheck, DatabaseType
  <1>30. ASSUME HeldSave PROVE DatabaseType'
    BY <1>30 DEF HeldSave, DatabaseType
  <1>31. ASSUME NEW t \in Topics, NEW kind \in {"text", "tap", "cancel"}, Write(t, kind)
        PROVE DatabaseType'
    BY <1>31 DEF Write, DatabaseType
  <1>32. ASSUME NEW action \in Actions, NEW p \in Projects \cup {NoProject}, Decide(action, p)
        PROVE DatabaseType'
    BY <1>32 DEF Decide, DatabaseType
  <1>33. ASSUME CliBlock PROVE DatabaseType'
    <2>1. sender' = [sender EXCEPT !.status = "blocked"] /\ rows' = rows /\ links' = links
      BY <1>33 DEF CliBlock
    <2>2. sender' \in [status : Statuses, project : Projects \cup {NoProject}]
          /\ sender'.status = "blocked"
      BY <2>1 DEF DatabaseType, Statuses
    <2>3. QED
      BY <2>1, <2>2 DEF DatabaseType
  <1>34. ASSUME CliDrop PROVE DatabaseType'
    BY <1>34 DEF CliDrop, DatabaseType
  <1>35. ASSUME Crash PROVE DatabaseType'
    BY <1>35 DEF Crash, DatabaseType
  <1>36. QED
    BY <1>1, <1>2, <1>3, <1>4, <1>5, <1>6, <1>7, <1>8, <1>9, <1>10, <1>11, <1>12, <1>13, <1>14,
       <1>15, <1>16, <1>17, <1>18, <1>19, <1>20, <1>21, <1>22, <1>23, <1>24, <1>25, <1>26,
       <1>27, <1>28, <1>29, <1>30, <1>31, <1>32, <1>33, <1>34, <1>35
       DEF Next, Handles, Manages, Outside, Submits

\* Every step keeps drafts proper.
LEMMA DraftsStep ==
  ASSUME PhaseInv, TelegramType, DraftsType, RunType, CountInv, Next
  PROVE  DraftsType'
  <1> USE DEF telegram, yougile, database, history, counters, Submitters
  <1>1. ASSUME Take PROVE DraftsType'
    BY <1>1, Blanks DEF Take, DraftsType
  <1>2. ASSUME Asked PROVE DraftsType'
    BY <1>2, Blanks DEF Asked, DraftsType
  <1>3. ASSUME Reask PROVE DraftsType'
    <2>1. note' = [seen EXCEPT !.step = "pending"] /\ UNCHANGED <<seen, drafts, held>>
      BY <1>3 DEF Reask
    <2>2. note' \in Letter
      BY <2>1 DEF DraftsType, Letter
    <2>3. QED
      BY <2>1, <2>2 DEF DraftsType
  <1>4. ASSUME Hold PROVE DraftsType'
    BY <1>4, Blanks DEF Hold, DraftsType
  <1>5. ASSUME HoldSave PROVE DraftsType'
    <2> DEFINE r == run["person"]
               more == With(seen.held[r.topic], r.msg)
    <2>1. /\ note' = [step |-> IF seen.step = "none" THEN "pending" ELSE seen.step,
                      held |-> [seen.held EXCEPT ![r.topic] = more]]
          /\ UNCHANGED <<seen, drafts, held>>
      BY <1>5 DEF HoldSave
    <2>2. r.topic \in Topics /\ r.msg \in Messages
      BY <1>5, LocalIs, KnownIs DEF HoldSave, RunType
    <2>3. seen.held \in [Topics -> Proper] /\ seen.step \in {"none", "intro", "pending"}
      BY DEF DraftsType, Letter
    <2>4. keys + 1 \in Keys
      BY <1>5, NextKey DEF HoldSave, Unminted, Strange
    <2>5. more \in Proper
      BY <2>2, <2>3, <2>4, Begun
    <2> HIDE DEF r, more
    <2>6. [seen.held EXCEPT ![r.topic] = more] \in [Topics -> Proper]
      BY <2>3, <2>5
    <2>7. note' \in Letter
      BY <2>1, <2>3, <2>6 DEF Letter
    <2>8. QED
      BY <2>1, <2>7 DEF DraftsType
  <1>6. ASSUME Intro PROVE DraftsType'
    BY <1>6, Blanks DEF Intro, DraftsType
  <1>7. ASSUME Greet PROVE DraftsType'
    BY <1>7, Blanks DEF Greet, DraftsType
  <1>8. ASSUME Request PROVE DraftsType'
    BY <1>8, Blanks DEF Request, DraftsType
  <1>9. ASSUME Requested PROVE DraftsType'
    BY <1>9, Blanks DEF Requested, DraftsType
  <1>10. ASSUME InTopic PROVE DraftsType'
    BY <1>10, Blanks DEF InTopic, DraftsType
  <1>11. ASSUME Post PROVE DraftsType'
    BY <1>11, Blanks DEF Post, DraftsType
  <1>12. ASSUME LinkPost PROVE DraftsType'
    BY <1>12, Blanks DEF LinkPost, DraftsType
  <1>13. ASSUME Compose PROVE DraftsType'
    BY <1>13, Blanks DEF Compose, DraftsType
  <1>14. ASSUME Composed PROVE DraftsType'
    <2> DEFINE r == run["person"]
               more == With(r.draft, r.msg)
    <2>1. drafts' = [drafts EXCEPT ![r.topic] = more] /\ UNCHANGED <<note, seen, held>>
      BY <1>14 DEF Composed
    <2>2. r.msg \in Messages /\ r.draft \in Proper
      BY <1>14, LocalIs, KnownIs DEF Composed, RunType
    <2>3. keys + 1 \in Keys
      BY <1>14, NextKey DEF Composed, Unminted
    <2>4. more \in Proper
      BY <2>2, <2>3, Begun
    <2> HIDE DEF r, more
    <2>5. QED
      BY <2>1, <2>4 DEF DraftsType
  <1>15. ASSUME Cancel PROVE DraftsType'
    BY <1>15, Blanks DEF Cancel, DraftsType
  <1>16. ASSUME Cancelled PROVE DraftsType'
    BY <1>16, Blanks DEF Cancelled, DraftsType
  <1>17. ASSUME NEW w \in Submitters, Submit(w) PROVE DraftsType'
    BY <1>17, Blanks DEF Submit, DraftsType
  <1>18. ASSUME NEW w \in Submitters, Create(w) PROVE DraftsType'
    BY <1>18, Blanks DEF Create, DraftsType
  <1>19. ASSUME NEW w \in Submitters, AddRow(w) PROVE DraftsType'
    BY <1>19, Blanks DEF AddRow, DraftsType
  <1>20. ASSUME NEW w \in Submitters, Tie(w) PROVE DraftsType'
    BY <1>20, Blanks DEF Tie, DraftsType
  <1>21. ASSUME NEW w \in Submitters, LinkParts(w) PROVE DraftsType'
    BY <1>21, Blanks DEF LinkParts, DraftsType
  <1>22. ASSUME NEW w \in Submitters, Clear(w) PROVE DraftsType'
    BY <1>22, Blanks DEF Clear, DraftsType
  <1>23. ASSUME Decided PROVE DraftsType'
    BY <1>23, Blanks DEF Decided, DraftsType
  <1>24. ASSUME HeldRead PROVE DraftsType'
    <2>1. held' = note.held /\ UNCHANGED <<note, seen, drafts>>
      BY <1>24 DEF HeldRead
    <2>2. QED
      BY <2>1 DEF DraftsType, Letter
  <1>25. ASSUME Forget PROVE DraftsType'
    BY <1>25, Blanks DEF Forget, DraftsType
  <1>26. ASSUME Drop PROVE DraftsType'
    BY <1>26, Blanks DEF Drop, DraftsType
  <1>27. ASSUME Reintro PROVE DraftsType'
    BY <1>27, Blanks DEF Reintro, DraftsType
  <1>28. ASSUME Release PROVE DraftsType'
    BY <1>28, Blanks DEF Release, DraftsType
  <1>29. ASSUME HeldCheck PROVE DraftsType'
    BY <1>29, Blanks DEF HeldCheck, DraftsType
  <1>30. ASSUME HeldSave PROVE DraftsType'
    BY <1>30, Blanks DEF HeldSave, DraftsType
  <1>31. ASSUME NEW t \in Topics, NEW kind \in {"text", "tap", "cancel"}, Write(t, kind)
        PROVE DraftsType'
    BY <1>31, Blanks DEF Write, DraftsType
  <1>32. ASSUME NEW action \in Actions, NEW p \in Projects \cup {NoProject}, Decide(action, p)
        PROVE DraftsType'
    BY <1>32, Blanks DEF Decide, DraftsType
  <1>33. ASSUME CliBlock PROVE DraftsType'
    BY <1>33, Blanks DEF CliBlock, DraftsType
  <1>34. ASSUME CliDrop PROVE DraftsType'
    BY <1>34, Blanks DEF CliDrop, DraftsType
  <1>35. ASSUME Crash PROVE DraftsType'
    BY <1>35, Blanks DEF Crash, DraftsType
  <1>36. QED
    BY <1>1, <1>2, <1>3, <1>4, <1>5, <1>6, <1>7, <1>8, <1>9, <1>10, <1>11, <1>12, <1>13, <1>14,
       <1>15, <1>16, <1>17, <1>18, <1>19, <1>20, <1>21, <1>22, <1>23, <1>24, <1>25, <1>26,
       <1>27, <1>28, <1>29, <1>30, <1>31, <1>32, <1>33, <1>34, <1>35
       DEF Next, Handles, Manages, Outside, Submits

\* Every step keeps the locals of the workers.
LEMMA RunStep ==
  ASSUME PhaseInv, TelegramType, DatabaseType, DraftsType, RunType, ActType, Next
  PROVE  RunType'
  <1> USE DEF telegram, yougile, database, history, counters, Submitters
  <1>1. ASSUME Take PROVE RunType'
    <2> DEFINE m == Head(inbox)
               l == [NoLocals EXCEPT !.topic = written[m].topic, !.msg = m, !.project = BoundTo]
    <2>a. m \in Known
      BY <1>1, HeadTailProperties DEF Take, TelegramType
    <2>1. m \in Known /\ written[m].topic \in Topics
      <3>1. written[m] \in Update
        BY <2>a, ElementOfSeq DEF TelegramType, Known
      <3>2. QED
        BY <2>a, <3>1 DEF Update
    <2>2. l \in Local /\ l.msg = m /\ l.project = sender.project
      BY <2>1, KnownIs, Blanks DEF DatabaseType, Local, BoundTo
    <2>3. PICK phase \in Way(sender.status, written[m].kind) :
             pc' = [pc EXCEPT !["person"] = phase]
             /\ run' = IF phase = "idle" THEN run ELSE [run EXCEPT !["person"] = l]
      BY <1>1 DEF Take, Goto
    <2>4. phase \in Past => sender.status = "approved"
      BY <2>3 DEF Way, Past, Sending, Filing
    <2>5. phase \notin Filing \cup {"post", "link"}
      BY <2>3 DEF Way, Filing
    <2>6. written' = written /\ pc["person"] = "idle"
      BY <1>1 DEF Take
    <2>7. pc'["person"] = phase /\ \A v \in Workers \ {"person"} : pc'[v] = pc[v]
      BY <2>3 DEF PhaseInv, Workers
    <2> HIDE DEF l, m
    <2>8. CASE phase = "idle"
      <3>1. run["person"] \in Local /\ run' = [run EXCEPT !["person"] = run["person"]]
        BY <2>3, <2>8, RunKept
      <3>2. QED
        BY <2>5, <2>6, <2>7, <2>8, <3>1, RunSet DEF Past, Sending, Filing
    <2>9. CASE phase # "idle"
      BY <2>1, <2>2, <2>3, <2>4, <2>5, <2>6, <2>7, <2>9, RunSet DEF DatabaseType
    <2>10. QED
      BY <2>8, <2>9
  <1>2. ASSUME Asked PROVE RunType'
    BY <1>2, Blanks DEF Asked, Goto, RunType, PhaseInv, Workers, Past, Sending, Filing,
       Strange, Releasing,
          Known
  <1>3. ASSUME Reask PROVE RunType'
    BY <1>3, Blanks DEF Reask, Goto, RunType, PhaseInv, Workers, Past, Sending, Filing,
       Strange, Releasing,
          Known
  <1>4. ASSUME Hold PROVE RunType'
    BY <1>4, Blanks DEF Hold, Goto, RunType, PhaseInv, Workers, Past, Sending, Filing, Strange,
       Releasing,
          Known
  <1>5. ASSUME HoldSave PROVE RunType'
    BY <1>5, Blanks DEF HoldSave, Goto, RunType, PhaseInv, Workers, Past, Sending, Filing,
       Strange, Releasing,
          Known
  <1>6. ASSUME Intro PROVE RunType'
    BY <1>6, Blanks DEF Intro, Goto, RunType, PhaseInv, Workers, Past, Sending, Filing,
       Strange, Releasing,
          Known
  <1>7. ASSUME Greet PROVE RunType'
    BY <1>7, Blanks DEF Greet, Goto, RunType, PhaseInv, Workers, Past, Sending, Filing,
       Strange, Releasing,
          Known
  <1>8. ASSUME Request PROVE RunType'
    BY <1>8, Blanks DEF Request, Goto, RunType, PhaseInv, Workers, Past, Sending, Filing,
       Strange, Releasing,
          Known
  <1>9. ASSUME Requested PROVE RunType'
    BY <1>9, Blanks DEF Requested, Goto, RunType, PhaseInv, Workers, Past, Sending, Filing,
       Strange, Releasing,
          Known
  <1>10. ASSUME InTopic PROVE RunType'
    <2>1. Moved("person", "topic", {"idle", "post", "compose"}) /\ written' = written
      BY <1>10, Moves DEF InTopic
    <2>2. CASE run' = run /\ pc'["person"] \in {"idle", "compose"}
      <3>1. run["person"] \in Local /\ run' = [run EXCEPT !["person"] = run["person"]]
        BY <2>2, RunKept
      <3>2. run["person"].msg \in Known /\ run["person"].project \in Projects
        BY <2>1 DEF Moved, RunType, Past
      <3>3. QED
        BY <2>1, <2>2, <3>1, <3>2, RunSet DEF Moved, Filing
    <2>3. ASSUME NEW k \in Keys,
                 run' = [run EXCEPT !["person"].draft = [key |-> k, parts |-> {}]]
          PROVE  RunType'
      <3> DEFINE d == [key |-> k, parts |-> {}]
                 l == [run["person"] EXCEPT !.draft = d]
      <3>1. d \in Proper /\ d.key # 0
        BY DEF Proper, Draft, Keys
      <3> HIDE DEF d
      <3>2. run["person"] \in Local /\ run["person"].msg \in Known
            /\ run["person"].project \in Projects
        BY <2>1 DEF Moved, RunType, Past
      <3>3. l \in Local /\ l.msg \in Known /\ l.project \in Projects /\ l.draft = d
        BY <3>1, <3>2 DEF Local
      <3>4. run' = [run EXCEPT !["person"] = l]
        BY <2>3 DEF d
      <3> HIDE DEF l
      <3>5. QED
        BY <2>1, <3>1, <3>3, <3>4, RunSet DEF Moved
    <2>4. pc["person"] = "topic" /\ pc \in [Workers -> Phases]
      BY <1>10 DEF InTopic, PhaseInv
    <2>5. \/ run' = run /\ pc'["person"] \in {"idle", "compose"}
          \/ \E k \in Keys : run' = [run EXCEPT !["person"].draft = [key |-> k, parts |-> {}]]
      BY <1>10, <2>4 DEF InTopic, TicketsOf, Goto, Workers
    <2>6. QED
      BY <2>2, <2>3, <2>5
  <1>11. ASSUME Post PROVE RunType'
    BY <1>11, Blanks DEF Post, Goto, RunType, PhaseInv, Workers, Past, Sending, Filing,
       Strange, Releasing,
          Known
  <1>12. ASSUME LinkPost PROVE RunType'
    BY <1>12, Blanks DEF LinkPost, Goto, RunType, PhaseInv, Workers, Past, Sending, Filing,
       Strange, Releasing,
          Known
  <1>13. ASSUME Compose PROVE RunType'
    <2> DEFINE d == drafts[run["person"].topic]
               l == [run["person"] EXCEPT !.draft = d]
    <2>1. Moved("person", "compose", {"idle", "composed"}) /\ written' = written
      BY <1>13, Moves DEF Compose
    <2>2. run["person"] \in Local /\ run["person"].msg \in Known
          /\ run["person"].project \in Projects
      BY <2>1 DEF Moved, RunType, Past
    <2>3. d \in Proper
      BY LocalIs DEF DraftsType
    <2>4. run' = run \/ run' = [run EXCEPT !["person"] = l]
      BY <1>13 DEF Compose
    <2> HIDE DEF d
    <2>5. l \in Local /\ l.msg \in Known /\ l.project \in Projects
      BY <2>2, <2>3 DEF Local
    <2> HIDE DEF l
    <2>6. CASE run' = run
      BY <2>1, <2>2, <2>6, RunKept, RunSet DEF Moved, Filing
    <2>7. CASE run' = [run EXCEPT !["person"] = l]
      BY <2>1, <2>5, <2>7, RunSet DEF Moved, Filing
    <2>8. QED
      BY <2>4, <2>6, <2>7
  <1>14. ASSUME Composed PROVE RunType'
    BY <1>14, Blanks DEF Composed, Goto, RunType, PhaseInv, Workers, Past, Sending, Filing,
       Strange, Releasing,
          Known
  <1>15. ASSUME Cancel PROVE RunType'
    BY <1>15, Blanks DEF Cancel, Goto, RunType, PhaseInv, Workers, Past, Sending, Filing,
       Strange, Releasing,
          Known
  <1>16. ASSUME Cancelled PROVE RunType'
    BY <1>16, Blanks DEF Cancelled, Goto, RunType, PhaseInv, Workers, Past, Sending, Filing,
       Strange, Releasing,
          Known
  <1>17. ASSUME NEW w \in Submitters, Submit(w) PROVE RunType'
    <2> DEFINE d == drafts[run[w].topic]
               l == [run[w] EXCEPT !.draft = d]
    <2>1. Moved(w, "submit", {"create", AfterAll(w)}) /\ written' = written
      BY <1>17, Moves DEF Submit
    <2>2. run[w] \in Local /\ (w = "person" => run[w].msg \in Known
          /\ run[w].project \in Projects)
      BY <2>1 DEF Moved, RunType, Past, Sending
    <2>3. d \in Proper
      BY LocalIs DEF DraftsType
    <2>4. \/ run' = run /\ pc'[w] = AfterAll(w)
          \/ d # NoDraft /\ run' = [run EXCEPT ![w] = l]
      BY <1>17 DEF Submit, Done, Goto, AfterAll, PhaseInv, Workers
    <2>5. d # NoDraft => d.key # 0
      BY <2>3 DEF Proper
    <2> HIDE DEF d
    <2>6. l \in Local /\ l.msg = run[w].msg /\ l.project = run[w].project /\ l.draft = d
      BY <2>2, <2>3 DEF Local
    <2> HIDE DEF l
    <2>7. CASE run' = run /\ pc'[w] = AfterAll(w)
      BY <2>1, <2>2, <2>7, RunKept, RunSet DEF Moved, Filing, AfterAll
    <2>8. CASE d # NoDraft /\ run' = [run EXCEPT ![w] = l]
      BY <2>1, <2>2, <2>5, <2>6, <2>8, RunSet DEF Moved
    <2>9. QED
      BY <2>4, <2>7, <2>8
  <1>18. ASSUME NEW w \in Submitters, Create(w) PROVE RunType'
    BY <1>18, Blanks DEF Create, Goto, GivesUp, Done, RunType, PhaseInv, Workers, Past,
       Sending, Filing, Strange, Releasing,
          Known
  <1>19. ASSUME NEW w \in Submitters, AddRow(w) PROVE RunType'
    BY <1>19, Blanks DEF AddRow, Goto, RunType, PhaseInv, Workers, Past, Sending, Filing,
       Strange, Releasing,
          Known
  <1>20. ASSUME NEW w \in Submitters, Tie(w) PROVE RunType'
    <2> DEFINE l == [run[w] EXCEPT !.left = run[w].draft.parts]
    <2>1. run' = [run EXCEPT ![w] = l] /\ written' = written /\ pc[w] = "tie"
          /\ pc' = [pc EXCEPT ![w] = "linkparts"]
      BY <1>20 DEF Tie, Goto
    <2>2. run[w] \in Local /\ (w = "person" => run[w].msg \in Known
          /\ run[w].project \in Projects)
          /\ run[w].draft.key # 0
      BY <2>1 DEF RunType, Past, Sending, Filing
    <2>3. l \in Local /\ l.msg = run[w].msg /\ l.project = run[w].project
          /\ l.draft = run[w].draft
      BY <2>2, LocalIs DEF Local
    <2> HIDE DEF l
    <2>4. QED
      BY <2>1, <2>2, <2>3, RunSet DEF PhaseInv, Workers
  <1>21. ASSUME NEW w \in Submitters, LinkParts(w) PROVE RunType'
    <2>1. pc[w] = "linkparts" /\ written' = written
          /\ Moved(w, "linkparts", {"linkparts", "clear"})
      BY <1>21, Moves DEF LinkParts
    <2>2. run[w] \in Local /\ (w = "person" => run[w].msg \in Known
          /\ run[w].project \in Projects)
          /\ run[w].draft.key # 0
      BY <2>1 DEF RunType, Past, Sending, Filing
    <2>3. CASE run' = run
      BY <2>1, <2>2, <2>3, RunKept, RunSet DEF Moved
    <2>4. ASSUME NEW m \in run[w].left, run' = [run EXCEPT ![w].left = run[w].left \ {m}]
          PROVE  RunType'
      <3> DEFINE l == [run[w] EXCEPT !.left = run[w].left \ {m}]
      <3>1. run' = [run EXCEPT ![w] = l]
        BY <2>4
      <3>2. l \in Local /\ l.msg = run[w].msg /\ l.project = run[w].project
            /\ l.draft = run[w].draft
        BY <2>2, LocalIs DEF Local
      <3> HIDE DEF l
      <3>3. QED
        BY <2>1, <2>2, <3>1, <3>2, RunSet DEF Moved
    <2>5. run' = run \/ \E m \in run[w].left : run' = [run EXCEPT ![w].left = run[w].left \ {m}]
      BY <1>21 DEF LinkParts
    <2>6. QED
      BY <2>3, <2>4, <2>5
  <1>22. ASSUME NEW w \in Submitters, Clear(w) PROVE RunType'
    <2> DEFINE l == [run[w] EXCEPT !.draft = NoDraft]
    <2>1. run' = [run EXCEPT ![w] = l] /\ written' = written /\ Moved(w, "clear", {AfterAll(w)})
      BY <1>22, Moves DEF Clear
    <2>2. run[w] \in Local
      BY DEF RunType
    <2>3. l \in Local
      BY <2>2, Blanks DEF Local
    <2> HIDE DEF l
    <2>4. QED
      BY <2>1, <2>3, RunSet DEF Moved, AfterAll, Past, Sending, Filing
  <1>23. ASSUME Decided PROVE RunType'
    <2> DEFINE project == IF act.project = NoProject THEN sender.project ELSE act.project
               l == [NoLocals EXCEPT !.project = project]
    <2>1. run' = [run EXCEPT !["manager"] = l] /\ written' = written
      BY <1>23 DEF Decided
    <2>2. project \in Projects \cup {NoProject}
      BY DEF DatabaseType, ActType
    <2> HIDE DEF project
    <2>3. l \in Local
      BY <2>2, Blanks DEF Local
    <2> HIDE DEF l
    <2>4. Moved("manager", "decided", {"heldread", "forget", "drop"})
      BY <1>23, Moves
    <2>5. QED
      BY <2>1, <2>3, <2>4, RunSet DEF Moved, Filing
  <1>24. ASSUME HeldRead PROVE RunType'
    BY <1>24, Blanks DEF HeldRead, Goto, RunType, PhaseInv, Workers, Past, Sending, Filing,
       Strange, Releasing,
          Known
  <1>25. ASSUME Forget PROVE RunType'
    BY <1>25, Blanks DEF Forget, Goto, RunType, PhaseInv, Workers, Past, Sending, Filing,
       Strange, Releasing,
          Known
  <1>26. ASSUME Drop PROVE RunType'
    BY <1>26, Blanks DEF Drop, Goto, RunType, PhaseInv, Workers, Past, Sending, Filing,
       Strange, Releasing,
          Known
  <1>27. ASSUME Reintro PROVE RunType'
    BY <1>27, Blanks DEF Reintro, Goto, RunType, PhaseInv, Workers, Past, Sending, Filing,
       Strange, Releasing,
          Known
  <1>28. ASSUME Release PROVE RunType'
    <2>1. Moved("manager", "release", {"idle", "release", "heldcheck"}) /\ written' = written
      BY <1>28, Moves DEF Release
    <2>2. CASE run' = run
      BY <2>1, <2>2, RunKept, RunSet DEF Moved, Filing
    <2>3. ASSUME NEW t \in Topics, run' = [run EXCEPT !["manager"].topic = t]
          PROVE  RunType'
      <3> DEFINE l == [run["manager"] EXCEPT !.topic = t]
      <3>1. run' = [run EXCEPT !["manager"] = l] /\ run["manager"] \in Local
        BY <2>3 DEF RunType
      <3>2. l \in Local
        BY <3>1 DEF Local
      <3> HIDE DEF l
      <3>3. QED
        BY <2>1, <3>1, <3>2, RunSet DEF Moved, Filing
    <2>4. run' = run \/ \E t \in Topics : run' = [run EXCEPT !["manager"].topic = t]
      BY <1>28 DEF Release
    <2>5. QED
      BY <2>2, <2>3, <2>4
  <1>29. ASSUME HeldCheck PROVE RunType'
    BY <1>29, Blanks DEF HeldCheck, Goto, RunType, PhaseInv, Workers, Past, Sending, Filing,
       Strange, Releasing,
          Known
  <1>30. ASSUME HeldSave PROVE RunType'
    BY <1>30, Blanks DEF HeldSave, Goto, RunType, PhaseInv, Workers, Past, Sending, Filing,
       Strange, Releasing,
          Known
  <1>31. ASSUME NEW t \in Topics, NEW kind \in {"text", "tap", "cancel"}, Write(t, kind)
        PROVE RunType'
    BY <1>31, Blanks DEF Write, Goto, RunType, PhaseInv, Workers, Past, Sending, Filing,
       Strange, Releasing,
          Known
  <1>32. ASSUME NEW action \in Actions, NEW p \in Projects \cup {NoProject}, Decide(action, p)
        PROVE RunType'
    BY <1>32, Blanks DEF Decide, Goto, RunType, PhaseInv, Workers, Past, Sending, Filing,
       Strange, Releasing,
          Known
  <1>33. ASSUME CliBlock PROVE RunType'
    BY <1>33, Blanks DEF CliBlock, Goto, RunType, PhaseInv, Workers, Past, Sending, Filing,
       Strange, Releasing,
          Known
  <1>34. ASSUME CliDrop PROVE RunType'
    BY <1>34, Blanks DEF CliDrop, Goto, RunType, PhaseInv, Workers, Past, Sending, Filing,
       Strange, Releasing,
          Known
  <1>35. ASSUME Crash PROVE RunType'
    BY <1>35, Blanks DEF Crash, Goto, RunType, PhaseInv, Workers, Past, Sending, Filing,
       Strange, Releasing,
          Known
  <1>36. QED
    BY <1>1, <1>2, <1>3, <1>4, <1>5, <1>6, <1>7, <1>8, <1>9, <1>10, <1>11, <1>12, <1>13, <1>14,
       <1>15, <1>16, <1>17, <1>18, <1>19, <1>20, <1>21, <1>22, <1>23, <1>24, <1>25, <1>26,
       <1>27, <1>28, <1>29, <1>30, <1>31, <1>32, <1>33, <1>34, <1>35
       DEF Next, Handles, Manages, Outside, Submits

\* Every step keeps what the manager is about.
LEMMA ActStep ==
  ASSUME PhaseInv, DatabaseType, RunType, ActType, Next
  PROVE  ActType'
  <1> USE DEF telegram, yougile, database, history, counters, Submitters
  <1>1. ASSUME Take PROVE ActType'
    BY <1>1 DEF Take, Goto, Way, ActType, PhaseInv, Workers, Releasing, Sending, Filing, Past,
       Strange
  <1>2. ASSUME Asked PROVE ActType'
    BY <1>2 DEF Asked, Goto, ActType, PhaseInv, Workers, Releasing, Sending, Filing, Past,
       Strange
  <1>3. ASSUME Reask PROVE ActType'
    BY <1>3 DEF Reask, Goto, ActType, PhaseInv, Workers, Releasing, Sending, Filing, Past,
       Strange
  <1>4. ASSUME Hold PROVE ActType'
    BY <1>4 DEF Hold, Goto, ActType, PhaseInv, Workers, Releasing, Sending, Filing, Past,
       Strange
  <1>5. ASSUME HoldSave PROVE ActType'
    BY <1>5 DEF HoldSave, Goto, ActType, PhaseInv, Workers, Releasing, Sending, Filing, Past,
       Strange
  <1>6. ASSUME Intro PROVE ActType'
    BY <1>6 DEF Intro, Goto, ActType, PhaseInv, Workers, Releasing, Sending, Filing, Past,
       Strange
  <1>7. ASSUME Greet PROVE ActType'
    BY <1>7 DEF Greet, Goto, ActType, PhaseInv, Workers, Releasing, Sending, Filing, Past,
       Strange
  <1>8. ASSUME Request PROVE ActType'
    BY <1>8 DEF Request, Goto, ActType, PhaseInv, Workers, Releasing, Sending, Filing, Past,
       Strange
  <1>9. ASSUME Requested PROVE ActType'
    BY <1>9 DEF Requested, Goto, ActType, PhaseInv, Workers, Releasing, Sending, Filing, Past,
       Strange
  <1>10. ASSUME InTopic PROVE ActType'
    <2>1. Moved("person", "topic", {"idle", "post", "compose"}) /\ act' = act
      BY <1>10, Moves DEF InTopic
    <2>2. run'["manager"].project = run["manager"].project
      BY <1>10 DEF InTopic, RunType
    <2>3. QED
      BY <2>1, <2>2, ActKept DEF Moved, Workers
  <1>11. ASSUME Post PROVE ActType'
    BY <1>11 DEF Post, Goto, ActType, PhaseInv, Workers, Releasing, Sending, Filing, Past,
       Strange
  <1>12. ASSUME LinkPost PROVE ActType'
    BY <1>12 DEF LinkPost, Goto, ActType, PhaseInv, Workers, Releasing, Sending, Filing, Past,
       Strange
  <1>13. ASSUME Compose PROVE ActType'
    <2>1. Moved("person", "compose", {"idle", "composed"}) /\ act' = act
      BY <1>13, Moves DEF Compose
    <2>2. run'["manager"].project = run["manager"].project
      BY <1>13 DEF Compose, RunType
    <2>3. QED
      BY <2>1, <2>2, ActKept DEF Moved, Workers
  <1>14. ASSUME Composed PROVE ActType'
    BY <1>14 DEF Composed, Goto, ActType, PhaseInv, Workers, Releasing, Sending, Filing, Past,
       Strange
  <1>15. ASSUME Cancel PROVE ActType'
    BY <1>15 DEF Cancel, Goto, ActType, PhaseInv, Workers, Releasing, Sending, Filing, Past,
       Strange
  <1>16. ASSUME Cancelled PROVE ActType'
    BY <1>16 DEF Cancelled, Goto, ActType, PhaseInv, Workers, Releasing, Sending, Filing, Past,
       Strange
  <1>17. ASSUME NEW w \in Submitters, Submit(w) PROVE ActType'
    <2>1. Moved(w, "submit", {"create", AfterAll(w)}) /\ act' = act
      BY <1>17, Moves DEF Submit
    <2>2. run'["manager"].project = run["manager"].project
      BY <1>17 DEF Submit, RunType, Local
    <2>3. w = "manager" => pc[w] \in Releasing /\ pc'[w] \in Releasing
      BY <2>1 DEF Moved, AfterAll, Releasing, Sending, Filing
    <2>4. QED
      BY <2>1, <2>2, <2>3, ActKept DEF Moved, Workers
  <1>18. ASSUME NEW w \in Submitters, Create(w) PROVE ActType'
    BY <1>18 DEF Create, Goto, GivesUp, Done, ActType, PhaseInv, Workers, Releasing, Sending,
       Filing, Past, Strange
  <1>19. ASSUME NEW w \in Submitters, AddRow(w) PROVE ActType'
    BY <1>19 DEF AddRow, Goto, ActType, PhaseInv, Workers, Releasing, Sending, Filing, Past,
       Strange
  <1>20. ASSUME NEW w \in Submitters, Tie(w) PROVE ActType'
    BY <1>20 DEF Tie, Goto, ActType, PhaseInv, Workers, Releasing, Sending, Filing, Past,
       Strange
  <1>21. ASSUME NEW w \in Submitters, LinkParts(w) PROVE ActType'
    <2>1. Moved(w, "linkparts", {"linkparts", "clear"}) /\ act' = act
      BY <1>21, Moves DEF LinkParts
    <2>2. run'["manager"].project = run["manager"].project
      BY <1>21 DEF LinkParts, RunType, Local
    <2>3. w = "manager" => pc[w] \in Releasing /\ pc'[w] \in Releasing
      BY <2>1 DEF Moved, AfterAll, Releasing, Sending, Filing
    <2>4. QED
      BY <2>1, <2>2, <2>3, ActKept DEF Moved, Workers
  <1>22. ASSUME NEW w \in Submitters, Clear(w) PROVE ActType'
    BY <1>22 DEF Clear, Goto, Done, ActType, PhaseInv, Workers, Releasing, Sending, Filing,
       Past, Strange
  <1>23. ASSUME Decided PROVE ActType'
    <2> DEFINE project == IF act.project = NoProject THEN sender.project ELSE act.project
    <2>1. Moved("manager", "decided", {"heldread", "forget", "drop"}) /\ act' = act
      BY <1>23, Moves DEF Decided
    <2>2. run'["manager"].project = project
      BY <1>23 DEF Decided, RunType, NoLocals
    <2>3. act.kind = "approve" => project \in Projects
      BY <1>23, Parameters DEF Decided, ActType
    <2> HIDE DEF project
    <2>4. pc'["manager"] = CASE act.kind = "approve" -> "heldread"
                            [] act.kind = "reject" -> "forget"
                            [] OTHER -> "drop"
      BY <1>23 DEF Decided, Goto, PhaseInv, Workers
    <2>5. QED
      BY <2>1, <2>2, <2>3, <2>4 DEF ActType, Releasing, Sending, Filing
  <1>24. ASSUME HeldRead PROVE ActType'
    BY <1>24 DEF HeldRead, Goto, ActType, PhaseInv, Workers, Releasing, Sending, Filing, Past,
       Strange
  <1>25. ASSUME Forget PROVE ActType'
    <2>1. Moved("manager", "forget", {"idle", "release"}) /\ run' = run
      BY <1>25, Moves DEF Forget
    <2>2. CASE act.kind = "approve"
      <3>1. act' = act /\ pc'["manager"] = "release"
        BY <1>25, <2>2 DEF Forget, Goto, PhaseInv, Workers
      <3>2. QED
        BY <2>1, <2>2, <3>1 DEF Moved, ActType, Releasing, Sending, Filing
    <2>3. CASE act.kind # "approve"
      <3>1. act' = NoAct /\ pc'["manager"] = "idle"
        BY <1>25, <2>3 DEF Forget, Goto, PhaseInv, Workers
      <3>2. QED
        BY <3>1, NoActKept
    <2>4. QED
      BY <2>2, <2>3
  <1>26. ASSUME Drop PROVE ActType'
    <2>1. run' = run
      BY <1>26 DEF Drop
    <2>2. CASE act.kind = "revoke"
      <3>1. act' = act /\ pc'["manager"] = "reintro"
        BY <1>26, <2>2 DEF Drop, Goto, PhaseInv, Workers
      <3>2. QED
        BY <2>1, <2>2, <3>1 DEF ActType, Releasing, Sending, Filing
    <2>3. CASE act.kind # "revoke"
      <3>1. act' = NoAct /\ pc'["manager"] = "idle"
        BY <1>26, <2>3 DEF Drop, Goto, PhaseInv, Workers
      <3>2. QED
        BY <3>1, NoActKept
    <2>4. QED
      BY <2>2, <2>3
  <1>27. ASSUME Reintro PROVE ActType'
    <2>1. act' = NoAct /\ pc'["manager"] = "idle"
      BY <1>27 DEF Reintro, Goto, PhaseInv, Workers
    <2>2. QED
      BY <2>1, NoActKept
  <1>28. ASSUME Release PROVE ActType'
    <2>1. Moved("manager", "release", {"idle", "release", "heldcheck"})
      BY <1>28, Moves
    <2>2. CASE act' = NoAct /\ pc'["manager"] = "idle"
      BY <2>2, NoActKept
    <2>3. CASE act' = act /\ pc'["manager"] \in {"release", "heldcheck"}
      <3>1. run'["manager"].project = run["manager"].project
        BY <1>28 DEF Release, RunType, Local
      <3>2. QED
        BY <2>1, <2>3, <3>1, ActKept DEF Moved, Releasing
    <2>4. \/ act' = NoAct /\ pc'["manager"] = "idle"
          \/ act' = act /\ pc'["manager"] \in {"release", "heldcheck"}
      BY <1>28 DEF Release, Goto, PhaseInv, Workers
    <2>5. QED
      BY <2>2, <2>3, <2>4
  <1>29. ASSUME HeldCheck PROVE ActType'
    BY <1>29 DEF HeldCheck, Goto, ActType, PhaseInv, Workers, Releasing, Sending, Filing, Past,
       Strange
  <1>30. ASSUME HeldSave PROVE ActType'
    BY <1>30 DEF HeldSave, Goto, ActType, PhaseInv, Workers, Releasing, Sending, Filing, Past,
       Strange
  <1>31. ASSUME NEW t \in Topics, NEW kind \in {"text", "tap", "cancel"}, Write(t, kind)
        PROVE ActType'
    BY <1>31 DEF Write, Goto, ActType, PhaseInv, Workers, Releasing, Sending, Filing, Past,
       Strange
  <1>32. ASSUME NEW action \in Actions, NEW p \in Projects \cup {NoProject}, Decide(action, p)
        PROVE ActType'
    BY <1>32 DEF Decide, Goto, ActType, PhaseInv, Workers, Releasing, Sending, Filing, Past,
       Strange
  <1>33. ASSUME CliBlock PROVE ActType'
    BY <1>33 DEF CliBlock, Goto, ActType, PhaseInv, Workers, Releasing, Sending, Filing, Past,
       Strange
  <1>34. ASSUME CliDrop PROVE ActType'
    BY <1>34 DEF CliDrop, Goto, ActType, PhaseInv, Workers, Releasing, Sending, Filing, Past,
       Strange
  <1>35. ASSUME Crash PROVE ActType'
    <2>1. act' = NoAct /\ pc'["manager"] = "idle"
      BY <1>35 DEF Crash, PhaseInv, Workers
    <2>2. QED
      BY <2>1, NoActKept
  <1>36. QED
    BY <1>1, <1>2, <1>3, <1>4, <1>5, <1>6, <1>7, <1>8, <1>9, <1>10, <1>11, <1>12, <1>13, <1>14,
       <1>15, <1>16, <1>17, <1>18, <1>19, <1>20, <1>21, <1>22, <1>23, <1>24, <1>25, <1>26,
       <1>27, <1>28, <1>29, <1>30, <1>31, <1>32, <1>33, <1>34, <1>35
       DEF Next, Handles, Manages, Outside, Submits

\* Every step keeps the locks.
LEMMA LockStep ==
  ASSUME PhaseInv, RunType, LockInv, Next
  PROVE  LockInv'
  <1> USE DEF telegram, yougile, database, history, counters, Submitters
  <1>1. ASSUME Take PROVE LockInv'
    <2>1. Moved("person", "idle", {"idle", "topic", "submit", "cancel", "asked", "intro"})
          /\ lock' = lock
      BY <1>1, Moves DEF Take
    <2>2. \A v \in Submitters \ {"person"} : run'[v] = run[v]
      BY <1>1 DEF Take, RunType
    <2>3. QED
      BY <2>1, <2>2, LockKept DEF Moved, Workers, Holders, Filing
  <1>2. ASSUME Asked PROVE LockInv'
    <2>1. Moved("person", "asked", {"reask", "hold"}) /\ lock' = lock
      BY <1>2, Moves DEF Asked
    <2>2. \A v \in Submitters \ {"person"} : run'[v] = run[v]
      BY <1>2 DEF Asked, RunType
    <2>3. QED
      BY <2>1, <2>2, LockKept DEF Moved, Workers, Holders, Filing
  <1>3. ASSUME Reask PROVE LockInv'
    BY <1>3 DEF Reask, Goto, LockInv, PhaseInv, Workers, Holders, Filing
  <1>4. ASSUME Hold PROVE LockInv'
    <2>1. Moved("person", "hold", {"idle", "holdsave"}) /\ lock' = lock
      BY <1>4, Moves DEF Hold
    <2>2. \A v \in Submitters \ {"person"} : run'[v] = run[v]
      BY <1>4 DEF Hold, RunType
    <2>3. QED
      BY <2>1, <2>2, LockKept DEF Moved, Workers, Holders, Filing
  <1>5. ASSUME HoldSave PROVE LockInv'
    BY <1>5 DEF HoldSave, Goto, LockInv, PhaseInv, Workers, Holders, Filing
  <1>6. ASSUME Intro PROVE LockInv'
    BY <1>6 DEF Intro, Goto, LockInv, PhaseInv, Workers, Holders, Filing
  <1>7. ASSUME Greet PROVE LockInv'
    BY <1>7 DEF Greet, Goto, LockInv, PhaseInv, Workers, Holders, Filing
  <1>8. ASSUME Request PROVE LockInv'
    BY <1>8 DEF Request, Goto, LockInv, PhaseInv, Workers, Holders, Filing
  <1>9. ASSUME Requested PROVE LockInv'
    BY <1>9 DEF Requested, Goto, LockInv, PhaseInv, Workers, Holders, Filing
  <1>10. ASSUME InTopic PROVE LockInv'
    <2>1. Moved("person", "topic", {"idle", "post", "compose"}) /\ lock' = lock
      BY <1>10, Moves DEF InTopic
    <2>2. \A v \in Submitters \ {"person"} : run'[v] = run[v]
      BY <1>10 DEF InTopic, RunType
    <2>3. QED
      BY <2>1, <2>2, LockKept DEF Moved, Workers, Holders, Filing
  <1>11. ASSUME Post PROVE LockInv'
    <2>1. Moved("person", "post", {"idle", "link"}) /\ lock' = lock
      BY <1>11, Moves DEF Post
    <2>2. \A v \in Submitters \ {"person"} : run'[v] = run[v]
      BY <1>11 DEF Post, RunType
    <2>3. QED
      BY <2>1, <2>2, LockKept DEF Moved, Workers, Holders, Filing
  <1>12. ASSUME LinkPost PROVE LockInv'
    BY <1>12 DEF LinkPost, Goto, LockInv, PhaseInv, Workers, Holders, Filing
  <1>13. ASSUME Compose PROVE LockInv'
    <2>1. Moved("person", "compose", {"idle", "composed"})
      BY <1>13, Moves DEF Compose
    <2>2. run'["person"].topic = run["person"].topic
          /\ \A v \in Submitters \ {"person"} : run'[v] = run[v]
      BY <1>13 DEF Compose, RunType, Local
    <2>3. CASE lock' = lock /\ pc'["person"] = "idle"
      BY <2>1, <2>2, <2>3, LockKept DEF Moved, Workers, Holders, Filing, AfterAll
    <2>4. CASE lock' = [lock EXCEPT ![run["person"].topic] = "person"]
               /\ pc'["person"] = "composed"
      <3>1. Free(run["person"].topic)
        BY <1>13 DEF Compose
      <3>2. QED
        BY <2>1, <2>2, <2>4, <3>1, LockTaken DEF Moved, Workers, Holders, Filing
    <2>5. \/ lock' = lock /\ pc'["person"] = "idle"
          \/ lock' = [lock EXCEPT ![run["person"].topic] = "person"]
             /\ pc'["person"] = "composed"
      BY <1>13 DEF Compose, Goto, Done, AfterAll, PhaseInv, Workers
    <2>6. QED
      BY <2>3, <2>4, <2>5
  <1>14. ASSUME Composed PROVE LockInv'
    <2>1. /\ lock' = Released("person") /\ pc'["person"] \in {"submit"}
             /\ \A v \in Workers \ {"person"} : pc'[v] = pc[v]
          /\ \A v \in Submitters \ {"person"} : run'[v] = run[v]
      BY <1>14 DEF Composed, Goto, PhaseInv, Workers, RunType
    <2>2. QED
      BY <2>1, LockFreed DEF Workers, Holders, Filing
  <1>15. ASSUME Cancel PROVE LockInv'
    BY <1>15 DEF Cancel, Goto, LockInv, PhaseInv, Workers, Holders, Filing
  <1>16. ASSUME Cancelled PROVE LockInv'
    BY <1>16 DEF Cancelled, Goto, LockInv, PhaseInv, Workers, Holders, Filing
  <1>17. ASSUME NEW w \in Submitters, Submit(w) PROVE LockInv'
    <2>1. Moved(w, "submit", {"create", AfterAll(w)})
      BY <1>17, Moves DEF Submit
    <2>2. run'[w].topic = run[w].topic /\ \A v \in Submitters \ {w} : run'[v] = run[v]
      BY <1>17 DEF Submit, RunType, Local
    <2>3. CASE lock' = lock /\ pc'[w] = AfterAll(w)
      BY <2>1, <2>2, <2>3, LockKept DEF Moved, Workers, Holders, Filing, AfterAll
    <2>4. CASE lock' = [lock EXCEPT ![run[w].topic] = w] /\ pc'[w] = "create"
      <3>1. Free(run[w].topic)
        BY <1>17 DEF Submit
      <3>2. QED
        BY <2>1, <2>2, <2>4, <3>1, LockTaken DEF Moved, Workers, Holders, Filing
    <2>5. \/ lock' = lock /\ pc'[w] = AfterAll(w)
          \/ lock' = [lock EXCEPT ![run[w].topic] = w] /\ pc'[w] = "create"
      BY <1>17 DEF Submit, Goto, Done, AfterAll, PhaseInv, Workers
    <2>6. QED
      BY <2>3, <2>4, <2>5
  <1>18. ASSUME NEW w \in Submitters, Create(w) PROVE LockInv'
    <2>1. Moved(w, "create", {"row", AfterAll(w)}) /\ run' = run
      BY <1>18, Moves DEF Create
    <2>2. CASE lock' = lock /\ pc'[w] = "row"
      BY <2>1, <2>2, LockKept DEF Moved, Workers, Holders, Filing
    <2>3. CASE lock' = Released(w) /\ pc'[w] = AfterAll(w)
      BY <2>1, <2>3, LockFreed DEF Moved, Workers, Holders, Filing, AfterAll
    <2>4. \/ lock' = lock /\ pc'[w] = "row"
          \/ lock' = Released(w) /\ pc'[w] = AfterAll(w)
      BY <1>18 DEF Create, GivesUp, Goto, Done, AfterAll, PhaseInv, Workers
    <2>5. QED
      BY <2>2, <2>3, <2>4
  <1>19. ASSUME NEW w \in Submitters, AddRow(w) PROVE LockInv'
    BY <1>19 DEF AddRow, Goto, LockInv, PhaseInv, Workers, Holders, Filing
  <1>20. ASSUME NEW w \in Submitters, Tie(w) PROVE LockInv'
    BY <1>20 DEF Tie, Goto, LockInv, PhaseInv, Workers, Holders, Filing
  <1>21. ASSUME NEW w \in Submitters, LinkParts(w) PROVE LockInv'
    <2>1. Moved(w, "linkparts", {"linkparts", "clear"}) /\ lock' = lock
      BY <1>21, Moves DEF LinkParts
    <2>2. run'[w].topic = run[w].topic /\ \A v \in Submitters \ {w} : run'[v] = run[v]
      BY <1>21 DEF LinkParts, RunType, Local
    <2>3. QED
      BY <2>1, <2>2, LockKept DEF Moved, Workers, Holders, Filing
  <1>22. ASSUME NEW w \in Submitters, Clear(w) PROVE LockInv'
    <2>1. /\ lock' = Released(w) /\ pc'[w] \in {"idle", "release"}
             /\ \A v \in Workers \ {w} : pc'[v] = pc[v]
          /\ \A v \in Submitters \ {w} : run'[v] = run[v]
      BY <1>22 DEF Clear, Goto, Done, PhaseInv, Workers, RunType
    <2>2. QED
      BY <2>1, LockFreed DEF Workers, Holders, Filing
  <1>23. ASSUME Decided PROVE LockInv'
    <2>1. Moved("manager", "decided", {"heldread", "forget", "drop"}) /\ lock' = lock
      BY <1>23, Moves DEF Decided
    <2>2. \A v \in Submitters \ {"manager"} : run'[v] = run[v]
      BY <1>23 DEF Decided, RunType
    <2>3. QED
      BY <2>1, <2>2, LockKept DEF Moved, Workers, Holders, Filing
  <1>24. ASSUME HeldRead PROVE LockInv'
    BY <1>24 DEF HeldRead, Goto, LockInv, PhaseInv, Workers, Holders, Filing
  <1>25. ASSUME Forget PROVE LockInv'
    <2>1. Moved("manager", "forget", {"idle", "release"}) /\ lock' = lock
      BY <1>25, Moves DEF Forget
    <2>2. \A v \in Submitters \ {"manager"} : run'[v] = run[v]
      BY <1>25 DEF Forget, RunType
    <2>3. QED
      BY <2>1, <2>2, LockKept DEF Moved, Workers, Holders, Filing
  <1>26. ASSUME Drop PROVE LockInv'
    <2>1. Moved("manager", "drop", {"idle", "reintro"}) /\ lock' = lock
      BY <1>26, Moves DEF Drop
    <2>2. \A v \in Submitters \ {"manager"} : run'[v] = run[v]
      BY <1>26 DEF Drop, RunType
    <2>3. QED
      BY <2>1, <2>2, LockKept DEF Moved, Workers, Holders, Filing
  <1>27. ASSUME Reintro PROVE LockInv'
    BY <1>27 DEF Reintro, Goto, LockInv, PhaseInv, Workers, Holders, Filing
  <1>28. ASSUME Release PROVE LockInv'
    <2>1. Moved("manager", "release", {"idle", "release", "heldcheck"}) /\ lock' = lock
      BY <1>28, Moves DEF Release
    <2>2. \A v \in Submitters \ {"manager"} : run'[v] = run[v]
      BY <1>28 DEF Release, RunType
    <2>3. QED
      BY <2>1, <2>2, LockKept DEF Moved, Workers, Holders, Filing
  <1>29. ASSUME HeldCheck PROVE LockInv'
    <2>1. Moved("manager", "heldcheck", {"heldsave", "release"})
      BY <1>29, Moves DEF HeldCheck
    <2>2. run'["manager"].topic = run["manager"].topic
          /\ \A v \in Submitters \ {"manager"} : run'[v] = run[v]
      BY <1>29 DEF HeldCheck, RunType, Local
    <2>3. CASE lock' = lock /\ pc'["manager"] = "release"
      BY <2>1, <2>2, <2>3, LockKept DEF Moved, Workers, Holders, Filing, AfterAll
    <2>4. CASE lock' = [lock EXCEPT ![run["manager"].topic] = "manager"]
               /\ pc'["manager"] = "heldsave"
      <3>1. Free(run["manager"].topic)
        BY <1>29 DEF HeldCheck
      <3>2. QED
        BY <2>1, <2>2, <2>4, <3>1, LockTaken DEF Moved, Workers, Holders, Filing
    <2>5. \/ lock' = lock /\ pc'["manager"] = "release"
          \/ lock' = [lock EXCEPT ![run["manager"].topic] = "manager"]
             /\ pc'["manager"] = "heldsave"
      BY <1>29 DEF HeldCheck, Goto, Done, AfterAll, PhaseInv, Workers
    <2>6. QED
      BY <2>3, <2>4, <2>5
  <1>30. ASSUME HeldSave PROVE LockInv'
    <2>1. /\ lock' = Released("manager") /\ pc'["manager"] \in {"submit"}
             /\ \A v \in Workers \ {"manager"} : pc'[v] = pc[v]
          /\ \A v \in Submitters \ {"manager"} : run'[v] = run[v]
      BY <1>30 DEF HeldSave, Goto, PhaseInv, Workers, RunType
    <2>2. QED
      BY <2>1, LockFreed DEF Workers, Holders, Filing
  <1>31. ASSUME NEW t \in Topics, NEW kind \in {"text", "tap", "cancel"}, Write(t, kind)
        PROVE LockInv'
    BY <1>31 DEF Write, Goto, LockInv, PhaseInv, Workers, Holders, Filing
  <1>32. ASSUME NEW action \in Actions, NEW p \in Projects \cup {NoProject}, Decide(action, p)
        PROVE LockInv'
    BY <1>32 DEF Decide, Goto, LockInv, PhaseInv, Workers, Holders, Filing
  <1>33. ASSUME CliBlock PROVE LockInv'
    BY <1>33 DEF CliBlock, Goto, LockInv, PhaseInv, Workers, Holders, Filing
  <1>34. ASSUME CliDrop PROVE LockInv'
    BY <1>34 DEF CliDrop, Goto, LockInv, PhaseInv, Workers, Holders, Filing
  <1>35. ASSUME Crash PROVE LockInv'
    <2>1. /\ lock' = [t \in Topics |-> Nobody]
          /\ \A w \in Submitters : pc'[w] = "idle"
      BY <1>35 DEF Crash, PhaseInv, Workers
    <2>2. QED
      BY <2>1, Parameters DEF LockInv, Holders, Filing
  <1>36. QED
    BY <1>1, <1>2, <1>3, <1>4, <1>5, <1>6, <1>7, <1>8, <1>9, <1>10, <1>11, <1>12, <1>13, <1>14,
       <1>15, <1>16, <1>17, <1>18, <1>19, <1>20, <1>21, <1>22, <1>23, <1>24, <1>25, <1>26,
       <1>27, <1>28, <1>29, <1>30, <1>31, <1>32, <1>33, <1>34, <1>35
       DEF Next, Handles, Manages, Outside, Submits

\* Every step keeps the count of keys.
LEMMA CountStep ==
  ASSUME PhaseInv, TelegramType, CountInv, Next
  PROVE  CountInv'
  <1> USE DEF telegram, yougile, database, history, counters, Submitters
  <1>0. Again \in Nat /\ (faults' = faults => Again' = Again)
    BY GivenAgain DEF CountInv
  <1> USE <1>0
  <1>1. ASSUME Take PROVE CountInv'
    BY <1>1 DEF Take, Goto, Way, CountInv, PhaseInv, Workers, Owed, Unminted, Strange
  <1>2. ASSUME Asked PROVE CountInv'
    BY <1>2 DEF Asked, Goto, CountInv, PhaseInv, Workers, Owed, Unminted, Strange
  <1>3. ASSUME Reask PROVE CountInv'
    BY <1>3 DEF Reask, Goto, CountInv, PhaseInv, Workers, Owed, Unminted, Strange
  <1>4. ASSUME Hold PROVE CountInv'
    BY <1>4 DEF Hold, Goto, CountInv, PhaseInv, Workers, Owed, Unminted, Strange
  <1>5. ASSUME HoldSave PROVE CountInv'
    <2>1. pc'["manager"] = pc["manager"] /\ Owed = 1 /\ Owed' = 0
      BY <1>5 DEF HoldSave, Goto, PhaseInv, Workers, Owed, Unminted, Strange
    <2>2. keys' \in {keys, keys + 1}
          /\ UNCHANGED <<written, inbox, decisions, approvals, faults, slips>>
      BY <1>5 DEF HoldSave, MintFor
    <2>3. keys \in Nat /\ (keys' = keys \/ keys' = keys + 1)
      BY <2>2 DEF CountInv
    <2>6. keys' \in Nat /\ keys' + 0 <= keys + 1
      <3>1. CASE keys' = keys
        BY <2>3, <3>1
      <3>2. CASE keys' = keys + 1
        BY <2>3, <3>2
      <3>3. QED
        BY <2>3, <3>1, <3>2
    <2>4. keys' \in Nat /\ keys' + Owed' <= keys + Owed
      BY <2>1, <2>6
    <2>5. QED
      BY <2>1, <2>2, <2>4, CountKept
  <1>6. ASSUME Intro PROVE CountInv'
    BY <1>6 DEF Intro, Goto, CountInv, PhaseInv, Workers, Owed, Unminted, Strange
  <1>7. ASSUME Greet PROVE CountInv'
    BY <1>7 DEF Greet, Goto, CountInv, PhaseInv, Workers, Owed, Unminted, Strange
  <1>8. ASSUME Request PROVE CountInv'
    BY <1>8 DEF Request, Goto, CountInv, PhaseInv, Workers, Owed, Unminted, Strange
  <1>9. ASSUME Requested PROVE CountInv'
    BY <1>9 DEF Requested, Goto, CountInv, PhaseInv, Workers, Owed, Unminted, Strange
  <1>10. ASSUME InTopic PROVE CountInv'
    <2>1. Moved("person", "topic", {"idle", "post", "compose"}) /\ keys' = keys
      BY <1>10, Moves DEF InTopic
    <2>2. Owed = 1 /\ Owed' \in {0, 1} /\ keys \in Nat
      BY <2>1 DEF Moved, Owed, Unminted, CountInv
    <2>3. UNCHANGED <<written, inbox, decisions, approvals, faults, slips>>
      BY <1>10 DEF InTopic
    <2>4. keys' + Owed' <= keys + Owed
      BY <2>1, <2>2 DEF Owed
    <2>5. QED
      BY <2>1, <2>2, <2>3, <2>4, CountKept DEF Moved, Workers
  <1>11. ASSUME Post PROVE CountInv'
    <2>1. Moved("person", "post", {"idle", "link"})
          /\ UNCHANGED <<keys, written, inbox, decisions, approvals>>
      BY <1>11, Moves DEF Post
    <2>2. Owed = 0 /\ Owed' = 0 /\ keys \in Nat
      BY <2>1 DEF Moved, Owed, Unminted, Strange, CountInv
    <2>3. \/ faults' = faults /\ slips' = slips
          \/ faults < MaxFaults /\ faults' = faults + 1 /\ slips' \in {slips, slips + 1}
      BY <1>11 DEF Post, Fault
    <2>4. QED
      BY <2>1, <2>2, <2>3, CountKept DEF Moved, Workers
  <1>12. ASSUME LinkPost PROVE CountInv'
    BY <1>12 DEF LinkPost, Goto, CountInv, PhaseInv, Workers, Owed, Unminted, Strange
  <1>13. ASSUME Compose PROVE CountInv'
    BY <1>13 DEF Compose, Goto, CountInv, PhaseInv, Workers, Owed, Unminted, Strange
  <1>14. ASSUME Composed PROVE CountInv'
    <2>1. pc'["manager"] = pc["manager"] /\ Owed = 1 /\ Owed' = 0
      BY <1>14 DEF Composed, Goto, PhaseInv, Workers, Owed, Unminted, Strange
    <2>2. keys' \in {keys, keys + 1}
          /\ UNCHANGED <<written, inbox, decisions, approvals, faults, slips>>
      BY <1>14 DEF Composed, MintFor
    <2>3. keys \in Nat /\ (keys' = keys \/ keys' = keys + 1)
      BY <2>2 DEF CountInv
    <2>6. keys' \in Nat /\ keys' + 0 <= keys + 1
      <3>1. CASE keys' = keys
        BY <2>3, <3>1
      <3>2. CASE keys' = keys + 1
        BY <2>3, <3>2
      <3>3. QED
        BY <2>3, <3>1, <3>2
    <2>4. keys' \in Nat /\ keys' + Owed' <= keys + Owed
      BY <2>1, <2>6
    <2>5. QED
      BY <2>1, <2>2, <2>4, CountKept
  <1>15. ASSUME Cancel PROVE CountInv'
    BY <1>15 DEF Cancel, Goto, CountInv, PhaseInv, Workers, Owed, Unminted, Strange
  <1>16. ASSUME Cancelled PROVE CountInv'
    BY <1>16 DEF Cancelled, Goto, CountInv, PhaseInv, Workers, Owed, Unminted, Strange
  <1>17. ASSUME NEW w \in Submitters, Submit(w) PROVE CountInv'
    BY <1>17 DEF Submit, Goto, Done, CountInv, PhaseInv, Workers, Owed, Unminted, Strange
  <1>18. ASSUME NEW w \in Submitters, Create(w) PROVE CountInv'
    <2>1. Moved(w, "create", {"row", AfterAll(w)})
          /\ UNCHANGED <<keys, written, inbox, decisions, approvals>>
      BY <1>18, Moves DEF Create
    <2>2. Owed' = Owed /\ keys \in Nat /\ Owed \in Nat
      BY <2>1 DEF Moved, Owed, Unminted, Strange, CountInv, Workers, AfterAll
    <2>3. \/ faults' = faults /\ slips' = slips
          \/ faults < MaxFaults /\ faults' = faults + 1 /\ slips' \in {slips, slips + 1}
      BY <1>18 DEF Create, Fault
    <2>4. pc'["manager"] = pc["manager"] \/ pc["manager"] = "create"
      <3>1. w = "manager" \/ "manager" \in Workers \ {w}
        BY DEF Workers
      <3>2. QED
        BY <2>1, <3>1 DEF Moved
    <2>5. keys' \in Nat /\ keys' + Owed' <= keys + Owed
      BY <2>1, <2>2 DEF Owed
    <2>6. pc'["manager"] \in {"idle", "decided"} \/ pc["manager"] \notin {"idle", "decided"}
      BY <2>4 DEF CountInv
    <2>7. QED
      BY <2>1, <2>3, <2>5, <2>6, CountKept
  <1>19. ASSUME NEW w \in Submitters, AddRow(w) PROVE CountInv'
    BY <1>19 DEF AddRow, Goto, CountInv, PhaseInv, Workers, Owed, Unminted, Strange
  <1>20. ASSUME NEW w \in Submitters, Tie(w) PROVE CountInv'
    BY <1>20 DEF Tie, Goto, CountInv, PhaseInv, Workers, Owed, Unminted, Strange
  <1>21. ASSUME NEW w \in Submitters, LinkParts(w) PROVE CountInv'
    BY <1>21 DEF LinkParts, Goto, CountInv, PhaseInv, Workers, Owed, Unminted, Strange
  <1>22. ASSUME NEW w \in Submitters, Clear(w) PROVE CountInv'
    BY <1>22 DEF Clear, Goto, Done, CountInv, PhaseInv, Workers, Owed, Unminted, Strange
  <1>23. ASSUME Decided PROVE CountInv'
    BY <1>23 DEF Decided, Goto, CountInv, PhaseInv, Workers, Owed, Unminted, Strange
  <1>24. ASSUME HeldRead PROVE CountInv'
    BY <1>24 DEF HeldRead, Goto, CountInv, PhaseInv, Workers, Owed, Unminted, Strange
  <1>25. ASSUME Forget PROVE CountInv'
    BY <1>25 DEF Forget, Goto, CountInv, PhaseInv, Workers, Owed, Unminted, Strange
  <1>26. ASSUME Drop PROVE CountInv'
    BY <1>26 DEF Drop, Goto, CountInv, PhaseInv, Workers, Owed, Unminted, Strange
  <1>27. ASSUME Reintro PROVE CountInv'
    BY <1>27 DEF Reintro, Goto, CountInv, PhaseInv, Workers, Owed, Unminted, Strange
  <1>28. ASSUME Release PROVE CountInv'
    BY <1>28 DEF Release, Goto, CountInv, PhaseInv, Workers, Owed, Unminted, Strange
  <1>29. ASSUME HeldCheck PROVE CountInv'
    BY <1>29 DEF HeldCheck, Goto, CountInv, PhaseInv, Workers, Owed, Unminted, Strange
  <1>30. ASSUME HeldSave PROVE CountInv'
    BY <1>30 DEF HeldSave, Goto, CountInv, PhaseInv, Workers, Owed, Unminted, Strange
  <1>31. ASSUME NEW t \in Topics, NEW kind \in {"text", "tap", "cancel"}, Write(t, kind)
        PROVE CountInv'
    BY <1>31 DEF Write, Goto, CountInv, PhaseInv, Workers, Owed, Unminted, Strange
  <1>32. ASSUME NEW action \in Actions, NEW p \in Projects \cup {NoProject}, Decide(action, p)
        PROVE CountInv'
    BY <1>32 DEF Decide, Goto, CountInv, PhaseInv, Workers, Owed, Unminted, Strange
  <1>33. ASSUME CliBlock PROVE CountInv'
    BY <1>33 DEF CliBlock, Goto, CountInv, PhaseInv, Workers, Owed, Unminted, Strange
  <1>34. ASSUME CliDrop PROVE CountInv'
    BY <1>34 DEF CliDrop, Goto, CountInv, PhaseInv, Workers, Owed, Unminted, Strange
  <1>35. ASSUME Crash PROVE CountInv'
    <2>1. faults < MaxFaults /\ faults' = faults + 1 /\ slips' = slips + 1
          /\ UNCHANGED <<keys, written, decisions, approvals>>
      BY <1>35 DEF Crash, Fault
    <2>2. pc'["manager"] = "idle" /\ Owed' = 0
      BY <1>35 DEF Crash, PhaseInv, Workers, Owed, Unminted, Strange
    <2>3. /\ Len(inbox') \in Nat /\ Len(inbox') <= MaxWrites
          /\ Len(inbox) \in Nat /\ Len(written) \in Nat
      <3>1. PICK n \in Nat \ {0} : inbox' = From(n)
        BY <1>35, GivenFrom DEF Crash
      <3>2. Len(inbox') \in Nat /\ Len(inbox') <= Len(written)
        BY <3>1, FromIs
      <3>3. Len(inbox) \in Nat /\ Len(written) \in Nat /\ Len(written) <= MaxWrites
        BY DEF TelegramType
      <3>4. QED
        BY <3>2, <3>3, Parameters
    <2>4. keys \in Nat /\ faults \in 0 .. MaxFaults /\ slips \in 0 .. faults /\ Owed \in Nat
          /\ keys + Len(inbox) + Owed <= Len(written) + Again
      BY DEF CountInv, Owed
    <2>8. Again' = Again + MaxWrites
      BY <2>1, <2>4, GivenAgain
    <2>9. keys' = keys /\ Len(written') = Len(written)
      BY <2>1
    <2>5. keys' + Len(inbox') + Owed' <= Len(written') + Again'
      BY <2>2, <2>3, <2>4, <2>8, <2>9, Parameters
    <2>6. faults' \in 0 .. MaxFaults /\ slips' \in 0 .. faults'
      BY <2>1, <2>4, Parameters
    <2>7. QED
      BY <2>1, <2>2, <2>5, <2>6 DEF CountInv
  <1>36. QED
    BY <1>1, <1>2, <1>3, <1>4, <1>5, <1>6, <1>7, <1>8, <1>9, <1>10, <1>11, <1>12, <1>13, <1>14,
       <1>15, <1>16, <1>17, <1>18, <1>19, <1>20, <1>21, <1>22, <1>23, <1>24, <1>25, <1>26,
       <1>27, <1>28, <1>29, <1>30, <1>31, <1>32, <1>33, <1>34, <1>35
       DEF Next, Handles, Manages, Outside, Submits

\* Every step keeps the types of the history.
LEMMA HistoryStep ==
  ASSUME TelegramType, DraftsType, RunType, HistoryType, Next
  PROVE  HistoryType'
  <1> USE DEF telegram, yougile, database, history, counters, Submitters
  <1>1. ASSUME Take PROVE HistoryType'
    BY <1>1 DEF Take, HistoryType
  <1>2. ASSUME Asked PROVE HistoryType'
    BY <1>2 DEF Asked, HistoryType
  <1>3. ASSUME Reask PROVE HistoryType'
    BY <1>3 DEF Reask, HistoryType
  <1>4. ASSUME Hold PROVE HistoryType'
    <2>1. run["person"].msg \in Messages
      BY <1>4, KnownIs DEF Hold, RunType
    <2>2. QED
      BY <1>4, <2>1 DEF Hold, HistoryType
  <1>5. ASSUME HoldSave PROVE HistoryType'
    <2>1. run["person"].msg \in Messages
      BY <1>5, KnownIs DEF HoldSave, RunType
    <2>2. QED
      BY <1>5, <2>1 DEF HoldSave, HistoryType
  <1>6. ASSUME Intro PROVE HistoryType'
    BY <1>6 DEF Intro, HistoryType
  <1>7. ASSUME Greet PROVE HistoryType'
    BY <1>7 DEF Greet, HistoryType
  <1>8. ASSUME Request PROVE HistoryType'
    BY <1>8 DEF Request, HistoryType
  <1>9. ASSUME Requested PROVE HistoryType'
    BY <1>9 DEF Requested, HistoryType
  <1>10. ASSUME InTopic PROVE HistoryType'
    BY <1>10 DEF InTopic, HistoryType
  <1>11. ASSUME Post PROVE HistoryType'
    BY <1>11 DEF Post, HistoryType
  <1>12. ASSUME LinkPost PROVE HistoryType'
    BY <1>12 DEF LinkPost, HistoryType
  <1>13. ASSUME Compose PROVE HistoryType'
    BY <1>13 DEF Compose, HistoryType
  <1>14. ASSUME Composed PROVE HistoryType'
    <2>1. run["person"].msg \in Messages
      BY <1>14, KnownIs DEF Composed, RunType
    <2>2. QED
      BY <1>14, <2>1 DEF Composed, HistoryType
  <1>15. ASSUME Cancel PROVE HistoryType'
    BY <1>15 DEF Cancel, HistoryType
  <1>16. ASSUME Cancelled PROVE HistoryType'
    <2>1. drafts[run["person"].topic].parts \subseteq Messages
      BY PartsAre, LocalIs
    <2>2. QED
      BY <1>16, <2>1 DEF Cancelled, HistoryType
  <1>17. ASSUME NEW w \in Submitters, Submit(w) PROVE HistoryType'
    BY <1>17 DEF Submit, HistoryType
  <1>18. ASSUME NEW w \in Submitters, Create(w) PROVE HistoryType'
    BY <1>18 DEF Create, HistoryType
  <1>19. ASSUME NEW w \in Submitters, AddRow(w) PROVE HistoryType'
    BY <1>19 DEF AddRow, HistoryType
  <1>20. ASSUME NEW w \in Submitters, Tie(w) PROVE HistoryType'
    BY <1>20 DEF Tie, HistoryType
  <1>21. ASSUME NEW w \in Submitters, LinkParts(w) PROVE HistoryType'
    BY <1>21 DEF LinkParts, HistoryType
  <1>22. ASSUME NEW w \in Submitters, Clear(w) PROVE HistoryType'
    BY <1>22 DEF Clear, HistoryType
  <1>23. ASSUME Decided PROVE HistoryType'
    BY <1>23 DEF Decided, HistoryType
  <1>24. ASSUME HeldRead PROVE HistoryType'
    BY <1>24 DEF HeldRead, HistoryType
  <1>25. ASSUME Forget PROVE HistoryType'
    <2>1. UNION {note.held[t].parts : t \in Topics} \subseteq Messages
      BY PartsAre
    <2>2. QED
      BY <1>25, <2>1 DEF Forget, HistoryType
  <1>26. ASSUME Drop PROVE HistoryType'
    <2>1. Thrown \subseteq Messages
      BY PartsAre DEF Thrown
    <2>2. QED
      BY <1>26, <2>1 DEF Drop, HistoryType
  <1>27. ASSUME Reintro PROVE HistoryType'
    BY <1>27 DEF Reintro, HistoryType
  <1>28. ASSUME Release PROVE HistoryType'
    BY <1>28 DEF Release, HistoryType
  <1>29. ASSUME HeldCheck PROVE HistoryType'
    BY <1>29 DEF HeldCheck, HistoryType
  <1>30. ASSUME HeldSave PROVE HistoryType'
    <2>1. held[run["manager"].topic].parts \subseteq Messages
      BY PartsAre, LocalIs
    <2>2. QED
      BY <1>30, <2>1 DEF HeldSave, HistoryType
  <1>31. ASSUME NEW t \in Topics, NEW kind \in {"text", "tap", "cancel"}, Write(t, kind)
        PROVE HistoryType'
    BY <1>31 DEF Write, HistoryType
  <1>32. ASSUME NEW action \in Actions, NEW p \in Projects \cup {NoProject}, Decide(action, p)
        PROVE HistoryType'
    BY <1>32 DEF Decide, HistoryType
  <1>33. ASSUME CliBlock PROVE HistoryType'
    BY <1>33 DEF CliBlock, HistoryType
  <1>34. ASSUME CliDrop PROVE HistoryType'
    <2>1. Thrown \subseteq Messages
      BY PartsAre DEF Thrown
    <2>2. QED
      BY <1>34, <2>1 DEF CliDrop, HistoryType
  <1>35. ASSUME Crash PROVE HistoryType'
    BY <1>35 DEF Crash, HistoryType
  <1>36. QED
    BY <1>1, <1>2, <1>3, <1>4, <1>5, <1>6, <1>7, <1>8, <1>9, <1>10, <1>11, <1>12, <1>13, <1>14,
       <1>15, <1>16, <1>17, <1>18, <1>19, <1>20, <1>21, <1>22, <1>23, <1>24, <1>25, <1>26,
       <1>27, <1>28, <1>29, <1>30, <1>31, <1>32, <1>33, <1>34, <1>35
       DEF Next, Handles, Manages, Outside, Submits

\* Every step keeps what the person is about to send clean.
LEMMA PastStep ==
  ASSUME PhaseInv, TelegramType, RunType, AccessInv, PastInv, Clean \subseteq Clean', Next
  PROVE  PastInv'
  <1> USE DEF telegram, yougile, database, history, counters, Submitters
  <1>1. ASSUME Take PROVE PastInv'
    <2>1. Moved("person", "idle", {"idle", "topic", "submit", "cancel", "asked", "intro"})
      BY <1>1, Moves
    <2>2. CASE pc'["person"] \notin Past
      BY <2>2 DEF PastInv
    <2>3. CASE pc'["person"] \in Past
      <3>1. sender.status = "approved" /\ pc'["person"] # "idle"
        BY <1>1, <2>3 DEF Take, Way, Goto, PhaseInv, Workers, Past, Sending, Filing
      <3>2. Head(inbox) \in Known
        BY <1>1, HeadTailProperties DEF Take, TelegramType
      <3>3. run'["person"].msg = Head(inbox)
        BY <1>1, <3>1 DEF Take, Goto, PhaseInv, Workers, RunType, NoLocals
      <3>4. QED
        BY <3>1, <3>2, <3>3 DEF AccessInv, PastInv
    <2>4. QED
      BY <2>2, <2>3
  <1>2. ASSUME Asked PROVE PastInv'
    BY <1>2 DEF Asked, Goto, PastInv, PhaseInv, Workers, RunType, Past, Sending, Filing, Strange
  <1>3. ASSUME Reask PROVE PastInv'
    BY <1>3 DEF Reask, Goto, PastInv, PhaseInv, Workers, RunType, Past, Sending, Filing, Strange
  <1>4. ASSUME Hold PROVE PastInv'
    BY <1>4 DEF Hold, Goto, PastInv, PhaseInv, Workers, RunType, Past, Sending, Filing, Strange
  <1>5. ASSUME HoldSave PROVE PastInv'
    BY <1>5 DEF HoldSave, Goto, PastInv, PhaseInv, Workers, RunType, Past, Sending, Filing,
       Strange
  <1>6. ASSUME Intro PROVE PastInv'
    BY <1>6 DEF Intro, Goto, PastInv, PhaseInv, Workers, RunType, Past, Sending, Filing, Strange
  <1>7. ASSUME Greet PROVE PastInv'
    BY <1>7 DEF Greet, Goto, PastInv, PhaseInv, Workers, RunType, Past, Sending, Filing, Strange
  <1>8. ASSUME Request PROVE PastInv'
    BY <1>8 DEF Request, Goto, PastInv, PhaseInv, Workers, RunType, Past, Sending, Filing,
       Strange
  <1>9. ASSUME Requested PROVE PastInv'
    BY <1>9 DEF Requested, Goto, PastInv, PhaseInv, Workers, RunType, Past, Sending, Filing,
       Strange
  <1>10. ASSUME InTopic PROVE PastInv'
    <2>1. Moved("person", "topic", {"idle", "post", "compose"})
      BY <1>10, Moves
    <2>2. run'["person"].msg = run["person"].msg
      BY <1>10 DEF InTopic, RunType, Local
    <2>3. pc'["person"] \in Past => pc["person"] \in Past
      BY <2>1 DEF Moved, AfterAll, Workers, Past, Sending, Filing
    <2>4. QED
      BY <2>2, <2>3, PastKept
  <1>11. ASSUME Post PROVE PastInv'
    <2>1. Moved("person", "post", {"idle", "link"})
      BY <1>11, Moves
    <2>2. run'["person"].msg = run["person"].msg
      BY <1>11 DEF Post, RunType, Local
    <2>3. pc'["person"] \in Past => pc["person"] \in Past
      BY <2>1 DEF Moved, AfterAll, Workers, Past, Sending, Filing
    <2>4. QED
      BY <2>2, <2>3, PastKept
  <1>12. ASSUME LinkPost PROVE PastInv'
    BY <1>12 DEF LinkPost, Goto, PastInv, PhaseInv, Workers, RunType, Past, Sending, Filing,
       Strange
  <1>13. ASSUME Compose PROVE PastInv'
    <2>1. Moved("person", "compose", {"idle", "composed"})
      BY <1>13, Moves
    <2>2. run'["person"].msg = run["person"].msg
      BY <1>13 DEF Compose, RunType, Local
    <2>3. pc'["person"] \in Past => pc["person"] \in Past
      BY <2>1 DEF Moved, AfterAll, Workers, Past, Sending, Filing
    <2>4. QED
      BY <2>2, <2>3, PastKept
  <1>14. ASSUME Composed PROVE PastInv'
    BY <1>14 DEF Composed, Goto, PastInv, PhaseInv, Workers, RunType, Past, Sending, Filing,
       Strange
  <1>15. ASSUME Cancel PROVE PastInv'
    BY <1>15 DEF Cancel, Goto, PastInv, PhaseInv, Workers, RunType, Past, Sending, Filing,
       Strange
  <1>16. ASSUME Cancelled PROVE PastInv'
    BY <1>16 DEF Cancelled, Goto, PastInv, PhaseInv, Workers, RunType, Past, Sending, Filing,
       Strange
  <1>17. ASSUME NEW w \in Submitters, Submit(w) PROVE PastInv'
    <2>1. Moved(w, "submit", {"create", AfterAll(w)})
      BY <1>17, Moves
    <2>2. run'["person"].msg = run["person"].msg
      BY <1>17 DEF Submit, RunType, Local
    <2>3. pc'["person"] \in Past => pc["person"] \in Past
      BY <2>1 DEF Moved, AfterAll, Workers, Past, Sending, Filing
    <2>4. QED
      BY <2>2, <2>3, PastKept
  <1>18. ASSUME NEW w \in Submitters, Create(w) PROVE PastInv'
    <2>1. Moved(w, "create", {"row", AfterAll(w)})
      BY <1>18, Moves
    <2>2. run'["person"].msg = run["person"].msg
      BY <1>18 DEF Create, RunType, Local
    <2>3. pc'["person"] \in Past => pc["person"] \in Past
      BY <2>1 DEF Moved, AfterAll, Workers, Past, Sending, Filing
    <2>4. QED
      BY <2>2, <2>3, PastKept
  <1>19. ASSUME NEW w \in Submitters, AddRow(w) PROVE PastInv'
    BY <1>19 DEF AddRow, Goto, PastInv, PhaseInv, Workers, RunType, Past, Sending, Filing,
       Strange
  <1>20. ASSUME NEW w \in Submitters, Tie(w) PROVE PastInv'
    BY <1>20 DEF Tie, Goto, PastInv, PhaseInv, Workers, RunType, Past, Sending, Filing, Strange
  <1>21. ASSUME NEW w \in Submitters, LinkParts(w) PROVE PastInv'
    <2>1. Moved(w, "linkparts", {"linkparts", "clear"})
      BY <1>21, Moves
    <2>2. run'["person"].msg = run["person"].msg
      BY <1>21 DEF LinkParts, RunType, Local
    <2>3. pc'["person"] \in Past => pc["person"] \in Past
      BY <2>1 DEF Moved, AfterAll, Workers, Past, Sending, Filing
    <2>4. QED
      BY <2>2, <2>3, PastKept
  <1>22. ASSUME NEW w \in Submitters, Clear(w) PROVE PastInv'
    <2>1. Moved(w, "clear", {AfterAll(w)})
      BY <1>22, Moves
    <2>2. run'["person"].msg = run["person"].msg
      BY <1>22 DEF Clear, RunType, Local
    <2>3. pc'["person"] \in Past => pc["person"] \in Past
      BY <2>1 DEF Moved, AfterAll, Workers, Past, Sending, Filing
    <2>4. QED
      BY <2>2, <2>3, PastKept
  <1>23. ASSUME Decided PROVE PastInv'
    BY <1>23 DEF Decided, Goto, PastInv, PhaseInv, Workers, RunType, Past, Sending, Filing,
       Strange
  <1>24. ASSUME HeldRead PROVE PastInv'
    BY <1>24 DEF HeldRead, Goto, PastInv, PhaseInv, Workers, RunType, Past, Sending, Filing,
       Strange
  <1>25. ASSUME Forget PROVE PastInv'
    BY <1>25 DEF Forget, Goto, PastInv, PhaseInv, Workers, RunType, Past, Sending, Filing,
       Strange
  <1>26. ASSUME Drop PROVE PastInv'
    BY <1>26 DEF Drop, Goto, PastInv, PhaseInv, Workers, RunType, Past, Sending, Filing, Strange
  <1>27. ASSUME Reintro PROVE PastInv'
    BY <1>27 DEF Reintro, Goto, PastInv, PhaseInv, Workers, RunType, Past, Sending, Filing,
       Strange
  <1>28. ASSUME Release PROVE PastInv'
    BY <1>28 DEF Release, Goto, PastInv, PhaseInv, Workers, RunType, Past, Sending, Filing,
       Strange
  <1>29. ASSUME HeldCheck PROVE PastInv'
    BY <1>29 DEF HeldCheck, Goto, PastInv, PhaseInv, Workers, RunType, Past, Sending, Filing,
       Strange
  <1>30. ASSUME HeldSave PROVE PastInv'
    BY <1>30 DEF HeldSave, Goto, PastInv, PhaseInv, Workers, RunType, Past, Sending, Filing,
       Strange
  <1>31. ASSUME NEW t \in Topics, NEW kind \in {"text", "tap", "cancel"}, Write(t, kind)
        PROVE PastInv'
    BY <1>31 DEF Write, Goto, PastInv, PhaseInv, Workers, RunType, Past, Sending, Filing,
       Strange
  <1>32. ASSUME NEW action \in Actions, NEW p \in Projects \cup {NoProject}, Decide(action, p)
        PROVE PastInv'
    BY <1>32 DEF Decide, Goto, PastInv, PhaseInv, Workers, RunType, Past, Sending, Filing,
       Strange
  <1>33. ASSUME CliBlock PROVE PastInv'
    BY <1>33 DEF CliBlock, Goto, PastInv, PhaseInv, Workers, RunType, Past, Sending, Filing,
       Strange
  <1>34. ASSUME CliDrop PROVE PastInv'
    BY <1>34 DEF CliDrop, Goto, PastInv, PhaseInv, Workers, RunType, Past, Sending, Filing,
       Strange
  <1>35. ASSUME Crash PROVE PastInv'
    BY <1>35 DEF Crash, Goto, PastInv, PhaseInv, Workers, RunType, Past, Sending, Filing,
       Strange
  <1>36. QED
    BY <1>1, <1>2, <1>3, <1>4, <1>5, <1>6, <1>7, <1>8, <1>9, <1>10, <1>11, <1>12, <1>13, <1>14,
       <1>15, <1>16, <1>17, <1>18, <1>19, <1>20, <1>21, <1>22, <1>23, <1>24, <1>25, <1>26,
       <1>27, <1>28, <1>29, <1>30, <1>31, <1>32, <1>33, <1>34, <1>35
       DEF Next, Handles, Manages, Outside, Submits

\* Every step keeps in the notes only what was written.
LEMMA NotesStep ==
  ASSUME TelegramType, DraftsType, RunType, NotesInv, Known \subseteq Known', Next
  PROVE  NotesInv'
  <1> USE DEF telegram, yougile, database, history, counters, Submitters
  <1>1. ASSUME Take PROVE NotesInv'
    BY <1>1 DEF Take, NotesInv, NoteOf, NoHeld, NoDraft
  <1>2. ASSUME Asked PROVE NotesInv'
    <2>1. note' = note /\ seen' \in {note, seen}
      BY <1>2 DEF Asked
    <2>2. QED
      BY <2>1 DEF NotesInv
  <1>3. ASSUME Reask PROVE NotesInv'
    <2>1. note' = [seen EXCEPT !.step = "pending"] /\ seen' = seen
      BY <1>3 DEF Reask
    <2>2. note'.held = seen.held
      BY <2>1 DEF DraftsType, Letter
    <2>3. QED
      BY <2>1, <2>2 DEF NotesInv
  <1>4. ASSUME Hold PROVE NotesInv'
    <2>1. note' = note /\ seen' \in {note, seen}
      BY <1>4 DEF Hold
    <2>2. QED
      BY <2>1 DEF NotesInv
  <1>5. ASSUME HoldSave PROVE NotesInv'
    <2> DEFINE r == run["person"]
               more == With(seen.held[r.topic], r.msg)
    <2>1. note'.held = [seen.held EXCEPT ![r.topic] = more] /\ seen' = seen
      BY <1>5 DEF HoldSave
    <2>2. r.topic \in Topics /\ r.msg \in Known
      BY <1>5, LocalIs DEF HoldSave, RunType
    <2>3. more.parts = seen.held[r.topic].parts \cup {r.msg}
      BY DEF With
    <2> HIDE DEF r, more
    <2>4. seen.held \in [Topics -> Proper]
      BY DEF DraftsType, Letter
    <2>5. QED
      BY <2>1, <2>2, <2>3, <2>4 DEF NotesInv
  <1>6. ASSUME Intro PROVE NotesInv'
    BY <1>6 DEF Intro, NotesInv, NoteOf, NoHeld, NoDraft
  <1>7. ASSUME Greet PROVE NotesInv'
    BY <1>7 DEF Greet, NotesInv, NoteOf, NoHeld, NoDraft
  <1>8. ASSUME Request PROVE NotesInv'
    BY <1>8 DEF Request, NotesInv, NoteOf, NoHeld, NoDraft
  <1>9. ASSUME Requested PROVE NotesInv'
    BY <1>9 DEF Requested, NotesInv, NoteOf, NoHeld, NoDraft
  <1>10. ASSUME InTopic PROVE NotesInv'
    BY <1>10 DEF InTopic, NotesInv, NoteOf, NoHeld, NoDraft
  <1>11. ASSUME Post PROVE NotesInv'
    BY <1>11 DEF Post, NotesInv, NoteOf, NoHeld, NoDraft
  <1>12. ASSUME LinkPost PROVE NotesInv'
    BY <1>12 DEF LinkPost, NotesInv, NoteOf, NoHeld, NoDraft
  <1>13. ASSUME Compose PROVE NotesInv'
    BY <1>13 DEF Compose, NotesInv, NoteOf, NoHeld, NoDraft
  <1>14. ASSUME Composed PROVE NotesInv'
    BY <1>14 DEF Composed, NotesInv, NoteOf, NoHeld, NoDraft
  <1>15. ASSUME Cancel PROVE NotesInv'
    BY <1>15 DEF Cancel, NotesInv, NoteOf, NoHeld, NoDraft
  <1>16. ASSUME Cancelled PROVE NotesInv'
    BY <1>16 DEF Cancelled, NotesInv, NoteOf, NoHeld, NoDraft
  <1>17. ASSUME NEW w \in Submitters, Submit(w) PROVE NotesInv'
    BY <1>17 DEF Submit, NotesInv, NoteOf, NoHeld, NoDraft
  <1>18. ASSUME NEW w \in Submitters, Create(w) PROVE NotesInv'
    BY <1>18 DEF Create, NotesInv, NoteOf, NoHeld, NoDraft
  <1>19. ASSUME NEW w \in Submitters, AddRow(w) PROVE NotesInv'
    BY <1>19 DEF AddRow, NotesInv, NoteOf, NoHeld, NoDraft
  <1>20. ASSUME NEW w \in Submitters, Tie(w) PROVE NotesInv'
    BY <1>20 DEF Tie, NotesInv, NoteOf, NoHeld, NoDraft
  <1>21. ASSUME NEW w \in Submitters, LinkParts(w) PROVE NotesInv'
    BY <1>21 DEF LinkParts, NotesInv, NoteOf, NoHeld, NoDraft
  <1>22. ASSUME NEW w \in Submitters, Clear(w) PROVE NotesInv'
    BY <1>22 DEF Clear, NotesInv, NoteOf, NoHeld, NoDraft
  <1>23. ASSUME Decided PROVE NotesInv'
    BY <1>23 DEF Decided, NotesInv, NoteOf, NoHeld, NoDraft
  <1>24. ASSUME HeldRead PROVE NotesInv'
    BY <1>24 DEF HeldRead, NotesInv, NoteOf, NoHeld, NoDraft
  <1>25. ASSUME Forget PROVE NotesInv'
    BY <1>25 DEF Forget, NotesInv, NoteOf, NoHeld, NoDraft
  <1>26. ASSUME Drop PROVE NotesInv'
    BY <1>26 DEF Drop, NotesInv, NoteOf, NoHeld, NoDraft
  <1>27. ASSUME Reintro PROVE NotesInv'
    BY <1>27 DEF Reintro, NotesInv, NoteOf, NoHeld, NoDraft
  <1>28. ASSUME Release PROVE NotesInv'
    BY <1>28 DEF Release, NotesInv, NoteOf, NoHeld, NoDraft
  <1>29. ASSUME HeldCheck PROVE NotesInv'
    BY <1>29 DEF HeldCheck, NotesInv, NoteOf, NoHeld, NoDraft
  <1>30. ASSUME HeldSave PROVE NotesInv'
    BY <1>30 DEF HeldSave, NotesInv, NoteOf, NoHeld, NoDraft
  <1>31. ASSUME NEW t \in Topics, NEW kind \in {"text", "tap", "cancel"}, Write(t, kind)
        PROVE NotesInv'
    BY <1>31 DEF Write, NotesInv, NoteOf, NoHeld, NoDraft
  <1>32. ASSUME NEW action \in Actions, NEW p \in Projects \cup {NoProject}, Decide(action, p)
        PROVE NotesInv'
    BY <1>32 DEF Decide, NotesInv, NoteOf, NoHeld, NoDraft
  <1>33. ASSUME CliBlock PROVE NotesInv'
    BY <1>33 DEF CliBlock, NotesInv, NoteOf, NoHeld, NoDraft
  <1>34. ASSUME CliDrop PROVE NotesInv'
    BY <1>34 DEF CliDrop, NotesInv, NoteOf, NoHeld, NoDraft
  <1>35. ASSUME Crash PROVE NotesInv'
    BY <1>35 DEF Crash, NotesInv, NoteOf, NoHeld, NoDraft
  <1>36. QED
    BY <1>1, <1>2, <1>3, <1>4, <1>5, <1>6, <1>7, <1>8, <1>9, <1>10, <1>11, <1>12, <1>13, <1>14,
       <1>15, <1>16, <1>17, <1>18, <1>19, <1>20, <1>21, <1>22, <1>23, <1>24, <1>25, <1>26,
       <1>27, <1>28, <1>29, <1>30, <1>31, <1>32, <1>33, <1>34, <1>35
       DEF Next, Handles, Manages, Outside, Submits

\* Every step keeps clean what is or may become a ticket.
LEMMA CleanStep ==
  ASSUME PhaseInv, YouGileType, DraftsType, RunType, AccessInv, NotesInv, PastInv, CleanInv,
         Clean \subseteq Clean', Next
  PROVE  CleanInv'
  <1> USE DEF telegram, yougile, database, history, counters, Submitters
  <1>1. ASSUME Take PROVE CleanInv'
    BY <1>1 DEF Take, CleanInv, NoHeld, NoDraft, NoLocals
  <1>2. ASSUME Asked PROVE CleanInv'
    BY <1>2 DEF Asked, CleanInv, NoHeld, NoDraft, NoLocals
  <1>3. ASSUME Reask PROVE CleanInv'
    BY <1>3 DEF Reask, CleanInv, NoHeld, NoDraft, NoLocals
  <1>4. ASSUME Hold PROVE CleanInv'
    BY <1>4 DEF Hold, CleanInv, NoHeld, NoDraft, NoLocals
  <1>5. ASSUME HoldSave PROVE CleanInv'
    BY <1>5 DEF HoldSave, CleanInv, NoHeld, NoDraft, NoLocals
  <1>6. ASSUME Intro PROVE CleanInv'
    BY <1>6 DEF Intro, CleanInv, NoHeld, NoDraft, NoLocals
  <1>7. ASSUME Greet PROVE CleanInv'
    BY <1>7 DEF Greet, CleanInv, NoHeld, NoDraft, NoLocals
  <1>8. ASSUME Request PROVE CleanInv'
    BY <1>8 DEF Request, CleanInv, NoHeld, NoDraft, NoLocals
  <1>9. ASSUME Requested PROVE CleanInv'
    BY <1>9 DEF Requested, CleanInv, NoHeld, NoDraft, NoLocals
  <1>10. ASSUME InTopic PROVE CleanInv'
    <2>1. \/ run' = run
          \/ \E k \in Keys : run' = [run EXCEPT !["person"].draft = [key |-> k, parts |-> {}]]
      BY <1>10 DEF InTopic, TicketsOf
    <2>2. \A w \in Submitters : run'[w].draft.parts \subseteq Clean
      BY <2>1 DEF CleanInv, RunType, Local
    <2>3. UNCHANGED <<drafts, held, tasks, posts>>
      BY <1>10 DEF InTopic
    <2>4. QED
      BY <2>2, <2>3, RunClean
  <1>11. ASSUME Post PROVE CleanInv'
    <2> DEFINE m == run["person"].msg
    <2>1. posts' = posts \/ posts' = [posts EXCEPT ![m] = posts[m] + 1]
      BY <1>11 DEF Post
    <2>2. m \in Clean
      BY <1>11 DEF Post, PastInv, Past
    <2>3. \A n \in Messages : posts'[n] > 0 => n = m \/ posts[n] > 0
      BY <2>1 DEF YouGileType
    <2>4. UNCHANGED <<drafts, held, tasks, run>>
      BY <1>11 DEF Post
    <2>5. QED
      BY <2>2, <2>3, <2>4 DEF CleanInv
  <1>12. ASSUME LinkPost PROVE CleanInv'
    BY <1>12 DEF LinkPost, CleanInv, NoHeld, NoDraft, NoLocals
  <1>13. ASSUME Compose PROVE CleanInv'
    <2>1. run' = run \/ run' = [run EXCEPT !["person"].draft = drafts[run["person"].topic]]
      BY <1>13 DEF Compose
    <2>2. drafts[run["person"].topic].parts \subseteq Clean
      BY LocalIs DEF CleanInv
    <2>3. \A w \in Submitters : run'[w].draft.parts \subseteq Clean
      BY <2>1, <2>2 DEF CleanInv, RunType, Local
    <2>4. UNCHANGED <<drafts, held, tasks, posts>>
      BY <1>13 DEF Compose
    <2>5. QED
      BY <2>3, <2>4, RunClean
  <1>14. ASSUME Composed PROVE CleanInv'
    <2> DEFINE r == run["person"]
               more == With(r.draft, r.msg)
    <2>1. drafts' = [drafts EXCEPT ![r.topic] = more] /\ UNCHANGED <<held, run, tasks, posts>>
      BY <1>14 DEF Composed
    <2>2. r.msg \in Clean /\ r.draft.parts \subseteq Clean
      BY <1>14 DEF Composed, PastInv, Past, CleanInv, Submitters
    <2>3. more.parts \subseteq Clean
      BY <2>2 DEF With
    <2> HIDE DEF more
    <2>4. \A t \in Topics : drafts'[t].parts \subseteq Clean /\ held'[t].parts \subseteq Clean
      BY <2>1, <2>3 DEF DraftsType, CleanInv
    <2>5. QED
      BY <2>1, <2>4, DraftsClean
  <1>15. ASSUME Cancel PROVE CleanInv'
    BY <1>15 DEF Cancel, CleanInv, NoHeld, NoDraft, NoLocals
  <1>16. ASSUME Cancelled PROVE CleanInv'
    BY <1>16 DEF Cancelled, CleanInv, NoHeld, NoDraft, NoLocals
  <1>17. ASSUME NEW w \in Submitters, Submit(w) PROVE CleanInv'
    <2>1. run' = run \/ run' = [run EXCEPT ![w].draft = drafts[run[w].topic]]
      BY <1>17 DEF Submit
    <2>2. drafts[run[w].topic].parts \subseteq Clean
      BY LocalIs DEF CleanInv
    <2>3. \A v \in Submitters : run'[v].draft.parts \subseteq Clean
      BY <2>1, <2>2 DEF CleanInv, RunType, Local
    <2>4. UNCHANGED <<drafts, held, tasks, posts>>
      BY <1>17 DEF Submit
    <2>5. QED
      BY <2>3, <2>4, RunClean
  <1>18. ASSUME NEW w \in Submitters, Create(w) PROVE CleanInv'
    <2> DEFINE d == run[w].draft
    <2>1. \/ tasks' = tasks
          \/ tasks' = [tasks EXCEPT ![d.key] = [project |-> run[w].project, body |-> d.parts]]
      BY <1>18 DEF Create, Filed
    <2>2. d.parts \subseteq Clean
      BY DEF CleanInv
    <2>3. \A k \in Keys : tasks'[k].body \in {tasks[k].body, d.parts}
      BY <2>1 DEF YouGileType
    <2>4. UNCHANGED <<drafts, held, posts, run>>
      BY <1>18 DEF Create
    <2>5. QED
      BY <2>2, <2>3, <2>4 DEF CleanInv
  <1>19. ASSUME NEW w \in Submitters, AddRow(w) PROVE CleanInv'
    BY <1>19 DEF AddRow, CleanInv, NoHeld, NoDraft, NoLocals
  <1>20. ASSUME NEW w \in Submitters, Tie(w) PROVE CleanInv'
    BY <1>20 DEF Tie, CleanInv, NoHeld, NoDraft, NoLocals
  <1>21. ASSUME NEW w \in Submitters, LinkParts(w) PROVE CleanInv'
    <2>1. run' = run \/ \E m \in run[w].left : run' = [run EXCEPT ![w].left = run[w].left \ {m}]
      BY <1>21 DEF LinkParts
    <2>2. \A v \in Submitters : run'[v].draft.parts \subseteq Clean
      BY <2>1 DEF CleanInv, RunType, Local
    <2>3. UNCHANGED <<drafts, held, tasks, posts>>
      BY <1>21 DEF LinkParts
    <2>4. QED
      BY <2>2, <2>3, RunClean
  <1>22. ASSUME NEW w \in Submitters, Clear(w) PROVE CleanInv'
    BY <1>22 DEF Clear, CleanInv, NoHeld, NoDraft, NoLocals
  <1>23. ASSUME Decided PROVE CleanInv'
    BY <1>23 DEF Decided, CleanInv, NoHeld, NoDraft, NoLocals
  <1>24. ASSUME HeldRead PROVE CleanInv'
    <2>1. held' = note.held /\ UNCHANGED <<drafts, run, tasks, posts>>
      BY <1>24 DEF HeldRead
    <2>2. Known \subseteq Clean
      BY <1>24 DEF HeldRead, AccessInv
    <2>3. \A t \in Topics : drafts'[t].parts \subseteq Clean /\ held'[t].parts \subseteq Clean
      BY <2>1, <2>2 DEF NotesInv, CleanInv
    <2>4. QED
      BY <2>1, <2>3, DraftsClean
  <1>25. ASSUME Forget PROVE CleanInv'
    BY <1>25 DEF Forget, CleanInv, NoHeld, NoDraft, NoLocals
  <1>26. ASSUME Drop PROVE CleanInv'
    BY <1>26 DEF Drop, CleanInv, NoHeld, NoDraft, NoLocals
  <1>27. ASSUME Reintro PROVE CleanInv'
    BY <1>27 DEF Reintro, CleanInv, NoHeld, NoDraft, NoLocals
  <1>28. ASSUME Release PROVE CleanInv'
    <2>1. held' = held \/ \E t \in Topics : held' = [held EXCEPT ![t] = NoDraft]
      BY <1>28 DEF Release
    <2>2. \A t \in Topics : held'[t].parts \subseteq Clean
      BY <2>1 DEF DraftsType, CleanInv, NoDraft
    <2>3. run' = run \/ \E t \in Topics : run' = [run EXCEPT !["manager"].topic = t]
      BY <1>28 DEF Release
    <2>4. \A w \in Submitters : run'[w].draft = run[w].draft
      BY <2>3 DEF RunType, Local
    <2>5. UNCHANGED <<drafts, tasks, posts>>
      BY <1>28 DEF Release
    <2>6. QED
      BY <2>2, <2>4, <2>5 DEF CleanInv
  <1>29. ASSUME HeldCheck PROVE CleanInv'
    <2>1. held' = held \/ held' = [held EXCEPT ![run["manager"].topic] = NoDraft]
      BY <1>29 DEF HeldCheck
    <2>2. UNCHANGED <<drafts, run, tasks, posts>>
      BY <1>29 DEF HeldCheck
    <2>3. \A t \in Topics : drafts'[t].parts \subseteq Clean /\ held'[t].parts \subseteq Clean
      BY <2>1, <2>2 DEF DraftsType, CleanInv, NoDraft
    <2>4. QED
      BY <2>2, <2>3, DraftsClean
  <1>30. ASSUME HeldSave PROVE CleanInv'
    BY <1>30 DEF HeldSave, CleanInv, NoHeld, NoDraft, NoLocals
  <1>31. ASSUME NEW t \in Topics, NEW kind \in {"text", "tap", "cancel"}, Write(t, kind)
        PROVE CleanInv'
    BY <1>31 DEF Write, CleanInv, NoHeld, NoDraft, NoLocals
  <1>32. ASSUME NEW action \in Actions, NEW p \in Projects \cup {NoProject}, Decide(action, p)
        PROVE CleanInv'
    BY <1>32 DEF Decide, CleanInv, NoHeld, NoDraft, NoLocals
  <1>33. ASSUME CliBlock PROVE CleanInv'
    BY <1>33 DEF CliBlock, CleanInv, NoHeld, NoDraft, NoLocals
  <1>34. ASSUME CliDrop PROVE CleanInv'
    BY <1>34 DEF CliDrop, CleanInv, NoHeld, NoDraft, NoLocals
  <1>35. ASSUME Crash PROVE CleanInv'
    BY <1>35 DEF Crash, CleanInv, NoHeld, NoDraft, NoLocals
  <1>36. QED
    BY <1>1, <1>2, <1>3, <1>4, <1>5, <1>6, <1>7, <1>8, <1>9, <1>10, <1>11, <1>12, <1>13, <1>14,
       <1>15, <1>16, <1>17, <1>18, <1>19, <1>20, <1>21, <1>22, <1>23, <1>24, <1>25, <1>26,
       <1>27, <1>28, <1>29, <1>30, <1>31, <1>32, <1>33, <1>34, <1>35
       DEF Next, Handles, Manages, Outside, Submits

\* Every step keeps what an approved sender wrote before cleared.
LEMMA AccessStep ==
  ASSUME ~CliBlocks, PhaseInv, TelegramType, DatabaseType, ActType, CountInv, AccessInv,
         \A m \in Known : written'[m] = written[m], Known \subseteq Known',
         Clean \subseteq Clean', Next
  PROVE  AccessInv'
  <1> USE DEF telegram, yougile, database, history, counters, Submitters
  <1>1. ASSUME Take PROVE AccessInv'
    <2>1. Moved("person", "idle", {"idle", "topic", "submit", "cancel", "asked", "intro"})
          /\ written' = written /\ approvals' = approvals /\ sender' = sender
      BY <1>1, Moves DEF Take
    <2>2. act' = act
      BY <1>1 DEF Take
    <2>3. pc'["cli"] = "idle"
      BY <2>1 DEF Moved, AccessInv, Workers, Submitters
    <2>4. pc'["manager"] \in {"decided", "heldread"} => pc'["manager"] = pc["manager"]
          /\ act' = act
      BY <2>1, <2>2 DEF Moved, AfterAll, Workers, Submitters
    <2>5. QED
      BY <2>1, <2>3, <2>4, AccessKept
  <1>2. ASSUME Asked PROVE AccessInv'
    <2>1. Moved("person", "asked", {"reask", "hold"}) /\ written' = written
          /\ approvals' = approvals /\ sender' = sender
      BY <1>2, Moves DEF Asked
    <2>2. act' = act
      BY <1>2 DEF Asked
    <2>3. pc'["cli"] = "idle"
      BY <2>1 DEF Moved, AccessInv, Workers, Submitters
    <2>4. pc'["manager"] \in {"decided", "heldread"} => pc'["manager"] = pc["manager"]
          /\ act' = act
      BY <2>1, <2>2 DEF Moved, AfterAll, Workers, Submitters
    <2>5. QED
      BY <2>1, <2>3, <2>4, AccessKept
  <1>3. ASSUME Reask PROVE AccessInv'
    <2>1. written' = written /\ approvals' = approvals /\ sender' = sender /\ pc'["cli"] = "idle"
      BY <1>3 DEF Reask, Goto, PhaseInv, Workers, AccessInv
    <2>2. pc'["manager"] \in {"decided", "heldread"} => pc'["manager"] = pc["manager"]
          /\ act' = act
      BY <1>3 DEF Reask, Goto, PhaseInv, Workers
    <2>3. QED
      BY <2>1, <2>2, AccessKept
  <1>4. ASSUME Hold PROVE AccessInv'
    <2>1. Moved("person", "hold", {"idle", "holdsave"}) /\ written' = written
          /\ approvals' = approvals /\ sender' = sender
      BY <1>4, Moves DEF Hold
    <2>2. act' = act
      BY <1>4 DEF Hold
    <2>3. pc'["cli"] = "idle"
      BY <2>1 DEF Moved, AccessInv, Workers, Submitters
    <2>4. pc'["manager"] \in {"decided", "heldread"} => pc'["manager"] = pc["manager"]
          /\ act' = act
      BY <2>1, <2>2 DEF Moved, AfterAll, Workers, Submitters
    <2>5. QED
      BY <2>1, <2>3, <2>4, AccessKept
  <1>5. ASSUME HoldSave PROVE AccessInv'
    <2>1. written' = written /\ approvals' = approvals /\ sender' = sender /\ pc'["cli"] = "idle"
      BY <1>5 DEF HoldSave, Goto, PhaseInv, Workers, AccessInv
    <2>2. pc'["manager"] \in {"decided", "heldread"} => pc'["manager"] = pc["manager"]
          /\ act' = act
      BY <1>5 DEF HoldSave, Goto, PhaseInv, Workers
    <2>3. QED
      BY <2>1, <2>2, AccessKept
  <1>6. ASSUME Intro PROVE AccessInv'
    <2>1. written' = written /\ approvals' = approvals /\ sender' = sender /\ pc'["cli"] = "idle"
      BY <1>6 DEF Intro, Goto, PhaseInv, Workers, AccessInv
    <2>2. pc'["manager"] \in {"decided", "heldread"} => pc'["manager"] = pc["manager"]
          /\ act' = act
      BY <1>6 DEF Intro, Goto, PhaseInv, Workers
    <2>3. QED
      BY <2>1, <2>2, AccessKept
  <1>7. ASSUME Greet PROVE AccessInv'
    <2>1. written' = written /\ approvals' = approvals /\ sender' = sender /\ pc'["cli"] = "idle"
      BY <1>7 DEF Greet, Goto, PhaseInv, Workers, AccessInv
    <2>2. pc'["manager"] \in {"decided", "heldread"} => pc'["manager"] = pc["manager"]
          /\ act' = act
      BY <1>7 DEF Greet, Goto, PhaseInv, Workers
    <2>3. QED
      BY <2>1, <2>2, AccessKept
  <1>8. ASSUME Request PROVE AccessInv'
    <2>1. sender'.status = "approved" <=> sender.status = "approved"
      <3>1. \/ sender' = sender
            \/ sender.status \in {"none", "rejected", "revoked"}
               /\ sender' = [sender EXCEPT !.status = "pending"]
        BY <1>8 DEF Request
      <3>2. [sender EXCEPT !.status = "pending"].status = "pending"
        BY DEF DatabaseType
      <3>3. QED
        BY <3>1, <3>2
    <2>2. written' = written /\ approvals' = approvals /\ act' = act /\ pc'["cli"] = "idle"
          /\ pc'["manager"] = pc["manager"]
      BY <1>8 DEF Request, Goto, PhaseInv, Workers, AccessInv
    <2>3. QED
      BY <2>1, <2>2, AccessKept
  <1>9. ASSUME Requested PROVE AccessInv'
    <2>1. written' = written /\ approvals' = approvals /\ sender' = sender /\ pc'["cli"] = "idle"
      BY <1>9 DEF Requested, Goto, PhaseInv, Workers, AccessInv
    <2>2. pc'["manager"] \in {"decided", "heldread"} => pc'["manager"] = pc["manager"]
          /\ act' = act
      BY <1>9 DEF Requested, Goto, PhaseInv, Workers
    <2>3. QED
      BY <2>1, <2>2, AccessKept
  <1>10. ASSUME InTopic PROVE AccessInv'
    <2>1. Moved("person", "topic", {"idle", "post", "compose"}) /\ written' = written
          /\ approvals' = approvals /\ sender' = sender
      BY <1>10, Moves DEF InTopic
    <2>2. act' = act
      BY <1>10 DEF InTopic
    <2>3. pc'["cli"] = "idle"
      BY <2>1 DEF Moved, AccessInv, Workers, Submitters
    <2>4. pc'["manager"] \in {"decided", "heldread"} => pc'["manager"] = pc["manager"]
          /\ act' = act
      BY <2>1, <2>2 DEF Moved, AfterAll, Workers, Submitters
    <2>5. QED
      BY <2>1, <2>3, <2>4, AccessKept
  <1>11. ASSUME Post PROVE AccessInv'
    <2>1. Moved("person", "post", {"idle", "link"}) /\ written' = written
          /\ approvals' = approvals /\ sender' = sender
      BY <1>11, Moves DEF Post
    <2>2. act' = act
      BY <1>11 DEF Post
    <2>3. pc'["cli"] = "idle"
      BY <2>1 DEF Moved, AccessInv, Workers, Submitters
    <2>4. pc'["manager"] \in {"decided", "heldread"} => pc'["manager"] = pc["manager"]
          /\ act' = act
      BY <2>1, <2>2 DEF Moved, AfterAll, Workers, Submitters
    <2>5. QED
      BY <2>1, <2>3, <2>4, AccessKept
  <1>12. ASSUME LinkPost PROVE AccessInv'
    <2>1. written' = written /\ approvals' = approvals /\ sender' = sender /\ pc'["cli"] = "idle"
      BY <1>12 DEF LinkPost, Goto, PhaseInv, Workers, AccessInv
    <2>2. pc'["manager"] \in {"decided", "heldread"} => pc'["manager"] = pc["manager"]
          /\ act' = act
      BY <1>12 DEF LinkPost, Goto, PhaseInv, Workers
    <2>3. QED
      BY <2>1, <2>2, AccessKept
  <1>13. ASSUME Compose PROVE AccessInv'
    <2>1. Moved("person", "compose", {"idle", "composed"}) /\ written' = written
          /\ approvals' = approvals /\ sender' = sender
      BY <1>13, Moves DEF Compose
    <2>2. act' = act
      BY <1>13 DEF Compose
    <2>3. pc'["cli"] = "idle"
      BY <2>1 DEF Moved, AccessInv, Workers, Submitters
    <2>4. pc'["manager"] \in {"decided", "heldread"} => pc'["manager"] = pc["manager"]
          /\ act' = act
      BY <2>1, <2>2 DEF Moved, AfterAll, Workers, Submitters
    <2>5. QED
      BY <2>1, <2>3, <2>4, AccessKept
  <1>14. ASSUME Composed PROVE AccessInv'
    <2>1. written' = written /\ approvals' = approvals /\ sender' = sender /\ pc'["cli"] = "idle"
      BY <1>14 DEF Composed, Goto, PhaseInv, Workers, AccessInv
    <2>2. pc'["manager"] \in {"decided", "heldread"} => pc'["manager"] = pc["manager"]
          /\ act' = act
      BY <1>14 DEF Composed, Goto, PhaseInv, Workers
    <2>3. QED
      BY <2>1, <2>2, AccessKept
  <1>15. ASSUME Cancel PROVE AccessInv'
    <2>1. written' = written /\ approvals' = approvals /\ sender' = sender /\ pc'["cli"] = "idle"
      BY <1>15 DEF Cancel, Goto, PhaseInv, Workers, AccessInv
    <2>2. pc'["manager"] \in {"decided", "heldread"} => pc'["manager"] = pc["manager"]
          /\ act' = act
      BY <1>15 DEF Cancel, Goto, PhaseInv, Workers
    <2>3. QED
      BY <2>1, <2>2, AccessKept
  <1>16. ASSUME Cancelled PROVE AccessInv'
    <2>1. written' = written /\ approvals' = approvals /\ sender' = sender /\ pc'["cli"] = "idle"
      BY <1>16 DEF Cancelled, Goto, PhaseInv, Workers, AccessInv
    <2>2. pc'["manager"] \in {"decided", "heldread"} => pc'["manager"] = pc["manager"]
          /\ act' = act
      BY <1>16 DEF Cancelled, Goto, PhaseInv, Workers
    <2>3. QED
      BY <2>1, <2>2, AccessKept
  <1>17. ASSUME NEW w \in Submitters, Submit(w) PROVE AccessInv'
    <2>1. Moved(w, "submit", {"create", AfterAll(w)}) /\ written' = written
          /\ approvals' = approvals /\ sender' = sender
      BY <1>17, Moves DEF Submit
    <2>2. act' = act
      BY <1>17 DEF Submit
    <2>3. pc'["cli"] = "idle"
      BY <2>1 DEF Moved, AccessInv, Workers, Submitters
    <2>4. pc'["manager"] \in {"decided", "heldread"} => pc'["manager"] = pc["manager"]
          /\ act' = act
      BY <2>1, <2>2 DEF Moved, AfterAll, Workers, Submitters
    <2>5. QED
      BY <2>1, <2>3, <2>4, AccessKept
  <1>18. ASSUME NEW w \in Submitters, Create(w) PROVE AccessInv'
    <2>1. Moved(w, "create", {"row", AfterAll(w)}) /\ written' = written
          /\ approvals' = approvals /\ sender' = sender
      BY <1>18, Moves DEF Create
    <2>2. act' = act
      BY <1>18 DEF Create
    <2>3. pc'["cli"] = "idle"
      BY <2>1 DEF Moved, AccessInv, Workers, Submitters
    <2>4. pc'["manager"] \in {"decided", "heldread"} => pc'["manager"] = pc["manager"]
          /\ act' = act
      BY <2>1, <2>2 DEF Moved, AfterAll, Workers, Submitters
    <2>5. QED
      BY <2>1, <2>3, <2>4, AccessKept
  <1>19. ASSUME NEW w \in Submitters, AddRow(w) PROVE AccessInv'
    <2>1. written' = written /\ approvals' = approvals /\ sender' = sender /\ pc'["cli"] = "idle"
      BY <1>19 DEF AddRow, Goto, PhaseInv, Workers, AccessInv
    <2>2. pc'["manager"] \in {"decided", "heldread"} => pc'["manager"] = pc["manager"]
          /\ act' = act
      BY <1>19 DEF AddRow, Goto, PhaseInv, Workers
    <2>3. QED
      BY <2>1, <2>2, AccessKept
  <1>20. ASSUME NEW w \in Submitters, Tie(w) PROVE AccessInv'
    <2>1. written' = written /\ approvals' = approvals /\ sender' = sender /\ pc'["cli"] = "idle"
      BY <1>20 DEF Tie, Goto, PhaseInv, Workers, AccessInv
    <2>2. pc'["manager"] \in {"decided", "heldread"} => pc'["manager"] = pc["manager"]
          /\ act' = act
      BY <1>20 DEF Tie, Goto, PhaseInv, Workers
    <2>3. QED
      BY <2>1, <2>2, AccessKept
  <1>21. ASSUME NEW w \in Submitters, LinkParts(w) PROVE AccessInv'
    <2>1. Moved(w, "linkparts", {"linkparts", "clear"}) /\ written' = written
          /\ approvals' = approvals /\ sender' = sender
      BY <1>21, Moves DEF LinkParts
    <2>2. act' = act
      BY <1>21 DEF LinkParts
    <2>3. pc'["cli"] = "idle"
      BY <2>1 DEF Moved, AccessInv, Workers, Submitters
    <2>4. pc'["manager"] \in {"decided", "heldread"} => pc'["manager"] = pc["manager"]
          /\ act' = act
      BY <2>1, <2>2 DEF Moved, AfterAll, Workers, Submitters
    <2>5. QED
      BY <2>1, <2>3, <2>4, AccessKept
  <1>22. ASSUME NEW w \in Submitters, Clear(w) PROVE AccessInv'
    <2>1. Moved(w, "clear", {AfterAll(w)}) /\ written' = written /\ approvals' = approvals
          /\ sender' = sender
      BY <1>22, Moves DEF Clear
    <2>2. act' = act
      BY <1>22 DEF Clear
    <2>3. pc'["cli"] = "idle"
      BY <2>1 DEF Moved, AccessInv, Workers, Submitters
    <2>4. pc'["manager"] \in {"decided", "heldread"} => pc'["manager"] = pc["manager"]
          /\ act' = act
      BY <2>1, <2>2 DEF Moved, AfterAll, Workers, Submitters
    <2>5. QED
      BY <2>1, <2>3, <2>4, AccessKept
  <1>23. ASSUME Decided PROVE AccessInv'
    <2>1. /\ written' = written /\ pc'["cli"] = "idle" /\ pc["manager"] = "decided"
          /\ sender'.status = NewStatus[act.kind]
          /\ approvals' = IF act.kind = "approve" THEN approvals + 1 ELSE approvals
          /\ pc'["manager"] = CASE act.kind = "approve" -> "heldread"
                                [] act.kind = "reject" -> "forget"
                                [] OTHER -> "drop"
      BY <1>23 DEF Decided, Goto, PhaseInv, Workers, AccessInv
    <2>2. Known' = Known /\ approvals \in Nat /\ act.kind \in Actions
      BY <2>1 DEF Known, CountInv, ActType
    <2>3. \A m \in Known : written[m].approvals \in Nat /\ written[m].approvals <= approvals
      <3>1. ASSUME NEW m \in Known PROVE written[m] \in Update
        BY ElementOfSeq DEF TelegramType, Known
      <3>2. QED
        BY <3>1 DEF AccessInv, Update
    <2>4. \A m \in Known : written'[m].approvals <= approvals'
      BY <2>1, <2>2, <2>3
    <2>5. pc'["manager"] # "decided" /\ (pc'["manager"] = "heldread" => act.kind = "approve")
      BY <2>1
    <2>6. CASE act.kind = "approve"
      <3>1. sender'.status = "approved" /\ approvals' = approvals + 1
        BY <2>1, <2>6 DEF NewStatus
      <3>2. \A m \in Known : approvals' > written'[m].approvals
        BY <2>1, <2>2, <2>3, <3>1
      <3>3. Known' \subseteq Clean'
        BY <2>2, <3>2 DEF Clean, Cleared
      <3>4. QED
        BY <2>1, <2>2, <2>4, <2>5, <3>1, <3>3 DEF AccessInv
    <2>7. CASE act.kind # "approve"
      <3>1. sender'.status = "approved" => act.kind = "move"
        BY <2>1, <2>2, <2>7 DEF NewStatus, Actions
      <3>2. sender'.status = "approved" => Known' \subseteq Clean'
        BY <2>1, <2>2, <3>1 DEF AccessInv
      <3>3. QED
        BY <2>1, <2>2, <2>4, <2>5, <2>7, <3>2 DEF AccessInv
    <2>8. QED
      BY <2>6, <2>7
  <1>24. ASSUME HeldRead PROVE AccessInv'
    <2>1. written' = written /\ approvals' = approvals /\ sender' = sender /\ pc'["cli"] = "idle"
      BY <1>24 DEF HeldRead, Goto, PhaseInv, Workers, AccessInv
    <2>2. pc'["manager"] \in {"decided", "heldread"} => pc'["manager"] = pc["manager"]
          /\ act' = act
      BY <1>24 DEF HeldRead, Goto, PhaseInv, Workers
    <2>3. QED
      BY <2>1, <2>2, AccessKept
  <1>25. ASSUME Forget PROVE AccessInv'
    <2>1. Moved("manager", "forget", {"idle", "release"}) /\ written' = written
          /\ approvals' = approvals /\ sender' = sender
      BY <1>25, Moves DEF Forget
    <2>2. pc'["cli"] = "idle"
      BY <2>1 DEF Moved, AccessInv, Workers, Submitters
    <2>3. pc'["manager"] \in {"decided", "heldread"} => pc'["manager"] = pc["manager"]
          /\ act' = act
      BY <2>1 DEF Moved, AfterAll, Workers, Submitters
    <2>4. QED
      BY <2>1, <2>2, <2>3, AccessKept
  <1>26. ASSUME Drop PROVE AccessInv'
    <2>1. Moved("manager", "drop", {"idle", "reintro"}) /\ written' = written
          /\ approvals' = approvals /\ sender' = sender
      BY <1>26, Moves DEF Drop
    <2>2. pc'["cli"] = "idle"
      BY <2>1 DEF Moved, AccessInv, Workers, Submitters
    <2>3. pc'["manager"] \in {"decided", "heldread"} => pc'["manager"] = pc["manager"]
          /\ act' = act
      BY <2>1 DEF Moved, AfterAll, Workers, Submitters
    <2>4. QED
      BY <2>1, <2>2, <2>3, AccessKept
  <1>27. ASSUME Reintro PROVE AccessInv'
    <2>1. written' = written /\ approvals' = approvals /\ sender' = sender /\ pc'["cli"] = "idle"
      BY <1>27 DEF Reintro, Goto, PhaseInv, Workers, AccessInv
    <2>2. pc'["manager"] \in {"decided", "heldread"} => pc'["manager"] = pc["manager"]
          /\ act' = act
      BY <1>27 DEF Reintro, Goto, PhaseInv, Workers
    <2>3. QED
      BY <2>1, <2>2, AccessKept
  <1>28. ASSUME Release PROVE AccessInv'
    <2>1. Moved("manager", "release", {"idle", "release", "heldcheck"}) /\ written' = written
          /\ approvals' = approvals /\ sender' = sender
      BY <1>28, Moves DEF Release
    <2>2. pc'["cli"] = "idle"
      BY <2>1 DEF Moved, AccessInv, Workers, Submitters
    <2>3. pc'["manager"] \in {"decided", "heldread"} => pc'["manager"] = pc["manager"]
          /\ act' = act
      BY <2>1 DEF Moved, AfterAll, Workers, Submitters
    <2>4. QED
      BY <2>1, <2>2, <2>3, AccessKept
  <1>29. ASSUME HeldCheck PROVE AccessInv'
    <2>1. Moved("manager", "heldcheck", {"heldsave", "release"}) /\ written' = written
          /\ approvals' = approvals /\ sender' = sender
      BY <1>29, Moves DEF HeldCheck
    <2>2. pc'["cli"] = "idle"
      BY <2>1 DEF Moved, AccessInv, Workers, Submitters
    <2>3. pc'["manager"] \in {"decided", "heldread"} => pc'["manager"] = pc["manager"]
          /\ act' = act
      BY <2>1 DEF Moved, AfterAll, Workers, Submitters
    <2>4. QED
      BY <2>1, <2>2, <2>3, AccessKept
  <1>30. ASSUME HeldSave PROVE AccessInv'
    <2>1. written' = written /\ approvals' = approvals /\ sender' = sender /\ pc'["cli"] = "idle"
      BY <1>30 DEF HeldSave, Goto, PhaseInv, Workers, AccessInv
    <2>2. pc'["manager"] \in {"decided", "heldread"} => pc'["manager"] = pc["manager"]
          /\ act' = act
      BY <1>30 DEF HeldSave, Goto, PhaseInv, Workers
    <2>3. QED
      BY <2>1, <2>2, AccessKept
  <1>31. ASSUME NEW t \in Topics, NEW kind \in {"text", "tap", "cancel"}, Write(t, kind)
        PROVE AccessInv'
    <2> DEFINE u == [topic |-> t, kind |-> kind, decisions |-> Settled, approvals |-> approvals,
                     project |-> IF sender.status = "approved" THEN sender.project ELSE NoProject]
    <2>1. written' = Append(written, u) /\ UNCHANGED <<approvals, sender, pc, act>>
      BY <1>31 DEF Write
    <2>2. /\ u.approvals = approvals /\ approvals \in Nat
          /\ sender.status = "approved" => u.project # NoProject
      BY Parameters DEF CountInv, DatabaseType
    <2> HIDE DEF u
    <2>3. /\ Len(written') = Len(written) + 1 /\ Len(written) \in Nat
          /\ written'[Len(written) + 1] = u
      BY <2>1, AppendProperties, LenProperties DEF TelegramType
    <2>4. \A m \in Known' : m \in Known \/ m = Len(written) + 1
      BY <2>3 DEF Known
    <2>5. \A m \in Known' : written'[m].approvals <= approvals'
      <3>1. ASSUME NEW m \in Known PROVE written'[m].approvals <= approvals
        BY DEF AccessInv
      <3>2. written'[Len(written) + 1].approvals <= approvals
        BY <2>2, <2>3
      <3>3. QED
        BY <2>1, <2>4, <3>1, <3>2
    <2>6. ASSUME sender.status = "approved"
          PROVE  Known' \subseteq Clean'
      <3>1. ASSUME NEW m \in Known' PROVE m \in Clean'
        <4>1. CASE m \in Known
          BY <2>6, <4>1 DEF AccessInv
        <4>2. CASE m = Len(written) + 1
          <5>1. written'[m].project # NoProject
            BY <2>2, <2>3, <2>6, <4>2
          <5>2. QED
            BY <3>1, <5>1 DEF Clean, Cleared
        <4>3. QED
          BY <2>4, <3>1, <4>1, <4>2
      <3>2. QED
        BY <3>1
    <2>7. QED
      BY <2>1, <2>5, <2>6 DEF AccessInv
  <1>32. ASSUME NEW action \in Actions, NEW p \in Projects \cup {NoProject}, Decide(action, p)
        PROVE AccessInv'
    <2>1. written' = written /\ approvals' = approvals /\ sender' = sender
          /\ pc'["cli"] = "idle" /\ pc'["manager"] = "decided"
          /\ act'.kind = action /\ Applies(action, sender.status)
      BY <1>32 DEF Decide, Goto, PhaseInv, Workers, AccessInv
    <2>2. action = "move" => sender.status = "approved"
      BY <2>1 DEF Applies
    <2>3. Known' = Known
      BY <2>1 DEF Known
    <2>4. QED
      BY <2>1, <2>2, <2>3 DEF AccessInv
  <1>33. ASSUME CliBlock PROVE AccessInv'
    BY <1>33 DEF CliBlock
  <1>34. ASSUME CliDrop PROVE AccessInv'
    <2>1. written' = written /\ approvals' = approvals /\ sender' = sender /\ pc'["cli"] = "idle"
      BY <1>34 DEF CliDrop, Goto, PhaseInv, Workers, AccessInv
    <2>2. pc'["manager"] \in {"decided", "heldread"} => pc'["manager"] = pc["manager"]
          /\ act' = act
      BY <1>34 DEF CliDrop, Goto, PhaseInv, Workers
    <2>3. QED
      BY <2>1, <2>2, AccessKept
  <1>35. ASSUME Crash PROVE AccessInv'
    <2>1. written' = written /\ approvals' = approvals /\ sender' = sender /\ pc'["cli"] = "idle"
      BY <1>35 DEF Crash, Goto, PhaseInv, Workers, AccessInv
    <2>2. pc'["manager"] \in {"decided", "heldread"} => pc'["manager"] = pc["manager"]
          /\ act' = act
      BY <1>35 DEF Crash, Goto, PhaseInv, Workers
    <2>3. QED
      BY <2>1, <2>2, AccessKept
  <1>36. QED
    BY <1>1, <1>2, <1>3, <1>4, <1>5, <1>6, <1>7, <1>8, <1>9, <1>10, <1>11, <1>12, <1>13, <1>14,
       <1>15, <1>16, <1>17, <1>18, <1>19, <1>20, <1>21, <1>22, <1>23, <1>24, <1>25, <1>26,
       <1>27, <1>28, <1>29, <1>30, <1>31, <1>32, <1>33, <1>34, <1>35
       DEF Next, Handles, Manages, Outside, Submits

-----------------------------------------------------------------------------
(* The whole *)

\* The types and the locks hold initially.
LEMMA InitTypes ==
  ASSUME Init
  PROVE  Types
  <1>1. PhaseInv
    BY DEF Init, PhaseInv, Workers, Phases
  <1>2. TelegramType
    BY Parameters, EmptySeq DEF Init, TelegramType, Known
  <1>3. YouGileType
    BY DEF Init, YouGileType, NoTask
  <1>4. DatabaseType
    BY DEF Init, DatabaseType, Statuses
  <1>5. DraftsType
    BY Blanks DEF Init, DraftsType
  <1>6. RunType
    BY Blanks DEF Init, RunType, Past, Sending, Filing, Submitters
  <1>7. ActType
    BY DEF Init, ActType, NoAct, Releasing, Sending, Filing
  <1>8. LockInv
    BY Parameters DEF Init, LockInv, Holders, Filing, Submitters
  <1>9. CountInv
    <2>1. Len(inbox) = 0 /\ Len(written) = 0 /\ Owed = 0
      BY DEF Init, Owed, Unminted, Strange
    <2>2. faults \in 0 .. MaxFaults
      BY Parameters DEF Init
    <2>3. Again \in Nat
      BY <2>2, AgainIs
    <2>4. QED
      BY <2>1, <2>2, <2>3, Parameters DEF Init, CountInv
  <1>10. HistoryType
    BY DEF Init, HistoryType
  <1>11. QED
    BY <1>1, <1>2, <1>3, <1>4, <1>5, <1>6, <1>7, <1>8, <1>9, <1>10 DEF Types

\* Every step keeps the types and the locks.
LEMMA StepTypes ==
  ASSUME Types, [Next]_vars
  PROVE  Types'
  <1>1. CASE Next
    BY <1>1, PhaseStep, TelegramStep, YouGileStep, DatabaseStep, DraftsStep, RunStep, ActStep,
       LockStep, CountStep, HistoryStep DEF Types
  <1>2. CASE UNCHANGED vars
    <2> USE <1>2 DEF Types, vars
    <2>1. PhaseInv' /\ YouGileType' /\ DatabaseType' /\ DraftsType' /\ RunType'
      BY DEF PhaseInv, YouGileType, DatabaseType, DraftsType, RunType, Known
    <2>2. TelegramType' /\ ActType' /\ LockInv' /\ HistoryType'
      BY DEF TelegramType, Known, ActType, LockInv, HistoryType
    <2>3. CountInv'
      BY DEF CountInv, Owed, Again
    <2>4. QED
      BY <2>1, <2>2, <2>3
  <1>3. QED
    BY <1>1, <1>2

\* The types and the locks always hold.
LEMMA TypesAlways == Spec => []Types
  <1>1. QED
    BY InitTypes, StepTypes, PTL DEF Spec

\* Every variable keeps its type, and a lock is held exactly while its draft is written.
THEOREM TypeCorrect == Spec => []TypeOK
  <1>1. ASSUME Types PROVE TypeOK
    <2>1. Proper \subseteq Draft /\ Letter \subseteq Note /\ Local \subseteq Locals
      BY DEF Proper, Letter, Note, Local, Locals
    <2>2. /\ written \in Seq(Update) /\ inbox \in Seq(Messages)
          /\ batch \in [from : Nat \ {0}, to : Nat]
          /\ Len(inbox) \in Nat /\ Len(written) \in Nat
      BY <1>1, KnownIs, LenProperties DEF Types, TelegramType
    <2>3. keys \in Keys \cup {0}
      <3>1. Owed \in Nat
        BY DEF Owed
      <3>2. /\ Again \in Nat /\ MaxWrites * (1 + MaxFaults) \in Nat
            /\ MaxWrites + Again <= MaxWrites * (1 + MaxFaults)
        BY <1>1, AgainIs DEF Types, CountInv
      <3>3. keys \in Nat /\ keys <= MaxWrites + Again
        BY <1>1, <2>2, <3>1, <3>2, Parameters DEF Types, CountInv, TelegramType
      <3> DEFINE all == MaxWrites * (1 + MaxFaults)
      <3>4. Keys = 1 .. all
        BY DEF Keys
      <3> HIDE DEF all
      <3>5. all \in Nat /\ keys <= all
        BY <3>2, <3>3, Parameters DEF all
      <3>6. QED
        BY <3>3, <3>4, <3>5
    <2>4. /\ note \in Note /\ seen \in Note
          /\ drafts \in [Topics -> Draft] /\ held \in [Topics -> Draft]
             /\ run \in [Submitters -> Locals]
      BY <1>1, <2>1 DEF Types, DraftsType, RunType
    <2>5. lock \in [Topics -> Submitters \cup {Nobody}] /\ pc \in [Workers -> Phases]
          /\ \A w \in Submitters, t \in Topics :
               lock[t] = w <=> run[w].topic = t /\ pc[w] \in
                 {"composed", "create", "row", "tie", "linkparts", "clear", "heldsave"}
      BY <1>1 DEF Types, LockInv, PhaseInv, Holders, Filing
    <2>6. /\ tasks \in [Keys -> [project : Projects \cup {NoProject}, body : SUBSET Messages]]
          /\ \A k \in Keys : tasks[k] # NoTask => tasks[k].project \in Projects
          /\ posts \in [Messages -> Nat]
          /\ sender \in [status : Statuses, project : Projects \cup {NoProject}]
          /\ rows \in [Keys -> {"none", "untied"} \cup Topics]
             /\ links \subseteq Messages \X Keys
          /\ act \in [kind : Actions \cup {"none"}, project : Projects \cup {NoProject}]
      BY <1>1 DEF Types, YouGileType, DatabaseType, ActType
    <2>7. /\ kept \subseteq Messages /\ heldTold \subseteq Messages /\ dropped \subseteq Messages
          /\ decisions \in Nat /\ approvals \in Nat /\ faults \in 0 .. MaxFaults
             /\ slips \in 0 .. faults
      BY <1>1 DEF Types, HistoryType, CountInv
    <2>8. QED
      BY <2>2, <2>3, <2>4, <2>5, <2>6, <2>7 DEF TypeOK, Update, Workers
  <1>2. QED
    BY <1>1, TypesAlways, PTL

\* Initially nothing was written.
LEMMA InitAccess ==
  ASSUME Init
  PROVE  NoAccessInv
  <1>1. Known = {}
    BY DEF Init, Known
  <1>2. AccessInv
    BY <1>1 DEF Init, AccessInv
  <1>3. NotesInv /\ PastInv /\ CleanInv
    BY <1>1 DEF Init, NotesInv, PastInv, CleanInv, NoteOf, NoHeld, NoDraft, NoTask, NoLocals,
       Past,
       Sending, Filing
  <1>4. QED
    BY <1>2, <1>3 DEF NoAccessInv

\* Every step keeps clean what is or may become a ticket, and the notes and the access.
LEMMA StepAccess ==
  ASSUME CliBlocks = FALSE, Types, NoAccessInv, [Next]_vars
  PROVE  NoAccessInv'
  <1>1. CASE Next
    <2>1. /\ \A m \in Known : written'[m] = written[m]
          /\ Known \subseteq Known' /\ Clean \subseteq Clean'
      BY <1>1, GrowingStep DEF Types
    <2>2. ~CliBlocks
      OBVIOUS
    <2>3. QED
      BY <1>1, <2>1, <2>2, AccessStep, NotesStep, PastStep, CleanStep DEF Types, NoAccessInv
  <1>2. CASE UNCHANGED vars
    BY <1>2 DEF vars, NoAccessInv, AccessInv, NotesInv, PastInv, CleanInv, Clean, Cleared, Known
  <1>3. QED
    BY <1>1, <1>2

\* Nothing written without access is in a ticket, unless an approval came after it.  (While
\* the command line does not block: a move stored after its block gives the access back.)
THEOREM NoTicketWithoutAccess ==
  ASSUME CliBlocks = FALSE
  PROVE  Spec => []NoAccessNoTicket
  <1>1. Init => Types /\ NoAccessInv
    BY InitTypes, InitAccess
  <1>2. Types /\ NoAccessInv /\ [Next]_vars => Types' /\ NoAccessInv'
    BY StepTypes, StepAccess
  <1>3. ASSUME Types, NoAccessInv PROVE NoAccessNoTicket
    <2>1. ASSUME NEW m \in Known, Reached(m)
          PROVE  m \in Clean
      <3>1. m \in Messages
        BY <1>3, KnownIs DEF Types
      <3>2. QED
        BY <1>3, <2>1, <3>1 DEF Reached, NoAccessInv, CleanInv
    <2>2. QED
      BY <2>1 DEF NoAccessNoTicket, Clean, Cleared, Known
  <1>4. QED
    BY <1>1, <1>2, <1>3, PTL DEF Spec

-----------------------------------------------------------------------------
(* What is repeated *)

\* Where a message is, under a key: in a task, or in a draft that may still become one.
Held(draft, m, k) == draft.key = k /\ m \in draft.parts
At(m, k) ==
  \/ m \in tasks[k].body
  \/ \E t \in Topics : \/ Held(drafts[t], m, k) \/ Held(note.held[t], m, k)
                       \/ Held(seen.held[t], m, k) \/ Held(held[t], m, k)
  \/ \E w \in Submitters : Held(run[w].draft, m, k)
KeysOf(m) == {k \in Keys : At(m, k)}

\* An update that is not handled yet, or whose message is still with the worker.
Unplaced == Unminted \cup {"post"}
Queued(m) == \E i \in 1 .. Len(inbox) : inbox[i] = m
Coming(m) == Queued(m) \/ (pc["person"] \in Unplaced /\ run["person"].msg = m)
Load(m) == posts[m] + Cardinality(KeysOf(m)) + (IF Coming(m) THEN 1 ELSE 0)

\* The updates come in their order, also when one comes again.
QueueInv ==
  /\ \A i, j \in 1 .. Len(inbox) : i < j => inbox[i] < inbox[j]
  /\ pc["person"] # "idle" => \A i \in 1 .. Len(inbox) : run["person"].msg < inbox[i]

\* A message is waiting, posted or under one key; only a slip adds to it.
CopiesInv ==
  \A m \in Messages :
     /\ m \in Known => Load(m) <= 1 + slips
     /\ m \notin Known => posts[m] = 0 /\ KeysOf(m) = {}

\* Steps that take no update and give none back.
HandsKept ==
  /\ inbox' = inbox
  /\ pc'["person"] # "idle" => pc["person"] # "idle" /\ run'["person"].msg = run["person"].msg
  /\ pc'["person"] \in Unplaced => pc["person"] \in Unplaced

\* Steps that hand drafts on, or drop them.
HandedOn ==
  /\ \A t \in Topics :
        /\ drafts'[t] \in {drafts[t], held[t], NoDraft}
        /\ note'.held[t] \in {note.held[t], seen.held[t], NoDraft}
        /\ seen'.held[t] \in {seen.held[t], note.held[t], NoDraft}
        /\ held'[t] \in {held[t], note.held[t], NoDraft}
  /\ \A w \in Submitters : \/ run'[w].draft \in {run[w].draft, drafts[run[w].topic]}
                           \/ run'[w].draft.parts = {}
  /\ tasks' = tasks

\* What a step leaves where it was: all, but for message x under key k.
Stays(draft, x, k) ==
  \A m \in draft.parts : At(m, draft.key) \/ (m = x /\ draft.key = k)
PlacesKept(x, k) ==
  /\ \A t \in Topics : /\ Stays(drafts'[t], x, k) /\ Stays(note'.held[t], x, k)
                       /\ Stays(seen'.held[t], x, k) /\ Stays(held'[t], x, k)
  /\ \A w \in Submitters : Stays(run'[w].draft, x, k)
  /\ \A l \in Keys : \A m \in tasks'[l].body : At(m, l)

\* What is in a place is in one.
LEMMA InPlace ==
  ASSUME NEW x, NEW k
  PROVE  /\ \A t \in Topics : /\ Stays(drafts[t], x, k) /\ Stays(note.held[t], x, k)
                              /\ Stays(seen.held[t], x, k) /\ Stays(held[t], x, k)
         /\ \A w \in Submitters : Stays(run[w].draft, x, k)
         /\ \A l \in Keys : \A m \in tasks[l].body : At(m, l)
  BY DEF Stays, At, Held

\* Handing on brings no message under a new key.
LEMMA HandingOn ==
  ASSUME HandedOn, RunType
  PROVE  PlacesKept(0, 0)
  <1>1. Stays(NoDraft, 0, 0)
    BY DEF Stays, NoDraft
  <1>2. \A t \in Topics : /\ Stays(drafts[t], 0, 0) /\ Stays(note.held[t], 0, 0)
                          /\ Stays(seen.held[t], 0, 0) /\ Stays(held[t], 0, 0)
    BY InPlace
  <1>3. \A w \in Submitters : Stays(run[w].draft, 0, 0)
    BY InPlace
  <1>4. \A l \in Keys : \A m \in tasks'[l].body : At(m, l)
    BY InPlace DEF HandedOn
  <1>5. \A t \in Topics : /\ Stays(drafts'[t], 0, 0) /\ Stays(note'.held[t], 0, 0)
                          /\ Stays(seen'.held[t], 0, 0) /\ Stays(held'[t], 0, 0)
    BY <1>1, <1>2 DEF HandedOn
  <1>6. ASSUME NEW w \in Submitters PROVE Stays(run'[w].draft, 0, 0)
    <2>1. CASE run'[w].draft.parts = {}
      BY <2>1 DEF Stays
    <2>2. CASE run'[w].draft \in {run[w].draft, drafts[run[w].topic]}
      <3>1. run[w].topic \in Topics
        BY LocalIs
      <3>2. QED
        BY <1>2, <1>3, <2>2, <3>1
    <2>3. QED
      BY <2>1, <2>2 DEF HandedOn
  <1>7. QED
    BY <1>4, <1>5, <1>6 DEF PlacesKept

\* A message is under no key it was not under, but for the one that is placed.
LEMMA KeysKept ==
  ASSUME NEW x, NEW k, PlacesKept(x, k), NEW m
  PROVE  KeysOf(m)' \subseteq KeysOf(m) \cup (IF m = x THEN {k} ELSE {})
  <1>1. ASSUME NEW l \in Keys, At(m, l)'
        PROVE  At(m, l) \/ (m = x /\ l = k)
    <2>1. CASE m \in tasks'[l].body
      BY <2>1 DEF PlacesKept
    <2>2. ASSUME NEW t \in Topics, Held(drafts'[t], m, l) \/ Held(note'.held[t], m, l)
                                   \/ Held(seen'.held[t], m, l) \/ Held(held'[t], m, l)
          PROVE  At(m, l) \/ (m = x /\ l = k)
      BY <2>2 DEF PlacesKept, Stays, Held
    <2>3. ASSUME NEW w \in Submitters, Held(run'[w].draft, m, l)
          PROVE  At(m, l) \/ (m = x /\ l = k)
      BY <2>3 DEF PlacesKept, Stays, Held
    <2>4. QED
      BY <1>1, <2>1, <2>2, <2>3 DEF At, Held
  <1>2. QED
    BY <1>1 DEF KeysOf

\* A draft with a message more: the others stay under its key.
LEMMA OneMore ==
  ASSUME NEW d \in Proper, NEW x, keys + 1 \in Keys, \A y, l : Stays(d, y, l)
  PROVE  \E k \in Keys : Stays(With(d, x), x, k)
  <1> DEFINE key == IF d = NoDraft THEN keys + 1 ELSE d.key
  <1>1. With(d, x) = [key |-> key, parts |-> d.parts \cup {x}]
    BY DEF With
  <1>2. key \in Keys /\ (d.parts # {} => key = d.key)
    BY DEF Proper, Draft, NoDraft
  <1> HIDE DEF key
  <1>3. \A m \in d.parts : At(m, key) \/ (m = x /\ key = key)
    <2>1. Stays(d, x, key)
      OBVIOUS
    <2>2. QED
      BY <1>2, <2>1 DEF Stays
  <1>4. Stays(With(d, x), x, key)
    BY <1>1, <1>3 DEF Stays
  <1>5. QED
    BY <1>2, <1>4

\* Only three actions take an update or give one.
IntakeStep == HandsKept \/ Take \/ Crash
              \/ \E t \in Topics, kind \in {"text", "tap", "cancel"} : Write(t, kind)

\* Which steps take an update or give one back.
LEMMA HandsStep ==
  ASSUME PhaseInv, RunType, Next
  PROVE  IntakeStep
  <1> USE DEF telegram, yougile, database, history, counters, Submitters
  <1>1. ASSUME Asked \/ Reask \/ Hold \/ HoldSave \/ Intro \/ Greet \/ Request
        PROVE  IntakeStep
    <2>1. inbox' = inbox
      BY <1>1 DEF Asked, Reask, Hold, HoldSave, Intro, Greet, Request
    <2>2. /\ pc'["person"] # "idle" => pc["person"] # "idle"
          /\ pc'["person"] \in Unplaced => pc["person"] \in Unplaced
      BY <1>1 DEF Asked, Reask, Hold, HoldSave, Intro, Greet, Request, Goto, Done, GivesUp,
         PhaseInv, Workers, Unplaced, Unminted, Strange
    <2>3. run'["person"].msg = run["person"].msg
      BY <1>1 DEF Asked, Reask, Hold, HoldSave, Intro, Greet, Request, RunType, Local
    <2>4. QED
      BY <2>1, <2>2, <2>3 DEF HandsKept, IntakeStep
  <1>2. ASSUME Requested \/ InTopic \/ Post \/ LinkPost \/ Compose \/ Composed \/ Cancel
        PROVE  IntakeStep
    <2>1. inbox' = inbox
      BY <1>2 DEF Requested, InTopic, Post, LinkPost, Compose, Composed, Cancel
    <2>2. /\ pc'["person"] # "idle" => pc["person"] # "idle"
          /\ pc'["person"] \in Unplaced => pc["person"] \in Unplaced
      BY <1>2 DEF Requested, InTopic, Post, LinkPost, Compose, Composed, Cancel, Goto, Done,
         GivesUp, PhaseInv, Workers, Unplaced, Unminted, Strange
    <2>3. run'["person"].msg = run["person"].msg
      BY <1>2 DEF Requested, InTopic, Post, LinkPost, Compose, Composed, Cancel, RunType, Local
    <2>4. QED
      BY <2>1, <2>2, <2>3 DEF HandsKept, IntakeStep
  <1>3. ASSUME Cancelled \/ Decided \/ HeldRead \/ Forget \/ Drop \/ Reintro \/ Release
        PROVE  IntakeStep
    <2>1. inbox' = inbox
      BY <1>3 DEF Cancelled, Decided, HeldRead, Forget, Drop, Reintro, Release
    <2>2. /\ pc'["person"] # "idle" => pc["person"] # "idle"
          /\ pc'["person"] \in Unplaced => pc["person"] \in Unplaced
      BY <1>3 DEF Cancelled, Decided, HeldRead, Forget, Drop, Reintro, Release, Goto, Done,
         GivesUp, PhaseInv, Workers, Unplaced, Unminted, Strange
    <2>3. run'["person"].msg = run["person"].msg
      BY <1>3 DEF Cancelled, Decided, HeldRead, Forget, Drop, Reintro, Release, RunType, Local
    <2>4. QED
      BY <2>1, <2>2, <2>3 DEF HandsKept, IntakeStep
  <1>4. ASSUME HeldCheck \/ HeldSave \/ CliBlock \/ CliDrop PROVE IntakeStep
    <2>1. inbox' = inbox
      BY <1>4 DEF HeldCheck, HeldSave, CliBlock, CliDrop
    <2>2. /\ pc'["person"] # "idle" => pc["person"] # "idle"
          /\ pc'["person"] \in Unplaced => pc["person"] \in Unplaced
      BY <1>4 DEF HeldCheck, HeldSave, CliBlock, CliDrop, Goto, Done, GivesUp, PhaseInv,
         Workers, Unplaced, Unminted, Strange
    <2>3. run'["person"].msg = run["person"].msg
      BY <1>4 DEF HeldCheck, HeldSave, CliBlock, CliDrop, RunType, Local
    <2>4. QED
      BY <2>1, <2>2, <2>3 DEF HandsKept, IntakeStep
  <1>5. ASSUME NEW w \in Submitters, Submit(w) \/ Create(w) \/ AddRow(w) \/ Tie(w)
               \/ LinkParts(w) \/ Clear(w)
        PROVE  IntakeStep
    <2>1. inbox' = inbox
      BY <1>5 DEF Submit, Create, AddRow, Tie, LinkParts, Clear
    <2>2. /\ pc'["person"] # "idle" => pc["person"] # "idle"
          /\ pc'["person"] \in Unplaced => pc["person"] \in Unplaced
      BY <1>5 DEF Submit, Create, AddRow, Tie, LinkParts, Clear, Goto, Done, GivesUp, PhaseInv,
         Workers, Unplaced, Unminted, Strange
    <2>3. run'["person"].msg = run["person"].msg
      BY <1>5 DEF Submit, Create, AddRow, Tie, LinkParts, Clear, RunType, Local
    <2>4. QED
      BY <2>1, <2>2, <2>3 DEF HandsKept, IntakeStep
  <1>6. ASSUME NEW action \in Actions, NEW p \in Projects \cup {NoProject},
               Decide(action, p)
        PROVE  IntakeStep
    <2>1. inbox' = inbox
      BY <1>6 DEF Decide
    <2>2. /\ pc'["person"] # "idle" => pc["person"] # "idle"
          /\ pc'["person"] \in Unplaced => pc["person"] \in Unplaced
      BY <1>6 DEF Decide, Goto, Done, GivesUp, PhaseInv, Workers, Unplaced, Unminted, Strange
    <2>3. run'["person"].msg = run["person"].msg
      BY <1>6 DEF Decide, RunType, Local
    <2>4. QED
      BY <2>1, <2>2, <2>3 DEF HandsKept, IntakeStep
  <1>7. ASSUME Take PROVE IntakeStep
    BY <1>7 DEF IntakeStep
  <1>8. ASSUME NEW t \in Topics, NEW kind \in {"text", "tap", "cancel"}, Write(t, kind)
        PROVE  IntakeStep
    BY <1>8 DEF IntakeStep
  <1>9. ASSUME Crash PROVE IntakeStep
    BY <1>9 DEF IntakeStep
  <1>10. QED
    BY <1>1, <1>2, <1>3, <1>4, <1>5, <1>6, <1>7, <1>8, <1>9
       DEF Next, Handles, Manages, Outside, Submits

\* Only three actions put a message where it was not.
PlaceStep == HandedOn \/ HoldSave \/ Composed \/ \E w \in Submitters : Create(w)

\* Which steps put a message where it was not.
LEMMA PlacesStep ==
  ASSUME PhaseInv, DraftsType, RunType, YouGileType, Next
  PROVE  PlaceStep
  <1> USE DEF telegram, yougile, database, history, counters, Submitters
  <1>1. ASSUME Asked \/ Reask \/ Hold \/ Intro \/ Greet \/ Request PROVE PlaceStep
    <2>1. tasks' = tasks
      BY <1>1 DEF Asked, Reask, Hold, Intro, Greet, Request
    <2>2. \A t \in Topics : drafts'[t] \in {drafts[t], held[t], NoDraft}
      BY <1>1, LocalIs DEF Asked, Reask, Hold, Intro, Greet, Request, DraftsType, NoHeld
    <2>3. \A t \in Topics : /\ note'.held[t] \in {note.held[t], seen.held[t], NoDraft}
                            /\ seen'.held[t] \in {seen.held[t], note.held[t], NoDraft}
      BY <1>1 DEF Asked, Reask, Hold, Intro, Greet, Request, DraftsType, Letter, NoteOf, NoHeld
    <2>4. \A t \in Topics : held'[t] \in {held[t], note.held[t], NoDraft}
      BY <1>1, LocalIs DEF Asked, Reask, Hold, Intro, Greet, Request, DraftsType, NoHeld
    <2>5. \A v \in Submitters : \/ run'[v].draft \in {run[v].draft, drafts[run[v].topic]}
                               \/ run'[v].draft.parts = {}
      BY <1>1, LocalIs DEF Asked, Reask, Hold, Intro, Greet, Request, RunType, Local, NoLocals,
         NoDraft, TicketsOf
    <2>6. QED
      BY <2>1, <2>2, <2>3, <2>4, <2>5 DEF PlaceStep, HandedOn
  <1>2. ASSUME Requested \/ Post \/ LinkPost \/ Compose \/ Cancel \/ Cancelled
        PROVE  PlaceStep
    <2>1. tasks' = tasks
      BY <1>2 DEF Requested, Post, LinkPost, Compose, Cancel, Cancelled
    <2>2. \A t \in Topics : drafts'[t] \in {drafts[t], held[t], NoDraft}
      BY <1>2, LocalIs DEF Requested, Post, LinkPost, Compose, Cancel, Cancelled, DraftsType,
         NoHeld
    <2>3. \A t \in Topics : /\ note'.held[t] \in {note.held[t], seen.held[t], NoDraft}
                            /\ seen'.held[t] \in {seen.held[t], note.held[t], NoDraft}
      BY <1>2 DEF Requested, Post, LinkPost, Compose, Cancel, Cancelled, DraftsType, Letter,
         NoteOf, NoHeld
    <2>4. \A t \in Topics : held'[t] \in {held[t], note.held[t], NoDraft}
      BY <1>2, LocalIs DEF Requested, Post, LinkPost, Compose, Cancel, Cancelled, DraftsType,
         NoHeld
    <2>5. \A v \in Submitters : \/ run'[v].draft \in {run[v].draft, drafts[run[v].topic]}
                               \/ run'[v].draft.parts = {}
      BY <1>2, LocalIs DEF Requested, Post, LinkPost, Compose, Cancel, Cancelled, RunType,
         Local, NoLocals, NoDraft, TicketsOf
    <2>6. QED
      BY <2>1, <2>2, <2>3, <2>4, <2>5 DEF PlaceStep, HandedOn
  <1>3. ASSUME Decided \/ HeldRead \/ Forget \/ Drop \/ Reintro \/ Release
        PROVE  PlaceStep
    <2>1. tasks' = tasks
      BY <1>3 DEF Decided, HeldRead, Forget, Drop, Reintro, Release
    <2>2. \A t \in Topics : drafts'[t] \in {drafts[t], held[t], NoDraft}
      BY <1>3, LocalIs DEF Decided, HeldRead, Forget, Drop, Reintro, Release, DraftsType, NoHeld
    <2>3. \A t \in Topics : /\ note'.held[t] \in {note.held[t], seen.held[t], NoDraft}
                            /\ seen'.held[t] \in {seen.held[t], note.held[t], NoDraft}
      BY <1>3 DEF Decided, HeldRead, Forget, Drop, Reintro, Release, DraftsType, Letter, NoteOf,
         NoHeld
    <2>4. \A t \in Topics : held'[t] \in {held[t], note.held[t], NoDraft}
      BY <1>3, LocalIs DEF Decided, HeldRead, Forget, Drop, Reintro, Release, DraftsType, NoHeld
    <2>5. \A v \in Submitters : \/ run'[v].draft \in {run[v].draft, drafts[run[v].topic]}
                               \/ run'[v].draft.parts = {}
      BY <1>3, LocalIs DEF Decided, HeldRead, Forget, Drop, Reintro, Release, RunType, Local,
         NoLocals, NoDraft, TicketsOf
    <2>6. QED
      BY <2>1, <2>2, <2>3, <2>4, <2>5 DEF PlaceStep, HandedOn
  <1>4. ASSUME HeldCheck \/ HeldSave \/ CliBlock \/ CliDrop \/ Crash PROVE PlaceStep
    <2>1. tasks' = tasks
      BY <1>4 DEF HeldCheck, HeldSave, CliBlock, CliDrop, Crash
    <2>2. \A t \in Topics : drafts'[t] \in {drafts[t], held[t], NoDraft}
      BY <1>4, LocalIs DEF HeldCheck, HeldSave, CliBlock, CliDrop, Crash, DraftsType, NoHeld
    <2>3. \A t \in Topics : /\ note'.held[t] \in {note.held[t], seen.held[t], NoDraft}
                            /\ seen'.held[t] \in {seen.held[t], note.held[t], NoDraft}
      BY <1>4 DEF HeldCheck, HeldSave, CliBlock, CliDrop, Crash, DraftsType, Letter, NoteOf,
         NoHeld
    <2>4. \A t \in Topics : held'[t] \in {held[t], note.held[t], NoDraft}
      BY <1>4, LocalIs DEF HeldCheck, HeldSave, CliBlock, CliDrop, Crash, DraftsType, NoHeld
    <2>5. \A v \in Submitters : \/ run'[v].draft \in {run[v].draft, drafts[run[v].topic]}
                               \/ run'[v].draft.parts = {}
      BY <1>4, LocalIs DEF HeldCheck, HeldSave, CliBlock, CliDrop, Crash, RunType, Local,
         NoLocals, NoDraft, TicketsOf
    <2>6. QED
      BY <2>1, <2>2, <2>3, <2>4, <2>5 DEF PlaceStep, HandedOn
  <1>5. ASSUME NEW w \in Submitters, Submit(w) \/ AddRow(w) \/ Tie(w) \/ LinkParts(w)
               \/ Clear(w)
        PROVE  PlaceStep
    <2>1. tasks' = tasks
      BY <1>5 DEF Submit, AddRow, Tie, LinkParts, Clear
    <2>2. \A t \in Topics : drafts'[t] \in {drafts[t], held[t], NoDraft}
      BY <1>5, LocalIs DEF Submit, AddRow, Tie, LinkParts, Clear, DraftsType, NoHeld
    <2>3. \A t \in Topics : /\ note'.held[t] \in {note.held[t], seen.held[t], NoDraft}
                            /\ seen'.held[t] \in {seen.held[t], note.held[t], NoDraft}
      BY <1>5 DEF Submit, AddRow, Tie, LinkParts, Clear, DraftsType, Letter, NoteOf, NoHeld
    <2>4. \A t \in Topics : held'[t] \in {held[t], note.held[t], NoDraft}
      BY <1>5, LocalIs DEF Submit, AddRow, Tie, LinkParts, Clear, DraftsType, NoHeld
    <2>5. \A v \in Submitters : \/ run'[v].draft \in {run[v].draft, drafts[run[v].topic]}
                               \/ run'[v].draft.parts = {}
      BY <1>5, LocalIs DEF Submit, AddRow, Tie, LinkParts, Clear, RunType, Local, NoLocals,
         NoDraft, TicketsOf
    <2>6. QED
      BY <2>1, <2>2, <2>3, <2>4, <2>5 DEF PlaceStep, HandedOn
  <1>6. ASSUME NEW action \in Actions, NEW p \in Projects \cup {NoProject},
               Decide(action, p)
        PROVE  PlaceStep
    <2>1. tasks' = tasks
      BY <1>6 DEF Decide
    <2>2. \A t \in Topics : drafts'[t] \in {drafts[t], held[t], NoDraft}
      BY <1>6, LocalIs DEF Decide, DraftsType, NoHeld
    <2>3. \A t \in Topics : /\ note'.held[t] \in {note.held[t], seen.held[t], NoDraft}
                            /\ seen'.held[t] \in {seen.held[t], note.held[t], NoDraft}
      BY <1>6 DEF Decide, DraftsType, Letter, NoteOf, NoHeld
    <2>4. \A t \in Topics : held'[t] \in {held[t], note.held[t], NoDraft}
      BY <1>6, LocalIs DEF Decide, DraftsType, NoHeld
    <2>5. \A v \in Submitters : \/ run'[v].draft \in {run[v].draft, drafts[run[v].topic]}
                               \/ run'[v].draft.parts = {}
      BY <1>6, LocalIs DEF Decide, RunType, Local, NoLocals, NoDraft, TicketsOf
    <2>6. QED
      BY <2>1, <2>2, <2>3, <2>4, <2>5 DEF PlaceStep, HandedOn
  <1>7. ASSUME Take PROVE PlaceStep
    <2>1. tasks' = tasks
      BY <1>7 DEF Take
    <2>2. \A t \in Topics : drafts'[t] \in {drafts[t], held[t], NoDraft}
      BY <1>7, LocalIs DEF Take, DraftsType, NoHeld
    <2>3. \A t \in Topics : /\ note'.held[t] \in {note.held[t], seen.held[t], NoDraft}
                            /\ seen'.held[t] \in {seen.held[t], note.held[t], NoDraft}
      BY <1>7 DEF Take, DraftsType, Letter, NoteOf, NoHeld
    <2>4. \A t \in Topics : held'[t] \in {held[t], note.held[t], NoDraft}
      BY <1>7, LocalIs DEF Take, DraftsType, NoHeld
    <2>5. \A v \in Submitters : \/ run'[v].draft \in {run[v].draft, drafts[run[v].topic]}
                               \/ run'[v].draft.parts = {}
      BY <1>7, LocalIs DEF Take, RunType, Local, NoLocals, NoDraft, TicketsOf
    <2>6. QED
      BY <2>1, <2>2, <2>3, <2>4, <2>5 DEF PlaceStep, HandedOn
  <1>8. ASSUME HoldSave PROVE PlaceStep
    BY <1>8 DEF PlaceStep
  <1>9. ASSUME InTopic PROVE PlaceStep
    <2>1. tasks' = tasks
      BY <1>9 DEF InTopic
    <2>2. \A t \in Topics : drafts'[t] \in {drafts[t], held[t], NoDraft}
      BY <1>9, LocalIs DEF InTopic, DraftsType, NoHeld
    <2>3. \A t \in Topics : /\ note'.held[t] \in {note.held[t], seen.held[t], NoDraft}
                            /\ seen'.held[t] \in {seen.held[t], note.held[t], NoDraft}
      BY <1>9 DEF InTopic, DraftsType, Letter, NoteOf, NoHeld
    <2>4. \A t \in Topics : held'[t] \in {held[t], note.held[t], NoDraft}
      BY <1>9, LocalIs DEF InTopic, DraftsType, NoHeld
    <2>5. \A v \in Submitters : \/ run'[v].draft \in {run[v].draft, drafts[run[v].topic]}
                               \/ run'[v].draft.parts = {}
      <3>1. \/ run' = run
            \/ \E k \in Keys : run' = [run EXCEPT !["person"].draft = [key |-> k, parts |-> {}]]
        BY <1>9 DEF InTopic, TicketsOf
      <3>2. QED
        BY <3>1 DEF RunType, Local
    <2>6. QED
      BY <2>1, <2>2, <2>3, <2>4, <2>5 DEF PlaceStep, HandedOn
  <1>10. ASSUME Composed PROVE PlaceStep
    BY <1>10 DEF PlaceStep
  <1>11. ASSUME NEW w \in Submitters, Create(w) PROVE PlaceStep
    BY <1>11 DEF PlaceStep
  <1>12. ASSUME NEW t \in Topics, NEW kind \in {"text", "tap", "cancel"}, Write(t, kind)
        PROVE  PlaceStep
    <2>1. tasks' = tasks
      BY <1>12 DEF Write
    <2>2. \A u \in Topics : drafts'[u] \in {drafts[u], held[u], NoDraft}
      BY <1>12, LocalIs DEF Write, DraftsType, NoHeld
    <2>3. \A u \in Topics : /\ note'.held[u] \in {note.held[u], seen.held[u], NoDraft}
                            /\ seen'.held[u] \in {seen.held[u], note.held[u], NoDraft}
      BY <1>12 DEF Write, DraftsType, Letter, NoteOf, NoHeld
    <2>4. \A u \in Topics : held'[u] \in {held[u], note.held[u], NoDraft}
      BY <1>12, LocalIs DEF Write, DraftsType, NoHeld
    <2>5. \A v \in Submitters : \/ run'[v].draft \in {run[v].draft, drafts[run[v].topic]}
                               \/ run'[v].draft.parts = {}
      BY <1>12, LocalIs DEF Write, RunType, Local, NoLocals, NoDraft, TicketsOf
    <2>6. QED
      BY <2>1, <2>2, <2>3, <2>4, <2>5 DEF PlaceStep, HandedOn
  <1>13. QED
    BY <1>1, <1>2, <1>3, <1>4, <1>5, <1>6, <1>7, <1>8, <1>9, <1>10, <1>11, <1>12
       DEF Next, Handles, Manages, Outside, Submits

\* The order of the updates, as a step takes one, gives one back or brings a new one.
LEMMA QueueStep ==
  ASSUME PhaseInv, TelegramType, RunType, QueueInv, Next
  PROVE  QueueInv'
  <1>1. /\ inbox \in Seq(Known) /\ Len(inbox) \in Nat /\ Len(written) \in Nat
        /\ \A i \in 1 .. Len(inbox) : inbox[i] \in Nat /\ inbox[i] <= Len(written)
    <2>1. inbox \in Seq(Known) /\ Len(inbox) \in Nat /\ Len(written) \in Nat
      BY DEF TelegramType
    <2>2. \A i \in 1 .. Len(inbox) : inbox[i] \in Known
      BY <2>1
    <2>3. QED
      BY <2>1, <2>2 DEF Known
  <1>2. CASE HandsKept
    BY <1>2 DEF HandsKept, QueueInv
  <1>3. CASE Take
    <2>1. inbox # <<>> /\ inbox' = Tail(inbox)
      BY <1>3 DEF Take
    <2>2. Len(inbox') = Len(inbox) - 1 /\ \A i \in 1 .. Len(inbox') : inbox'[i] = inbox[i + 1]
      BY <1>1, <2>1, HeadTailProperties
    <2>3. pc'["person"] # "idle" => run'["person"].msg = inbox[1]
      <3>1. Head(inbox) = inbox[1]
        BY <1>1, <2>1
      <3>2. pc'["person"] # "idle" => run'["person"].msg = Head(inbox)
        BY <1>3 DEF Take, Goto, PhaseInv, Workers, RunType, Local, NoLocals, Submitters
      <3>3. QED
        BY <3>1, <3>2
    <2>4. \A i, j \in 1 .. Len(inbox') : i < j => inbox'[i] < inbox'[j]
      BY <1>1, <2>2 DEF QueueInv
    <2>5. \A i \in 1 .. Len(inbox') : inbox[1] < inbox'[i]
      BY <1>1, <2>1, <2>2 DEF QueueInv
    <2>6. QED
      BY <2>3, <2>4, <2>5 DEF QueueInv
  <1>4. CASE Crash
    <2>1. pc'["person"] = "idle"
      BY <1>4 DEF Crash, PhaseInv, Workers
    <2>2. PICK n \in Nat \ {0} : inbox' = From(n)
      BY <1>4, GivenFrom DEF Crash
    <2>3. Len(inbox') \in Nat /\ \A i \in 1 .. Len(inbox') : inbox'[i] = n + i - 1
      BY <2>2, FromIs
    <2>4. \A i, j \in 1 .. Len(inbox') : i < j => inbox'[i] < inbox'[j]
      BY <2>3
    <2>5. QED
      BY <2>1, <2>4 DEF QueueInv
  <1>5. ASSUME NEW t \in Topics, NEW kind \in {"text", "tap", "cancel"}, Write(t, kind)
        PROVE  QueueInv'
    <2>1. inbox' = Append(inbox, Len(written) + 1) /\ pc' = pc /\ run' = run
      BY <1>5 DEF Write
    <2>2. /\ Len(inbox') = Len(inbox) + 1 /\ inbox'[Len(inbox) + 1] = Len(written) + 1
          /\ \A i \in 1 .. Len(inbox) : inbox'[i] = inbox[i]
      BY <1>1, <2>1, AppendProperties
    <2>3. \A i, j \in 1 .. Len(inbox') : i < j => inbox'[i] < inbox'[j]
      <3>1. \A i, j \in 1 .. Len(inbox) : i < j => inbox[i] < inbox[j]
        BY DEF QueueInv
      <3>2. ASSUME NEW i \in 1 .. Len(inbox'), NEW j \in 1 .. Len(inbox'), i < j
            PROVE  inbox'[i] < inbox'[j]
        <4>1. i \in 1 .. Len(inbox) /\ inbox'[i] = inbox[i]
          BY <1>1, <2>2, <3>2
        <4>2. CASE j = Len(inbox) + 1
          BY <1>1, <2>2, <4>1, <4>2
        <4>3. CASE j # Len(inbox) + 1
          <5>1. j \in 1 .. Len(inbox) /\ inbox'[j] = inbox[j]
            BY <1>1, <2>2, <4>3
          <5>2. QED
            BY <3>1, <3>2, <4>1, <5>1
        <4>4. QED
          BY <4>2, <4>3
      <3>3. QED
        BY <3>2
    <2>4. pc["person"] # "idle" => run["person"].msg \in Nat /\ run["person"].msg <= Len(written)
      BY <1>1 DEF RunType, Known
    <2>5. pc["person"] # "idle" => \A i \in 1 .. Len(inbox') : run["person"].msg < inbox'[i]
      BY <1>1, <2>2, <2>4 DEF QueueInv
    <2>6. QED
      BY <2>1, <2>3, <2>5 DEF QueueInv
  <1>6. QED
    BY <1>2, <1>3, <1>4, <1>5, HandsStep DEF IntakeStep

\* The message at hand is not queued as well.
LEMMA AtHand ==
  ASSUME TelegramType, RunType, QueueInv, pc["person"] # "idle"
  PROVE  run["person"].msg \in Known /\ ~ Queued(run["person"].msg)
  <1>1. run["person"].msg \in Known /\ run["person"].msg \in Nat
    BY DEF RunType, Known
  <1>2. QED
    BY <1>1 DEF QueueInv, Queued

\* What waits is what waited, or what a crash gives back, or what was just written.
LEMMA ComingStep ==
  ASSUME PhaseInv, TelegramType, RunType, QueueInv, Next, NEW m \in Known
  PROVE  Coming(m)' => Coming(m) \/ Crash
  <1>1. CASE HandsKept
    BY <1>1 DEF HandsKept, Coming, Queued, Unplaced, Unminted, Strange
  <1>2. CASE Take
    <2>1. inbox \in Seq(Known) /\ inbox # <<>> /\ inbox' = Tail(inbox)
      BY <1>2 DEF Take, TelegramType
    <2>2. /\ Len(inbox') = Len(inbox) - 1 /\ \A i \in 1 .. Len(inbox') : inbox'[i] = inbox[i + 1]
          /\ Head(inbox) = inbox[1] /\ Len(inbox) \in Nat /\ Len(inbox) > 0
      BY <2>1, HeadTailProperties
    <2>3. ASSUME NEW i \in 1 .. Len(inbox'), inbox'[i] = m
          PROVE  Queued(m)
      <3>1. i + 1 \in 1 .. Len(inbox)
        BY <2>2
      <3>2. QED
        BY <2>2, <2>3, <3>1 DEF Queued
    <2>4. pc'["person"] # "idle" => run'["person"].msg = Head(inbox)
      BY <1>2 DEF Take, Goto, PhaseInv, Workers, RunType, Local, NoLocals, Submitters
    <2>5. inbox[1] = m => Queued(m)
      BY <2>2 DEF Queued
    <2>6. "idle" \notin Unplaced
      BY DEF Unplaced, Unminted, Strange
    <2>7. QED
      BY <2>2, <2>3, <2>4, <2>5, <2>6 DEF Coming, Queued
  <1>3. ASSUME NEW t \in Topics, NEW kind \in {"text", "tap", "cancel"}, Write(t, kind)
        PROVE  Coming(m)' => Coming(m)
    <2>1. inbox' = Append(inbox, Len(written) + 1) /\ pc' = pc /\ run' = run
      BY <1>3 DEF Write
    <2>2. inbox \in Seq(Known) /\ Len(written) \in Nat
      BY DEF TelegramType
    <2>3. /\ Len(inbox') = Len(inbox) + 1 /\ inbox'[Len(inbox) + 1] = Len(written) + 1
          /\ \A i \in 1 .. Len(inbox) : inbox'[i] = inbox[i]
      BY <2>1, <2>2, AppendProperties
    <2>4. m # Len(written) + 1
      BY <2>2 DEF Known
    <2>5. Queued(m)' => Queued(m)
      BY <2>2, <2>3, <2>4 DEF Queued
    <2>6. QED
      BY <2>1, <2>5 DEF Coming
  <1>4. QED
    BY <1>1, <1>2, <1>3, HandsStep DEF IntakeStep

\* How a step may change the load of a message that stays known.
LEMMA LoadIs ==
  ASSUME YouGileType, NEW m \in Messages
  PROVE  /\ IsFiniteSet(KeysOf(m)) /\ Cardinality(KeysOf(m)) \in Nat /\ posts[m] \in Nat
         /\ Load(m) \in Nat /\ (Coming(m) => Load(m) = posts[m] + Cardinality(KeysOf(m)) + 1)
         /\ (~Coming(m) => Load(m) = posts[m] + Cardinality(KeysOf(m)))
  <1>1. IsFiniteSet(Keys)
    <2>1. MaxWrites * (1 + MaxFaults) \in Int
      <3>1. MaxWrites * (MaxFaults + 1) \in Nat /\ 1 + MaxFaults = MaxFaults + 1
        BY Products, Parameters
      <3>2. QED
        BY <3>1
    <2>2. QED
      BY <2>1, FS_Interval DEF Keys
  <1>2. IsFiniteSet(KeysOf(m))
    BY <1>1, FS_Subset DEF KeysOf
  <1>3. Cardinality(KeysOf(m)) \in Nat /\ posts[m] \in Nat
    BY <1>2, FS_CardinalityType DEF YouGileType
  <1>4. QED
    BY <1>2, <1>3 DEF Load

\* A step that posts and places nothing adds nothing.
LEMMA LoadKept ==
  ASSUME YouGileType, YouGileType', CountInv, CountInv', NEW m \in Messages,
         Load(m) <= 1 + slips, posts'[m] = posts[m], KeysOf(m)' \subseteq KeysOf(m),
         slips <= slips', Coming(m)' => Coming(m) \/ slips' = slips + 1
  PROVE  Load(m)' <= 1 + slips'
  <1>1. slips \in Nat /\ slips' \in Nat
    BY DEF CountInv
  <1>2. Cardinality(KeysOf(m))' <= Cardinality(KeysOf(m))
    BY LoadIs, FS_Subset
  <1>3. /\ Cardinality(KeysOf(m)) \in Nat /\ posts[m] \in Nat
        /\ (Coming(m) => Load(m) = posts[m] + Cardinality(KeysOf(m)) + 1)
        /\ (~Coming(m) => Load(m) = posts[m] + Cardinality(KeysOf(m)))
    BY LoadIs
  <1>4. /\ Cardinality(KeysOf(m))' \in Nat
        /\ (Coming(m)' => Load(m)' = posts'[m] + Cardinality(KeysOf(m))' + 1)
        /\ (~Coming(m)' => Load(m)' = posts'[m] + Cardinality(KeysOf(m))')
    <2>1. IsFiniteSet(KeysOf(m)')
      BY LoadIs, FS_Subset
    <2>2. Cardinality(KeysOf(m))' \in Nat /\ posts'[m] \in Nat
      BY <2>1, FS_CardinalityType DEF YouGileType
    <2>3. QED
      BY <2>2 DEF Load
  <1>5. QED
    BY <1>1, <1>2, <1>3, <1>4

\* The message that is placed was coming, and does not come any more.
LEMMA LoadPlaced ==
  ASSUME YouGileType, YouGileType', CountInv, NEW m \in Messages, NEW k,
         Load(m) <= 1 + slips, Coming(m), ~Coming(m)', slips' = slips \/ slips' = slips + 1,
         \/ posts'[m] = posts[m] /\ KeysOf(m)' \subseteq KeysOf(m) \cup {k}
         \/ posts'[m] = posts[m] + 1 /\ KeysOf(m)' \subseteq KeysOf(m)
  PROVE  Load(m)' <= 1 + slips'
  <1>1. slips \in Nat
    BY DEF CountInv
  <1>2. /\ Cardinality(KeysOf(m)) \in Nat /\ posts[m] \in Nat /\ IsFiniteSet(KeysOf(m))
        /\ Load(m) = posts[m] + Cardinality(KeysOf(m)) + 1
    BY LoadIs
  <1>3. /\ IsFiniteSet(KeysOf(m) \cup {k})
        /\ Cardinality(KeysOf(m) \cup {k}) \in Nat
        /\ Cardinality(KeysOf(m) \cup {k}) <= Cardinality(KeysOf(m)) + 1
    <2>1. /\ IsFiniteSet(KeysOf(m) \cup {k})
          /\ \/ Cardinality(KeysOf(m) \cup {k}) = Cardinality(KeysOf(m))
             \/ Cardinality(KeysOf(m) \cup {k}) = Cardinality(KeysOf(m)) + 1
      BY <1>2, FS_AddElement
    <2>2. QED
      BY <1>2, <2>1
  <1>4. KeysOf(m)' \subseteq KeysOf(m) \cup {k}
    OBVIOUS
  <1>5. IsFiniteSet(KeysOf(m)') /\ Cardinality(KeysOf(m)') \in Nat
    BY <1>3, <1>4, FS_Subset, FS_CardinalityType
  <1>6. Load(m)' = posts'[m] + Cardinality(KeysOf(m)')
    BY <1>5 DEF Load, YouGileType
  <1>7. CASE posts'[m] = posts[m]
    <2>1. Cardinality(KeysOf(m)') <= Cardinality(KeysOf(m)) + 1
      <3>1. Cardinality(KeysOf(m)') <= Cardinality(KeysOf(m) \cup {k})
        BY <1>3, <1>4, FS_Subset
      <3>2. QED
        BY <1>2, <1>3, <1>5, <3>1
    <2>2. QED
      BY <1>1, <1>2, <1>5, <1>6, <1>7, <2>1
  <1>8. CASE posts'[m] = posts[m] + 1 /\ KeysOf(m)' \subseteq KeysOf(m)
    <2>1. Cardinality(KeysOf(m)') <= Cardinality(KeysOf(m))
      BY <1>2, <1>8, FS_Subset
    <2>2. QED
      BY <1>1, <1>2, <1>5, <1>6, <1>8, <2>1
  <1>9. QED
    BY <1>7, <1>8

\* Only Post posts, and only it and a crash slip.
LEMMA SlipStep ==
  ASSUME Next
  PROVE  \/ UNCHANGED <<posts, slips>>
         \/ Post
         \/ Crash /\ posts' = posts /\ slips' = slips + 1
  <1> USE DEF telegram, counters, history, yougile, database
  <1>1. CASE Handles
    BY <1>1 DEF Handles, Submits, Take, Asked, Reask, Hold, HoldSave, Intro, Greet, Request,
       Requested, InTopic, LinkPost, Compose, Composed, Cancel, Cancelled, Submit, Create,
       AddRow, Tie, LinkParts, Clear
  <1>2. CASE Manages
    BY <1>2 DEF Manages, Submits, Decided, HeldRead, Forget, Drop, Reintro, Release,
       HeldCheck, HeldSave, Submit, Create, AddRow, Tie, LinkParts, Clear
  <1>3. CASE Outside
    BY <1>3 DEF Outside, Write, Decide, CliBlock, CliDrop, Crash
  <1>4. QED
    BY <1>1, <1>2, <1>3 DEF Next

\* A message put into a draft is the one at hand, under one key.
LEMMA DraftStep ==
  ASSUME PhaseInv, TelegramType, DraftsType, RunType, CountInv, Composed \/ HoldSave
  PROVE  /\ \E k \in Keys : PlacesKept(run["person"].msg, k)
         /\ pc["person"] \in Unplaced /\ pc'["person"] \notin Unplaced /\ inbox' = inbox
  <1> DEFINE r == run["person"]
  <1>1. "person" \in Submitters /\ r.topic \in Topics /\ r.draft \in Proper
    BY LocalIs DEF Submitters
  <1>2. pc["person"] \in Unplaced /\ pc["person"] \in Unminted
    BY DEF Composed, HoldSave, Unplaced, Unminted, Strange
  <1>3. pc'["person"] \notin Unplaced /\ inbox' = inbox
    BY DEF Composed, HoldSave, Goto, PhaseInv, Workers, Unplaced, Unminted, Strange, telegram
  <1>4. keys + 1 \in Keys
    BY <1>2, NextKey
  <1>5. CASE Composed
    <2> DEFINE more == With(r.draft, r.msg)
    <2>1. \A y, l : Stays(r.draft, y, l)
      BY <1>1, InPlace
    <2>2. PICK k \in Keys : Stays(more, r.msg, k)
      BY <1>1, <1>4, <2>1, OneMore
    <2>3. /\ drafts' = [drafts EXCEPT ![r.topic] = more]
          /\ UNCHANGED <<note, seen, held, run, tasks>>
      BY <1>5 DEF Composed, yougile
    <2> HIDE DEF more
    <2>4. \A t \in Topics : drafts'[t] \in {drafts[t], more}
      BY <2>3 DEF DraftsType
    <2>5. /\ \A t \in Topics : /\ Stays(drafts[t], r.msg, k) /\ Stays(note.held[t], r.msg, k)
                               /\ Stays(seen.held[t], r.msg, k) /\ Stays(held[t], r.msg, k)
          /\ \A w \in Submitters : Stays(run[w].draft, r.msg, k)
          /\ \A l \in Keys : \A m \in tasks[l].body : At(m, l)
      BY InPlace
    <2>6. PlacesKept(r.msg, k)
      BY <2>2, <2>3, <2>4, <2>5 DEF PlacesKept
    <2>7. QED
      BY <1>2, <1>3, <2>6
  <1>6. CASE HoldSave
    <2> DEFINE more == With(seen.held[r.topic], r.msg)
    <2>1. seen.held[r.topic] \in Proper
      BY <1>1 DEF DraftsType, Letter
    <2>2. \A y, l : Stays(seen.held[r.topic], y, l)
      BY <1>1, InPlace
    <2>3. PICK k \in Keys : Stays(more, r.msg, k)
      BY <1>4, <2>1, <2>2, OneMore
    <2>4. /\ note'.held = [seen.held EXCEPT ![r.topic] = more]
          /\ UNCHANGED <<drafts, seen, held, run, tasks>>
      BY <1>6 DEF HoldSave, yougile
    <2> HIDE DEF more
    <2>5. \A t \in Topics : note'.held[t] \in {seen.held[t], more}
      BY <2>4 DEF DraftsType, Letter
    <2>6. /\ \A t \in Topics : /\ Stays(drafts[t], r.msg, k) /\ Stays(note.held[t], r.msg, k)
                               /\ Stays(seen.held[t], r.msg, k) /\ Stays(held[t], r.msg, k)
          /\ \A w \in Submitters : Stays(run[w].draft, r.msg, k)
          /\ \A l \in Keys : \A m \in tasks[l].body : At(m, l)
      BY InPlace
    <2>7. PlacesKept(r.msg, k)
      BY <2>3, <2>4, <2>5, <2>6 DEF PlacesKept
    <2>8. QED
      BY <1>2, <1>3, <2>7
  <1>7. QED
    BY <1>5, <1>6

\* A task is made of a draft that has its key.
LEMMA FiledKept ==
  ASSUME PhaseInv, RunType, ActType, YouGileType, NEW w \in Submitters, Create(w)
  PROVE  PlacesKept(0, 0)
  <1> DEFINE d == run[w].draft
  <1>1. d.key \in Keys
    BY Sends DEF Create, Filing
  <1>2. \A l \in Keys : tasks'[l].body = tasks[l].body \/ (l = d.key /\ tasks'[l].body = d.parts)
    BY <1>1 DEF Create, Filed, YouGileType
  <1>3. UNCHANGED <<drafts, note, seen, held, run>>
    BY DEF Create, database
  <1>4. /\ \A t \in Topics : /\ Stays(drafts[t], 0, 0) /\ Stays(note.held[t], 0, 0)
                             /\ Stays(seen.held[t], 0, 0) /\ Stays(held[t], 0, 0)
        /\ \A v \in Submitters : Stays(run[v].draft, 0, 0)
        /\ \A l \in Keys : \A m \in tasks[l].body : At(m, l)
    BY InPlace
  <1>5. \A m \in d.parts : At(m, d.key)
    BY DEF At, Held
  <1>6. \A l \in Keys : \A m \in tasks'[l].body : At(m, l)
    BY <1>2, <1>4, <1>5
  <1>7. QED
    BY <1>3, <1>4, <1>6 DEF PlacesKept

\* Messages keep their keys, but for the one that is put into a draft.
LEMMA KeysStep ==
  ASSUME PhaseInv, DraftsType, RunType, ActType, YouGileType, Next, ~Composed, ~HoldSave,
         NEW m \in Messages
  PROVE  KeysOf(m)' \subseteq KeysOf(m)
  <1>1. PlacesKept(0, 0)
    BY PlacesStep, HandingOn, FiledKept DEF PlaceStep
  <1>2. m # 0
    BY DEF Messages
  <1>3. QED
    BY <1>1, <1>2, KeysKept

\* Every message is waiting, posted or under one key, but for the slips.
LEMMA CopiesStep ==
  ASSUME Types, Types', QueueInv, CopiesInv, Next
  PROVE  CopiesInv'
  <1> USE DEF Types
  <1> DEFINE x == run["person"].msg
  <1>1. /\ slips \in Nat /\ slips' \in Nat /\ Known \subseteq Messages
        /\ Known \subseteq Known'
    BY KnownIs, GrowingStep, SMTT(30) DEF CountInv
  <1>2. ASSUME NEW m \in Messages, m \in Known, Load(m) <= 1 + slips
        PROVE  Load(m)' <= 1 + slips'
    <2>1. CASE Post
      <3>1. /\ pc["person"] = "post" /\ pc'["person"] \in {"link", "idle"} /\ inbox' = inbox
        BY <2>1 DEF Post, Goto, PhaseInv, Workers, telegram
      <3>2. slips' \in {slips, slips + 1}
        BY <2>1 DEF Post
      <3>3. /\ posts'[m] \in {posts[m], posts[m] + 1}
            /\ (m # x => posts'[m] = posts[m])
        BY <2>1 DEF Post, YouGileType
      <3>4. KeysOf(m)' \subseteq KeysOf(m)
        BY <2>1, <3>1, KeysStep DEF Composed, HoldSave
      <3>5. "idle" \notin Unplaced /\ "link" \notin Unplaced /\ "post" \in Unplaced
        BY DEF Unplaced, Unminted, Strange
      <3>6. CASE m = x
        <4>1. Coming(m) /\ ~Coming(m)'
          <5>1. ~Queued(m)
            BY <3>1, <3>6, AtHand
          <5>2. ~Queued(m)'
            BY <3>1, <5>1 DEF Queued
          <5>3. QED
            BY <3>1, <3>5, <3>6, <5>2 DEF Coming
        <4>2. QED
          BY <1>2, <3>2, <3>3, <3>4, <4>1, LoadPlaced
      <3>7. CASE m # x
        <4>1. Coming(m)' => Coming(m)
          BY <2>1, <3>1, ComingStep DEF Crash, PhaseInv, Workers, Coming, Queued, Unplaced, Unminted, Strange
        <4>2. slips <= slips'
          BY <1>1, <3>2
        <4>3. QED
          BY <1>2, <3>3, <3>4, <3>7, <4>1, <4>2, LoadKept
      <3>8. QED
        BY <3>6, <3>7
    <2>2. CASE Composed \/ HoldSave
      <3>1. PICK k \in Keys : PlacesKept(x, k)
        BY <2>2, DraftStep
      <3>2. pc["person"] \in Unplaced /\ pc'["person"] \notin Unplaced /\ inbox' = inbox
        BY <2>2, DraftStep
      <3>3. posts' = posts /\ slips' = slips
        BY <2>2 DEF Composed, HoldSave, yougile, counters
      <3>4. pc["person"] # "idle"
        BY <3>2 DEF Unplaced, Unminted, Strange
      <3>5. CASE m = x
        <4>1. Coming(m) /\ ~Coming(m)'
          <5>1. ~Queued(m)
            BY <3>4, <3>5, AtHand
          <5>2. ~Queued(m)'
            BY <3>2, <5>1 DEF Queued
          <5>3. QED
            BY <3>2, <3>5, <5>2 DEF Coming
        <4>2. KeysOf(m)' \subseteq KeysOf(m) \cup {k}
          BY <3>1, <3>5, KeysKept
        <4>3. QED
          BY <1>2, <3>3, <4>1, <4>2, LoadPlaced
      <3>6. CASE m # x
        <4>1. Coming(m)' => Coming(m)
          BY <3>2 DEF Coming, Queued
        <4>2. KeysOf(m)' \subseteq KeysOf(m)
          BY <3>1, <3>6, KeysKept
        <4>3. slips <= slips'
          BY <1>1, <3>3
        <4>4. QED
          BY <1>2, <3>3, <4>1, <4>2, <4>3, LoadKept
      <3>7. QED
        BY <3>5, <3>6
    <2>3. CASE ~Post /\ ~Composed /\ ~HoldSave
      <3>1. KeysOf(m)' \subseteq KeysOf(m)
        BY <2>3, KeysStep
      <3>2. posts' = posts /\ (slips' = slips \/ slips' = slips + 1)
            /\ (Crash => slips' = slips + 1)
        BY <2>3, SlipStep DEF Crash
      <3>3. Coming(m)' => Coming(m) \/ slips' = slips + 1
        BY <1>2, <3>2, ComingStep
      <3>4. slips <= slips'
        BY <1>1, <3>2
      <3>5. QED
        BY <1>2, <3>1, <3>2, <3>3, <3>4, LoadKept
    <2>4. QED
      BY <2>1, <2>2, <2>3
  <1>3. ASSUME NEW m \in Messages, m \notin Known, posts[m] = 0, KeysOf(m) = {}
        PROVE  posts'[m] = 0 /\ KeysOf(m)' = {}
    <2>1. CASE Post
      <3>1. pc["person"] = "post" /\ x \in Known
        BY <2>1, AtHand DEF Post
      <3>2. posts'[m] = posts[m]
        BY <1>3, <2>1, <3>1 DEF Post, YouGileType
      <3>3. KeysOf(m)' \subseteq KeysOf(m)
        BY <2>1, <3>1, KeysStep DEF Composed, HoldSave
      <3>4. QED
        BY <1>3, <3>2, <3>3
    <2>2. CASE Composed \/ HoldSave
      <3>1. PICK k \in Keys : PlacesKept(x, k)
        BY <2>2, DraftStep
      <3>2. pc["person"] # "idle"
        BY <2>2 DEF Composed, HoldSave
      <3>3. x \in Known
        BY <3>2, AtHand
      <3>4. KeysOf(m)' \subseteq KeysOf(m)
        BY <1>3, <3>1, <3>3, KeysKept
      <3>5. posts' = posts
        BY <2>2 DEF Composed, HoldSave, yougile
      <3>6. QED
        BY <1>3, <3>4, <3>5
    <2>3. CASE ~Post /\ ~Composed /\ ~HoldSave
      <3>1. KeysOf(m)' \subseteq KeysOf(m)
        BY <2>3, KeysStep
      <3>2. posts' = posts
        BY <2>3, SlipStep
      <3>3. QED
        BY <1>3, <3>1, <3>2
    <2>4. QED
      BY <2>1, <2>2, <2>3
  <1>4. ASSUME NEW m \in Messages
        PROVE  /\ m \in Known' => Load(m)' <= 1 + slips'
               /\ m \notin Known' => posts'[m] = 0 /\ KeysOf(m)' = {}
    <2>1. CASE m \in Known
      BY <1>1, <1>2, <2>1 DEF CopiesInv
    <2>2. CASE m \notin Known
      <3>1. posts'[m] = 0 /\ KeysOf(m)' = {}
        BY <1>3, <2>2 DEF CopiesInv
      <3>2. Load(m)' <= 1 + slips'
        BY <1>1, <3>1, FS_EmptySet DEF Load
      <3>3. QED
        BY <3>1, <3>2
    <2>3. QED
      BY <2>1, <2>2
  <1>5. QED
    BY <1>4 DEF CopiesInv

\* Nothing is anywhere at first.
LEMMA InitCopies ==
  ASSUME Init
  PROVE  QueueInv /\ CopiesInv
  <1>1. Known = {} /\ Len(inbox) = 0 /\ pc["person"] = "idle"
    BY DEF Init, Known
  <1>2. ASSUME NEW m, NEW k \in Keys, At(m, k) PROVE FALSE
    BY <1>2 DEF Init, At, Held, NoteOf, NoHeld, NoDraft, NoTask, NoLocals
  <1>3. \A m : KeysOf(m) = {}
    BY <1>2 DEF KeysOf
  <1>4. \A m \in Messages : posts[m] = 0
    BY DEF Init
  <1>5. QED
    BY <1>1, <1>3, <1>4 DEF QueueInv, CopiesInv

\* The invariant of the copies is inductive.
LEMMA StepCopies ==
  ASSUME Types, QueueInv, CopiesInv, [Next]_vars
  PROVE  QueueInv' /\ CopiesInv'
  <1>1. Types'
    BY StepTypes
  <1>2. CASE Next
    <2>1. QueueInv'
      BY <1>2, QueueStep DEF Types
    <2>2. CopiesInv'
      BY <1>1, <1>2, CopiesStep
    <2>3. QED
      BY <1>1, <2>1, <2>2
  <1>3. CASE UNCHANGED vars
    <2>1. QueueInv'
      BY <1>3 DEF vars, QueueInv
    <2>2. UNCHANGED <<Known, posts, slips>>
      BY <1>3 DEF vars, Known
    <2>3. \A m, k : At(m, k)' <=> At(m, k)
      BY <1>3 DEF vars, At, Held
    <2>4. \A m : KeysOf(m)' = KeysOf(m)
      BY <2>3 DEF KeysOf
    <2>5. \A m : Coming(m)' <=> Coming(m)
      BY <1>3 DEF vars, Coming, Queued
    <2>6. \A m : Load(m)' = Load(m)
      BY <2>2, <2>4, <2>5 DEF Load
    <2>7. CopiesInv'
      BY <2>2, <2>4, <2>6 DEF CopiesInv
    <2>8. QED
      BY <1>1, <2>1, <2>7
  <1>4. QED
    BY <1>2, <1>3

\* A message reaches YouGile once; only an unanswered post or a crash repeats one: the posts of
\* a message, the keys it is under and its update, if it is still to be handled, are together
\* one, and one more for each slip.
THEOREM RepeatsAreFaults == Spec => []OnlyFaultsRepeat
  <1>1. Init => Types /\ QueueInv /\ CopiesInv
    BY InitTypes, InitCopies
  <1>2. Types /\ QueueInv /\ CopiesInv /\ [Next]_vars => (Types /\ QueueInv /\ CopiesInv)'
    BY StepTypes, StepCopies
  <1>3. ASSUME Types, CopiesInv, NEW m \in Messages PROVE Copies(m) <= 1 + slips
    <2> DEFINE T == {k \in Keys : m \in tasks[k].body}
    <2>1. T \subseteq KeysOf(m)
      BY DEF KeysOf, At
    <2>2. /\ IsFiniteSet(KeysOf(m)) /\ Cardinality(KeysOf(m)) \in Nat /\ posts[m] \in Nat
          /\ posts[m] + Cardinality(KeysOf(m)) <= Load(m) /\ Load(m) \in Nat
      BY <1>3, LoadIs DEF Types
    <2>3. IsFiniteSet(T) /\ Cardinality(T) \in Nat /\ Cardinality(T) <= Cardinality(KeysOf(m))
      BY <2>1, <2>2, FS_Subset, FS_CardinalityType
    <2>4. slips \in Nat
      BY <1>3 DEF Types, CountInv
    <2>5. CASE m \in Known
      <3>1. Load(m) <= 1 + slips
        BY <1>3, <2>5 DEF CopiesInv
      <3>2. QED
        BY <2>2, <2>3, <2>4, <3>1 DEF Copies
    <2>6. CASE m \notin Known
      <3>1. posts[m] = 0 /\ Cardinality(KeysOf(m)) = 0
        BY <1>3, <2>6, FS_EmptySet DEF CopiesInv
      <3>2. QED
        BY <2>3, <2>4, <3>1 DEF Copies
    <2>7. QED
      BY <2>5, <2>6
  <1>4. Types /\ CopiesInv => OnlyFaultsRepeat
    BY <1>3 DEF OnlyFaultsRepeat
  <1>5. QED
    BY <1>1, <1>2, <1>4, PTL DEF Spec

-----------------------------------------------------------------------------
(* Where a key is *)

\* Between the read of a draft and its write a worker has the draft in hand, with its key.
Carrying == {"composed"} \cup Filing
Made == {"row", "tie", "linkparts", "clear"}
InHand(w, t, k) == pc[w] \in Carrying /\ run[w].topic = t /\ run[w].draft.key = k
Keeps(t, k) ==
  \/ drafts[t].key = k \/ note.held[t].key = k \/ seen.held[t].key = k \/ held[t].key = k
  \/ rows[k] = t
  \/ \E w \in Submitters : InHand(w, t, k)

\* A key is of one topic, and was given out.
TopicInv ==
  /\ \A k \in Keys : \A t, u \in Topics : Keeps(t, k) /\ Keeps(u, k) => t = u
  /\ \A k \in Keys : \A t \in Topics : Keeps(t, k) => k <= keys
  /\ \A k \in Keys : tasks[k] # NoTask => k <= keys

\* A task has its ticket in a topic, or the worker that made it is about to put it there.
Tied(k) ==
  \/ rows[k] \in Topics
  \/ \E w \in Submitters : pc[w] \in {"row", "tie"} /\ run[w].draft.key = k
FiledInv ==
  /\ \A k \in Keys : tasks[k] # NoTask => Tied(k)
  /\ \A k \in Keys : rows[k] # "none" => tasks[k] # NoTask

\* What a worker has in hand: nobody has filed it before it does, then its task has all of it;
\* the draft of the topic is still the one it read, unless it was thrown away.
HandOf(w) ==
  /\ pc[w] = "composed" => run[w].draft = NoDraft \/ tasks[run[w].draft.key] = NoTask
  /\ pc[w] = "create" => tasks[run[w].draft.key] = NoTask
  /\ pc[w] \in Made => /\ tasks[run[w].draft.key] # NoTask
                       /\ run[w].draft.parts \subseteq tasks[run[w].draft.key].body
  /\ pc[w] = "linkparts" => run[w].left \subseteq run[w].draft.parts
  /\ pc[w] \in Carrying => drafts[run[w].topic] \in {NoDraft, run[w].draft}
  /\ pc[w] = "heldsave" => drafts[run[w].topic] = NoDraft
HandInv == \A w \in Submitters : HandOf(w)

\* A draft is not filed yet, or whoever files it is about to clear it.
DraftOf(t) ==
  \/ drafts[t] = NoDraft
  \/ tasks[drafts[t].key] = NoTask
  \/ \E w \in Submitters : pc[w] \in Made /\ run[w].topic = t /\ run[w].draft = drafts[t]
DraftInv == \A t \in Topics : DraftOf(t)

\* The held drafts an approval has taken are nowhere else, and not filed when it saves them.
Busy(t, k) == drafts[t].key = k \/ InHand("person", t, k)
HeldInv ==
  /\ \A t \in Topics : held[t] # NoDraft => ~ Busy(t, held[t].key)
  /\ pc["manager"] \in {"heldcheck", "heldsave"} =>
       /\ held[run["manager"].topic] # NoDraft
       /\ tasks[held[run["manager"].topic].key] = NoTask

\* May an approval still take what is in the note?  Then no draft has its keys.  Once it was
\* taken the note may hold the same again, written late, but that is dropped before the next.
Live == \/ sender.status \notin {"approved", "blocked"} /\ pc["manager"] # "drop"
        \/ pc["manager"] = "heldread"
        \/ pc["manager"] = "decided" /\ act.kind \in {"approve", "reject"}
Spared(t) ==
  /\ note.held[t] # NoDraft => ~ Busy(t, note.held[t].key)
  /\ pc["person"] \in {"reask", "holdsave"} /\ seen.held[t] # NoDraft =>
        ~ Busy(t, seen.held[t].key)
Granted == pc["manager"] \in Releasing \/ (pc["manager"] = "forget" /\ act.kind = "approve")
LiveInv ==
  /\ Live => \A t \in Topics : Spared(t)
  /\ Granted => sender.status \in {"approved", "blocked"}

KeyInv == TopicInv /\ FiledInv /\ HandInv /\ DraftInv /\ HeldInv /\ LiveInv

\* Steps that are not about a draft in hand, nor about the release of a held one.
Keyed == Carrying \cup {"heldcheck", "heldsave"}
Still(w) ==
  /\ pc[w] \in Keyed \/ pc'[w] \in Keyed => pc'[w] = pc[w]
  /\ pc[w] \in Keyed => run'[w] = run[w]
Quiet ==
  /\ \A w \in Submitters : Still(w)
  /\ tasks' = tasks /\ rows' = rows
  /\ \A t \in Topics : drafts'[t] \in {drafts[t], NoDraft}
  /\ held' # held => pc["manager"] = "heldread" /\ held' = note.held
  /\ keys' # keys => pc["person"] = "holdsave" /\ keys' = keys + 1
KeyStep == \/ Quiet \/ Compose \/ Composed \/ Release \/ HeldCheck \/ HeldSave
           \/ \E w \in Submitters : Submits(w)

\* Which steps are about a draft in hand.
LEMMA QuietStep ==
  ASSUME ~Crash, PhaseInv, DraftsType, RunType, Next
  PROVE  KeyStep
  <1> USE DEF telegram, yougile, database, history, counters, Submitters
  <1>1. ASSUME Take \/ Asked \/ Reask \/ Hold \/ HoldSave \/ Intro PROVE KeyStep
    <2>1. \A v \in Submitters : Still(v)
      BY <1>1 DEF Take, Asked, Reask, Hold, HoldSave, Intro, Still, Goto, PhaseInv, Workers,
         RunType, Keyed, Carrying, Filing, Way
    <2>2. tasks' = tasks /\ rows' = rows /\ \A s \in Topics : drafts'[s] \in {drafts[s], NoDraft}
      BY <1>1, LocalIs DEF Take, Asked, Reask, Hold, HoldSave, Intro, DraftsType, NoHeld
    <2>3. /\ held' # held => pc["manager"] = "heldread" /\ held' = note.held
          /\ keys' # keys => pc["person"] = "holdsave" /\ keys' = keys + 1
      BY <1>1 DEF Take, Asked, Reask, Hold, HoldSave, Intro, MintFor
    <2>4. Quiet
      BY <2>1, <2>2, <2>3 DEF Quiet
    <2>5. QED
      BY <2>4 DEF KeyStep
  <1>2. ASSUME Greet \/ Request \/ Requested \/ InTopic \/ Post \/ LinkPost
        PROVE  KeyStep
    <2>1. \A v \in Submitters : Still(v)
      BY <1>2 DEF Greet, Request, Requested, InTopic, Post, LinkPost, Still, Goto, PhaseInv,
         Workers, RunType, Keyed, Carrying, Filing, Way
    <2>2. tasks' = tasks /\ rows' = rows /\ \A s \in Topics : drafts'[s] \in {drafts[s], NoDraft}
      BY <1>2, LocalIs DEF Greet, Request, Requested, InTopic, Post, LinkPost, DraftsType,
         NoHeld
    <2>3. /\ held' # held => pc["manager"] = "heldread" /\ held' = note.held
          /\ keys' # keys => pc["person"] = "holdsave" /\ keys' = keys + 1
      BY <1>2 DEF Greet, Request, Requested, InTopic, Post, LinkPost, MintFor
    <2>4. Quiet
      BY <2>1, <2>2, <2>3 DEF Quiet
    <2>5. QED
      BY <2>4 DEF KeyStep
  <1>3. ASSUME Cancel \/ Cancelled \/ Decided \/ HeldRead \/ Forget \/ Drop
        PROVE  KeyStep
    <2>1. \A v \in Submitters : Still(v)
      BY <1>3 DEF Cancel, Cancelled, Decided, HeldRead, Forget, Drop, Still, Goto, PhaseInv,
         Workers, RunType, Keyed, Carrying, Filing, Way
    <2>2. tasks' = tasks /\ rows' = rows /\ \A s \in Topics : drafts'[s] \in {drafts[s], NoDraft}
      BY <1>3, LocalIs DEF Cancel, Cancelled, Decided, HeldRead, Forget, Drop, DraftsType,
         NoHeld
    <2>3. /\ held' # held => pc["manager"] = "heldread" /\ held' = note.held
          /\ keys' # keys => pc["person"] = "holdsave" /\ keys' = keys + 1
      BY <1>3 DEF Cancel, Cancelled, Decided, HeldRead, Forget, Drop, MintFor
    <2>4. Quiet
      BY <2>1, <2>2, <2>3 DEF Quiet
    <2>5. QED
      BY <2>4 DEF KeyStep
  <1>4. ASSUME Reintro \/ CliBlock \/ CliDrop PROVE KeyStep
    <2>1. \A v \in Submitters : Still(v)
      BY <1>4 DEF Reintro, CliBlock, CliDrop, Still, Goto, PhaseInv, Workers, RunType, Keyed,
         Carrying, Filing, Way
    <2>2. tasks' = tasks /\ rows' = rows /\ \A s \in Topics : drafts'[s] \in {drafts[s], NoDraft}
      BY <1>4, LocalIs DEF Reintro, CliBlock, CliDrop, DraftsType, NoHeld
    <2>3. /\ held' # held => pc["manager"] = "heldread" /\ held' = note.held
          /\ keys' # keys => pc["person"] = "holdsave" /\ keys' = keys + 1
      BY <1>4 DEF Reintro, CliBlock, CliDrop, MintFor
    <2>4. Quiet
      BY <2>1, <2>2, <2>3 DEF Quiet
    <2>5. QED
      BY <2>4 DEF KeyStep
  <1>5. ASSUME NEW t \in Topics, NEW kind \in {"text", "tap", "cancel"}, Write(t, kind)
        PROVE  KeyStep
    <2>1. \A v \in Submitters : Still(v)
      BY <1>5 DEF Write, Still, Goto, PhaseInv, Workers, RunType, Keyed, Carrying, Filing, Way
    <2>2. tasks' = tasks /\ rows' = rows /\ \A s \in Topics : drafts'[s] \in {drafts[s], NoDraft}
      BY <1>5, LocalIs DEF Write, DraftsType, NoHeld
    <2>3. /\ held' # held => pc["manager"] = "heldread" /\ held' = note.held
          /\ keys' # keys => pc["person"] = "holdsave" /\ keys' = keys + 1
      BY <1>5 DEF Write, MintFor
    <2>4. Quiet
      BY <2>1, <2>2, <2>3 DEF Quiet
    <2>5. QED
      BY <2>4 DEF KeyStep
  <1>6. ASSUME NEW action \in Actions, NEW p \in Projects \cup {NoProject},
               Decide(action, p)
        PROVE  KeyStep
    <2>1. \A v \in Submitters : Still(v)
      BY <1>6 DEF Decide, Still, Goto, PhaseInv, Workers, RunType, Keyed, Carrying, Filing, Way
    <2>2. tasks' = tasks /\ rows' = rows /\ \A s \in Topics : drafts'[s] \in {drafts[s], NoDraft}
      BY <1>6, LocalIs DEF Decide, DraftsType, NoHeld
    <2>3. /\ held' # held => pc["manager"] = "heldread" /\ held' = note.held
          /\ keys' # keys => pc["person"] = "holdsave" /\ keys' = keys + 1
      BY <1>6 DEF Decide, MintFor
    <2>4. Quiet
      BY <2>1, <2>2, <2>3 DEF Quiet
    <2>5. QED
      BY <2>4 DEF KeyStep
  <1>7. ASSUME Compose PROVE KeyStep
    BY <1>7 DEF KeyStep
  <1>8. ASSUME Composed PROVE KeyStep
    BY <1>8 DEF KeyStep
  <1>9. ASSUME NEW w \in Submitters, Submit(w) PROVE KeyStep
    BY <1>9 DEF KeyStep, Submits
  <1>10. ASSUME NEW w \in Submitters, Create(w) PROVE KeyStep
    BY <1>10 DEF KeyStep, Submits
  <1>11. ASSUME NEW w \in Submitters, AddRow(w) PROVE KeyStep
    BY <1>11 DEF KeyStep, Submits
  <1>12. ASSUME NEW w \in Submitters, Tie(w) PROVE KeyStep
    BY <1>12 DEF KeyStep, Submits
  <1>13. ASSUME NEW w \in Submitters, LinkParts(w) PROVE KeyStep
    BY <1>13 DEF KeyStep, Submits
  <1>14. ASSUME NEW w \in Submitters, Clear(w) PROVE KeyStep
    BY <1>14 DEF KeyStep, Submits
  <1>15. ASSUME Release PROVE KeyStep
    BY <1>15 DEF KeyStep
  <1>16. ASSUME HeldCheck PROVE KeyStep
    BY <1>16 DEF KeyStep
  <1>17. ASSUME HeldSave PROVE KeyStep
    BY <1>17 DEF KeyStep
  <1>18. ASSUME Crash PROVE KeyStep
    BY <1>18
  <1>19. QED
    BY <1>1, <1>2, <1>3, <1>4, <1>5, <1>6, <1>7, <1>8, <1>9, <1>10, <1>11, <1>12, <1>13, <1>14,
       <1>15, <1>16, <1>17, <1>18
       DEF Next, Handles, Manages, Outside, Submits

\* Who works on a draft is alone in its topic.
LEMMA OneHolder ==
  ASSUME LockInv, RunType, NEW v \in Submitters, NEW w \in Submitters,
         pc[v] \in Holders, pc[w] \in Holders, run[v].topic = run[w].topic
  PROVE  v = w
  <1>1. run[v].topic \in Topics
    BY LocalIs
  <1>2. lock[run[v].topic] = v
    BY <1>1 DEF LockInv
  <1>3. lock[run[w].topic] = w
    BY <1>1 DEF LockInv
  <1>4. QED
    BY <1>2, <1>3

\* And with its key.
LEMMA OneKey ==
  ASSUME LockInv, RunType, TopicInv, NEW v \in Submitters, NEW w \in Submitters,
         pc[v] \in Carrying, pc[w] \in Carrying, run[v].draft.key \in Keys,
         run[v].draft.key = run[w].draft.key
  PROVE  v = w
  <1> DEFINE k == run[v].draft.key
  <1>1. run[v].topic \in Topics /\ run[w].topic \in Topics
    BY LocalIs
  <1>2. Keeps(run[v].topic, k) /\ Keeps(run[w].topic, k)
    BY DEF Keeps, InHand
  <1>3. run[v].topic = run[w].topic
    BY <1>1, <1>2 DEF TopicInv
  <1>4. pc[v] \in Holders /\ pc[w] \in Holders
    BY DEF Holders, Carrying
  <1>5. QED
    BY <1>3, <1>4, OneHolder

\* What a worker has in hand it read in its step, or had in hand before.
Carried(w) ==
  pc'[w] \in Carrying =>
     /\ run'[w].topic = run[w].topic
     /\ \/ pc[w] \in Carrying /\ run'[w].draft = run[w].draft
        \/ run'[w].draft = drafts[run[w].topic]

\* Every step is like that.
LEMMA CarriedStep ==
  ASSUME PhaseInv, RunType, KeyStep, NEW w \in Submitters
  PROVE  Carried(w)
  <1> USE DEF Submitters
  <1>1. CASE Quiet
    BY <1>1 DEF Quiet, Still, Keyed, Carried
  <1>2. CASE Compose
    BY <1>2 DEF Compose, Goto, PhaseInv, Workers, RunType, Local, Carried, Carrying, Filing
  <1>3. CASE Composed
    BY <1>3 DEF Composed, Goto, PhaseInv, Workers, Carried, Carrying, Filing
  <1>4. CASE Release
    <2>1. \/ run' = run \/ \E t \in Topics : run' = [run EXCEPT !["manager"].topic = t]
      BY <1>4 DEF Release
    <2>2. run'["person"] = run["person"]
      BY <2>1 DEF RunType
    <2>3. pc'["manager"] \notin Carrying /\ pc'["person"] = pc["person"]
      BY <1>4 DEF Release, Goto, PhaseInv, Workers, Carrying, Filing
    <2>4. QED
      BY <2>2, <2>3 DEF Carried
  <1>5. CASE HeldCheck
    BY <1>5 DEF HeldCheck, Goto, PhaseInv, Workers, Carried, Carrying, Filing
  <1>6. CASE HeldSave
    BY <1>6 DEF HeldSave, Goto, PhaseInv, Workers, Carried, Carrying, Filing
  <1>7. ASSUME NEW v \in Submitters, Submit(v) PROVE Carried(w)
    BY <1>7 DEF Submit, Done, Goto, PhaseInv, Workers, RunType, Local, Carried, Carrying, Filing
  <1>8. ASSUME NEW v \in Submitters, Create(v) PROVE Carried(w)
    BY <1>8 DEF Create, GivesUp, Done, Goto, PhaseInv, Workers, Carried, Carrying, Filing
  <1>9. ASSUME NEW v \in Submitters, AddRow(v) PROVE Carried(w)
    BY <1>9 DEF AddRow, Goto, PhaseInv, Workers, Carried, Carrying, Filing
  <1>10. ASSUME NEW v \in Submitters, Tie(v) PROVE Carried(w)
    BY <1>10 DEF Tie, Goto, PhaseInv, Workers, RunType, Local, Carried, Carrying, Filing
  <1>11. ASSUME NEW v \in Submitters, LinkParts(v) PROVE Carried(w)
    <2>1. run' = run \/ \E m \in run[v].left : run' = [run EXCEPT ![v].left = run[v].left \ {m}]
      BY <1>11 DEF LinkParts
    <2>2. run'[w].topic = run[w].topic /\ run'[w].draft = run[w].draft
      BY <2>1 DEF RunType, Local
    <2>3. pc'[w] \in Carrying => pc[w] \in Carrying
      BY <1>11 DEF LinkParts, Goto, PhaseInv, Workers, Carrying, Filing
    <2>4. QED
      BY <2>2, <2>3 DEF Carried
  <1>12. ASSUME NEW v \in Submitters, Clear(v) PROVE Carried(w)
    BY <1>12 DEF Clear, Done, Goto, PhaseInv, Workers, RunType, Local, Carried, Carrying, Filing
  <1>13. QED
    BY <1>1, <1>2, <1>3, <1>4, <1>5, <1>6, <1>7, <1>8, <1>9, <1>10, <1>11, <1>12
       DEF KeyStep, Submits

\* A row is added and tied by the worker with its key in hand.
Rowed(w, k) ==
  /\ pc[w] \in {"row", "tie"} /\ run[w].draft.key = k
  /\ rows'[k] = "untied" \/ rows'[k] = run[w].topic

\* Every other row stays as it is.
LEMMA RowsStep ==
  ASSUME DatabaseType, KeyStep, NEW k \in Keys
  PROVE  rows'[k] = rows[k] \/ \E w \in Submitters : Rowed(w, k)
  <1>1. CASE Quiet
    BY <1>1 DEF Quiet
  <1>2. CASE Compose \/ Composed \/ Release \/ HeldCheck \/ HeldSave
    BY <1>2 DEF Compose, Composed, Release, HeldCheck, HeldSave, database
  <1>3. ASSUME NEW v \in Submitters, Submit(v) \/ Create(v) \/ LinkParts(v) \/ Clear(v)
        PROVE  rows' = rows
    BY <1>3 DEF Submit, Create, LinkParts, Clear, database
  <1>4. ASSUME NEW v \in Submitters, AddRow(v) PROVE rows'[k] = rows[k] \/ Rowed(v, k)
    BY <1>4 DEF AddRow, Rowed, DatabaseType
  <1>5. ASSUME NEW v \in Submitters, Tie(v) PROVE rows'[k] = rows[k] \/ Rowed(v, k)
    BY <1>5 DEF Tie, Rowed, DatabaseType
  <1>6. QED
    BY <1>1, <1>2, <1>3, <1>4, <1>5 DEF KeyStep, Submits

\* A draft with a message more keeps its key, or gets the next one.
LEMMA KeyOfMore ==
  ASSUME NEW d \in Proper, NEW x
  PROVE  With(d, x).key \in {d.key, keys + 1} /\ (d = NoDraft => With(d, x).key = keys + 1)
         /\ (d # NoDraft => With(d, x).key = d.key)
  BY DEF With

\* A key stays in its topic; a new one is the next.
KeepsKept(t, k) ==
  Keeps(t, k)' => \/ Keeps(t, k)
                  \/ k = keys + 1 /\ keys' = keys + 1 /\ t = run["person"].topic

\* Every step is like that.
LEMMA KeepsStep ==
  ASSUME PhaseInv, TelegramType, YouGileType, DatabaseType, DraftsType, RunType,
         KeyStep, Next, NEW t \in Topics, NEW k \in Keys
  PROVE  KeepsKept(t, k)
  <1> DEFINE r == run["person"]
  <1>0. k # 0 /\ NoDraft.key = 0 /\ "none" \notin Topics /\ "untied" \notin Topics
    BY ConstantsAssumption DEF Keys, NoDraft
  <1>1. ASSUME rows'[k] = t PROVE Keeps(t, k)
    <2>1. CASE rows'[k] = rows[k]
      BY <1>1, <2>1 DEF Keeps
    <2>2. ASSUME NEW w \in Submitters, Rowed(w, k) PROVE Keeps(t, k)
      BY <1>0, <1>1, <2>2 DEF Rowed, Keeps, InHand, Carrying, Filing
    <2>3. QED
      BY <2>1, <2>2, RowsStep
  <1>2. ASSUME NEW w \in Submitters, InHand(w, t, k)' PROVE Keeps(t, k)
    <2>1. Carried(w)
      BY CarriedStep
    <2>2. QED
      BY <1>2, <2>1 DEF InHand, Carried, Keeps
  <1>3. CASE HandedOn
    <2>1. /\ drafts'[t].key = k => Keeps(t, k)
          /\ note'.held[t].key = k => Keeps(t, k)
          /\ seen'.held[t].key = k => Keeps(t, k)
          /\ held'[t].key = k => Keeps(t, k)
      BY <1>0, <1>3 DEF HandedOn, Keeps
    <2>2. QED
      BY <1>1, <1>2, <2>1 DEF KeepsKept, Keeps, InHand
  <1>4. CASE Composed
    <2>1. r.topic \in Topics /\ r.draft \in Proper /\ "person" \in Submitters
      BY LocalIs DEF Submitters
    <2> DEFINE more == With(r.draft, r.msg)
    <2>2. /\ drafts' = [drafts EXCEPT ![r.topic] = more] /\ UNCHANGED <<note, seen, held>>
          /\ pc["person"] = "composed"
          /\ keys' = IF r.draft = NoDraft THEN keys + 1 ELSE keys
      BY <1>4 DEF Composed, MintFor
    <2>3. /\ more.key = r.draft.key \/ (more.key = keys + 1 /\ r.draft = NoDraft)
      BY <2>1, KeyOfMore
    <2> HIDE DEF more
    <2>4. drafts'[t].key = k => drafts[t].key = k \/ (t = r.topic /\ more.key = k)
      BY <2>2 DEF DraftsType
    <2>5. r.draft.key = k => Keeps(r.topic, k)
      BY <2>1, <2>2 DEF Keeps, InHand, Carrying
    <2>6. drafts'[t].key = k => Keeps(t, k) \/ (k = keys + 1 /\ keys' = keys + 1 /\ t = r.topic)
      BY <2>2, <2>3, <2>4, <2>5 DEF Keeps
    <2>7. /\ note'.held[t].key = k => Keeps(t, k)
          /\ seen'.held[t].key = k => Keeps(t, k)
          /\ held'[t].key = k => Keeps(t, k)
      BY <2>2 DEF Keeps
    <2>8. QED
      BY <1>1, <1>2, <2>6, <2>7 DEF KeepsKept, Keeps, InHand
  <1>5. CASE HoldSave
    <2>1. r.topic \in Topics
      BY LocalIs DEF Submitters
    <2>2. seen.held[r.topic] \in Proper
      BY <2>1 DEF DraftsType, Letter
    <2> DEFINE more == With(seen.held[r.topic], r.msg)
    <2>3. /\ note'.held = [seen.held EXCEPT ![r.topic] = more] /\ UNCHANGED <<drafts, seen, held>>
          /\ keys' = IF seen.held[r.topic] = NoDraft THEN keys + 1 ELSE keys
      BY <1>5 DEF HoldSave, MintFor
    <2>4. \/ more.key = seen.held[r.topic].key
          \/ more.key = keys + 1 /\ seen.held[r.topic] = NoDraft
      BY <2>2, KeyOfMore
    <2> HIDE DEF more
    <2>5. note'.held[t].key = k => seen.held[t].key = k \/ (t = r.topic /\ more.key = k)
      BY <2>3 DEF DraftsType, Letter
    <2>6. note'.held[t].key = k => Keeps(t, k) \/ (k = keys + 1 /\ keys' = keys + 1 /\ t = r.topic)
      BY <2>3, <2>4, <2>5 DEF Keeps
    <2>7. /\ drafts'[t].key = k => Keeps(t, k)
          /\ seen'.held[t].key = k => Keeps(t, k)
          /\ held'[t].key = k => Keeps(t, k)
      BY <2>3 DEF Keeps
    <2>8. QED
      BY <1>1, <1>2, <2>6, <2>7 DEF KeepsKept, Keeps, InHand
  <1>6. ASSUME NEW w \in Submitters, Create(w) PROVE KeepsKept(t, k)
    <2>1. UNCHANGED <<drafts, note, seen, held>>
      BY <1>6 DEF Create, database
    <2>2. QED
      BY <1>1, <1>2, <2>1 DEF KeepsKept, Keeps, InHand
  <1>7. QED
    BY <1>3, <1>4, <1>5, <1>6, PlacesStep DEF PlaceStep

\* YouGile refuses, or makes the task of a key nobody has used.
Refused(w) == tasks' = tasks /\ pc'[w] \notin Keyed
MakesTask(w) ==
  /\ tasks' = [tasks EXCEPT ![run[w].draft.key] =
                 [project |-> run[w].project, body |-> run[w].draft.parts]]
  /\ pc'[w] = "row"

\* With no lost answer that is all a create does.
LEMMA CreateIs ==
  ASSUME FaultKinds \subseteq {"refused"}, PhaseInv, YouGileType, RunType, ActType,
         NEW w \in Submitters, HandOf(w), Create(w)
  PROVE  /\ run[w].draft.key \in Keys /\ run[w].project \in Projects
         /\ pc[w] = "create" /\ \A v \in Submitters \ {w} : pc'[v] = pc[v]
         /\ UNCHANGED <<drafts, note, seen, held, rows, keys, run>>
         /\ Refused(w) \/ MakesTask(w)
  <1>1. run[w].draft.key \in Keys /\ run[w].project \in Projects
    BY Sends DEF Create, Filing
  <1>2. pc[w] = "create" /\ tasks[run[w].draft.key] = NoTask
    BY DEF Create, HandOf
  <1>3. \A v \in Submitters \ {w} : pc'[v] = pc[v]
    BY DEF Create, GivesUp, Done, Goto, PhaseInv, Workers, Submitters
  <1>4. UNCHANGED <<drafts, note, seen, held, rows, keys, run>>
    BY DEF Create, database
  <1>5. ~ Fault("unanswered")
    BY DEF Fault
  <1>6. \/ Goto(w, "row") /\ tasks' = Filed(run[w].draft, run[w].project)
        \/ GivesUp(w) /\ tasks' = tasks
    BY <1>5 DEF Create
  <1>7. Refused(w) \/ MakesTask(w)
    BY <1>2, <1>6 DEF Refused, MakesTask, Filed, GivesUp, Done, Goto, PhaseInv, Workers, Submitters,
       Keyed, Carrying, Filing
  <1>8. QED
    BY <1>1, <1>2, <1>3, <1>4, <1>7

\* Only Create makes tasks.
LEMMA TasksStep ==
  ASSUME KeyStep
  PROVE  tasks' = tasks \/ \E w \in Submitters : Create(w)
  <1>1. CASE Quiet
    BY <1>1 DEF Quiet
  <1>2. CASE Compose \/ Composed \/ Release \/ HeldCheck \/ HeldSave
    BY <1>2 DEF Compose, Composed, Release, HeldCheck, HeldSave, yougile
  <1>3. ASSUME NEW v \in Submitters, Submits(v)
        PROVE  tasks' = tasks \/ Create(v)
    BY <1>3 DEF Submits, Submit, AddRow, Tie, LinkParts, Clear, yougile
  <1>4. QED
    BY <1>1, <1>2, <1>3 DEF KeyStep

\* Keys are given out in order.
LEMMA KeysGrow ==
  ASSUME CountInv, KeyStep
  PROVE  keys' \in {keys, keys + 1} /\ keys \in Nat
  <1>1. keys \in Nat
    BY DEF CountInv
  <1>2. CASE Quiet
    BY <1>1, <1>2 DEF Quiet
  <1>3. CASE Compose \/ Composed \/ Release \/ HeldCheck \/ HeldSave
    BY <1>1, <1>3 DEF Compose, Composed, Release, HeldCheck, HeldSave, MintFor
  <1>4. ASSUME NEW v \in Submitters, Submits(v)
        PROVE  keys' = keys
    BY <1>4 DEF Submits, Submit, Create, AddRow, Tie, LinkParts, Clear
  <1>5. QED
    BY <1>1, <1>2, <1>3, <1>4 DEF KeyStep

\* A key stays in its topic, and the next one is in none.
LEMMA TopicStep ==
  ASSUME PhaseInv, TelegramType, YouGileType, DatabaseType, DraftsType, RunType, ActType, CountInv,
         TopicInv, KeyStep, Next
  PROVE  TopicInv'
  <1>1. keys' \in {keys, keys + 1} /\ keys \in Nat
    BY KeysGrow
  <1>2. \A k \in Keys : k \in Nat
    BY Parameters DEF Keys
  <1>3. \A t \in Topics, k \in Keys : KeepsKept(t, k)
    BY KeepsStep
  <1>4. \A k \in Keys : \A t \in Topics : Keeps(t, k) => k <= keys
    BY DEF TopicInv
  <1>5. \A k \in Keys : \A t, u \in Topics : Keeps(t, k)' /\ Keeps(u, k)' => t = u
    <2> SUFFICES ASSUME NEW k \in Keys, NEW t \in Topics, NEW u \in Topics,
                        Keeps(t, k)', Keeps(u, k)'
                 PROVE  t = u
      OBVIOUS
    <2>1. Keeps(t, k) \/ (k = keys + 1 /\ t = run["person"].topic)
      BY <1>3 DEF KeepsKept
    <2>2. Keeps(u, k) \/ (k = keys + 1 /\ u = run["person"].topic)
      BY <1>3 DEF KeepsKept
    <2>3. k = keys + 1 => ~ Keeps(t, k) /\ ~ Keeps(u, k)
      BY <1>1, <1>4
    <2>4. QED
      BY <2>1, <2>2, <2>3 DEF TopicInv
  <1>6. \A k \in Keys : \A t \in Topics : Keeps(t, k)' => k <= keys'
    <2> SUFFICES ASSUME NEW k \in Keys, NEW t \in Topics, Keeps(t, k)' PROVE k <= keys'
      OBVIOUS
    <2>1. k <= keys \/ k = keys'
      BY <1>3, <1>4 DEF KeepsKept
    <2>2. QED
      BY <1>1, <1>2, <2>1
  <1>7. \A k \in Keys : tasks'[k] # NoTask => k <= keys'
    <2> SUFFICES ASSUME NEW k \in Keys, tasks'[k] # NoTask PROVE k <= keys'
      OBVIOUS
    <2>1. CASE tasks' = tasks
      BY <1>1, <1>2, <2>1 DEF TopicInv
    <2>2. ASSUME NEW w \in Submitters, Create(w) PROVE k <= keys'
      <3>1. run[w].draft.key \in Keys /\ run[w].topic \in Topics
        BY <2>2, Sends, LocalIs DEF Create, Filing
      <3>2. tasks[k] # NoTask \/ k = run[w].draft.key
        BY <2>2, <3>1 DEF Create, Filed, YouGileType
      <3>3. Keeps(run[w].topic, run[w].draft.key)
        BY <2>2 DEF Create, Keeps, InHand, Carrying, Filing
      <3>4. k <= keys
        BY <3>1, <3>2, <3>3 DEF TopicInv
      <3>5. QED
        BY <1>1, <1>2, <3>4
    <2>3. QED
      BY <2>1, <2>2, TasksStep
  <1>8. QED
    BY <1>5, <1>6, <1>7 DEF TopicInv

\* The worker that made a task ties its ticket to the topic.
LEMMA FiledStep ==
  ASSUME FaultKinds \subseteq {"refused"}, PhaseInv, YouGileType, DatabaseType, RunType, ActType,
         FiledInv, HandInv, KeyStep
  PROVE  FiledInv'
  <1> USE DEF Submitters
  <1>0. "none" \notin Topics /\ "untied" \notin Topics
    BY ConstantsAssumption
  <1>1. ASSUME tasks' = tasks, rows' = rows,
               \A w \in Submitters : pc[w] \in {"row", "tie"} =>
                  pc'[w] = pc[w] /\ run'[w].draft = run[w].draft
        PROVE  FiledInv'
    BY <1>1 DEF FiledInv, Tied
  <1>2. CASE Quiet
    BY <1>1, <1>2 DEF Quiet, Still, Keyed, Carrying, Filing
  <1>3. CASE Compose
    BY <1>1, <1>3 DEF Compose, yougile, database, Goto, PhaseInv, Workers, RunType
  <1>4. CASE Composed
    BY <1>1, <1>4 DEF Composed, yougile, Goto, PhaseInv, Workers
  <1>5. CASE Release
    <2>1. \/ run' = run \/ \E t \in Topics : run' = [run EXCEPT !["manager"].topic = t]
      BY <1>5 DEF Release
    <2>2. run'["person"] = run["person"]
      BY <2>1 DEF RunType
    <2>3. pc["manager"] = "release" /\ pc'["person"] = pc["person"] /\ tasks' = tasks /\ rows' = rows
      BY <1>5 DEF Release, yougile, database, Goto, PhaseInv, Workers
    <2>4. QED
      BY <1>1, <2>2, <2>3
  <1>6. CASE HeldCheck
    BY <1>1, <1>6 DEF HeldCheck, yougile, database, Goto, PhaseInv, Workers
  <1>7. CASE HeldSave
    BY <1>1, <1>7 DEF HeldSave, yougile, Goto, PhaseInv, Workers
  <1>8. ASSUME NEW v \in Submitters, Submit(v) PROVE FiledInv'
    BY <1>1, <1>8 DEF Submit, yougile, database, Done, Goto, PhaseInv, Workers, RunType
  <1>9. ASSUME NEW v \in Submitters, LinkParts(v) PROVE FiledInv'
    <2>1. pc[v] = "linkparts" /\ tasks' = tasks /\ rows' = rows
      BY <1>9 DEF LinkParts, yougile
    <2>2. \A w \in Submitters \ {v} : pc'[w] = pc[w] /\ run'[w] = run[w]
      BY <1>9 DEF LinkParts, Goto, PhaseInv, Workers, RunType
    <2>3. QED
      BY <1>1, <2>1, <2>2
  <1>10. ASSUME NEW v \in Submitters, Clear(v) PROVE FiledInv'
    BY <1>1, <1>10 DEF Clear, yougile, Done, Goto, PhaseInv, Workers, RunType
  <1>11. ASSUME NEW v \in Submitters, Create(v) PROVE FiledInv'
    <2> DEFINE k == run[v].draft.key
    <2>0. HandOf(v)
      BY DEF HandInv
    <2>1. /\ k \in Keys /\ run[v].project \in Projects
          /\ pc[v] = "create" /\ \A w \in Submitters \ {v} : pc'[w] = pc[w]
          /\ UNCHANGED <<rows, run>>
          /\ Refused(v) \/ MakesTask(v)
      BY <1>11, <2>0, CreateIs
    <2>2. CASE Refused(v)
      BY <1>1, <2>1, <2>2 DEF Refused
    <2>3. CASE MakesTask(v)
      <3>1. \A l \in Keys \ {k} : tasks'[l] = tasks[l]
        BY <2>3 DEF MakesTask, YouGileType
      <3>2. pc'[v] = "row" /\ run'[v].draft.key = k
        BY <2>1, <2>3 DEF MakesTask
      <3>3. tasks'[k] # NoTask
        BY <2>1, <2>3, Parameters DEF MakesTask, YouGileType, NoTask
      <3>4. \A l \in Keys : rows'[l] # "none" => tasks'[l] # NoTask
        BY <2>1, <3>1, <3>3 DEF FiledInv
      <3>5. ASSUME NEW l \in Keys, tasks'[l] # NoTask
            PROVE  Tied(l)'
        <4>1. CASE l = k
          BY <3>2, <4>1 DEF Tied
        <4>2. CASE l # k
          <5>1. Tied(l)
            BY <3>1, <3>5, <4>2 DEF FiledInv
          <5>2. CASE rows[l] \in Topics
            BY <2>1, <5>2 DEF Tied
          <5>3. ASSUME NEW w \in Submitters, pc[w] \in {"row", "tie"}, run[w].draft.key = l
                PROVE  Tied(l)'
            BY <2>1, <5>3 DEF Tied
          <5>4. QED
            BY <5>1, <5>2, <5>3 DEF Tied
        <4>3. QED
          BY <4>1, <4>2
      <3>6. QED
        BY <3>4, <3>5 DEF FiledInv
    <2>4. QED
      BY <2>1, <2>2, <2>3
  <1>12. ASSUME NEW v \in Submitters, AddRow(v) \/ Tie(v) PROVE FiledInv'
    <2>0. HandOf(v) /\ run[v].draft.key \in Keys
      BY <1>12, Sends DEF HandInv, AddRow, Tie, Filing
    <2>10. PICK k \in Keys : k = run[v].draft.key
      BY <2>0
    <2>1. pc[v] \in {"row", "tie"} /\ run[v].topic \in Topics /\ tasks[k] # NoTask
      BY <1>12, <2>0, <2>10, LocalIs DEF AddRow, Tie, HandOf, Made
    <2>2. tasks' = tasks /\ \A l \in Keys \ {k} : rows'[l] = rows[l]
      BY <1>12, <2>10 DEF AddRow, Tie, yougile, DatabaseType
    <2>3. \A l \in Keys : rows'[l] # "none" => tasks'[l] # NoTask
      BY <2>1, <2>2 DEF FiledInv
    <2>4. \A w \in Submitters \ {v} : pc'[w] = pc[w] /\ run'[w] = run[w]
      BY <1>12 DEF AddRow, Tie, Goto, PhaseInv, Workers, RunType
    <2>5. Tied(k)'
      <3>1. CASE AddRow(v)
        BY <2>10, <3>1 DEF AddRow, Goto, PhaseInv, Workers, Tied
      <3>2. CASE Tie(v)
        BY <2>1, <2>10, <3>2 DEF Tie, DatabaseType, Tied
      <3>3. QED
        BY <1>12, <3>1, <3>2
    <2>6. ASSUME NEW l \in Keys, tasks'[l] # NoTask, l # k
          PROVE  Tied(l)'
      <3>1. Tied(l)
        BY <2>2, <2>6 DEF FiledInv
      <3>2. CASE rows[l] \in Topics
        BY <2>2, <2>6, <3>2 DEF Tied
      <3>3. ASSUME NEW w \in Submitters, pc[w] \in {"row", "tie"}, run[w].draft.key = l
            PROVE  Tied(l)'
        BY <2>4, <2>6, <2>10, <3>3 DEF Tied
      <3>4. QED
        BY <3>1, <3>2, <3>3 DEF Tied
    <2>7. QED
      BY <2>3, <2>5, <2>6 DEF FiledInv
  <1>13. QED
    BY <1>2, <1>3, <1>4, <1>5, <1>6, <1>7, <1>8, <1>9, <1>10, <1>11, <1>12 DEF KeyStep, Submits

\* A worker that keeps its draft in hand, while nobody files its key.
LEMMA HandKept ==
  ASSUME NEW w \in Submitters, HandOf(w), pc'[w] = pc[w], run'[w] = run[w],
         pc[w] \in Holders => drafts'[run[w].topic] \in {drafts[run[w].topic], NoDraft},
         tasks' = tasks \/
           /\ tasks[run[w].draft.key] # NoTask => tasks'[run[w].draft.key] = tasks[run[w].draft.key]
           /\ pc[w] \in {"composed", "create"} /\ run[w].draft # NoDraft =>
                tasks'[run[w].draft.key] = tasks[run[w].draft.key]
           /\ pc[w] = "create" => run[w].draft # NoDraft
  PROVE  HandOf(w)'
  <1>1. /\ pc'[w] = "composed" => run'[w].draft = NoDraft \/ tasks'[run'[w].draft.key] = NoTask
        /\ pc'[w] = "create" => tasks'[run'[w].draft.key] = NoTask
    BY DEF HandOf
  <1>2. pc'[w] \in Made => /\ tasks'[run'[w].draft.key] # NoTask
                           /\ run'[w].draft.parts \subseteq tasks'[run'[w].draft.key].body
    BY DEF HandOf
  <1>3. /\ pc'[w] = "linkparts" => run'[w].left \subseteq run'[w].draft.parts
        /\ pc'[w] \in Carrying => drafts'[run'[w].topic] \in {NoDraft, run'[w].draft}
        /\ pc'[w] = "heldsave" => drafts'[run'[w].topic] = NoDraft
    BY DEF HandOf, Holders, Carrying
  <1>4. QED
    BY <1>1, <1>2, <1>3 DEF HandOf

\* A worker with nothing in hand.
LEMMA NoHand ==
  ASSUME NEW w, pc'[w] \notin Carrying \cup {"heldsave"}
  PROVE  HandOf(w)'
  BY DEF HandOf, Carrying, Filing, Made

\* A draft read under its lock was filed by nobody.
LEMMA FreeDraft ==
  ASSUME RunType, LockInv, DraftInv, NEW t \in Topics, Free(t), drafts[t] # NoDraft
  PROVE  tasks[drafts[t].key] = NoTask
  <1>1. ASSUME NEW w \in Submitters, pc[w] \in Made, run[w].topic = t PROVE FALSE
    <2>1. lock[t] = w
      BY <1>1 DEF LockInv, Holders, Filing, Made
    <2>2. QED
      BY <2>1, Parameters DEF Free
  <1>2. QED
    BY <1>1 DEF DraftInv, DraftOf

\* What a worker has in hand stays as it is until it files it.
LEMMA HandStep ==
  ASSUME FaultKinds \subseteq {"refused"}, PhaseInv, YouGileType, DraftsType, RunType, ActType,
         LockInv, TopicInv, HandInv, DraftInv, KeyStep
  PROVE  HandInv'
  <1> USE DEF Submitters
  <1>1. SUFFICES ASSUME NEW w \in Submitters PROVE HandOf(w)'
    BY DEF HandInv
  <1>2. HandOf(w) /\ run[w].topic \in Topics /\ run[w].draft \in Proper
    BY LocalIs DEF HandInv
  <1>3. CASE Quiet
    <2>1. CASE pc'[w] \notin Keyed
      BY <2>1, NoHand DEF Keyed
    <2>2. CASE pc'[w] \in Keyed
      BY <1>2, <1>3, <2>2, HandKept DEF Quiet, Still
    <2>3. QED
      BY <2>1, <2>2
  <1>4. CASE Compose
    <2>1. /\ drafts' = drafts /\ tasks' = tasks /\ Free(run["person"].topic)
          /\ pc'["manager"] = pc["manager"] /\ run'["manager"] = run["manager"]
      BY <1>4 DEF Compose, yougile, database, Goto, PhaseInv, Workers, RunType
    <2>2. CASE w = "manager"
      BY <1>2, <2>1, <2>2, HandKept
    <2>3. CASE w = "person"
      <3>1. CASE pc'["person"] = "idle"
        BY <2>3, <3>1, NoHand DEF Carrying, Filing
      <3>2. CASE pc'["person"] # "idle"
        <4>1. /\ pc'[w] = "composed" /\ run'[w].topic = run[w].topic
              /\ run'[w].draft = drafts[run[w].topic]
          BY <1>4, <2>3, <3>2 DEF Compose, Goto, PhaseInv, Workers, RunType, Local
        <4>2. run'[w].draft = NoDraft \/ tasks'[run'[w].draft.key] = NoTask
          BY <1>2, <2>1, <2>3, <4>1, FreeDraft
        <4>3. QED
          BY <2>1, <4>1, <4>2 DEF HandOf, Made
      <3>3. QED
        BY <3>1, <3>2
    <2>4. QED
      BY <2>2, <2>3
  <1>5. CASE Composed
    <2>1. /\ tasks' = tasks /\ run' = run /\ pc["person"] = "composed"
          /\ pc'["person"] = "submit" /\ pc'["manager"] = pc["manager"]
          /\ \A t \in Topics : t # run["person"].topic => drafts'[t] = drafts[t]
      BY <1>5 DEF Composed, yougile, Goto, PhaseInv, Workers, DraftsType
    <2>2. CASE w = "person"
      BY <2>1, <2>2, NoHand DEF Carrying, Filing
    <2>3. CASE w = "manager"
      <3>1. pc[w] \in Holders => run[w].topic # run["person"].topic
        BY <2>1, <2>3, OneHolder DEF Holders
      <3>2. QED
        BY <1>2, <2>1, <2>3, <3>1, HandKept
    <2>4. QED
      BY <2>2, <2>3
  <1>6. CASE Release
    <2>1. \/ run' = run \/ \E t \in Topics : run' = [run EXCEPT !["manager"].topic = t]
      BY <1>6 DEF Release
    <2>2. run'["person"] = run["person"]
      BY <2>1 DEF RunType
    <2>3. /\ pc'["manager"] \in {"idle", "release", "heldcheck"} /\ pc'["person"] = pc["person"]
          /\ tasks' = tasks /\ drafts' = drafts
      BY <1>6 DEF Release, yougile, database, Goto, PhaseInv, Workers
    <2>4. CASE w = "manager"
      BY <2>3, <2>4, NoHand DEF Carrying, Filing
    <2>5. CASE w = "person"
      BY <1>2, <2>2, <2>3, <2>5, HandKept
    <2>6. QED
      BY <2>4, <2>5
  <1>7. CASE HeldCheck
    <2>1. /\ tasks' = tasks /\ drafts' = drafts /\ run' = run /\ pc'["person"] = pc["person"]
          /\ pc'["manager"] = "release"
               \/ (pc'["manager"] = "heldsave" /\ drafts[run["manager"].topic] = NoDraft)
      BY <1>7 DEF HeldCheck, yougile, database, Goto, PhaseInv, Workers
    <2>2. CASE w = "person"
      BY <1>2, <2>1, <2>2, HandKept
    <2>3. CASE w = "manager" /\ pc'[w] = "release"
      BY <2>3, NoHand DEF Carrying, Filing
    <2>4. CASE w = "manager" /\ pc'[w] = "heldsave"
      BY <2>1, <2>4 DEF HandOf, Carrying, Filing, Made
    <2>5. QED
      BY <2>1, <2>2, <2>3, <2>4
  <1>8. CASE HeldSave
    <2>1. /\ tasks' = tasks /\ run' = run /\ pc["manager"] = "heldsave"
          /\ pc'["manager"] = "submit" /\ pc'["person"] = pc["person"]
          /\ \A t \in Topics : t # run["manager"].topic => drafts'[t] = drafts[t]
      BY <1>8 DEF HeldSave, yougile, Goto, PhaseInv, Workers, DraftsType
    <2>2. CASE w = "manager"
      BY <2>1, <2>2, NoHand DEF Carrying, Filing
    <2>3. CASE w = "person"
      <3>1. pc[w] \in Holders => run[w].topic # run["manager"].topic
        BY <2>1, <2>3, OneHolder DEF Holders
      <3>2. QED
        BY <1>2, <2>1, <2>3, <3>1, HandKept
    <2>4. QED
      BY <2>2, <2>3
  <1>9. ASSUME NEW v \in Submitters, Submit(v) PROVE HandOf(w)'
    <2>1. /\ drafts' = drafts /\ tasks' = tasks /\ Free(run[v].topic)
          /\ \A u \in Submitters \ {v} : pc'[u] = pc[u] /\ run'[u] = run[u]
      BY <1>9 DEF Submit, yougile, database, Done, Goto, PhaseInv, Workers, RunType
    <2>2. CASE w # v
      BY <1>2, <2>1, <2>2, HandKept
    <2>3. CASE w = v /\ drafts[run[v].topic] = NoDraft
      <3>1. pc'[w] \in {"idle", "release"}
        BY <1>9, <2>3 DEF Submit, Done, Goto, PhaseInv, Workers
      <3>2. QED
        BY <3>1, NoHand DEF Carrying, Filing
    <2>4. CASE w = v /\ drafts[run[v].topic] # NoDraft
      <3>1. /\ pc'[w] = "create" /\ run'[w].topic = run[w].topic
            /\ run'[w].draft = drafts[run[w].topic]
        BY <1>9, <2>4 DEF Submit, Goto, PhaseInv, Workers, RunType, Local
      <3>2. tasks'[run'[w].draft.key] = NoTask
        BY <1>2, <2>1, <2>4, <3>1, FreeDraft
      <3>3. QED
        BY <2>1, <3>1, <3>2 DEF HandOf, Made
    <2>5. QED
      BY <2>2, <2>3, <2>4
  <1>10. ASSUME NEW v \in Submitters, Create(v) PROVE HandOf(w)'
    <2>0. HandOf(v)
      BY DEF HandInv
    <2>1. /\ run[v].draft.key \in Keys /\ run[v].project \in Projects
          /\ pc[v] = "create" /\ \A u \in Submitters \ {v} : pc'[u] = pc[u]
          /\ drafts' = drafts /\ run' = run
          /\ Refused(v) \/ MakesTask(v)
      BY <1>10, <2>0, CreateIs
    <2>2. CASE w = v /\ Refused(v)
      BY <2>2, NoHand DEF Refused, Keyed
    <2>3. CASE w = v /\ MakesTask(v)
      <3>1. /\ pc'[w] = "row" /\ tasks'[run[w].draft.key].body = run[w].draft.parts
            /\ tasks'[run[w].draft.key].project = run[w].project
        BY <2>1, <2>3 DEF MakesTask, YouGileType
      <3>2. tasks'[run[w].draft.key] # NoTask
        BY <2>1, <2>3, <3>1, Parameters DEF NoTask
      <3>3. drafts[run[w].topic] \in {NoDraft, run[w].draft}
        BY <1>2, <2>1, <2>3 DEF HandOf, Carrying, Filing
      <3>4. QED
        BY <2>1, <3>1, <3>2, <3>3 DEF HandOf, Made
    <2>4. CASE w # v
      <3>1. CASE tasks' = tasks
        BY <1>2, <2>1, <2>4, <3>1, HandKept
      <3>2. CASE MakesTask(v)
        <4>1. \A k \in Keys \ {run[v].draft.key} : tasks'[k] = tasks[k]
          BY <3>2 DEF MakesTask, YouGileType
        <4>2. pc[w] \in Carrying => run[w].draft.key # run[v].draft.key
          BY <2>1, <2>4, OneKey DEF Carrying, Filing
        <4>3. pc[w] = "create" => run[w].draft # NoDraft
          BY DEF RunType, Filing, NoDraft
        <4>4. run[w].draft # NoDraft => run[w].draft.key \in Keys
          BY <1>2 DEF Proper, Draft
        <4>5. CASE pc[w] \notin Carrying
          <5>1. pc'[w] \notin Carrying
            BY <2>1, <2>4, <4>5
          <5>2. CASE pc[w] = "heldsave"
            BY <1>2, <2>1, <2>4, <5>2 DEF HandOf, Carrying, Filing, Made
          <5>3. CASE pc[w] # "heldsave"
            BY <2>1, <2>4, <5>1, <5>3, NoHand
          <5>4. QED
            BY <5>2, <5>3
        <4>6. CASE pc[w] \in Carrying
          <5>1. run[w].draft # NoDraft => tasks'[run[w].draft.key] = tasks[run[w].draft.key]
            BY <4>1, <4>2, <4>4, <4>6
          <5>2. CASE run[w].draft # NoDraft
            BY <1>2, <2>1, <2>4, <4>3, <5>1, <5>2, HandKept
          <5>3. CASE run[w].draft = NoDraft
            <6>1. pc[w] = "composed"
              BY <4>6, <5>3 DEF RunType, Carrying, Filing, NoDraft
            <6>2. QED
              BY <1>2, <2>1, <2>4, <5>3, <6>1 DEF HandOf, Made, Carrying
          <5>4. QED
            BY <5>2, <5>3
        <4>7. QED
          BY <4>5, <4>6
      <3>3. QED
        BY <2>1, <3>1, <3>2 DEF Refused
    <2>5. QED
      BY <2>1, <2>2, <2>3, <2>4
  <1>11. ASSUME NEW v \in Submitters, AddRow(v) \/ Tie(v) \/ LinkParts(v) PROVE HandOf(w)'
    <2>1. /\ tasks' = tasks /\ drafts' = drafts
          /\ \A u \in Submitters \ {v} : pc'[u] = pc[u] /\ run'[u] = run[u]
      BY <1>11 DEF AddRow, Tie, LinkParts, yougile, Goto, PhaseInv, Workers, RunType
    <2>2. CASE w # v
      BY <1>2, <2>1, <2>2, HandKept
    <2>3. CASE w = v
      <3>1. pc[w] \in Made /\ pc'[w] \in Made
        BY <1>11, <2>3 DEF AddRow, Tie, LinkParts, Goto, PhaseInv, Workers, Made
      <3>2. CASE AddRow(v)
        BY <1>2, <2>1, <2>3, <3>1, <3>2
           DEF AddRow, HandOf, Goto, PhaseInv, Workers, Made, Carrying, Filing
      <3>3. CASE Tie(v)
        <4>1. /\ run'[w].topic = run[w].topic /\ run'[w].draft = run[w].draft
              /\ run'[w].left = run[w].draft.parts /\ pc'[w] = "linkparts" /\ pc[w] = "tie"
          BY <2>3, <3>3 DEF Tie, RunType, Local, Goto, PhaseInv, Workers
        <4>2. QED
          BY <1>2, <2>1, <4>1 DEF HandOf, Made, Carrying, Filing
      <3>4. CASE LinkParts(v)
        <4>1. run' = run \/ \E m \in run[v].left : run' = [run EXCEPT ![v].left = run[v].left \ {m}]
          BY <3>4 DEF LinkParts
        <4>2. /\ run'[w].topic = run[w].topic /\ run'[w].draft = run[w].draft
              /\ run'[w].left \subseteq run[w].left
          BY <2>3, <4>1 DEF RunType, Local
        <4>3. pc[w] = "linkparts" /\ pc'[w] \in {"linkparts", "clear"}
          BY <2>3, <3>4 DEF LinkParts, Goto, PhaseInv, Workers
        <4>4. QED
          BY <1>2, <2>1, <4>2, <4>3 DEF HandOf, Made, Carrying, Filing
      <3>5. QED
        BY <1>11, <3>2, <3>3, <3>4
    <2>4. QED
      BY <2>2, <2>3
  <1>12. ASSUME NEW v \in Submitters, Clear(v) PROVE HandOf(w)'
    <2>1. /\ tasks' = tasks /\ \A t \in Topics : drafts'[t] \in {drafts[t], NoDraft}
          /\ \A u \in Submitters \ {v} : pc'[u] = pc[u] /\ run'[u] = run[u]
          /\ pc'[v] \in {"idle", "release"}
      BY <1>12 DEF Clear, yougile, Done, Goto, PhaseInv, Workers, RunType, DraftsType
    <2>2. CASE w # v
      BY <1>2, <2>1, <2>2, HandKept
    <2>3. CASE w = v
      BY <2>1, <2>3, NoHand DEF Carrying, Filing
    <2>4. QED
      BY <2>2, <2>3
  <1>13. QED
    BY <1>3, <1>4, <1>5, <1>6, <1>7, <1>8, <1>9, <1>10, <1>11, <1>12 DEF KeyStep, Submits

\* A draft that stays, is not filed in this step, and whose task's maker stays at it.
LEMMA DraftKept ==
  ASSUME NEW t \in Topics, DraftOf(t), drafts'[t] \in {NoDraft, drafts[t]},
         drafts[t] # NoDraft => tasks'[drafts[t].key] = tasks[drafts[t].key],
         \A w \in Submitters : pc[w] \in Made /\ run[w].topic = t =>
            pc'[w] \in Made /\ run'[w].topic = t /\ run'[w].draft = run[w].draft
  PROVE  DraftOf(t)'
  <1>1. CASE drafts'[t] = NoDraft
    BY <1>1 DEF DraftOf
  <1>2. CASE drafts'[t] = drafts[t] /\ tasks[drafts[t].key] = NoTask
    BY <1>2 DEF DraftOf
  <1>3. ASSUME drafts'[t] = drafts[t], NEW w \in Submitters, pc[w] \in Made, run[w].topic = t,
               run[w].draft = drafts[t]
        PROVE  DraftOf(t)'
    BY <1>3 DEF DraftOf
  <1>4. QED
    BY <1>1, <1>2, <1>3 DEF DraftOf

\* The maker of a task stays at its draft until it clears it.
LEMMA MadeStays ==
  ASSUME PhaseInv, RunType, KeyStep, NEW w \in Submitters, pc[w] \in Made
  PROVE  \/ /\ pc'[w] \in Made /\ run'[w].topic = run[w].topic
            /\ run'[w].draft = run[w].draft
         \/ Clear(w)
  <1> USE DEF Submitters
  <1> DEFINE Goal == \/ /\ pc'[w] \in Made /\ run'[w].topic = run[w].topic
                        /\ run'[w].draft = run[w].draft
                     \/ Clear(w)
  <1>1. CASE Quiet
    BY <1>1 DEF Quiet, Still, Keyed, Carrying, Filing, Made
  <1>2. CASE Compose
    BY <1>2 DEF Compose, Goto, PhaseInv, Workers, RunType, Made
  <1>3. CASE Composed
    BY <1>3 DEF Composed, Goto, PhaseInv, Workers, Made
  <1>4. CASE Release
    <2>1. \/ run' = run \/ \E t \in Topics : run' = [run EXCEPT !["manager"].topic = t]
      BY <1>4 DEF Release
    <2>2. run'["person"] = run["person"]
      BY <2>1 DEF RunType
    <2>3. pc["manager"] = "release" /\ pc'["person"] = pc["person"]
      BY <1>4 DEF Release, Goto, PhaseInv, Workers
    <2>4. QED
      BY <2>2, <2>3 DEF Made
  <1>5. CASE HeldCheck
    BY <1>5 DEF HeldCheck, Goto, PhaseInv, Workers, Made
  <1>6. CASE HeldSave
    BY <1>6 DEF HeldSave, Goto, PhaseInv, Workers, Made
  <1>7. ASSUME NEW v \in Submitters, Submit(v) PROVE Goal
    BY <1>7 DEF Submit, Done, Goto, PhaseInv, Workers, RunType, Made
  <1>8. ASSUME NEW v \in Submitters, Create(v) PROVE Goal
    BY <1>8 DEF Create, GivesUp, Done, Goto, PhaseInv, Workers, Made
  <1>9. ASSUME NEW v \in Submitters, AddRow(v) PROVE Goal
    BY <1>9 DEF AddRow, Goto, PhaseInv, Workers, Made
  <1>10. ASSUME NEW v \in Submitters, Tie(v) PROVE Goal
    BY <1>10 DEF Tie, Goto, PhaseInv, Workers, RunType, Local, Made
  <1>11. ASSUME NEW v \in Submitters, LinkParts(v) PROVE Goal
    <2>1. run' = run \/ \E m \in run[v].left : run' = [run EXCEPT ![v].left = run[v].left \ {m}]
      BY <1>11 DEF LinkParts
    <2>2. run'[w].topic = run[w].topic /\ run'[w].draft = run[w].draft
      BY <2>1 DEF RunType, Local
    <2>3. pc'[w] \in Made
      BY <1>11 DEF LinkParts, Goto, PhaseInv, Workers, Made
    <2>4. QED
      BY <2>2, <2>3
  <1>12. ASSUME NEW v \in Submitters, Clear(v) PROVE Goal
    <2>1. CASE v = w
      BY <1>12, <2>1
    <2>2. CASE v # w
      BY <1>12, <2>2 DEF Clear, Done, Goto, PhaseInv, Workers, RunType
    <2>3. QED
      BY <2>1, <2>2
  <1>13. QED
    BY <1>1, <1>2, <1>3, <1>4, <1>5, <1>6, <1>7, <1>8, <1>9, <1>10, <1>11, <1>12
       DEF KeyStep, Submits

\* A key not given out yet has no task.
LEMMA NextIsFree ==
  ASSUME CountInv, TelegramType, TopicInv, pc["person"] \in Unminted
  PROVE  keys + 1 \in Keys /\ tasks[keys + 1] = NoTask
  <1>1. keys + 1 \in Keys /\ keys \in Nat
    BY NextKey DEF CountInv
  <1>2. ~ (keys + 1 <= keys)
    BY <1>1
  <1>3. QED
    BY <1>1, <1>2 DEF TopicInv

\* What a step does to the drafts.
LEMMA DraftMoves ==
  ASSUME DraftsType, KeyStep
  PROVE  \/ \A t \in Topics : drafts'[t] \in {NoDraft, drafts[t]}
         \/ Composed \/ HeldSave
  <1>1. CASE Quiet
    BY <1>1 DEF Quiet
  <1>2. CASE Compose \/ Release \/ HeldCheck
    BY <1>2 DEF Compose, Release, HeldCheck, database
  <1>3. ASSUME NEW v \in Submitters, Submits(v)
        PROVE  \A t \in Topics : drafts'[t] \in {NoDraft, drafts[t]}
    <2>1. CASE Submit(v) \/ Create(v) \/ AddRow(v) \/ Tie(v) \/ LinkParts(v)
      BY <2>1 DEF Submit, Create, AddRow, Tie, LinkParts, database
    <2>2. CASE Clear(v)
      BY <2>2 DEF Clear, DraftsType
    <2>3. QED
      BY <1>3, <2>1, <2>2 DEF Submits
  <1>4. QED
    BY <1>1, <1>2, <1>3 DEF KeyStep

\* A draft that is filed is cleared by who filed it.
LEMMA DraftsHandled ==
  ASSUME FaultKinds \subseteq {"refused"}, PhaseInv, TelegramType, YouGileType, DraftsType, RunType,
         ActType, LockInv, CountInv, TopicInv, HandInv, DraftInv, HeldInv, KeyStep
  PROVE  DraftInv'
  <1> USE DEF Submitters
  <1>1. SUFFICES ASSUME NEW t \in Topics PROVE DraftOf(t)'
    BY DEF DraftInv
  <1>2. DraftOf(t) /\ drafts[t] \in Proper
    BY DEF DraftInv, DraftsType
  <1>3. ASSUME NEW v \in Submitters, Clear(v) PROVE DraftOf(t)'
    <2>1. /\ tasks' = tasks /\ drafts' = [drafts EXCEPT ![run[v].topic] = NoDraft]
          /\ \A u \in Submitters \ {v} : pc'[u] = pc[u] /\ run'[u] = run[u]
          /\ pc[v] = "clear"
      BY <1>3 DEF Clear, yougile, Done, Goto, PhaseInv, Workers, RunType
    <2>2. CASE run[v].topic = t
      BY <2>1, <2>2 DEF DraftsType, DraftOf
    <2>3. CASE run[v].topic # t
      <3>1. drafts'[t] = drafts[t]
        BY <2>1, <2>3 DEF DraftsType
      <3>2. QED
        BY <1>2, <2>1, <2>3, <3>1, DraftKept
    <2>4. QED
      BY <2>2, <2>3
  <1>4. ASSUME \A v \in Submitters : ~ Clear(v), drafts'[t] \in {NoDraft, drafts[t]},
               tasks' = tasks
        PROVE  DraftOf(t)'
    <2>1. \A w \in Submitters : pc[w] \in Made =>
             pc'[w] \in Made /\ run'[w].topic = run[w].topic /\ run'[w].draft = run[w].draft
      BY <1>4, MadeStays
    <2>2. QED
      BY <1>2, <1>4, <2>1, DraftKept
  <1>5. ASSUME NEW v \in Submitters, Create(v) PROVE DraftOf(t)'
    <2>0. HandOf(v)
      BY DEF HandInv
    <2>1. /\ run[v].draft.key \in Keys /\ run[v].project \in Projects
          /\ pc[v] = "create" /\ \A u \in Submitters \ {v} : pc'[u] = pc[u]
          /\ drafts' = drafts /\ run' = run
          /\ Refused(v) \/ MakesTask(v)
      BY <1>5, <2>0, CreateIs
    <2>2. \A w \in Submitters : pc[w] \in Made => pc'[w] = pc[w]
      BY <2>1 DEF Made
    <2>3. CASE drafts[t] = NoDraft
      BY <2>1, <2>3 DEF DraftOf
    <2>4. CASE tasks'[drafts[t].key] = tasks[drafts[t].key]
      BY <1>2, <2>1, <2>2, <2>4, DraftKept
    <2>5. CASE drafts[t] # NoDraft /\ tasks'[drafts[t].key] # tasks[drafts[t].key]
      <3>1. drafts[t].key \in Keys
        BY <1>2, <2>5 DEF Proper, Draft
      <3>2. MakesTask(v) /\ drafts[t].key = run[v].draft.key
        BY <2>1, <2>5, <3>1 DEF Refused, MakesTask, YouGileType
      <3>3. run[v].topic \in Topics
        BY LocalIs
      <3>4. Keeps(run[v].topic, run[v].draft.key)
        BY <2>1 DEF Keeps, InHand, Carrying, Filing
      <3>5. Keeps(t, run[v].draft.key)
        BY <3>2 DEF Keeps
      <3>6. run[v].topic = t
        BY <2>1, <3>3, <3>4, <3>5 DEF TopicInv
      <3>7. run[v].draft = drafts[t]
        BY <2>0, <2>1, <2>5, <3>6 DEF HandOf, Carrying, Filing
      <3>8. QED
        BY <2>1, <3>2, <3>6, <3>7 DEF DraftOf, MakesTask, Made
    <2>6. QED
      BY <2>3, <2>4, <2>5
  <1>6. CASE Composed
    <2>1. /\ tasks' = tasks /\ pc["person"] = "composed" /\ run["person"].topic \in Topics
          /\ run["person"].draft \in Proper
      BY <1>6, LocalIs DEF Composed, yougile
    <2>2. CASE t # run["person"].topic
      <3>1. drafts'[t] = drafts[t]
        BY <1>6, <2>2 DEF Composed, DraftsType
      <3>2. QED
        BY <1>3, <1>4, <2>1, <3>1
    <2>3. CASE t = run["person"].topic
      <3>1. drafts'[t] = With(run["person"].draft, run["person"].msg)
        BY <1>6, <2>3 DEF Composed, DraftsType
      <3>2. CASE run["person"].draft = NoDraft
        <4>1. tasks[keys + 1] = NoTask
          BY <2>1, NextIsFree DEF Unminted
        <4>2. drafts'[t].key = keys + 1
          BY <2>1, <3>1, <3>2, KeyOfMore
        <4>3. QED
          BY <2>1, <4>1, <4>2 DEF DraftOf
      <3>3. CASE run["person"].draft # NoDraft
        <4>1. tasks[run["person"].draft.key] = NoTask
          BY <2>1, <3>3 DEF HandInv, HandOf
        <4>2. drafts'[t].key = run["person"].draft.key
          BY <2>1, <3>1, <3>3, KeyOfMore
        <4>3. QED
          BY <2>1, <4>1, <4>2 DEF DraftOf
      <3>4. QED
        BY <3>2, <3>3
    <2>4. QED
      BY <2>2, <2>3
  <1>7. CASE HeldSave
    <2>1. /\ tasks' = tasks /\ pc["manager"] = "heldsave" /\ run["manager"].topic \in Topics
      BY <1>7, LocalIs DEF HeldSave, yougile
    <2>2. CASE t # run["manager"].topic
      <3>1. drafts'[t] = drafts[t]
        BY <1>7, <2>2 DEF HeldSave, DraftsType
      <3>2. QED
        BY <1>3, <1>4, <2>1, <3>1
    <2>3. CASE t = run["manager"].topic
      <3>1. drafts'[t] = held[t]
        BY <1>7, <2>3 DEF HeldSave, DraftsType
      <3>2. tasks[held[t].key] = NoTask
        BY <2>1, <2>3 DEF HeldInv
      <3>3. QED
        BY <2>1, <3>1, <3>2 DEF DraftOf
    <2>4. QED
      BY <2>2, <2>3
  <1>8. QED
    BY <1>3, <1>4, <1>5, <1>6, <1>7, TasksStep, DraftMoves

\* release_held puts the held draft of a topic in its place.
Resumes(t) == pc["manager"] = "heldsave" /\ pc'["manager"] = "submit" /\ run["manager"].topic = t

\* A key gets into a draft, or into the person's hands, from the draft, when it is given out, or
\* by the release of a held draft.
LEMMA BusyStep ==
  ASSUME PhaseInv, DraftsType, RunType, KeyStep, NEW t \in Topics, NEW k \in Keys, Busy(t, k)'
  PROVE  Busy(t, k) \/ k = keys + 1
         \/ (Resumes(t) /\ k = held[t].key)
  <1> USE DEF Submitters
  <1>0. k # 0 /\ NoDraft.key = 0
    BY DEF Keys, NoDraft
  <1>1. CASE InHand("person", t, k)'
    <2>1. Carried("person")
      BY CarriedStep
    <2>2. QED
      BY <1>1, <2>1 DEF InHand, Carried, Busy
  <1>2. CASE drafts'[t].key = k /\ drafts'[t] \in {NoDraft, drafts[t]}
    BY <1>0, <1>2 DEF Busy
  <1>3. CASE drafts'[t].key = k /\ Composed
    <2> DEFINE r == run["person"]
    <2>1. r.topic \in Topics /\ r.draft \in Proper /\ pc["person"] = "composed"
      BY <1>3, LocalIs DEF Composed
    <2>2. drafts'[t] = IF t = r.topic THEN With(r.draft, r.msg) ELSE drafts[t]
      BY <1>3 DEF Composed, DraftsType
    <2>3. With(r.draft, r.msg).key \in {r.draft.key, keys + 1}
      BY <2>1, KeyOfMore
    <2>4. QED
      BY <1>3, <2>1, <2>2, <2>3 DEF Busy, InHand, Carrying
  <1>4. CASE drafts'[t].key = k /\ HeldSave
    <2>1. drafts'[t] = IF t = run["manager"].topic THEN held[t] ELSE drafts[t]
      BY <1>4 DEF HeldSave, DraftsType
    <2>2. Resumes(run["manager"].topic)
      BY <1>4 DEF HeldSave, Goto, PhaseInv, Workers, Resumes
    <2>3. QED
      BY <1>4, <2>1, <2>2 DEF Busy
  <1>5. QED
    BY <1>1, <1>2, <1>3, <1>4, DraftMoves DEF Busy

\* A key that has no draft yet is not the next one, and no draft gets it but by its release.
LEMMA NotBusy ==
  ASSUME PhaseInv, DraftsType, RunType, CountInv, TopicInv, KeyStep, NEW t \in Topics,
         NEW k \in Keys, Keeps(t, k), ~ Busy(t, k)
  PROVE  ~ Busy(t, k)' \/ (Resumes(t) /\ k = held[t].key)
  <1>1. k <= keys /\ keys \in Nat
    BY DEF TopicInv, CountInv
  <1>2. k # keys + 1
    BY <1>1
  <1>3. QED
    BY <1>2, BusyStep

\* What a step does to the held drafts that an approval has taken.
LEMMA HeldMoves ==
  ASSUME PhaseInv, DraftsType, KeyStep, NEW t \in Topics
  PROVE  \/ held'[t] = NoDraft
         \/ held'[t] = held[t] /\ ~ Resumes(t)
         \/ held'[t] = note.held[t] /\ pc["manager"] = "heldread"
  <1> USE DEF Submitters
  <1>1. CASE HeldSave
    BY <1>1 DEF HeldSave, DraftsType, Resumes
  <1>2. CASE Quiet
    BY <1>2 DEF Quiet, Still, Keyed, Resumes
  <1>3. CASE Compose \/ Composed \/ Release \/ HeldCheck
    BY <1>3 DEF Compose, Composed, Release, HeldCheck, DraftsType, Resumes, Goto, PhaseInv, Workers
  <1>4. ASSUME NEW v \in Submitters, Submits(v)
        PROVE  held' = held /\ ~ (pc["manager"] = "heldsave" /\ pc'["manager"] = "submit")
    BY <1>4 DEF Submits, Submit, Create, AddRow, Tie, LinkParts, Clear, GivesUp, Done, Goto,
       PhaseInv, Workers
  <1>5. QED
    BY <1>1, <1>2, <1>3, <1>4 DEF KeyStep, Resumes

\* The release of a held draft nobody has filed.
Unfiled == pc["manager"] \in {"heldcheck", "heldsave"} =>
             /\ held[run["manager"].topic] # NoDraft
             /\ tasks[held[run["manager"].topic].key] = NoTask

\* A held draft is filed by nobody while it is released.
LEMMA UnfiledStep ==
  ASSUME FaultKinds \subseteq {"refused"}, PhaseInv, YouGileType, DatabaseType, DraftsType, RunType,
         ActType, TopicInv, FiledInv, HandInv, HeldInv, KeyStep
  PROVE  Unfiled'
  <1> USE DEF Submitters
  <1>1. Unfiled /\ \A t \in Topics : held[t] \in Proper /\ run["manager"].topic \in Topics
    BY LocalIs DEF HeldInv, Unfiled, DraftsType
  <1>2. ASSUME pc'["manager"] = pc["manager"], run'["manager"] = run["manager"], held' = held,
               tasks' = tasks
        PROVE  Unfiled'
    BY <1>1, <1>2 DEF Unfiled
  <1>3. ASSUME pc'["manager"] \notin {"heldcheck", "heldsave"}
        PROVE  Unfiled'
    BY <1>3 DEF Unfiled
  <1>4. CASE Quiet
    <2>1. CASE pc'["manager"] \in {"heldcheck", "heldsave"}
      BY <1>2, <1>4, <2>1 DEF Quiet, Still, Keyed
    <2>2. QED
      BY <1>3, <2>1
  <1>5. CASE Compose
    BY <1>2, <1>5 DEF Compose, yougile, Goto, PhaseInv, Workers, RunType
  <1>6. CASE Composed
    BY <1>2, <1>6 DEF Composed, yougile, Goto, PhaseInv, Workers
  <1>7. CASE Release
    <2>1. CASE held = NoHeld
      BY <1>3, <1>7, <2>1, LocalIs DEF Release, Goto, PhaseInv, Workers, NoHeld
    <2>2. ASSUME NEW t \in Topics, held[t] # NoDraft, TicketsOf(t) # {}, pc' = pc
          PROVE  Unfiled'
      BY <1>3, <1>7, <2>2 DEF Release
    <2>3. ASSUME NEW t \in Topics, held[t] # NoDraft, TicketsOf(t) = {},
                 run' = [run EXCEPT !["manager"].topic = t], held' = held
          PROVE  Unfiled'
      <3>1. PICK k : k = held[t].key
        OBVIOUS
      <3>2. k \in Keys /\ Keeps(t, k) /\ ~ Busy(t, k)
        BY <1>1, <2>3, <3>1 DEF Proper, Draft, Keeps, HeldInv
      <3>3. tasks[k] # NoTask => Tied(k)
        BY <3>2 DEF FiledInv
      <3>4. rows[k] \notin Topics
        <4>1. ASSUME rows[k] \in Topics PROVE FALSE
          <5>1. rows[k] = t
            BY <3>2, <4>1 DEF TopicInv, Keeps
          <5>2. QED
            BY <2>3, <3>2, <5>1 DEF TicketsOf
        <4>2. QED
          BY <4>1
      <3>5. ~ (pc["person"] \in {"row", "tie"} /\ run["person"].draft.key = k)
        <4>1. ASSUME pc["person"] \in {"row", "tie"}, run["person"].draft.key = k PROVE FALSE
          <5>1. run["person"].topic \in Topics
            BY LocalIs
          <5>2. Keeps(run["person"].topic, k)
            BY <4>1 DEF Keeps, InHand, Carrying, Filing
          <5>3. run["person"].topic = t
            BY <3>2, <5>1, <5>2 DEF TopicInv
          <5>4. QED
            BY <3>2, <4>1, <5>3 DEF Busy, InHand, Carrying, Filing
        <4>2. QED
          BY <4>1
      <3>6. tasks[k] = NoTask
        BY <1>7, <3>3, <3>4, <3>5 DEF Tied, Release
      <3>7. run'["manager"].topic = t /\ tasks' = tasks
        BY <1>7, <2>3 DEF RunType, Local, Release, yougile
      <3>8. QED
        BY <2>3, <3>1, <3>6, <3>7 DEF Unfiled
    <2>4. QED
      BY <1>7, <2>1, <2>2, <2>3 DEF Release
  <1>8. CASE HeldCheck
    <2>1. pc'["manager"] \in {"release", "heldsave"} /\ run' = run /\ tasks' = tasks
      BY <1>8 DEF HeldCheck, Goto, PhaseInv, Workers, yougile
    <2>2. CASE pc'["manager"] = "release"
      BY <1>3, <2>2
    <2>3. CASE pc'["manager"] = "heldsave"
      <3>1. held' = held /\ pc["manager"] = "heldcheck"
        BY <1>8, <2>3 DEF HeldCheck, Goto, PhaseInv, Workers
      <3>2. QED
        BY <1>1, <2>1, <3>1 DEF Unfiled
    <2>4. QED
      BY <2>1, <2>2, <2>3
  <1>9. CASE HeldSave
    BY <1>3, <1>9 DEF HeldSave, Goto, PhaseInv, Workers
  <1>10. CASE Submits("manager")
    <2>1. pc'["manager"] \notin {"heldcheck", "heldsave"}
      BY <1>10 DEF Submits, Submit, Create, GivesUp, AddRow, Tie, LinkParts, Clear, Done, Goto,
         PhaseInv, Workers
    <2>2. QED
      BY <1>3, <2>1
  <1>11. CASE Submits("person") /\ ~ Create("person")
    BY <1>2, <1>11 DEF Submits, Submit, AddRow, Tie, LinkParts, Clear, Done, Goto, PhaseInv, Workers,
       RunType, yougile
  <1>12. CASE Create("person")
    <2>0. HandOf("person")
      BY DEF HandInv
    <2>1. /\ run["person"].draft.key \in Keys
          /\ pc["person"] = "create" /\ pc'["manager"] = pc["manager"]
          /\ held' = held /\ run' = run
          /\ Refused("person") \/ MakesTask("person")
      BY <1>12, <2>0, CreateIs
    <2>2. CASE Refused("person")
      BY <1>2, <2>1, <2>2 DEF Refused
    <2>3. CASE MakesTask("person") /\ pc["manager"] \in {"heldcheck", "heldsave"}
      <3>1. PICK t \in Topics : t = run["manager"].topic
        BY <1>1, Parameters
      <3>2. PICK k : k = held[t].key
        OBVIOUS
      <3>3. held[t] # NoDraft /\ tasks[k] = NoTask
        BY <1>1, <2>3, <3>1, <3>2 DEF Unfiled
      <3>4. k \in Keys /\ Keeps(t, k) /\ ~ Busy(t, k)
        BY <1>1, <3>2, <3>3 DEF Proper, Draft, Keeps, HeldInv
      <3>5. run["person"].draft.key # k
        <4>1. ASSUME run["person"].draft.key = k PROVE FALSE
          <5>1. run["person"].topic \in Topics
            BY LocalIs
          <5>2. Keeps(run["person"].topic, k)
            BY <2>1, <4>1 DEF Keeps, InHand, Carrying, Filing
          <5>3. run["person"].topic = t
            BY <3>4, <5>1, <5>2 DEF TopicInv
          <5>4. QED
            BY <2>1, <3>4, <4>1, <5>3 DEF Busy, InHand, Carrying, Filing
        <4>2. QED
          BY <4>1
      <3>6. tasks'[k] = tasks[k]
        BY <2>3, <3>4, <3>5 DEF MakesTask, YouGileType
      <3>7. QED
        BY <2>1, <3>1, <3>2, <3>3, <3>6 DEF Unfiled
    <2>4. QED
      BY <1>3, <2>1, <2>2, <2>3
  <1>13. QED
    BY <1>4, <1>5, <1>6, <1>7, <1>8, <1>9, <1>10, <1>11, <1>12 DEF KeyStep

\* What an approval took is in no draft but by its release.
LEMMA HeldStep ==
  ASSUME FaultKinds \subseteq {"refused"}, PhaseInv, YouGileType, DatabaseType, DraftsType, RunType,
         ActType, CountInv, TopicInv, FiledInv, HandInv, HeldInv, LiveInv, KeyStep
  PROVE  HeldInv'
  <1>1. ASSUME NEW t \in Topics, held'[t] # NoDraft PROVE ~ Busy(t, held[t].key)'
    <2>1. PICK k : k = held'[t].key
      OBVIOUS
    <2>2. CASE held'[t] = held[t] /\ ~ Resumes(t)
      <3>1. k \in Keys /\ Keeps(t, k) /\ ~ Busy(t, k)
        BY <1>1, <2>1, <2>2 DEF DraftsType, Proper, Draft, Keeps, HeldInv
      <3>2. ~ Busy(t, k)'
        BY <2>2, <3>1, NotBusy
      <3>3. QED
        BY <2>1, <3>2 DEF Busy, InHand
    <2>3. CASE held'[t] = note.held[t] /\ pc["manager"] = "heldread"
      <3>1. k \in Keys /\ Keeps(t, k)
        BY <1>1, <2>1, <2>3 DEF DraftsType, Letter, Proper, Draft, Keeps
      <3>2. ~ Busy(t, k)
        BY <1>1, <2>1, <2>3 DEF LiveInv, Live, Spared
      <3>3. ~ Busy(t, k)'
        BY <2>3, <3>1, <3>2, NotBusy DEF Resumes
      <3>4. QED
        BY <2>1, <3>3 DEF Busy, InHand
    <2>4. QED
      BY <1>1, <2>2, <2>3, HeldMoves
  <1>2. Unfiled'
    BY UnfiledStep
  <1>3. QED
    BY <1>1, <1>2 DEF HeldInv, Unfiled

\* An approval goes on only while its person is approved, or blocked from the command line.
LEMMA GrantedStep ==
  ASSUME ~Crash, PhaseInv, ActType, DatabaseType, LiveInv, Next
  PROVE  Granted' => sender'.status \in {"approved", "blocked"}
  <1> USE DEF telegram, yougile, database, history, counters, Submitters
  <1>1. ASSUME Take \/ Asked \/ Reask \/ Hold \/ HoldSave \/ Intro
        PROVE  Granted' => sender'.status \in {"approved", "blocked"}
    BY <1>1 DEF Take, Asked, Reask, Hold, HoldSave, Intro, LiveInv, Granted, Releasing, Sending,
       Filing, Goto, PhaseInv, Workers, Done, GivesUp, DatabaseType, ActType, NewStatus, NoAct
  <1>2. ASSUME Greet \/ Request \/ Requested \/ InTopic \/ Post \/ LinkPost
        PROVE  Granted' => sender'.status \in {"approved", "blocked"}
    BY <1>2 DEF Greet, Request, Requested, InTopic, Post, LinkPost, LiveInv, Granted, Releasing,
       Sending, Filing, Goto, PhaseInv, Workers, Done, GivesUp, DatabaseType, ActType,
       NewStatus, NoAct
  <1>3. ASSUME Compose \/ Composed \/ Cancel \/ Cancelled \/ Decided \/ HeldRead
        PROVE  Granted' => sender'.status \in {"approved", "blocked"}
    BY <1>3 DEF Compose, Composed, Cancel, Cancelled, Decided, HeldRead, LiveInv, Granted,
       Releasing, Sending, Filing, Goto, PhaseInv, Workers, Done, GivesUp, DatabaseType,
       ActType, NewStatus, NoAct
  <1>4. ASSUME Forget \/ Drop \/ Reintro \/ Release \/ HeldCheck \/ HeldSave
        PROVE  Granted' => sender'.status \in {"approved", "blocked"}
    BY <1>4 DEF Forget, Drop, Reintro, Release, HeldCheck, HeldSave, LiveInv, Granted,
       Releasing, Sending, Filing, Goto, PhaseInv, Workers, Done, GivesUp, DatabaseType,
       ActType, NewStatus, NoAct
  <1>5. ASSUME CliBlock \/ CliDrop
        PROVE  Granted' => sender'.status \in {"approved", "blocked"}
    BY <1>5 DEF CliBlock, CliDrop, LiveInv, Granted, Releasing, Sending, Filing, Goto, PhaseInv,
       Workers, Done, GivesUp, DatabaseType, ActType, NewStatus, NoAct
  <1>6. ASSUME NEW w \in Submitters, Submit(w) \/ Create(w) \/ AddRow(w) \/ Tie(w)
               \/ LinkParts(w) \/ Clear(w)
        PROVE  Granted' => sender'.status \in {"approved", "blocked"}
    BY <1>6 DEF Submit, Create, AddRow, Tie, LinkParts, Clear, LiveInv, Granted, Releasing,
       Sending, Filing, Goto, PhaseInv, Workers, Done, GivesUp, DatabaseType, ActType,
       NewStatus, NoAct
  <1>7. ASSUME NEW t \in Topics, NEW kind \in {"text", "tap", "cancel"}, Write(t, kind)
        PROVE  Granted' => sender'.status \in {"approved", "blocked"}
    BY <1>7 DEF Write, LiveInv, Granted, Releasing, Sending, Filing, Goto, PhaseInv, Workers,
       Done, GivesUp, DatabaseType, ActType, NewStatus, NoAct
  <1>8. ASSUME NEW action \in Actions, NEW p \in Projects \cup {NoProject},
               Decide(action, p)
        PROVE  Granted' => sender'.status \in {"approved", "blocked"}
    BY <1>8 DEF Decide, LiveInv, Granted, Releasing, Sending, Filing, Goto, PhaseInv, Workers,
       Done, GivesUp, DatabaseType, ActType, NewStatus, NoAct
  <1>9. ASSUME Crash PROVE Granted' => sender'.status \in {"approved", "blocked"}
    BY <1>9
  <1>10. QED
    BY <1>1, <1>2, <1>3, <1>4, <1>5, <1>6, <1>7, <1>8, <1>9
       DEF Next, Handles, Manages, Outside, Submits

\* The note becomes what an approval may take only when everything is thrown away.
Cleaned == /\ pc["manager"] = "drop" /\ drafts' = NoHeld /\ note'.held = NoHeld
           /\ pc'["person"] = pc["person"]

\* An approval may take what it could have taken before.
LEMMA LiveStep ==
  ASSUME ~Crash, PhaseInv, ActType, DatabaseType, Next
  PROVE  Live' => Live \/ Cleaned
  <1> USE DEF telegram, yougile, database, history, counters, Submitters
  <1>1. ASSUME Take \/ Asked \/ Reask \/ Hold \/ HoldSave \/ Intro
        PROVE  Live' => Live \/ Cleaned
    BY <1>1 DEF Take, Asked, Reask, Hold, HoldSave, Intro, Live, Cleaned, Goto, PhaseInv,
       Workers, Phases, Done, GivesUp, DatabaseType, ActType, NewStatus, NoAct, NoteOf, Applies,
       Statuses, Actions
  <1>2. ASSUME Greet \/ Request \/ Requested \/ InTopic \/ Post \/ LinkPost
        PROVE  Live' => Live \/ Cleaned
    BY <1>2 DEF Greet, Request, Requested, InTopic, Post, LinkPost, Live, Cleaned, Goto,
       PhaseInv, Workers, Phases, Done, GivesUp, DatabaseType, ActType, NewStatus, NoAct,
       NoteOf, Applies, Statuses, Actions
  <1>3. ASSUME Compose \/ Composed \/ Cancel \/ Cancelled \/ Decided \/ HeldRead
        PROVE  Live' => Live \/ Cleaned
    BY <1>3 DEF Compose, Composed, Cancel, Cancelled, Decided, HeldRead, Live, Cleaned, Goto,
       PhaseInv, Workers, Phases, Done, GivesUp, DatabaseType, ActType, NewStatus, NoAct,
       NoteOf, Applies, Statuses, Actions
  <1>4. ASSUME Forget \/ Drop \/ Reintro \/ Release \/ HeldCheck \/ HeldSave
        PROVE  Live' => Live \/ Cleaned
    BY <1>4 DEF Forget, Drop, Reintro, Release, HeldCheck, HeldSave, Live, Cleaned, Goto,
       PhaseInv, Workers, Phases, Done, GivesUp, DatabaseType, ActType, NewStatus, NoAct,
       NoteOf, Applies, Statuses, Actions
  <1>5. ASSUME CliBlock \/ CliDrop PROVE Live' => Live \/ Cleaned
    BY <1>5 DEF CliBlock, CliDrop, Live, Cleaned, Goto, PhaseInv, Workers, Phases, Done,
       GivesUp, DatabaseType, ActType, NewStatus, NoAct, NoteOf, Applies, Statuses, Actions
  <1>6. ASSUME NEW w \in Submitters, Submit(w) \/ Create(w) \/ AddRow(w) \/ Tie(w)
               \/ LinkParts(w) \/ Clear(w)
        PROVE  Live' => Live \/ Cleaned
    BY <1>6 DEF Submit, Create, AddRow, Tie, LinkParts, Clear, Live, Cleaned, Goto, PhaseInv,
       Workers, Phases, Done, GivesUp, DatabaseType, ActType, NewStatus, NoAct, NoteOf, Applies,
       Statuses, Actions
  <1>7. ASSUME NEW t \in Topics, NEW kind \in {"text", "tap", "cancel"}, Write(t, kind)
        PROVE  Live' => Live \/ Cleaned
    BY <1>7 DEF Write, Live, Cleaned, Goto, PhaseInv, Workers, Phases, Done, GivesUp,
       DatabaseType, ActType, NewStatus, NoAct, NoteOf, Applies, Statuses, Actions
  <1>8. ASSUME NEW action \in Actions, NEW p \in Projects \cup {NoProject},
               Decide(action, p)
        PROVE  Live' => Live \/ Cleaned
    BY <1>8 DEF Decide, Live, Cleaned, Goto, PhaseInv, Workers, Phases, Done, GivesUp,
       DatabaseType, ActType, NewStatus, NoAct, NoteOf, Applies, Statuses, Actions
  <1>9. ASSUME Crash PROVE Live' => Live \/ Cleaned
    BY <1>9
  <1>10. QED
    BY <1>1, <1>2, <1>3, <1>4, <1>5, <1>6, <1>7, <1>8, <1>9
       DEF Next, Handles, Manages, Outside, Submits

\* What a step does to the held drafts in the note, and to what the person has read of it.
Worded(t) ==
  \/ note'.held[t] \in {NoDraft, note.held[t]}
  \/ pc["person"] \in {"reask", "holdsave"} /\ note'.held[t] = seen.held[t]
  \/ /\ pc["person"] = "holdsave" /\ pc'["person"] = "idle" /\ drafts' = drafts
     /\ note'.held[t] = With(seen.held[t], run["person"].msg)
Looked == pc'["person"] \in {"reask", "holdsave"} =>
            seen' = note \/ (pc["person"] \in {"reask", "holdsave"} /\ seen' = seen)

\* Every step is like that.
LEMMA WordedStep ==
  ASSUME ~Crash, PhaseInv, DraftsType, NEW u \in Topics, Next
  PROVE  Worded(u) /\ Looked
  <1> USE DEF telegram, yougile, database, history, counters, Submitters
  <1>1. ASSUME Take \/ Asked \/ Reask \/ Hold PROVE Worded(u) /\ Looked
    BY <1>1 DEF Take, Asked, Reask, Hold, Worded, Looked, Goto, PhaseInv, Workers, Done,
       GivesUp, NoteOf, NoHeld, DraftsType, Letter, Way
  <1>2. ASSUME HoldSave \/ Intro \/ Greet \/ Request PROVE Worded(u) /\ Looked
    BY <1>2 DEF HoldSave, Intro, Greet, Request, Worded, Looked, Goto, PhaseInv, Workers, Done,
       GivesUp, NoteOf, NoHeld, DraftsType, Letter, Way
  <1>3. ASSUME Requested \/ Post \/ LinkPost \/ Compose PROVE Worded(u) /\ Looked
    BY <1>3 DEF Requested, Post, LinkPost, Compose, Worded, Looked, Goto, PhaseInv, Workers,
       Done, GivesUp, NoteOf, NoHeld, DraftsType, Letter, Way
  <1>4. ASSUME Composed \/ Cancel \/ Cancelled \/ Decided PROVE Worded(u) /\ Looked
    BY <1>4 DEF Composed, Cancel, Cancelled, Decided, Worded, Looked, Goto, PhaseInv, Workers,
       Done, GivesUp, NoteOf, NoHeld, DraftsType, Letter, Way
  <1>5. ASSUME HeldRead \/ Forget \/ Drop \/ Reintro PROVE Worded(u) /\ Looked
    BY <1>5 DEF HeldRead, Forget, Drop, Reintro, Worded, Looked, Goto, PhaseInv, Workers, Done,
       GivesUp, NoteOf, NoHeld, DraftsType, Letter, Way
  <1>6. ASSUME Release \/ HeldCheck \/ HeldSave \/ CliBlock PROVE Worded(u) /\ Looked
    BY <1>6 DEF Release, HeldCheck, HeldSave, CliBlock, Worded, Looked, Goto, PhaseInv, Workers,
       Done, GivesUp, NoteOf, NoHeld, DraftsType, Letter, Way
  <1>7. ASSUME CliDrop PROVE Worded(u) /\ Looked
    BY <1>7 DEF CliDrop, Worded, Looked, Goto, PhaseInv, Workers, Done, GivesUp, NoteOf, NoHeld,
       DraftsType, Letter, Way
  <1>8. ASSUME NEW w \in Submitters, Submit(w) \/ Create(w) \/ AddRow(w) \/ Tie(w)
        PROVE  Worded(u) /\ Looked
    BY <1>8 DEF Submit, Create, AddRow, Tie, Worded, Looked, Goto, PhaseInv, Workers, Done,
       GivesUp, NoteOf, NoHeld, DraftsType, Letter, Way
  <1>9. ASSUME NEW w \in Submitters, LinkParts(w) \/ Clear(w) PROVE Worded(u) /\ Looked
    BY <1>9 DEF LinkParts, Clear, Worded, Looked, Goto, PhaseInv, Workers, Done, GivesUp,
       NoteOf, NoHeld, DraftsType, Letter, Way
  <1>10. ASSUME NEW t \in Topics, NEW kind \in {"text", "tap", "cancel"}, Write(t, kind)
        PROVE  Worded(u) /\ Looked
    BY <1>10 DEF Write, Worded, Looked, Goto, PhaseInv, Workers, Done, GivesUp, NoteOf, NoHeld,
       DraftsType, Letter, Way
  <1>11. ASSUME NEW action \in Actions, NEW p \in Projects \cup {NoProject},
                Decide(action, p)
        PROVE  Worded(u) /\ Looked
    BY <1>11 DEF Decide, Worded, Looked, Goto, PhaseInv, Workers, Done, GivesUp, NoteOf, NoHeld,
       DraftsType, Letter, Way
  <1>12. ASSUME InTopic PROVE Worded(u) /\ Looked
    BY <1>12 DEF InTopic, Worded, Looked, Goto, PhaseInv, Workers
  <1>13. ASSUME Crash PROVE Worded(u) /\ Looked
    BY <1>13
  <1>14. QED
    BY <1>1, <1>2, <1>3, <1>4, <1>5, <1>6, <1>7, <1>8, <1>9, <1>10, <1>11, <1>12, <1>13
       DEF Next, Handles, Manages, Outside, Submits

\* What an approval may still take is in no draft.
LEMMA LiveHolds ==
  ASSUME ~Crash, PhaseInv, TelegramType, DatabaseType, DraftsType, RunType, ActType, CountInv,
         TopicInv, LiveInv, KeyStep, Next
  PROVE  LiveInv'
  <1> USE DEF Submitters
  <1>1. Granted' => sender'.status \in {"approved", "blocked"}
    BY GrantedStep
  <1>2. ASSUME Live', NEW t \in Topics PROVE Spared(t)'
    <2>0. Worded(t) /\ Looked
      BY WordedStep
    <2>1. CASE Cleaned
      <3>1. note'.held[t] = NoDraft /\ NoDraft.key = 0
        BY <2>1 DEF Cleaned, NoHeld, NoDraft
      <3>2. ASSUME pc'["person"] \in {"reask", "holdsave"}, seen'.held[t] # NoDraft
            PROVE  ~ Busy(t, seen.held[t].key)'
        <4>1. PICK k : k = seen'.held[t].key
          OBVIOUS
        <4>2. k # 0
          <5>1. seen'.held[t] \in Proper
            BY <2>0, <3>2, <2>1 DEF Looked, DraftsType, Letter
          <5>2. QED
            BY <3>2, <4>1, <5>1 DEF Proper
        <4>3. drafts'[t].key # k
          BY <2>1, <3>1, <4>2 DEF Cleaned, NoHeld
        <4>4. pc'["person"] \notin Carrying
          BY <3>2 DEF Carrying, Filing
        <4>5. QED
          BY <4>1, <4>3, <4>4 DEF Busy, InHand
      <3>3. QED
        BY <3>1, <3>2 DEF Spared
    <2>2. CASE Live
      <3>1. Spared(t) /\ ~ Resumes(t)
        <4>1. Spared(t)
          BY <2>2 DEF LiveInv
        <4>2. ASSUME pc["manager"] = "heldsave" PROVE FALSE
          <5>1. Granted
            BY <4>2 DEF Granted, Releasing
          <5>2. sender.status \in {"approved", "blocked"}
            BY <5>1 DEF LiveInv
          <5>3. QED
            BY <2>2, <4>2, <5>2 DEF Live
        <4>3. QED
          BY <4>1, <4>2 DEF Resumes
      <3>2. ASSUME NEW k \in Keys, Keeps(t, k), ~ Busy(t, k) PROVE ~ Busy(t, k)'
        BY <3>1, <3>2, NotBusy
      <3>3. note.held[t] \in Proper /\ seen.held[t] \in Proper
        BY DEF DraftsType, Letter
      <3>4. note.held[t] # NoDraft =>
              /\ note.held[t].key \in Keys /\ Keeps(t, note.held[t].key)
              /\ ~ Busy(t, note.held[t].key)
        BY <3>1, <3>3 DEF Proper, Draft, Keeps, Spared
      <3>5. pc["person"] \in {"reask", "holdsave"} /\ seen.held[t] # NoDraft =>
              /\ seen.held[t].key \in Keys /\ Keeps(t, seen.held[t].key)
              /\ ~ Busy(t, seen.held[t].key)
        BY <3>1, <3>3 DEF Proper, Draft, Keeps, Spared
      <3>6. ASSUME note'.held[t] # NoDraft
            PROVE  ~ Busy(t, note.held[t].key)'
        <4>1. PICK k : k = note'.held[t].key
          OBVIOUS
        <4>2. ~ Busy(t, k)'
          <5>1. CASE note'.held[t] = note.held[t]
            BY <3>2, <3>4, <3>6, <4>1, <5>1
          <5>2. CASE pc["person"] \in {"reask", "holdsave"} /\ note'.held[t] = seen.held[t]
            BY <3>2, <3>5, <3>6, <4>1, <5>2
          <5>3. CASE /\ pc["person"] = "holdsave" /\ pc'["person"] = "idle" /\ drafts' = drafts
                     /\ note'.held[t] = With(seen.held[t], run["person"].msg)
            <6>1. CASE seen.held[t] # NoDraft
              <7>1. k = seen.held[t].key
                BY <3>3, <4>1, <5>3, <6>1, KeyOfMore
              <7>2. QED
                BY <3>2, <3>5, <5>3, <6>1, <7>1
            <6>2. CASE seen.held[t] = NoDraft
              <7>1. k = keys + 1
                BY <3>3, <4>1, <5>3, <6>2, KeyOfMore
              <7>2. k \in Keys /\ ~ (k <= keys)
                BY <5>3, <7>1, NextKey DEF Unminted, Strange, CountInv
              <7>3. drafts[t].key # k
                BY <7>2 DEF TopicInv, Keeps
              <7>4. QED
                BY <5>3, <7>3 DEF Busy, InHand, Carrying, Filing
            <6>3. QED
              BY <6>1, <6>2
          <5>4. QED
            BY <2>0, <3>6, <5>1, <5>2, <5>3 DEF Worded
        <4>3. QED
          BY <4>1, <4>2 DEF Busy, InHand
      <3>7. ASSUME pc'["person"] \in {"reask", "holdsave"}, seen'.held[t] # NoDraft
            PROVE  ~ Busy(t, seen.held[t].key)'
        <4>1. PICK k : k = seen'.held[t].key
          OBVIOUS
        <4>2. ~ Busy(t, k)'
          <5>1. CASE seen' = note
            BY <3>2, <3>4, <3>7, <4>1, <5>1
          <5>2. CASE pc["person"] \in {"reask", "holdsave"} /\ seen' = seen
            BY <3>2, <3>5, <3>7, <4>1, <5>2
          <5>3. QED
            BY <2>0, <3>7, <5>1, <5>2 DEF Looked
        <4>3. QED
          BY <4>1, <4>2 DEF Busy, InHand
      <3>8. QED
        BY <3>6, <3>7 DEF Spared
    <2>3. QED
      BY <1>2, <2>1, <2>2, LiveStep
  <1>3. QED
    BY <1>1, <1>2 DEF LiveInv

-----------------------------------------------------------------------------
(* The keys, together *)

\* Nothing has a key at first.
LEMMA InitKeys ==
  ASSUME Init
  PROVE  KeyInv
  <1> USE DEF Submitters
  <1>1. /\ \A t \in Topics : drafts[t] = NoDraft /\ note.held[t] = NoDraft /\ held[t] = NoDraft
                             /\ seen.held[t] = NoDraft
        /\ \A k \in Keys : tasks[k] = NoTask /\ rows[k] = "none" /\ k # 0
        /\ \A w \in Submitters : pc[w] = "idle"
    BY DEF Init, NoHeld, NoteOf, Keys
  <1>2. NoDraft.key = 0 /\ "none" \notin Topics
    BY ConstantsAssumption DEF NoDraft
  <1>3. TopicInv
    BY <1>1, <1>2 DEF TopicInv, Keeps, InHand, Carrying, Filing
  <1>4. FiledInv
    BY <1>1 DEF FiledInv
  <1>5. HandInv
    BY <1>1 DEF HandInv, HandOf, Carrying, Filing, Made
  <1>6. DraftInv
    BY <1>1 DEF DraftInv, DraftOf
  <1>7. HeldInv
    BY <1>1 DEF HeldInv
  <1>8. LiveInv
    BY <1>1 DEF LiveInv, Spared, Granted, Releasing, Sending, Filing
  <1>9. QED
    BY <1>3, <1>4, <1>5, <1>6, <1>7, <1>8 DEF KeyInv

\* With no crash and no lost answer.
LEMMA StepKeys ==
  ASSUME FaultKinds \subseteq {"refused"}, Types, KeyInv, [Next]_vars
  PROVE  KeyInv'
  <1>0. /\ PhaseInv /\ TelegramType /\ YouGileType /\ DatabaseType /\ DraftsType /\ RunType
        /\ ActType /\ LockInv /\ CountInv
        /\ TopicInv /\ FiledInv /\ HandInv /\ DraftInv /\ HeldInv /\ LiveInv
    BY DEF Types, KeyInv
  <1>1. CASE Next
    <2>1. ~ Crash
      BY DEF Crash, Fault
    <2>2. KeyStep
      BY <1>0, <1>1, <2>1, QuietStep
    <2>3. TopicInv'
      BY <1>0, <1>1, <2>2, TopicStep
    <2>4. FiledInv'
      BY <1>0, <2>2, FiledStep
    <2>5. HandInv'
      BY <1>0, <2>2, HandStep
    <2>6. DraftInv'
      BY <1>0, <2>2, DraftsHandled
    <2>7. HeldInv'
      BY <1>0, <2>2, HeldStep
    <2>8. LiveInv'
      BY <1>0, <1>1, <2>1, <2>2, LiveHolds
    <2>9. QED
      BY <2>3, <2>4, <2>5, <2>6, <2>7, <2>8 DEF KeyInv
  <1>2. CASE UNCHANGED vars
    <2>0. /\ tasks' = tasks /\ drafts' = drafts /\ note' = note /\ seen' = seen /\ held' = held
          /\ rows' = rows /\ pc' = pc /\ run' = run /\ keys' = keys /\ sender' = sender /\ act' = act
      BY <1>2 DEF vars
    <2>1. TopicInv'
      BY <1>0, <2>0 DEF TopicInv, Keeps, InHand
    <2>2. FiledInv'
      BY <1>0, <2>0 DEF FiledInv, Tied
    <2>3. HandInv'
      BY <1>0, <2>0 DEF HandInv, HandOf
    <2>4. DraftInv'
      BY <1>0, <2>0 DEF DraftInv, DraftOf
    <2>5. HeldInv'
      BY <1>0, <2>0 DEF HeldInv, Busy, InHand
    <2>6. LiveInv'
      BY <1>0, <2>0 DEF LiveInv, Live, Spared, Granted, Busy, InHand
    <2>7. QED
      BY <2>1, <2>2, <2>3, <2>4, <2>5, <2>6 DEF KeyInv
  <1>3. QED
    BY <1>1, <1>2

-----------------------------------------------------------------------------
(* What reaches YouGile, and what is kept until then *)

\* What is about to be linked was posted.
LinkInv == pc["person"] = "link" => posts[run["person"].msg] > 0

\* Posts are never taken back; what is about to be linked was posted.
LEMMA PostsGrow ==
  ASSUME PhaseInv, TelegramType, YouGileType, RunType, LinkInv, Next
  PROVE  LinkInv' /\ \A m \in Messages : posts[m] > 0 => posts'[m] > 0
  <1> USE DEF telegram, yougile, database, history, counters, Submitters
  <1>1. ASSUME Take \/ Asked \/ Reask \/ Hold \/ HoldSave \/ Intro
        PROVE  LinkInv' /\ \A m \in Messages : posts[m] > 0 => posts'[m] > 0
    BY <1>1 DEF Take, Asked, Reask, Hold, HoldSave, Intro, LinkInv, Goto, PhaseInv, Workers,
       Done, GivesUp, Way, RunType
  <1>2. ASSUME Greet \/ Request \/ Requested \/ InTopic \/ LinkPost \/ Compose
        PROVE  LinkInv' /\ \A m \in Messages : posts[m] > 0 => posts'[m] > 0
    BY <1>2 DEF Greet, Request, Requested, InTopic, LinkPost, Compose, LinkInv, Goto, PhaseInv,
       Workers, Done, GivesUp, Way, RunType
  <1>3. ASSUME Composed \/ Cancel \/ Cancelled \/ Decided \/ HeldRead \/ Forget
        PROVE  LinkInv' /\ \A m \in Messages : posts[m] > 0 => posts'[m] > 0
    BY <1>3 DEF Composed, Cancel, Cancelled, Decided, HeldRead, Forget, LinkInv, Goto, PhaseInv,
       Workers, Done, GivesUp, Way, RunType
  <1>4. ASSUME Drop \/ Reintro \/ HeldCheck \/ HeldSave \/ CliBlock \/ CliDrop
        PROVE  LinkInv' /\ \A m \in Messages : posts[m] > 0 => posts'[m] > 0
    BY <1>4 DEF Drop, Reintro, HeldCheck, HeldSave, CliBlock, CliDrop, LinkInv, Goto, PhaseInv,
       Workers, Done, GivesUp, Way, RunType
  <1>5. ASSUME Crash
        PROVE  LinkInv' /\ \A m \in Messages : posts[m] > 0 => posts'[m] > 0
    BY <1>5 DEF Crash, LinkInv, Goto, PhaseInv, Workers, Done, GivesUp, Way, RunType
  <1>6. ASSUME NEW w \in Submitters, Submit(w) \/ Create(w) \/ AddRow(w) \/ Tie(w)
               \/ Clear(w)
        PROVE  LinkInv' /\ \A m \in Messages : posts[m] > 0 => posts'[m] > 0
    BY <1>6 DEF Submit, Create, AddRow, Tie, Clear, LinkInv, Goto, PhaseInv, Workers, Done,
       GivesUp, Way, RunType
  <1>7. ASSUME NEW t \in Topics, NEW kind \in {"text", "tap", "cancel"}, Write(t, kind)
        PROVE  LinkInv' /\ \A m \in Messages : posts[m] > 0 => posts'[m] > 0
    BY <1>7 DEF Write, LinkInv, Goto, PhaseInv, Workers, Done, GivesUp, Way, RunType
  <1>8. ASSUME NEW action \in Actions, NEW p \in Projects \cup {NoProject},
               Decide(action, p)
        PROVE  LinkInv' /\ \A m \in Messages : posts[m] > 0 => posts'[m] > 0
    BY <1>8 DEF Decide, LinkInv, Goto, PhaseInv, Workers, Done, GivesUp, Way, RunType
  <1>9. ASSUME Post PROVE LinkInv' /\ \A m \in Messages : posts[m] > 0 => posts'[m] > 0
    <2>1. run["person"].msg \in Messages
      BY <1>9, KnownIs DEF Post, RunType
    <2>2. posts' = posts \/ posts' = [posts EXCEPT ![run["person"].msg] = posts[run["person"].msg] + 1]
      BY <1>9 DEF Post
    <2>3. \A m \in Messages : posts[m] > 0 => posts'[m] > 0
      BY <2>1, <2>2 DEF YouGileType
    <2>4. pc'["person"] = "link" =>
            /\ posts' = [posts EXCEPT ![run["person"].msg] = posts[run["person"].msg] + 1]
            /\ run' = run
      BY <1>9 DEF Post, Goto, PhaseInv, Workers
    <2>5. LinkInv'
      BY <2>1, <2>4 DEF LinkInv, YouGileType
    <2>6. QED
      BY <2>3, <2>5
  <1>10. ASSUME NEW w \in Submitters, LinkParts(w)
        PROVE  LinkInv' /\ \A m \in Messages : posts[m] > 0 => posts'[m] > 0
    <2>1. run' = run \/ \E m \in run[w].left : run' = [run EXCEPT ![w].left = run[w].left \ {m}]
      BY <1>10 DEF LinkParts
    <2>2. run'["person"].msg = run["person"].msg
      BY <2>1 DEF RunType, Local
    <2>3. posts' = posts /\ (pc'["person"] = "link" => pc["person"] = "link")
      BY <1>10 DEF LinkParts, Goto, PhaseInv, Workers
    <2>4. QED
      BY <2>2, <2>3 DEF LinkInv
  <1>11. ASSUME Release
        PROVE  LinkInv' /\ \A m \in Messages : posts[m] > 0 => posts'[m] > 0
    <2>1. \/ run' = run \/ \E t \in Topics : run' = [run EXCEPT !["manager"].topic = t]
      BY <1>11 DEF Release
    <2>2. run'["person"] = run["person"]
      BY <2>1 DEF RunType
    <2>3. posts' = posts /\ pc'["person"] = pc["person"]
      BY <1>11 DEF Release, Goto, PhaseInv, Workers
    <2>4. QED
      BY <2>2, <2>3 DEF LinkInv
  <1>12. QED
    BY <1>1, <1>2, <1>3, <1>4, <1>5, <1>6, <1>7, <1>8, <1>9, <1>10, <1>11
       DEF Next, Handles, Manages, Outside, Submits

\* A task keeps its description.
LEMMA BodiesGrow ==
  ASSUME PhaseInv, YouGileType, RunType, ActType, Next, NEW k \in Keys
  PROVE  tasks[k].body \subseteq tasks'[k].body
  <1> USE DEF telegram, yougile, database, history, counters, Submitters
  <1>1. ASSUME Take \/ Asked \/ Reask \/ Hold \/ HoldSave \/ Intro \/ Greet \/ Request
               \/ Requested \/ InTopic
        PROVE  tasks[k].body \subseteq tasks'[k].body
    BY <1>1 DEF Take, Asked, Reask, Hold, HoldSave, Intro, Greet, Request, Requested, InTopic
  <1>2. ASSUME Post \/ LinkPost \/ Compose \/ Composed \/ Cancel \/ Cancelled \/ Decided
               \/ HeldRead \/ Forget \/ Drop
        PROVE  tasks[k].body \subseteq tasks'[k].body
    BY <1>2 DEF Post, LinkPost, Compose, Composed, Cancel, Cancelled, Decided, HeldRead, Forget,
       Drop
  <1>3. ASSUME Reintro \/ Release \/ HeldCheck \/ HeldSave \/ CliBlock \/ CliDrop \/ Crash
        PROVE  tasks[k].body \subseteq tasks'[k].body
    BY <1>3 DEF Reintro, Release, HeldCheck, HeldSave, CliBlock, CliDrop, Crash
  <1>4. ASSUME NEW w \in Submitters, Submit(w) \/ AddRow(w) \/ Tie(w) \/ LinkParts(w)
               \/ Clear(w)
        PROVE  tasks[k].body \subseteq tasks'[k].body
    BY <1>4 DEF Submit, AddRow, Tie, LinkParts, Clear
  <1>5. ASSUME NEW t \in Topics, NEW kind \in {"text", "tap", "cancel"}, Write(t, kind)
        PROVE  tasks[k].body \subseteq tasks'[k].body
    BY <1>5 DEF Write
  <1>6. ASSUME NEW action \in Actions, NEW p \in Projects \cup {NoProject},
               Decide(action, p)
        PROVE  tasks[k].body \subseteq tasks'[k].body
    BY <1>6 DEF Decide
  <1>7. ASSUME NEW w \in Submitters, Create(w)
        PROVE  tasks[k].body \subseteq tasks'[k].body
    <2>1. tasks' = tasks \/ tasks' = Filed(run[w].draft, run[w].project)
      BY <1>7 DEF Create
    <2>2. run[w].draft.key \in Keys
      BY <1>7, Sends DEF Create, Filing
    <2>3. QED
      BY <2>1, <2>2 DEF Filed, NoTask, YouGileType
  <1>8. QED
    BY <1>1, <1>2, <1>3, <1>4, <1>5, <1>6, <1>7
       DEF Next, Handles, Manages, Outside, Submits

\* What has reached YouGile stays there.
LEMMA ReachedStays ==
  ASSUME PhaseInv, TelegramType, YouGileType, RunType, ActType, LinkInv, Next, NEW m \in Messages,
         Reached(m)
  PROVE  Reached(m)'
  <1>1. posts[m] > 0 => posts'[m] > 0
    BY PostsGrow
  <1>2. \A k \in Keys : m \in tasks[k].body => m \in tasks'[k].body
    BY BodiesGrow
  <1>3. QED
    BY <1>1, <1>2 DEF Reached

\* What is in a draft stays there, unless YouGile has it or it is thrown away.
Remains(u) == \A m \in drafts[u].parts : m \in drafts'[u].parts \/ m \in dropped' \/ Reached(m)'
\* What is kept newly is in a draft.
KeptAre == \A m \in kept' : m \in kept \/ \E t \in Topics : m \in drafts'[t].parts

\* Every step but a crash is like that.
LEMMA RemainsStep ==
  ASSUME ~Crash, PhaseInv, YouGileType, DraftsType, RunType, HandInv, NEW u \in Topics, Next
  PROVE  Remains(u) /\ KeptAre /\ dropped \subseteq dropped'
  <1> USE DEF telegram, yougile, database, history, counters, Submitters
  <1>1. ASSUME Take \/ Asked \/ Reask \/ Hold \/ HoldSave \/ Intro
        PROVE  Remains(u) /\ KeptAre /\ dropped \subseteq dropped'
    BY <1>1 DEF Take, Asked, Reask, Hold, HoldSave, Intro, Remains, KeptAre
  <1>2. ASSUME Greet \/ Request \/ Requested \/ InTopic \/ Post \/ LinkPost
        PROVE  Remains(u) /\ KeptAre /\ dropped \subseteq dropped'
    BY <1>2 DEF Greet, Request, Requested, InTopic, Post, LinkPost, Remains, KeptAre
  <1>3. ASSUME Compose \/ Cancel \/ Decided \/ HeldRead \/ Forget \/ Reintro
        PROVE  Remains(u) /\ KeptAre /\ dropped \subseteq dropped'
    BY <1>3 DEF Compose, Cancel, Decided, HeldRead, Forget, Reintro, Remains, KeptAre
  <1>4. ASSUME Release \/ HeldCheck \/ CliBlock
        PROVE  Remains(u) /\ KeptAre /\ dropped \subseteq dropped'
    BY <1>4 DEF Release, HeldCheck, CliBlock, Remains, KeptAre
  <1>5. ASSUME NEW w \in Submitters, Submit(w) \/ Create(w) \/ AddRow(w) \/ Tie(w)
               \/ LinkParts(w)
        PROVE  Remains(u) /\ KeptAre /\ dropped \subseteq dropped'
    BY <1>5 DEF Submit, Create, AddRow, Tie, LinkParts, Remains, KeptAre
  <1>6. ASSUME NEW t \in Topics, NEW kind \in {"text", "tap", "cancel"}, Write(t, kind)
        PROVE  Remains(u) /\ KeptAre /\ dropped \subseteq dropped'
    BY <1>6 DEF Write, Remains, KeptAre
  <1>7. ASSUME NEW action \in Actions, NEW p \in Projects \cup {NoProject},
               Decide(action, p)
        PROVE  Remains(u) /\ KeptAre /\ dropped \subseteq dropped'
    BY <1>7 DEF Decide, Remains, KeptAre
  <1>8. ASSUME Composed PROVE Remains(u) /\ KeptAre /\ dropped \subseteq dropped'
    <2> DEFINE r == run["person"]
    <2>1. r.topic \in Topics /\ pc["person"] = "composed" /\ HandOf("person")
      BY <1>8, LocalIs DEF Composed, HandInv
    <2>2. /\ drafts' = [drafts EXCEPT ![r.topic] = With(r.draft, r.msg)] /\ kept' = kept \cup {r.msg}
          /\ dropped' = dropped
      BY <1>8 DEF Composed
    <2>3. drafts[r.topic] \in {NoDraft, r.draft}
      BY <2>1 DEF HandOf, Carrying
    <2>4. With(r.draft, r.msg).parts = r.draft.parts \cup {r.msg} /\ NoDraft.parts = {}
      BY DEF With, NoDraft
    <2>5. drafts'[r.topic] = With(r.draft, r.msg) /\ (u # r.topic => drafts'[u] = drafts[u])
      BY <2>1, <2>2 DEF DraftsType
    <2>6. Remains(u)
      BY <2>3, <2>4, <2>5 DEF Remains
    <2>7. KeptAre
      BY <2>1, <2>2, <2>4, <2>5 DEF KeptAre
    <2>8. QED
      BY <2>2, <2>6, <2>7
  <1>9. ASSUME Cancelled PROVE Remains(u) /\ KeptAre /\ dropped \subseteq dropped'
    <2>1. run["person"].topic \in Topics
      BY LocalIs
    <2>2. /\ drafts' = [drafts EXCEPT ![run["person"].topic] = NoDraft] /\ kept' = kept
          /\ dropped' = dropped \cup drafts[run["person"].topic].parts
      BY <1>9 DEF Cancelled
    <2>3. QED
      BY <2>1, <2>2 DEF Remains, KeptAre, DraftsType
  <1>10. ASSUME NEW w \in Submitters, Clear(w)
        PROVE  Remains(u) /\ KeptAre /\ dropped \subseteq dropped'
    <2> DEFINE v == run[w].topic
               k == run[w].draft.key
    <2>1. v \in Topics /\ pc[w] = "clear" /\ HandOf(w)
      BY <1>10, LocalIs DEF Clear, HandInv
    <2>2. drafts' = [drafts EXCEPT ![v] = NoDraft] /\ kept' = kept /\ dropped' = dropped /\ tasks' = tasks
      BY <1>10 DEF Clear
    <2>3. tasks[k] # NoTask /\ run[w].draft.parts \subseteq tasks[k].body
      BY <2>1 DEF HandOf, Made
    <2>4. drafts[v] \in {NoDraft, run[w].draft} /\ NoDraft.parts = {}
      BY <2>1 DEF HandOf, Carrying, Filing, NoDraft
    <2>5. k \in Keys
      <3>1. k # 0
        BY <2>1 DEF RunType, Filing
      <3>2. QED
        BY <3>1, LocalIs
    <2>6. \A m \in drafts[v].parts : Reached(m)'
      BY <2>2, <2>3, <2>4, <2>5 DEF Reached
    <2>7. u # v => drafts'[u] = drafts[u]
      BY <2>2 DEF DraftsType
    <2>8. Remains(u)
      BY <2>6, <2>7 DEF Remains
    <2>9. QED
      BY <2>2, <2>8 DEF KeptAre
  <1>11. ASSUME Drop PROVE Remains(u) /\ KeptAre /\ dropped \subseteq dropped'
    <2>1. \A m \in drafts[u].parts : m \in dropped'
      BY <1>11 DEF Drop, Thrown
    <2>2. kept' = kept
      BY <1>11 DEF Drop
    <2>3. dropped \subseteq dropped'
      BY <1>11 DEF Drop
    <2>4. QED
      BY <2>1, <2>2, <2>3 DEF Remains, KeptAre
  <1>12. ASSUME HeldSave PROVE Remains(u) /\ KeptAre /\ dropped \subseteq dropped'
    <2> DEFINE v == run["manager"].topic
    <2>1. v \in Topics /\ pc["manager"] = "heldsave" /\ HandOf("manager")
      BY <1>12, LocalIs DEF HeldSave, HandInv
    <2>2. /\ drafts' = [drafts EXCEPT ![v] = held[v]] /\ kept' = kept \cup held[v].parts
          /\ dropped' = dropped
      BY <1>12 DEF HeldSave
    <2>3. drafts[v] = NoDraft /\ NoDraft.parts = {}
      BY <2>1 DEF HandOf, NoDraft
    <2>4. drafts'[v] = held[v] /\ (u # v => drafts'[u] = drafts[u])
      BY <2>1, <2>2 DEF DraftsType
    <2>5. Remains(u)
      BY <2>3, <2>4 DEF Remains
    <2>6. KeptAre
      BY <2>1, <2>2, <2>4 DEF KeptAre
    <2>7. QED
      BY <2>2, <2>5, <2>6
  <1>13. ASSUME CliDrop PROVE Remains(u) /\ KeptAre /\ dropped \subseteq dropped'
    <2>1. \A m \in drafts[u].parts : m \in dropped'
      BY <1>13 DEF CliDrop, Thrown
    <2>2. kept' = kept
      BY <1>13 DEF CliDrop
    <2>3. dropped \subseteq dropped'
      BY <1>13 DEF CliDrop
    <2>4. QED
      BY <2>1, <2>2, <2>3 DEF Remains, KeptAre
  <1>14. ASSUME Crash PROVE Remains(u) /\ KeptAre /\ dropped \subseteq dropped'
    BY <1>14
  <1>15. QED
    BY <1>1, <1>2, <1>3, <1>4, <1>5, <1>6, <1>7, <1>8, <1>9, <1>10, <1>11, <1>12, <1>13, <1>14
       DEF Next, Handles, Manages, Outside, Submits

\* What is linked newly was posted, or is in the description of the task.
Linking == \A m \in Messages, k \in Keys : <<m, k>> \in links' => <<m, k>> \in links \/ Reached(m)

\* Every step is like that.
LEMMA LinkingStep ==
  ASSUME PhaseInv, TelegramType, YouGileType, DatabaseType, RunType, LinkInv, HandInv, Next
  PROVE  Linking
  <1> USE DEF telegram, yougile, database, history, counters, Submitters
  <1>1. ASSUME Take \/ Asked \/ Reask \/ Hold \/ HoldSave \/ Intro \/ Greet \/ Request
               \/ Requested \/ InTopic
        PROVE  Linking
    BY <1>1 DEF Take, Asked, Reask, Hold, HoldSave, Intro, Greet, Request, Requested, InTopic,
       Linking
  <1>2. ASSUME Post \/ Compose \/ Composed \/ Cancel \/ Cancelled \/ Decided \/ HeldRead
               \/ Forget \/ Drop \/ Reintro
        PROVE  Linking
    BY <1>2 DEF Post, Compose, Composed, Cancel, Cancelled, Decided, HeldRead, Forget, Drop,
       Reintro, Linking
  <1>3. ASSUME Release \/ HeldCheck \/ HeldSave \/ CliBlock \/ CliDrop \/ Crash
        PROVE  Linking
    BY <1>3 DEF Release, HeldCheck, HeldSave, CliBlock, CliDrop, Crash, Linking
  <1>4. ASSUME NEW w \in Submitters, Submit(w) \/ Create(w) \/ AddRow(w) \/ Tie(w)
               \/ Clear(w)
        PROVE  Linking
    BY <1>4 DEF Submit, Create, AddRow, Tie, Clear, Linking
  <1>5. ASSUME NEW t \in Topics, NEW kind \in {"text", "tap", "cancel"}, Write(t, kind)
        PROVE  Linking
    BY <1>5 DEF Write, Linking
  <1>6. ASSUME NEW action \in Actions, NEW p \in Projects \cup {NoProject},
               Decide(action, p)
        PROVE  Linking
    BY <1>6 DEF Decide, Linking
  <1>7. ASSUME LinkPost PROVE Linking
    <2>1. posts[run["person"].msg] > 0
      BY <1>7 DEF LinkPost, LinkInv
    <2>2. links' \in {links, links \cup {<<run["person"].msg, run["person"].draft.key>>}}
      BY <1>7 DEF LinkPost, Linked
    <2>3. QED
      BY <2>1, <2>2 DEF Linking, Reached
  <1>8. ASSUME NEW w \in Submitters, LinkParts(w) PROVE Linking
    <2>1. pc[w] = "linkparts" /\ HandOf(w)
      BY <1>8 DEF LinkParts, HandInv
    <2>2. run[w].left \subseteq tasks[run[w].draft.key].body
      BY <2>1 DEF HandOf, Made
    <2>3. run[w].draft.key \in Keys
      <3>1. run[w].draft.key # 0
        BY <2>1 DEF RunType, Filing
      <3>2. QED
        BY <3>1, LocalIs
    <2>4. \A m \in run[w].left : Reached(m)
      BY <2>2, <2>3 DEF Reached
    <2>5. links' = links \/ \E m \in run[w].left : links' = links \cup {<<m, run[w].draft.key>>}
      BY <1>8 DEF LinkParts, Linked
    <2>6. QED
      BY <2>4, <2>5 DEF Linking
  <1>9. QED
    BY <1>1, <1>2, <1>3, <1>4, <1>5, <1>6, <1>7, <1>8
       DEF Next, Handles, Manages, Outside, Submits

-----------------------------------------------------------------------------
(* The theorems *)

LossInv == KeyInv /\ LinkInv /\ NothingKeptIsLost /\ LinkedHasReached

\* At first nothing is kept or linked.
LEMMA InitLoss ==
  ASSUME Init
  PROVE  LossInv
  <1>1. KeyInv
    BY InitKeys
  <1>2. LinkInv
    BY DEF Init, LinkInv
  <1>3. NothingKeptIsLost /\ LinkedHasReached
    BY DEF Init, NothingKeptIsLost, LinkedHasReached
  <1>4. QED
    BY <1>1, <1>2, <1>3 DEF LossInv

\* Nothing is lost by a step, with no crash and no lost answer.
LEMMA StepLoss ==
  ASSUME FaultKinds \subseteq {"refused"}, Types, LossInv, [Next]_vars
  PROVE  LossInv'
  <1>0. /\ PhaseInv /\ TelegramType /\ YouGileType /\ DatabaseType /\ DraftsType /\ RunType
        /\ ActType /\ LockInv /\ CountInv /\ HistoryType
        /\ KeyInv /\ HandInv /\ LinkInv /\ NothingKeptIsLost /\ LinkedHasReached
    BY DEF Types, LossInv, KeyInv
  <1>1. KeyInv'
    BY <1>0, StepKeys
  <1>2. CASE Next
    <2>1. ~ Crash
      BY DEF Crash, Fault
    <2>2. LinkInv'
      BY <1>0, <1>2, PostsGrow
    <2>3. \A m \in Messages : Reached(m) => Reached(m)'
      BY <1>0, <1>2, ReachedStays
    <2>4. \A t \in Topics : Remains(t) /\ KeptAre /\ dropped \subseteq dropped'
      BY <1>0, <1>2, <2>1, RemainsStep
    <2>5. KeptAre /\ dropped \subseteq dropped'
      BY <2>4, Parameters
    <2>6. ASSUME NEW m \in kept'
          PROVE  Reached(m)' \/ m \in dropped' \/ \E t \in Topics : m \in drafts'[t].parts
      <3>1. CASE m \in kept /\ Reached(m)
        BY <1>0, <2>3, <3>1 DEF HistoryType
      <3>2. CASE m \in kept /\ m \in dropped
        BY <2>5, <3>2
      <3>3. ASSUME m \in kept, NEW t \in Topics, m \in drafts[t].parts
            PROVE  Reached(m)' \/ m \in dropped' \/ m \in drafts'[t].parts
        BY <2>4, <3>3 DEF Remains
      <3>4. CASE m \in kept
        BY <1>0, <3>1, <3>2, <3>3, <3>4 DEF NothingKeptIsLost
      <3>5. QED
        BY <2>5, <2>6, <3>4 DEF KeptAre
    <2>7. NothingKeptIsLost'
      BY <2>6 DEF NothingKeptIsLost
    <2>8. Linking
      BY <1>0, <1>2, LinkingStep
    <2>9. LinkedHasReached'
      BY <1>0, <2>3, <2>8 DEF LinkedHasReached, Linking
    <2>10. QED
      BY <1>1, <2>2, <2>7, <2>9 DEF LossInv
  <1>3. CASE UNCHANGED vars
    <2>1. /\ pc' = pc /\ posts' = posts /\ run' = run /\ tasks' = tasks /\ kept' = kept
          /\ dropped' = dropped /\ drafts' = drafts /\ links' = links
      BY <1>3 DEF vars
    <2>2. LinkInv' /\ NothingKeptIsLost' /\ LinkedHasReached'
      BY <1>0, <2>1 DEF LinkInv, NothingKeptIsLost, LinkedHasReached, Reached
    <2>3. QED
      BY <1>1, <2>2 DEF LossInv
  <1>4. QED
    BY <1>2, <1>3

\* The invariant of what is kept and linked.
LEMMA LossAlways ==
  ASSUME FaultKinds \subseteq {"refused"}
  PROVE  Spec => [](Types /\ LossInv)
  <1>1. Init => Types /\ LossInv
    BY InitTypes, InitLoss
  <1>2. Types /\ LossInv /\ [Next]_vars => (Types /\ LossInv)'
    BY StepTypes, StepLoss
  <1>3. QED
    BY <1>1, <1>2, PTL DEF Spec

\* What was saved as a draft stays in it until YouGile has it or somebody threw it away, as long
\* as the bot is not killed and no answer of YouGile is lost (a refused request loses nothing).
THEOREM KeptUntilSent ==
  ASSUME FaultKinds \subseteq {"refused"}
  PROVE  Spec => []NothingKeptIsLost
  <1>1. LossInv => NothingKeptIsLost
    BY DEF LossInv
  <1>2. QED
    BY <1>1, LossAlways, PTL

\* What counts as delivered was posted or is in the description of a task, under the same faults.
THEOREM LinkedIsThere ==
  ASSUME FaultKinds \subseteq {"refused"}
  PROVE  Spec => []LinkedHasReached
  <1>1. LossInv => LinkedHasReached
    BY DEF LossInv
  <1>2. QED
    BY <1>1, LossAlways, PTL

-----------------------------------------------------------------------------
(* Where a task is made *)

\* The project of what is written now; what no decision has come after.
AsWriter == IF sender.status = "approved" THEN sender.project ELSE NoProject
Fresh(m) == written[m].decisions >= decisions
\* What the person's update may put into a task.
ToFile(m) == \/ m = run["person"].msg \/ m \in run["person"].draft.parts
             \/ \E t \in Topics : m \in drafts[t].parts

\* What no decision has come after was written for the project the person has, and no decision is
\* being carried out; what a sender's update may file of it is of the project it is handled for.
PlaceInv ==
  /\ \A m \in Known : written[m].decisions <= decisions
  /\ \A m \in Known : Fresh(m) =>
        pc["manager"] \in {"idle", "decided"} /\ written[m].project = AsWriter
  /\ pc["person"] \in Past =>
       \A m \in Known : Fresh(m) /\ ToFile(m) => written[m].project = run["person"].project

\* A message in a draft was written.
LEMMA WrittenOnly ==
  ASSUME RunType, DraftsType, CopiesInv, NEW m \in Messages
  PROVE  /\ \A t \in Topics : m \in drafts[t].parts => m \in Known
         /\ \A w \in Submitters : m \in run[w].draft.parts => m \in Known
  <1>1. ASSUME NEW d \in Proper, m \in d.parts PROVE d.key \in Keys
    BY <1>1 DEF Proper, Draft, NoDraft
  <1>2. m \notin Known => \A k \in Keys : ~ At(m, k)
    BY DEF CopiesInv, KeysOf
  <1>3. ASSUME NEW t \in Topics, m \in drafts[t].parts PROVE m \in Known
    BY <1>1, <1>2, <1>3 DEF DraftsType, At, Held
  <1>4. ASSUME NEW w \in Submitters, m \in run[w].draft.parts PROVE m \in Known
    BY <1>1, <1>2, <1>4, LocalIs DEF At, Held
  <1>5. QED
    BY <1>3, <1>4

\* A decision, and nothing else, changes the project of what is written.
Judged ==
  \/ decisions' = decisions + 1
  \/ /\ decisions' = decisions /\ AsWriter' = AsWriter
     /\ pc["manager"] \in {"idle", "decided"} => pc'["manager"] \in {"idle", "decided"}

\* Every step is like that.
LEMMA JudgedStep ==
  ASSUME PhaseInv, DatabaseType, Next
  PROVE  Judged
  <1> USE DEF telegram, yougile, database, history, counters, Submitters
  <1>1. ASSUME Take \/ Asked \/ Reask \/ Hold \/ HoldSave \/ Intro PROVE Judged
    BY <1>1 DEF Take, Asked, Reask, Hold, HoldSave, Intro, Judged, AsWriter, Goto, PhaseInv,
       Workers, Done, GivesUp, DatabaseType
  <1>2. ASSUME Greet \/ Request \/ Requested \/ InTopic \/ Post \/ LinkPost
        PROVE  Judged
    BY <1>2 DEF Greet, Request, Requested, InTopic, Post, LinkPost, Judged, AsWriter, Goto,
       PhaseInv, Workers, Done, GivesUp, DatabaseType
  <1>3. ASSUME Compose \/ Composed \/ Cancel \/ Cancelled \/ Decided \/ HeldRead
        PROVE  Judged
    BY <1>3 DEF Compose, Composed, Cancel, Cancelled, Decided, HeldRead, Judged, AsWriter, Goto,
       PhaseInv, Workers, Done, GivesUp, DatabaseType
  <1>4. ASSUME Forget \/ Drop \/ Reintro \/ Release \/ HeldCheck \/ HeldSave
        PROVE  Judged
    BY <1>4 DEF Forget, Drop, Reintro, Release, HeldCheck, HeldSave, Judged, AsWriter, Goto,
       PhaseInv, Workers, Done, GivesUp, DatabaseType
  <1>5. ASSUME CliBlock \/ CliDrop \/ Crash PROVE Judged
    BY <1>5 DEF CliBlock, CliDrop, Crash, Judged, AsWriter, Goto, PhaseInv, Workers, Done,
       GivesUp, DatabaseType
  <1>6. ASSUME NEW w \in Submitters, Submit(w) \/ Create(w) \/ AddRow(w) \/ Tie(w)
               \/ LinkParts(w) \/ Clear(w)
        PROVE  Judged
    BY <1>6 DEF Submit, Create, AddRow, Tie, LinkParts, Clear, Judged, AsWriter, Goto, PhaseInv,
       Workers, Done, GivesUp, DatabaseType
  <1>7. ASSUME NEW t \in Topics, NEW kind \in {"text", "tap", "cancel"}, Write(t, kind)
        PROVE  Judged
    BY <1>7 DEF Write, Judged, AsWriter, Goto, PhaseInv, Workers, Done, GivesUp, DatabaseType
  <1>8. ASSUME NEW action \in Actions, NEW p \in Projects \cup {NoProject},
               Decide(action, p)
        PROVE  Judged
    BY <1>8 DEF Decide, Judged, AsWriter, Goto, PhaseInv, Workers, Done, GivesUp, DatabaseType
  <1>9. QED
    BY <1>1, <1>2, <1>3, <1>4, <1>5, <1>6, <1>7, <1>8
       DEF Next, Handles, Manages, Outside, Submits

\* What is written is put at the end.
Written ==
  \/ written' = written
  \/ /\ pc' = pc /\ run' = run /\ drafts' = drafts /\ decisions' = decisions /\ AsWriter' = AsWriter
     /\ \E u : /\ written' = Append(written, u)
               /\ u.decisions = Settled /\ u.project = AsWriter

\* Every step is like that.
LEMMA WrittenStep ==
  ASSUME PhaseInv, Next
  PROVE  Written
  <1> USE DEF telegram, yougile, database, history, counters, Submitters
  <1>1. ASSUME Take \/ Asked \/ Reask \/ Hold \/ HoldSave \/ Intro \/ Greet \/ Request
               \/ Requested \/ InTopic
        PROVE  Written
    BY <1>1 DEF Take, Asked, Reask, Hold, HoldSave, Intro, Greet, Request, Requested, InTopic,
       Written
  <1>2. ASSUME Post \/ LinkPost \/ Compose \/ Composed \/ Cancel \/ Cancelled \/ Decided
               \/ HeldRead \/ Forget \/ Drop
        PROVE  Written
    BY <1>2 DEF Post, LinkPost, Compose, Composed, Cancel, Cancelled, Decided, HeldRead, Forget,
       Drop, Written
  <1>3. ASSUME Reintro \/ Release \/ HeldCheck \/ HeldSave \/ CliBlock \/ CliDrop \/ Crash
        PROVE  Written
    BY <1>3 DEF Reintro, Release, HeldCheck, HeldSave, CliBlock, CliDrop, Crash, Written
  <1>4. ASSUME NEW w \in Submitters, Submit(w) \/ Create(w) \/ AddRow(w) \/ Tie(w)
               \/ LinkParts(w) \/ Clear(w)
        PROVE  Written
    BY <1>4 DEF Submit, Create, AddRow, Tie, LinkParts, Clear, Written
  <1>5. ASSUME NEW action \in Actions, NEW p \in Projects \cup {NoProject},
               Decide(action, p)
        PROVE  Written
    BY <1>5 DEF Decide, Written
  <1>6. ASSUME NEW t \in Topics, NEW kind \in {"text", "tap", "cancel"}, Write(t, kind)
        PROVE  Written
    <2> DEFINE u == [topic |-> t, kind |-> kind, decisions |-> Settled, approvals |-> approvals,
                     project |-> AsWriter]
    <2>1. /\ written' = Append(written, u) /\ pc' = pc /\ run' = run /\ drafts' = drafts
          /\ decisions' = decisions /\ sender' = sender
      BY <1>6 DEF Write, AsWriter
    <2>2. AsWriter' = AsWriter /\ u.decisions = Settled /\ u.project = AsWriter
      BY <2>1 DEF AsWriter
    <2> HIDE DEF u
    <2>3. QED
      BY <2>1, <2>2 DEF Written
  <1>7. QED
    BY <1>1, <1>2, <1>3, <1>4, <1>5, <1>6
       DEF Next, Handles, Manages, Outside, Submits

\* A sender's update is handled for one project; what it may file is its message, and what was in
\* the drafts, or what an approval releases.
Handled ==
  pc'["person"] \in Past =>
    \/ sender.status = "approved" /\ run'["person"].project = sender.project /\ sender' = sender
       /\ decisions' = decisions
    \/ /\ pc["person"] \in Past /\ run'["person"].project = run["person"].project
       /\ \A m : ToFile(m)' => ToFile(m) \/ pc["manager"] \notin {"idle", "decided"}

\* Every step is like that.
LEMMA HandledStep ==
  ASSUME PhaseInv, DraftsType, RunType, Next
  PROVE  Handled
  <1> USE DEF telegram, yougile, database, history, counters, Submitters
  <1>1. ASSUME Asked \/ Reask \/ Hold \/ HoldSave \/ Intro \/ Greet PROVE Handled
    BY <1>1 DEF Asked, Reask, Hold, HoldSave, Intro, Greet, Handled, ToFile, Goto, PhaseInv,
       Workers, Done, GivesUp, Past, Sending, Filing, RunType, DraftsType
  <1>2. ASSUME Request \/ Requested \/ Post \/ LinkPost \/ Cancel \/ HeldRead
        PROVE  Handled
    BY <1>2 DEF Request, Requested, Post, LinkPost, Cancel, HeldRead, Handled, ToFile, Goto,
       PhaseInv, Workers, Done, GivesUp, Past, Sending, Filing, RunType, DraftsType
  <1>3. ASSUME Forget \/ Reintro \/ HeldCheck \/ CliBlock \/ Crash PROVE Handled
    BY <1>3 DEF Forget, Reintro, HeldCheck, CliBlock, Crash, Handled, ToFile, Goto, PhaseInv,
       Workers, Done, GivesUp, Past, Sending, Filing, RunType, DraftsType
  <1>4. ASSUME NEW w \in Submitters, Create(w) \/ AddRow(w) PROVE Handled
    BY <1>4 DEF Create, AddRow, Handled, ToFile, Goto, PhaseInv, Workers, Done, GivesUp, Past,
       Sending, Filing, RunType, DraftsType
  <1>5. ASSUME NEW t \in Topics, NEW kind \in {"text", "tap", "cancel"}, Write(t, kind)
        PROVE  Handled
    BY <1>5 DEF Write, Handled, ToFile, Goto, PhaseInv, Workers, Done, GivesUp, Past, Sending,
       Filing, RunType, DraftsType
  <1>6. ASSUME NEW action \in Actions, NEW p \in Projects \cup {NoProject},
               Decide(action, p)
        PROVE  Handled
    BY <1>6 DEF Decide, Handled, ToFile, Goto, PhaseInv, Workers, Done, GivesUp, Past, Sending,
       Filing, RunType, DraftsType
  <1>7. ASSUME Take PROVE Handled
    <2>1. sender' = sender /\ decisions' = decisions
      BY <1>7 DEF Take
    <2>2. pc'["person"] \in Past => sender.status = "approved"
      BY <1>7 DEF Take, Goto, PhaseInv, Workers, Past, Sending, Filing, Way
    <2>3. pc'["person"] \in Past => run'["person"].project = sender.project
      BY <1>7 DEF Take, Goto, PhaseInv, Workers, Past, Sending, Filing, RunType, BoundTo,
         NoLocals
    <2>4. QED
      BY <2>1, <2>2, <2>3 DEF Handled
  <1>8. ASSUME InTopic PROVE Handled
    <2>1. run' = run \/ \E k : run' = [run EXCEPT !["person"].draft = [key |-> k, parts |-> {}]]
      BY <1>8 DEF InTopic
    <2>2. drafts' = drafts /\ pc["person"] \in Past
      BY <1>8 DEF InTopic, Past
    <2>3. /\ run'["person"].msg = run["person"].msg /\ run'["person"].project = run["person"].project
          /\ run'["person"].draft = run["person"].draft \/ run'["person"].draft.parts = {}
      BY <2>1 DEF RunType, Local
    <2>4. \A m : ToFile(m)' => ToFile(m)
      BY <2>2, <2>3 DEF ToFile
    <2>5. QED
      BY <2>2, <2>3, <2>4 DEF Handled
  <1>9. ASSUME Compose PROVE Handled
    <2>1. /\ run' = run \/ \E d : /\ run' = [run EXCEPT !["person"].draft = d]
                                  /\ d.parts = {} \/ \E t \in Topics : d = drafts[t]
          /\ drafts' = drafts /\ pc["person"] \in Past
      BY <1>9, LocalIs DEF Compose, Past
    <2>2. /\ run'["person"].msg = run["person"].msg /\ run'["person"].project = run["person"].project
          /\ \/ run'["person"].draft = run["person"].draft \/ run'["person"].draft.parts = {}
             \/ \E t \in Topics : run'["person"].draft = drafts[t]
      BY <2>1 DEF RunType, Local
    <2>3. \A m : ToFile(m)' => ToFile(m)
      BY <2>1, <2>2 DEF ToFile
    <2>4. QED
      BY <2>1, <2>2, <2>3 DEF Handled
  <1>10. ASSUME Composed PROVE Handled
    <2> DEFINE r == run["person"]
    <2>1. /\ pc["person"] = "composed" /\ run' = run
          /\ drafts' = [drafts EXCEPT ![r.topic] = With(r.draft, r.msg)]
      BY <1>10 DEF Composed
    <2>2. With(r.draft, r.msg).parts = r.draft.parts \cup {r.msg}
      BY DEF With
    <2>3. \A t \in Topics : drafts'[t] = drafts[t] \/ drafts'[t] = With(r.draft, r.msg)
      BY <2>1 DEF DraftsType
    <2>4. \A m : ToFile(m)' => ToFile(m)
      BY <2>1, <2>2, <2>3 DEF ToFile
    <2>5. QED
      BY <2>1, <2>4 DEF Handled, Past
  <1>11. ASSUME Cancelled PROVE Handled
    <2>1. /\ run' = run /\ (pc'["person"] \in Past => pc["person"] \in Past)
      BY <1>11 DEF Cancelled, Goto, PhaseInv, Workers, Past
    <2>2. \A t \in Topics : drafts'[t] = drafts[t] \/ drafts'[t] = NoDraft
      BY <1>11 DEF Cancelled, NoHeld, DraftsType
    <2>3. NoDraft.parts = {}
      BY DEF NoDraft
    <2>4. \A m : ToFile(m)' => ToFile(m)
      BY <2>1, <2>2, <2>3 DEF ToFile
    <2>5. QED
      BY <2>1, <2>4 DEF Handled
  <1>12. ASSUME NEW w \in Submitters, Submit(w) PROVE Handled
    <2>1. run' = run \/ run' = [run EXCEPT ![w].draft = drafts[run[w].topic]]
      BY <1>12 DEF Submit
    <2>2. run[w].topic \in Topics /\ NoDraft.parts = {}
      BY LocalIs DEF NoDraft
    <2>3. /\ run'["person"].msg = run["person"].msg /\ run'["person"].project = run["person"].project
          /\ \/ run'["person"].draft = run["person"].draft \/ run'["person"].draft.parts = {}
             \/ \E t \in Topics : run'["person"].draft = drafts[t]
      BY <2>1, <2>2 DEF RunType, Local
    <2>4. \A t \in Topics : drafts'[t] = drafts[t] \/ drafts'[t] = NoDraft
      BY <1>12 DEF Submit, DraftsType
    <2>5. pc'["person"] \in Past => pc["person"] \in Past
      BY <1>12 DEF Submit, Done, Goto, PhaseInv, Workers, Past, Sending, Filing
    <2>6. \A m : ToFile(m)' => ToFile(m)
      BY <2>2, <2>3, <2>4 DEF ToFile
    <2>7. QED
      BY <2>3, <2>5, <2>6 DEF Handled
  <1>13. ASSUME NEW w \in Submitters, Tie(w) PROVE Handled
    <2>1. run' = [run EXCEPT ![w].left = run[w].draft.parts]
      BY <1>13 DEF Tie
    <2>2. run[w].topic \in Topics /\ NoDraft.parts = {}
      BY LocalIs DEF NoDraft
    <2>3. /\ run'["person"].msg = run["person"].msg /\ run'["person"].project = run["person"].project
          /\ \/ run'["person"].draft = run["person"].draft \/ run'["person"].draft.parts = {}
             \/ \E t \in Topics : run'["person"].draft = drafts[t]
      BY <2>1, <2>2 DEF RunType, Local
    <2>4. \A t \in Topics : drafts'[t] = drafts[t] \/ drafts'[t] = NoDraft
      BY <1>13 DEF Tie, DraftsType
    <2>5. pc'["person"] \in Past => pc["person"] \in Past
      BY <1>13 DEF Tie, Done, Goto, PhaseInv, Workers, Past, Sending, Filing
    <2>6. \A m : ToFile(m)' => ToFile(m)
      BY <2>2, <2>3, <2>4 DEF ToFile
    <2>7. QED
      BY <2>3, <2>5, <2>6 DEF Handled
  <1>14. ASSUME NEW w \in Submitters, LinkParts(w) PROVE Handled
    <2>1. run' = run \/ \E m \in run[w].left : run' = [run EXCEPT ![w].left = run[w].left \ {m}]
      BY <1>14 DEF LinkParts
    <2>2. /\ run'["person"].msg = run["person"].msg /\ run'["person"].project = run["person"].project
          /\ run'["person"].draft = run["person"].draft
      BY <2>1 DEF RunType, Local
    <2>3. drafts' = drafts /\ (pc'["person"] \in Past => pc["person"] \in Past)
      BY <1>14 DEF LinkParts, Goto, PhaseInv, Workers, Past, Sending, Filing
    <2>4. QED
      BY <2>2, <2>3 DEF Handled, ToFile
  <1>15. ASSUME NEW w \in Submitters, Clear(w) PROVE Handled
    <2>1. run' = [run EXCEPT ![w].draft = NoDraft]
      BY <1>15 DEF Clear
    <2>2. run[w].topic \in Topics /\ NoDraft.parts = {}
      BY LocalIs DEF NoDraft
    <2>3. /\ run'["person"].msg = run["person"].msg /\ run'["person"].project = run["person"].project
          /\ \/ run'["person"].draft = run["person"].draft \/ run'["person"].draft.parts = {}
             \/ \E t \in Topics : run'["person"].draft = drafts[t]
      BY <2>1, <2>2 DEF RunType, Local
    <2>4. \A t \in Topics : drafts'[t] = drafts[t] \/ drafts'[t] = NoDraft
      BY <1>15 DEF Clear, DraftsType
    <2>5. pc'["person"] \in Past => pc["person"] \in Past
      BY <1>15 DEF Clear, Done, Goto, PhaseInv, Workers, Past, Sending, Filing
    <2>6. \A m : ToFile(m)' => ToFile(m)
      BY <2>2, <2>3, <2>4 DEF ToFile
    <2>7. QED
      BY <2>3, <2>5, <2>6 DEF Handled
  <1>16. ASSUME Decided PROVE Handled
    <2>1. run'["person"] = run["person"] /\ drafts' = drafts /\ pc'["person"] = pc["person"]
      BY <1>16 DEF Decided, Goto, PhaseInv, Workers, RunType
    <2>2. QED
      BY <2>1 DEF Handled, ToFile
  <1>17. ASSUME Drop PROVE Handled
    <2>1. /\ run' = run /\ (pc'["person"] \in Past => pc["person"] \in Past)
      BY <1>17 DEF Drop, Goto, PhaseInv, Workers, Past
    <2>2. \A t \in Topics : drafts'[t] = drafts[t] \/ drafts'[t] = NoDraft
      BY <1>17 DEF Drop, NoHeld, DraftsType
    <2>3. NoDraft.parts = {}
      BY DEF NoDraft
    <2>4. \A m : ToFile(m)' => ToFile(m)
      BY <2>1, <2>2, <2>3 DEF ToFile
    <2>5. QED
      BY <2>1, <2>4 DEF Handled
  <1>18. ASSUME Release PROVE Handled
    <2>1. \/ run' = run \/ \E t \in Topics : run' = [run EXCEPT !["manager"].topic = t]
      BY <1>18 DEF Release
    <2>2. run'["person"] = run["person"]
      BY <2>1 DEF RunType
    <2>3. drafts' = drafts /\ pc'["person"] = pc["person"]
      BY <1>18 DEF Release, Goto, PhaseInv, Workers
    <2>4. QED
      BY <2>2, <2>3 DEF Handled, ToFile
  <1>19. ASSUME HeldSave PROVE Handled
    <2>1. /\ pc["manager"] = "heldsave" /\ run' = run /\ pc'["person"] = pc["person"]
      BY <1>19 DEF HeldSave, Goto, PhaseInv, Workers
    <2>2. QED
      BY <2>1 DEF Handled
  <1>20. ASSUME CliDrop PROVE Handled
    <2>1. /\ run' = run /\ (pc'["person"] \in Past => pc["person"] \in Past)
      BY <1>20 DEF CliDrop, Goto, PhaseInv, Workers, Past
    <2>2. \A t \in Topics : drafts'[t] = drafts[t] \/ drafts'[t] = NoDraft
      BY <1>20 DEF CliDrop, NoHeld, DraftsType
    <2>3. NoDraft.parts = {}
      BY DEF NoDraft
    <2>4. \A m : ToFile(m)' => ToFile(m)
      BY <2>1, <2>2, <2>3 DEF ToFile
    <2>5. QED
      BY <2>1, <2>4 DEF Handled
  <1>21. QED
    BY <1>1, <1>2, <1>3, <1>4, <1>5, <1>6, <1>7, <1>8, <1>9, <1>10, <1>11, <1>12, <1>13, <1>14,
       <1>15, <1>16, <1>17, <1>18, <1>19, <1>20
       DEF Next, Handles, Manages, Outside, Submits

\* The project of what is filed stays the one of its writer, until a decision.
LEMMA PlaceHolds ==
  ASSUME PhaseInv, TelegramType, DatabaseType, DraftsType, RunType, CountInv, CopiesInv, PlaceInv,
         TelegramType', CountInv', Next
  PROVE  PlaceInv'
  <1> USE DEF Submitters
  <1>1. decisions \in Nat /\ decisions' \in Nat /\ Known' \subseteq Messages
    <2>1. Len(written') \in Nat /\ Len(written') <= MaxWrites
      BY LenProperties DEF TelegramType
    <2>2. Known' \subseteq Messages
      BY <2>1, Parameters DEF Known, Messages
    <2>3. QED
      BY <2>2 DEF CountInv
  <1>2. /\ \A m \in Known : written[m].decisions \in Nat /\ written'[m] = written[m]
        /\ Known \subseteq Known'
    <2>1. ASSUME NEW m \in Known PROVE written[m].decisions \in Nat
      <3>1. written[m] \in Update
        BY ElementOfSeq DEF TelegramType, Known
      <3>2. QED
        BY <3>1 DEF Update
    <2>2. QED
      BY <2>1, GrowingStep
  <1>3. Judged /\ Written /\ Handled
    BY JudgedStep, WrittenStep, HandledStep
  <1>4. ASSUME decisions' = decisions + 1, Known' = Known
        PROVE  PlaceInv'
    <2>1. ASSUME NEW m \in Known PROVE written'[m].decisions <= decisions' /\ ~ Fresh(m)'
      <3>1. written[m].decisions <= decisions
        BY DEF PlaceInv
      <3>2. QED
        BY <1>1, <1>2, <1>4, <3>1 DEF Fresh
    <2>2. QED
      BY <1>4, <2>1 DEF PlaceInv
  <1>5. ASSUME decisions' = decisions, NEW m \in Known
        PROVE  /\ written'[m].decisions <= decisions' /\ (Fresh(m)' => Fresh(m))
               /\ Fresh(m)' => /\ pc'["manager"] \in {"idle", "decided"}
                               /\ written'[m].project = AsWriter'
    <2>1. written'[m].decisions <= decisions' /\ (Fresh(m)' => Fresh(m))
      BY <1>2, <1>5 DEF PlaceInv, Fresh
    <2>2. Fresh(m) => pc["manager"] \in {"idle", "decided"} /\ written[m].project = AsWriter
      BY DEF PlaceInv
    <2>3. /\ AsWriter' = AsWriter
          /\ pc["manager"] \in {"idle", "decided"} => pc'["manager"] \in {"idle", "decided"}
      BY <1>1, <1>3, <1>5 DEF Judged
    <2>4. QED
      BY <1>2, <2>1, <2>2, <2>3
  <1>6. ASSUME decisions' = decisions, pc'["person"] \in Past, NEW m \in Known, Fresh(m)', ToFile(m)'
        PROVE  written'[m].project = run'["person"].project
    <2>1. Fresh(m) /\ pc["manager"] \in {"idle", "decided"} /\ written[m].project = AsWriter
      BY <1>5, <1>6 DEF PlaceInv
    <2>2. CASE sender.status = "approved" /\ run'["person"].project = sender.project
      BY <1>2, <2>1, <2>2 DEF AsWriter
    <2>3. CASE /\ pc["person"] \in Past /\ run'["person"].project = run["person"].project
               /\ ToFile(m)
      BY <1>2, <2>1, <2>3 DEF PlaceInv
    <2>4. QED
      BY <1>3, <1>6, <2>1, <2>2, <2>3 DEF Handled
  <1>7. CASE written' = written
    <2>1. Known' = Known
      BY <1>7 DEF Known
    <2>2. CASE decisions' = decisions
      BY <1>5, <1>6, <2>1, <2>2 DEF PlaceInv
    <2>3. QED
      BY <1>3, <1>4, <2>1, <2>2 DEF Judged
  <1>8. ASSUME pc' = pc, run' = run, drafts' = drafts, decisions' = decisions, AsWriter' = AsWriter,
               NEW u, written' = Append(written, u), u.decisions = Settled, u.project = AsWriter
        PROVE  PlaceInv'
    <2>0. PICK n : n = Len(written) + 1
      OBVIOUS
    <2>1. Len(written) \in Nat
      BY LenProperties DEF TelegramType
    <2>2. written' = written \o <<u>> /\ Len(written') = n /\ written'[n] = u
      BY <1>8, <2>0, <2>1, AppendProperties DEF TelegramType
    <2>3. Known' = Known \cup {n} /\ n \notin Known
      BY <2>0, <2>1, <2>2 DEF Known
    <2>4. /\ pc["manager"] \in {"idle", "decided"} => Settled = decisions
          /\ pc["manager"] \notin {"idle", "decided"} => Settled = decisions - 1
      BY DEF Settled
    <2>5. written'[n].decisions <= decisions'
          /\ (Fresh(n)' => pc["manager"] \in {"idle", "decided"})
      BY <1>1, <1>8, <2>2, <2>4 DEF Fresh
    <2>6. pc["person"] \in Past => ~ ToFile(n)'
      <3>1. n \in Messages
        BY <1>1, <2>3
      <3>2. pc["person"] \in Past => run["person"].msg \in Known
        BY DEF RunType, Past, Sending, Filing
      <3>3. \A t \in Topics : n \notin drafts[t].parts
        BY <2>3, <3>1, WrittenOnly
      <3>4. n \notin run["person"].draft.parts
        BY <2>3, <3>1, WrittenOnly
      <3>5. QED
        BY <1>8, <2>3, <3>2, <3>3, <3>4 DEF ToFile
    <2>7. ASSUME NEW m \in Known'
          PROVE  /\ written'[m].decisions <= decisions'
                 /\ Fresh(m)' => /\ pc'["manager"] \in {"idle", "decided"}
                                 /\ written'[m].project = AsWriter'
      BY <1>5, <1>8, <2>2, <2>3, <2>5, <2>7
    <2>8. ASSUME pc'["person"] \in Past, NEW m \in Known', Fresh(m)', ToFile(m)'
          PROVE  written'[m].project = run'["person"].project
      BY <1>6, <1>8, <2>3, <2>6, <2>8
    <2>9. QED
      BY <2>7, <2>8 DEF PlaceInv
  <1>9. QED
    BY <1>3, <1>7, <1>8 DEF Written

\* Only create makes a worker's task.
LEMMA FilesByCreate ==
  ASSUME PhaseInv, RunType, KeyStep, NEW w \in Submitters, pc[w] = "create", pc'[w] = "row"
  PROVE  Create(w)
  <1> USE DEF Submitters
  <1>1. CASE Quiet
    BY <1>1 DEF Quiet, Still, Keyed, Carrying, Filing
  <1>2. CASE Compose
    BY <1>2 DEF Compose, Goto, PhaseInv, Workers
  <1>3. CASE Composed
    BY <1>3 DEF Composed, Goto, PhaseInv, Workers
  <1>4. CASE Release
    BY <1>4 DEF Release, Goto, PhaseInv, Workers
  <1>5. CASE HeldCheck
    BY <1>5 DEF HeldCheck, Goto, PhaseInv, Workers
  <1>6. CASE HeldSave
    BY <1>6 DEF HeldSave, Goto, PhaseInv, Workers
  <1>7. ASSUME NEW v \in Submitters, Submit(v) \/ AddRow(v) \/ Tie(v) \/ LinkParts(v) \/ Clear(v)
        PROVE  FALSE
    BY <1>7 DEF Submit, AddRow, Tie, LinkParts, Clear, Done, Goto, PhaseInv, Workers
  <1>8. ASSUME NEW v \in Submitters, Create(v) PROVE v = w
    BY <1>8 DEF Create, GivesUp, Done, Goto, PhaseInv, Workers
  <1>9. QED
    BY <1>1, <1>2, <1>3, <1>4, <1>5, <1>6, <1>7, <1>8 DEF KeyStep, Submits

\* The task of a step is in the project of what it is made of.
Belongs ==
  \A w \in Submitters :
     pc[w] = "create" /\ pc'[w] = "row" =>
       \A m \in run[w].draft.parts :
          \/ written[m].project = tasks'[run[w].draft.key].project
          \/ decisions > written[m].decisions

\* Every step is like that, with no crash and no lost answer.
LEMMA BelongsStep ==
  ASSUME FaultKinds \subseteq {"refused"}, Types, KeyInv, CopiesInv, PlaceInv, [Next]_vars
  PROVE  Belongs
  <1>0. /\ PhaseInv /\ TelegramType /\ YouGileType /\ DraftsType /\ RunType /\ ActType
        /\ CountInv /\ HandInv
    BY DEF Types, KeyInv
  <1>1. SUFFICES ASSUME NEW w \in Submitters, pc[w] = "create", pc'[w] = "row",
                        NEW m \in run[w].draft.parts
                 PROVE  \/ written[m].project = tasks'[run[w].draft.key].project
                        \/ decisions > written[m].decisions
    BY DEF Belongs
  <1>2. Create(w)
    <2>1. Next /\ ~ Crash
      BY <1>1 DEF vars, Crash, Fault
    <2>2. KeyStep
      BY <1>0, <2>1, QuietStep
    <2>3. QED
      BY <1>0, <1>1, <2>2, FilesByCreate
  <1>3. tasks'[run[w].draft.key].project = run[w].project
    <2>1. HandOf(w)
      BY <1>0 DEF HandInv
    <2>2. run[w].draft.key \in Keys /\ (Refused(w) \/ MakesTask(w))
      BY <1>0, <1>2, <2>1, CreateIs
    <2>3. MakesTask(w)
      BY <1>1, <2>2 DEF Refused, Keyed, Carrying, Filing
    <2>4. QED
      BY <1>0, <2>2, <2>3 DEF MakesTask, YouGileType
  <1>4. m \in Known /\ written[m].decisions \in Nat /\ decisions \in Nat
    <2>1. m \in Messages
      BY <1>0, LocalIs
    <2>2. m \in Known
      BY <1>0, <2>1, WrittenOnly
    <2>3. written[m] \in Update
      BY <1>0, <2>2, ElementOfSeq DEF TelegramType, Known
    <2>4. QED
      BY <1>0, <2>2, <2>3 DEF Update, CountInv
  <1>5. ASSUME Fresh(m) PROVE written[m].project = run[w].project
    <2>1. w # "manager"
      BY <1>1, <1>4, <1>5 DEF PlaceInv
    <2>2. w = "person" /\ pc["person"] \in Past
      BY <1>1, <2>1 DEF Submitters, Past, Sending, Filing
    <2>3. ToFile(m)
      BY <2>2 DEF ToFile
    <2>4. QED
      BY <1>4, <1>5, <2>2, <2>3 DEF PlaceInv
  <1>6. CASE Fresh(m)
    BY <1>3, <1>5, <1>6
  <1>7. CASE ~ Fresh(m)
    BY <1>4, <1>7 DEF Fresh
  <1>8. QED
    BY <1>6, <1>7

\* At first nothing is written.
LEMMA InitPlace ==
  ASSUME Init
  PROVE  PlaceInv
  <1>1. Known = {} /\ pc["person"] = "idle"
    BY DEF Init, Known
  <1>2. QED
    BY <1>1 DEF PlaceInv, Past, Sending, Filing

\* A task is made in the project its writer had, unless a decision came since; under the same
\* faults (a draft with the key of a task YouGile already has is not filed again).
THEOREM FiledInItsProject ==
  ASSUME FaultKinds \subseteq {"refused"}
  PROVE  Spec => FiledWhereItBelongs
  <1> DEFINE Inv == Types /\ KeyInv /\ QueueInv /\ CopiesInv /\ PlaceInv
  <1>1. Init => Inv
    BY InitTypes, InitKeys, InitCopies, InitPlace
  <1>2. Inv /\ [Next]_vars => Inv'
    <2> SUFFICES ASSUME Inv, [Next]_vars PROVE Inv'
      OBVIOUS
    <2>1. Types' /\ KeyInv'
      BY StepTypes, StepKeys
    <2>2. QueueInv' /\ CopiesInv'
      BY StepCopies
    <2>3. PlaceInv'
      <3>1. CASE Next
        BY <2>1, <3>1, PlaceHolds DEF Types
      <3>2. CASE UNCHANGED vars
        <4>1. /\ written' = written /\ decisions' = decisions /\ pc' = pc /\ run' = run
              /\ drafts' = drafts /\ sender' = sender
          BY <3>2 DEF vars
        <4>2. QED
          BY <4>1 DEF PlaceInv, Known, Fresh, AsWriter, ToFile
      <3>3. QED
        BY <3>1, <3>2
    <2>4. QED
      BY <2>1, <2>2, <2>3
  <1>3. Inv /\ [Next]_vars => Belongs
    BY BelongsStep
  <1>4. QED
    BY <1>1, <1>2, <1>3, PTL DEF Spec, FiledWhereItBelongs, Belongs
=============================================================================
