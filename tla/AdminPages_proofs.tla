--------------------------- MODULE AdminPages_proofs ---------------------------
(***************************************************************************)
(* Proofs about AdminPages, for any number of requests at once, any        *)
(* addresses and logins, any limits and any budget: the counters of failed *)
(* sign-ins, the sessions of an admin, and the keys.                       *)
(***************************************************************************)
EXTENDS AdminPages, FiniteSetTheorems, SequenceTheorems, TLAPS

Run == [pc : Pcs, origin : Origins, todo : Seq(Counters), n : 0..made, id : 0..issued,
        live : BOOLEAN, admin : BOOLEAN, key : 0..made, old : 0..made, who : 0..issued]

\* The parts of TypeOK.
KeysType ==
  /\ made \in Nat /\ issued \in Nat
  /\ keys \subseteq 1..made /\ stranded \subseteq 1..made /\ acct \in 0..made
  /\ row \in [id : 0..issued, key : 0..made, admin : BOOLEAN]
  /\ row.id = 0 <=> row.key = 0
SessionsType ==
  /\ sessions \subseteq [n : 1..made, id : 1..issued]
  /\ \A s, t \in sessions : s.n = t.n => s = t
RunType == run \in [Workers -> Run]
RestType ==
  /\ admin \in BOOLEAN /\ creds \in BOOLEAN
  /\ count \in [Counters -> Nat] /\ failed \in [Counters -> Nat]
  /\ left \in [Kinds -> Nat]

\* What a request carries where it is.
WithKey == {"me", "undo", "previous", "store"}
Making == {"me", "previous", "store"}
Deleting == {"store", "old", "drop", "revoke"}
OnPage == {"row", "check", "act"}
Counting == {"peek", "hit"}
Distinct(s) == \A i, j \in DOMAIN s : s[i] = s[j] => i = j
Among(c, s) == \E i \in DOMAIN s : s[i] = c
CarryInv ==
  \A w \in Workers :
    /\ run[w].pc \in WithKey => run[w].key # 0
    /\ run[w].pc \in Counting => run[w].todo # <<>> /\ Distinct(run[w].todo)
    /\ run[w].pc \in OnPage => run[w].id # 0
    /\ run[w].pc \in {"drop", "revoke"} => run[w].who # 0 /\ run[w].old # 0
    /\ run[w].pc = "open" \/ (run[w].pc = "old" /\ run[w].n = 0) => run[w].id # 0
    /\ run[w].pc \notin {"undo", "store", "old", "open", "drop", "revoke", "close"} =>
         run[w].old = 0

\* A key that is made and not yet stored is in YouGile and is nobody else's.
KeyInv ==
  /\ acct # 0 => acct # row.key
  /\ \A w \in Workers : run[w].pc \in WithKey => run[w].key # acct
  /\ \A w \in Workers : run[w].pc \in Making => run[w].key \in keys /\ run[w].key # row.key
  /\ \A v, w \in Workers :
       run[v].pc \in WithKey /\ run[w].pc \in WithKey /\ run[v].key = run[w].key => v = w
  /\ \A v, w \in Workers :
       run[v].pc \in Making /\ run[w].pc \in Deleting => run[w].old # run[v].key
  /\ \A w \in Workers :
       run[w].pc \in Deleting \ {"store"} /\ acct # 0 => run[w].old # acct

\* A session that was not good when a request began has no row, now or ever again; nor has a
\* person whose row a request has deleted.
SessionInv ==
  /\ \A w \in Workers : run[w].pc = "row" /\ ~run[w].live => run[w].id # row.id
  /\ \A w \in Workers : run[w].pc \in {"check", "act"} => run[w].live
  /\ \A w \in Workers : run[w].pc = "revoke" => run[w].who # row.id

\* Requests that YouGile has refused and that have yet to count it; requests that have looked at
\* the counter and may yet add to it.
Pending(c) == {w \in Workers : run[w].pc = "hit" /\ Among(c, run[w].todo)}
Past(c) ==
  {w \in Workers :
     \/ run[w].pc = "peek" /\ Concerned(c, run[w].origin) /\ ~Among(c, run[w].todo)
     \/ run[w].pc = "companies" /\ Concerned(c, run[w].origin)
     \/ run[w].pc = "hit" /\ Among(c, run[w].todo)}
CountInv ==
  \A c \in Counters :
    /\ count[c] + Cardinality(Pending(c)) <= failed[c]
    /\ count[c] + Cardinality(Past(c)) < Limit[c] + Cardinality(Workers)

Types == KeysType /\ SessionsType /\ RunType /\ RestType
IInv == Types /\ CarryInv /\ KeyInv /\ KeysHaveAPlace /\ SessionInv /\ CountInv

-----------------------------------------------------------------------------
(* Types *)

LEMMA TypesAre == TypeOK <=> Types
  BY DEF TypeOK, Types, KeysType, SessionsType, RunType, RestType, Run

LEMMA IdleType ==
  ASSUME KeysType
  PROVE  Idle \in Run
  BY ConstantsAssumption DEF Idle, Run, Pcs, KeysType

LEMMA IdleIs ==
  /\ Idle.pc = "idle" /\ Idle.todo = <<>> /\ Idle.n = 0 /\ Idle.id = 0 /\ Idle.key = 0
  /\ Idle.old = 0 /\ Idle.live = FALSE /\ Idle.admin = FALSE /\ Idle.who = 0
  BY DEF Idle

\* The counters of a login, and those that are left of them.
LEMMA CountersAre ==
  ASSUME NEW o \in Origins
  PROVE  /\ CountersOf[o] \in Seq(Counters) /\ CountersOf[o] # <<>> /\ Distinct(CountersOf[o])
         /\ \A c : Among(c, CountersOf[o]) <=> Concerned(c, o)
  BY ConstantsAssumption DEF Distinct, Among, Concerned

LEMMA TailOf ==
  ASSUME NEW S, NEW s \in Seq(S), s # <<>>, Distinct(s)
  PROVE  /\ Head(s) \in S /\ Tail(s) \in Seq(S) /\ Distinct(Tail(s))
         /\ Len(s) # 1 => Tail(s) # <<>>
         /\ Len(s) = 1 => \A c : ~Among(c, Tail(s))
         /\ \A c : Among(c, Tail(s)) <=> Among(c, s) /\ c # Head(s)
  <1>1. Len(s) \in Nat \ {0} /\ DOMAIN s = 1..Len(s)
    OBVIOUS
  <1>2. /\ Tail(s) \in Seq(S) /\ Len(Tail(s)) = Len(s) - 1 /\ DOMAIN Tail(s) = 1..(Len(s) - 1)
        /\ \A i \in 1..(Len(s) - 1) : Tail(s)[i] = s[i + 1]
    BY <1>1
  <1>3. Head(s) = s[1] /\ Head(s) \in S
    BY <1>1
  <1>4. Distinct(Tail(s))
    BY <1>1, <1>2 DEF Distinct
  <1>5. ASSUME NEW c PROVE Among(c, Tail(s)) <=> Among(c, s) /\ c # Head(s)
    <2>1. ASSUME Among(c, Tail(s)) PROVE Among(c, s) /\ c # Head(s)
      <3>1. PICK i \in 1..(Len(s) - 1) : Tail(s)[i] = c
        BY <1>2, <2>1 DEF Among
      <3>2. i + 1 \in DOMAIN s /\ 1 \in DOMAIN s /\ s[i + 1] = c /\ i + 1 # 1
        BY <1>1, <1>2, <3>1
      <3>3. QED
        BY <1>3, <3>2 DEF Among, Distinct
    <2>2. ASSUME Among(c, s), c # Head(s) PROVE Among(c, Tail(s))
      <3>1. PICK i \in DOMAIN s : s[i] = c
        BY <2>2 DEF Among
      <3>2. i # 1
        BY <1>3, <2>2, <3>1
      <3>3. i - 1 \in DOMAIN Tail(s) /\ Tail(s)[i - 1] = c
        BY <1>1, <1>2, <3>1, <3>2
      <3>4. QED
        BY <3>3 DEF Among
    <2>3. QED
      BY <2>1, <2>2
  <1>6. Len(s) # 1 => Tail(s) # <<>>
    BY <1>1, <1>2, EmptySeq
  <1>7. Len(s) = 1 => \A c : ~Among(c, Tail(s))
    BY <1>2 DEF Among
  <1>8. QED
    BY <1>2, <1>3, <1>4, <1>5, <1>6, <1>7

\* A request of any type keeps it when it moves on with a key, with the
\* account's key of before or with an answer on the role.
LEMMA KeepsTypeWithKey ==
  ASSUME NEW P, NEW O, NEW T, NEW M, NEW I,
         NEW r \in [pc : P, origin : O, todo : T, n : M, id : I, live : BOOLEAN,
                  admin : BOOLEAN, key : M, old : M, who : I],
         NEW p \in P, NEW k \in M
  PROVE  [r EXCEPT !.pc = p, !.key = k] \in
           [pc : P, origin : O, todo : T, n : M, id : I, live : BOOLEAN,
            admin : BOOLEAN, key : M, old : M, who : I]
  OBVIOUS

LEMMA KeepsTypeWithOld ==
  ASSUME NEW P, NEW O, NEW T, NEW M, NEW I,
         NEW r \in [pc : P, origin : O, todo : T, n : M, id : I, live : BOOLEAN,
                  admin : BOOLEAN, key : M, old : M, who : I],
         NEW p \in P, NEW k \in M
  PROVE  [r EXCEPT !.pc = p, !.old = k] \in
           [pc : P, origin : O, todo : T, n : M, id : I, live : BOOLEAN,
            admin : BOOLEAN, key : M, old : M, who : I]
  OBVIOUS

LEMMA KeepsTypeWithRole ==
  ASSUME NEW P, NEW O, NEW T, NEW M, NEW I,
         NEW r \in [pc : P, origin : O, todo : T, n : M, id : I, live : BOOLEAN,
                  admin : BOOLEAN, key : M, old : M, who : I],
         NEW p \in P, NEW a \in BOOLEAN
  PROVE  [r EXCEPT !.admin = a, !.pc = p] \in
           [pc : P, origin : O, todo : T, n : M, id : I, live : BOOLEAN,
            admin : BOOLEAN, key : M, old : M, who : I]
  OBVIOUS

\* A request goes on with typed locals; numbers only grow.
LEMMA RunMoves ==
  ASSUME RunType, Run \subseteq Run', NEW w \in Workers, NEW r \in Run',
         run' = [run EXCEPT ![w] = r]
  PROVE  RunType'
  BY DEF RunType

LEMMA RunAt ==
  ASSUME RunType, NEW w \in Workers
  PROVE  run[w] \in Run
  BY DEF RunType

LEMMA RunStays ==
  ASSUME UNCHANGED <<made, issued>>
  PROVE  Run' = Run
  BY DEF Run

\* Every step keeps the types of counters, passwords and budget.
LEMMA RestStep ==
  ASSUME KeysType, RestType, RunType, CarryInv, Next
  PROVE  RestType'
  <1> USE DEF RestType, Kinds, Spend, yougile, postgres, cookies, attempts
  <1>1. ASSUME NEW w \in Workers, NEW o \in Origins, Submit(w, o) PROVE RestType'
    BY <1>1 DEF Submit, Begins, Trying
  <1>2. ASSUME NEW w \in Workers, NEW o \in Origins, Choose(w, o) PROVE RestType'
    BY <1>2 DEF Choose, Begins
  <1>3. ASSUME NEW w \in Workers, Peek(w) PROVE RestType'
    BY <1>3 DEF Peek, Ends, NextCounter
  <1>4. ASSUME NEW w \in Workers, Companies(w) PROVE RestType'
    <2>1. failed' \in [Counters -> Nat]
      BY <1>4 DEF Companies
    <2>2. creds' \in BOOLEAN
      BY <1>4 DEF Companies
    <2>3. UNCHANGED <<admin, count, left>>
      BY <1>4 DEF Companies
    <2>4. QED
      BY <2>1, <2>2, <2>3
  <1>5. ASSUME NEW w \in Workers, Hit(w) PROVE RestType'
    <2>1. Head(run[w].todo) \in Counters
      BY <1>5, RunAt, TailOf DEF Hit, At, CarryInv, Counting, Run
    <2>2. count' \in [Counters -> Nat]
      BY <1>5, <2>1 DEF Hit
    <2>3. QED
      BY <1>5, <2>2 DEF Hit
  <1>6. ASSUME NEW w \in Workers, CreateKey(w) PROVE RestType'
    BY <1>6 DEF CreateKey
  <1>7. ASSUME NEW w \in Workers, Me(w) PROVE RestType'
    BY <1>7 DEF Me
  <1>8. ASSUME NEW w \in Workers, Undo(w) PROVE RestType'
    BY <1>8 DEF Undo, Ends
  <1>9. ASSUME NEW w \in Workers, Previous(w) PROVE RestType'
    BY <1>9 DEF Previous
  <1>10. ASSUME NEW w \in Workers, Store(w) PROVE RestType'
    BY <1>10 DEF Store, Upserted, Replaced, Goes
  <1>11. ASSUME NEW w \in Workers, DropOld(w) PROVE RestType'
    BY <1>11 DEF DropOld, Ends, Goes
  <1>12. ASSUME NEW w \in Workers, Open(w) PROVE RestType'
    BY <1>12 DEF Open, Ends
  <1>13. ASSUME NEW w \in Workers, NEW s \in sessions, Request(w, s) PROVE RestType'
    BY <1>13 DEF Request, Begins
  <1>14. ASSUME NEW w \in Workers, Row(w) PROVE RestType'
    BY <1>14 DEF Row, Goes
  <1>15. ASSUME NEW w \in Workers, Check(w) PROVE RestType'
    BY <1>15 DEF Check, Goes
  <1>16. ASSUME NEW w \in Workers, Act(w) PROVE RestType'
    BY <1>16 DEF Act, Ends, Goes
  <1>17. ASSUME NEW w \in Workers, DisconnectSelf(w) PROVE RestType'
    BY <1>17 DEF DisconnectSelf, Listed
  <1>18. ASSUME NEW w \in Workers, Fails(w) PROVE RestType'
    BY <1>18 DEF Fails, Ends
  <1>19. ASSUME NEW w \in Workers, FailsWithKey(w) PROVE RestType'
    BY <1>19 DEF FailsWithKey, Ends, Goes
  <1>20. ASSUME NEW w \in Workers, StoreUnsure(w) PROVE RestType'
    BY <1>20 DEF StoreUnsure, Upserted, Ends, Goes
  <1>21. ASSUME NEW w \in Workers, DeletionFails(w) PROVE RestType'
    BY <1>21 DEF DeletionFails, Ends, Goes
  <1>22. ASSUME NEW s \in sessions, Logout(s) PROVE RestType'
    BY <1>22 DEF Logout, Closed
  <1>23. ASSUME NEW c \in Counters, LapseCount(c) PROVE RestType'
    BY <1>23 DEF LapseCount
  <1>24. ASSUME NEW w \in Workers, Disconnect(w) PROVE RestType'
    BY <1>24 DEF Disconnect, Listed
  <1>25. ASSUME SetAdmin PROVE RestType'
    BY <1>25 DEF SetAdmin
  <1>26. ASSUME LapseCreds PROVE RestType'
    <2>1. left' \in [Kinds -> Nat]
      BY <1>26 DEF LapseCreds
    <2>2. QED
      BY <1>26, <2>1 DEF LapseCreds
  <1>27. ASSUME Crash PROVE RestType'
    BY <1>27 DEF Crash
  <1>28. ASSUME NEW w \in Workers, DropRow(w) PROVE RestType'
    BY <1>28 DEF DropRow, Dropped, Goes
  <1>29. ASSUME NEW w \in Workers, DropKey(w) PROVE RestType'
    BY <1>29 DEF DropKey, Goes, Ends
  <1>30. ASSUME NEW w \in Workers, DropUnsure(w) PROVE RestType'
    BY <1>30 DEF DropUnsure, Dropped, Ends
  <1>31. ASSUME NEW w \in Workers, Close(w) PROVE RestType'
    BY <1>31 DEF Close, Closed, Ends
  <1>32. QED
    BY <1>1, <1>2, <1>3, <1>4, <1>5, <1>6, <1>7, <1>8, <1>9, <1>10, <1>11, <1>12, <1>13, <1>14,
       <1>15, <1>16, <1>17, <1>18, <1>19, <1>20, <1>21, <1>22, <1>23, <1>24, <1>25, <1>26, <1>27,
       <1>28, <1>29, <1>30, <1>31
       DEF Next, Signing, Paging, Breaking

\* Every step keeps the types of keys and rows.
LEMMA KeysStep ==
  ASSUME KeysType, RunType, CarryInv, Next
  PROVE  KeysType'
  <1> USE DEF KeysType, RunType, Run, At, CarryInv, WithKey, yougile, postgres, cookies,
              attempts
  <1>1. ASSUME NEW w \in Workers, NEW o \in Origins, Submit(w, o) PROVE KeysType'
    BY <1>1 DEF Submit, Begins, Trying
  <1>2. ASSUME NEW w \in Workers, NEW o \in Origins, Choose(w, o) PROVE KeysType'
    BY <1>2 DEF Choose, Begins
  <1>3. ASSUME NEW w \in Workers, Peek(w) PROVE KeysType'
    BY <1>3 DEF Peek, Ends, NextCounter
  <1>4. ASSUME NEW w \in Workers, Companies(w) PROVE KeysType'
    BY <1>4 DEF Companies, Ends, Goes
  <1>5. ASSUME NEW w \in Workers, Hit(w) PROVE KeysType'
    BY <1>5 DEF Hit, Ends, NextCounter
  <1>6. ASSUME NEW w \in Workers, CreateKey(w) PROVE KeysType'
    BY <1>6 DEF CreateKey
  <1>7. ASSUME NEW w \in Workers, Me(w) PROVE KeysType'
    BY <1>7 DEF Me
  <1>8. ASSUME NEW w \in Workers, Undo(w) PROVE KeysType'
    BY <1>8 DEF Undo, Ends
  <1>9. ASSUME NEW w \in Workers, Previous(w) PROVE KeysType'
    BY <1>9 DEF Previous
  <1>10. ASSUME NEW w \in Workers, Store(w) PROVE KeysType'
    BY <1>10 DEF Store, Upserted, Replaced, Goes
  <1>11. ASSUME NEW w \in Workers, DropOld(w) PROVE KeysType'
    BY <1>11 DEF DropOld, Ends, Goes
  <1>12. ASSUME NEW w \in Workers, Open(w) PROVE KeysType'
    BY <1>12 DEF Open, Ends
  <1>13. ASSUME NEW w \in Workers, NEW s \in sessions, Request(w, s) PROVE KeysType'
    BY <1>13 DEF Request, Begins
  <1>14. ASSUME NEW w \in Workers, Row(w) PROVE KeysType'
    BY <1>14 DEF Row, Goes
  <1>15. ASSUME NEW w \in Workers, Check(w) PROVE KeysType'
    BY <1>15 DEF Check, Goes
  <1>16. ASSUME NEW w \in Workers, Act(w) PROVE KeysType'
    BY <1>16 DEF Act, Ends, Goes
  <1>17. ASSUME NEW w \in Workers, DisconnectSelf(w) PROVE KeysType'
    BY <1>17 DEF DisconnectSelf, Listed
  <1>18. ASSUME NEW w \in Workers, Fails(w) PROVE KeysType'
    BY <1>18 DEF Fails, Ends
  <1>19. ASSUME NEW w \in Workers, FailsWithKey(w) PROVE KeysType'
    BY <1>19 DEF FailsWithKey, Ends, Goes
  <1>20. ASSUME NEW w \in Workers, StoreUnsure(w) PROVE KeysType'
    BY <1>20 DEF StoreUnsure, Upserted, Ends, Goes
  <1>21. ASSUME NEW w \in Workers, DeletionFails(w) PROVE KeysType'
    BY <1>21 DEF DeletionFails, Ends, Goes
  <1>22. ASSUME NEW s \in sessions, Logout(s) PROVE KeysType'
    BY <1>22 DEF Logout, Closed
  <1>23. ASSUME NEW c \in Counters, LapseCount(c) PROVE KeysType'
    BY <1>23 DEF LapseCount
  <1>24. ASSUME NEW w \in Workers, Disconnect(w) PROVE KeysType'
    BY <1>24 DEF Disconnect, Listed
  <1>25. ASSUME SetAdmin PROVE KeysType'
    BY <1>25 DEF SetAdmin
  <1>26. ASSUME LapseCreds PROVE KeysType'
    BY <1>26 DEF LapseCreds
  <1>27. ASSUME Crash PROVE KeysType'
    BY <1>27 DEF Crash
  <1>28. ASSUME NEW w \in Workers, DropRow(w) PROVE KeysType'
    <2>1. NoRow \in [id : 0..issued, key : 0..made, admin : BOOLEAN] /\ NoRow.id = 0 /\ NoRow.key = 0
      BY DEF NoRow
    <2>2. /\ row' \in {NoRow, row} /\ stranded' \subseteq stranded \cup ({row.key} \ {0})
          /\ UNCHANGED <<keys, issued, acct, made>>
      <3>1. row.id = run[w].who => row.key # 0
        BY <1>28 DEF DropRow
      <3>2. QED
        BY <1>28, <3>1, <2>1 DEF DropRow, Dropped, Goes
    <2>3. QED
      BY <2>1, <2>2
  <1>29. ASSUME NEW w \in Workers, DropKey(w) PROVE KeysType'
    BY <1>29 DEF DropKey, Ends, Goes
  <1>30. ASSUME NEW w \in Workers, DropUnsure(w) PROVE KeysType'
    <2>1. NoRow \in [id : 0..issued, key : 0..made, admin : BOOLEAN] /\ NoRow.id = 0 /\ NoRow.key = 0
      BY DEF NoRow
    <2>2. /\ row' = NoRow /\ stranded' = stranded \cup {row.key} /\ row.key # 0
          /\ UNCHANGED <<keys, issued, acct, made>>
      BY <1>30, <2>1 DEF DropUnsure, Dropped, Ends
    <2>3. row.key \in 1..made
      BY <2>2
    <2>4. stranded' \subseteq 1..made'
      BY <2>2, <2>3
    <2>5. QED
      BY <2>1, <2>2, <2>4
  <1>31. ASSUME NEW w \in Workers, Close(w) PROVE KeysType'
    BY <1>31 DEF Close, Closed, Ends
  <1>32. QED
    BY <1>1, <1>2, <1>3, <1>4, <1>5, <1>6, <1>7, <1>8, <1>9, <1>10, <1>11, <1>12, <1>13, <1>14,
       <1>15, <1>16, <1>17, <1>18, <1>19, <1>20, <1>21, <1>22, <1>23, <1>24, <1>25, <1>26, <1>27,
       <1>28, <1>29, <1>30, <1>31
       DEF Next, Signing, Paging, Breaking

\* Every step keeps the types of sessions.
LEMMA SessionsStep ==
  ASSUME KeysType, SessionsType, RunType, CarryInv, Next
  PROVE  SessionsType'
  <1> USE DEF KeysType, SessionsType, RunType, Run, At, CarryInv, OnPage, SignsIn, yougile,
              postgres, cookies, attempts
  <1>1. ASSUME NEW w \in Workers, NEW o \in Origins, Submit(w, o) PROVE SessionsType'
    BY <1>1 DEF Submit, Begins, Trying
  <1>2. ASSUME NEW w \in Workers, NEW o \in Origins, Choose(w, o) PROVE SessionsType'
    BY <1>2 DEF Choose, Begins
  <1>3. ASSUME NEW w \in Workers, Peek(w) PROVE SessionsType'
    BY <1>3 DEF Peek, Ends, NextCounter
  <1>4. ASSUME NEW w \in Workers, Companies(w) PROVE SessionsType'
    BY <1>4 DEF Companies, Ends, Goes
  <1>5. ASSUME NEW w \in Workers, Hit(w) PROVE SessionsType'
    BY <1>5 DEF Hit, Ends, NextCounter
  <1>6. ASSUME NEW w \in Workers, CreateKey(w) PROVE SessionsType'
    BY <1>6 DEF CreateKey
  <1>7. ASSUME NEW w \in Workers, Me(w) PROVE SessionsType'
    BY <1>7 DEF Me
  <1>8. ASSUME NEW w \in Workers, Undo(w) PROVE SessionsType'
    BY <1>8 DEF Undo, Ends
  <1>9. ASSUME NEW w \in Workers, Previous(w) PROVE SessionsType'
    BY <1>9 DEF Previous
  <1>10. ASSUME NEW w \in Workers, Store(w) PROVE SessionsType'
    BY <1>10 DEF Store, Upserted, Replaced, Goes
  <1>11. ASSUME NEW w \in Workers, DropOld(w) PROVE SessionsType'
    BY <1>11 DEF DropOld, Ends, Goes
  <1>12. ASSUME NEW w \in Workers, Open(w) PROVE SessionsType'
    BY <1>12 DEF Open, Ends
  <1>13. ASSUME NEW w \in Workers, NEW s \in sessions, Request(w, s) PROVE SessionsType'
    BY <1>13 DEF Request, Begins
  <1>14. ASSUME NEW w \in Workers, Row(w) PROVE SessionsType'
    BY <1>14 DEF Row, Goes
  <1>15. ASSUME NEW w \in Workers, Check(w) PROVE SessionsType'
    BY <1>15 DEF Check, Goes
  <1>16. ASSUME NEW w \in Workers, Act(w) PROVE SessionsType'
    BY <1>16 DEF Act, Ends, Goes
  <1>17. ASSUME NEW w \in Workers, DisconnectSelf(w) PROVE SessionsType'
    BY <1>17 DEF DisconnectSelf, Listed
  <1>18. ASSUME NEW w \in Workers, Fails(w) PROVE SessionsType'
    BY <1>18 DEF Fails, Ends
  <1>19. ASSUME NEW w \in Workers, FailsWithKey(w) PROVE SessionsType'
    BY <1>19 DEF FailsWithKey, Ends, Goes
  <1>20. ASSUME NEW w \in Workers, StoreUnsure(w) PROVE SessionsType'
    BY <1>20 DEF StoreUnsure, Upserted, Ends, Goes
  <1>21. ASSUME NEW w \in Workers, DeletionFails(w) PROVE SessionsType'
    BY <1>21 DEF DeletionFails, Ends, Goes
  <1>22. ASSUME NEW s \in sessions, Logout(s) PROVE SessionsType'
    BY <1>22 DEF Logout, Closed
  <1>23. ASSUME NEW c \in Counters, LapseCount(c) PROVE SessionsType'
    BY <1>23 DEF LapseCount
  <1>24. ASSUME NEW w \in Workers, Disconnect(w) PROVE SessionsType'
    BY <1>24 DEF Disconnect, Listed
  <1>25. ASSUME SetAdmin PROVE SessionsType'
    BY <1>25 DEF SetAdmin
  <1>26. ASSUME LapseCreds PROVE SessionsType'
    BY <1>26 DEF LapseCreds
  <1>27. ASSUME Crash PROVE SessionsType'
    BY <1>27 DEF Crash
  <1>28. ASSUME NEW w \in Workers, DropRow(w) PROVE SessionsType'
    BY <1>28 DEF DropRow, Dropped, Goes
  <1>29. ASSUME NEW w \in Workers, DropKey(w) PROVE SessionsType'
    BY <1>29 DEF DropKey, Goes, Ends
  <1>30. ASSUME NEW w \in Workers, DropUnsure(w) PROVE SessionsType'
    BY <1>30 DEF DropUnsure, Dropped, Ends
  <1>31. ASSUME NEW w \in Workers, Close(w) PROVE SessionsType'
    BY <1>31 DEF Close, Closed, Ends
  <1>32. QED
    BY <1>1, <1>2, <1>3, <1>4, <1>5, <1>6, <1>7, <1>8, <1>9, <1>10, <1>11, <1>12, <1>13, <1>14,
       <1>15, <1>16, <1>17, <1>18, <1>19, <1>20, <1>21, <1>22, <1>23, <1>24, <1>25, <1>26, <1>27,
       <1>28, <1>29, <1>30, <1>31
       DEF Next, Signing, Paging, Breaking

\* Every step keeps the types of requests.
LEMMA RunStep ==
  ASSUME KeysType, SessionsType, RestType, RunType, CarryInv, Next
  PROVE  RunType'
  <1> USE DEF yougile, postgres, cookies, attempts
  <1>1. ASSUME NEW w \in Workers, NEW o \in Origins, Submit(w, o) PROVE RunType'
    <2>0. Run' = Run
      BY <1>1, RunStays DEF Submit
    <2>1. run' = [run EXCEPT ![w] = Trying(o)]
      BY <1>1 DEF Submit, Begins, RunType
    <2>2. Trying(o) \in Run'
      BY <1>1, <2>0, IdleType, RunAt, CountersAre, ZenonT(60) DEF Submit, Begins, Run, Pcs, Trying
    <2>3. QED
      BY <2>0, <2>1, <2>2, RunMoves
  <1>2. ASSUME NEW w \in Workers, NEW o \in Origins, Choose(w, o) PROVE RunType'
    <2>0. Run' = Run
      BY <1>2, RunStays DEF Choose
    <2>1. run' = [run EXCEPT ![w] = [Idle EXCEPT !.pc = "key", !.origin = o]]
      BY <1>2 DEF Choose, Begins, RunType
    <2>2. [Idle EXCEPT !.pc = "key", !.origin = o] \in Run'
      BY <1>2, <2>0, IdleType, RunAt, ZenonT(60) DEF Choose, Begins, Run, Pcs
    <2>3. QED
      BY <2>0, <2>1, <2>2, RunMoves
  <1>3. ASSUME NEW w \in Workers, Peek(w) PROVE RunType'
    <2>0. Run' = Run
      BY <1>3, RunStays DEF Peek
    <2>1. \/ run' = [run EXCEPT ![w] = Idle]
          \/ run' = [run EXCEPT ![w] = [run[w] EXCEPT !.todo = Tail(run[w].todo), !.pc = "peek"]]
          \/ run' = [run EXCEPT ![w] = [run[w] EXCEPT !.todo = Tail(run[w].todo), !.pc = "companies"]]
      BY <1>3 DEF Peek, Ends, NextCounter, At, RunType
    <2>2. /\ Idle \in Run'
          /\ [run[w] EXCEPT !.todo = Tail(run[w].todo), !.pc = "peek"] \in Run'
          /\ [run[w] EXCEPT !.todo = Tail(run[w].todo), !.pc = "companies"] \in Run'
      BY <1>3, <2>0, IdleType, RunAt, TailOf, ZenonT(60) DEF Peek, Ends, NextCounter, At, Run, Pcs, CarryInv, Counting, At
    <2>3. QED
      BY <2>0, <2>1, <2>2, RunMoves
  <1>4. ASSUME NEW w \in Workers, Companies(w) PROVE RunType'
    <2>0. Run' = Run
      BY <1>4, RunStays DEF Companies
    <2>1. \/ run' = [run EXCEPT ![w] = Idle]
          \/ run' = [run EXCEPT ![w] = [run[w] EXCEPT !.pc = "hit", !.todo = CountersOf[run[w].origin]]]
          \/ run' = [run EXCEPT ![w] = [run[w] EXCEPT !.pc = "key"]]
      BY <1>4 DEF Companies, Ends, Goes, RunType
    <2>2. /\ Idle \in Run'
          /\ [run[w] EXCEPT !.pc = "hit", !.todo = CountersOf[run[w].origin]] \in Run'
          /\ [run[w] EXCEPT !.pc = "key"] \in Run'
      BY <1>4, <2>0, IdleType, RunAt, CountersAre, ZenonT(60) DEF Companies, Ends, Goes, Run, Pcs
    <2>3. QED
      BY <2>0, <2>1, <2>2, RunMoves
  <1>5. ASSUME NEW w \in Workers, Hit(w) PROVE RunType'
    <2>0. Run' = Run
      BY <1>5, RunStays DEF Hit
    <2>1. \/ run' = [run EXCEPT ![w] = Idle]
          \/ run' = [run EXCEPT ![w] = [run[w] EXCEPT !.todo = Tail(run[w].todo), !.pc = "hit"]]
      BY <1>5 DEF Hit, Ends, NextCounter, At, RunType
    <2>2. /\ Idle \in Run'
          /\ [run[w] EXCEPT !.todo = Tail(run[w].todo), !.pc = "hit"] \in Run'
      BY <1>5, <2>0, IdleType, RunAt, TailOf, ZenonT(60) DEF Hit, Ends, NextCounter, At, Run, Pcs, CarryInv, Counting, At
    <2>3. QED
      BY <2>0, <2>1, <2>2, RunMoves
  <1>6. ASSUME NEW w \in Workers, CreateKey(w) PROVE RunType'
    <2>0. made' = made + 1 /\ issued' = issued /\ Run \subseteq Run' /\ made' \in 0..made'
      BY <1>6 DEF CreateKey, Run, KeysType
    <2>1. run' = [run EXCEPT ![w] = [run[w] EXCEPT !.pc = "me", !.key = made']]
      BY <1>6 DEF CreateKey, RunType
    <2>2. run[w] \in Run'
      BY <2>0, RunAt
    <2>3. "me" \in Pcs /\ made' \in 0..made'
      BY <2>0 DEF Pcs
    <2>4. [run[w] EXCEPT !.pc = "me", !.key = made'] \in Run'
      BY <2>2, <2>3, KeepsTypeWithKey, Zenon DEF Run
    <2>5. QED
      BY <2>0, <2>1, <2>4, RunMoves
  <1>7. ASSUME NEW w \in Workers, Me(w) PROVE RunType'
    <2>0. Run' = Run
      BY <1>7, RunStays DEF Me
    <2>1. \/ run' = [run EXCEPT ![w] = [run[w] EXCEPT !.admin = admin, !.pc = "store"]]
          \/ run' = [run EXCEPT ![w] = [run[w] EXCEPT !.admin = admin, !.pc = "undo"]]
          \/ run' = [run EXCEPT ![w] = [run[w] EXCEPT !.admin = admin, !.pc = "previous"]]
      BY <1>7 DEF Me, RunType
    <2>2. /\ [run[w] EXCEPT !.admin = admin, !.pc = "store"] \in Run'
          /\ [run[w] EXCEPT !.admin = admin, !.pc = "undo"] \in Run'
          /\ [run[w] EXCEPT !.admin = admin, !.pc = "previous"] \in Run'
      <3>1. run[w] \in Run /\ admin \in BOOLEAN
        BY RunAt DEF RestType
      <3>2. {"store", "undo", "previous"} \subseteq Pcs
        BY DEF Pcs
      <3>3. \A p \in Pcs : [run[w] EXCEPT !.admin = admin, !.pc = p] \in Run
        BY <3>1, KeepsTypeWithRole, Zenon DEF Run
      <3>4. QED
        BY <2>0, <3>1, <3>2, <3>3, Zenon
    <2>3. QED
      BY <2>0, <2>1, <2>2, RunMoves
  <1>8. ASSUME NEW w \in Workers, Undo(w) PROVE RunType'
    <2>0. Run' = Run
      BY <1>8, RunStays DEF Undo
    <2>1. run' = [run EXCEPT ![w] = Idle]
      BY <1>8 DEF Undo, Ends, RunType
    <2>2. Idle \in Run'
      BY <1>8, <2>0, IdleType, RunAt, ZenonT(60) DEF Undo, Ends, Run, Pcs
    <2>3. QED
      BY <2>0, <2>1, <2>2, RunMoves
  <1>9. ASSUME NEW w \in Workers, Previous(w) PROVE RunType'
    <2>0. Run' = Run
      BY <1>9, RunStays DEF Previous
    <2>1. run' = [run EXCEPT ![w] = [run[w] EXCEPT !.pc = "store", !.old = acct]]
      BY <1>9 DEF Previous, RunType
    <2>2. [run[w] EXCEPT !.pc = "store", !.old = acct] \in Run'
      <3>1. run[w] \in Run /\ acct \in 0..made /\ "store" \in Pcs
        BY RunAt DEF KeysType, Pcs
      <3>2. [run[w] EXCEPT !.pc = "store", !.old = acct] \in Run
        BY <3>1, KeepsTypeWithOld, Zenon DEF Run
      <3>3. QED
        BY <2>0, <3>2
    <2>3. QED
      BY <2>0, <2>1, <2>2, RunMoves
  <1>10. ASSUME NEW w \in Workers, Store(w) PROVE RunType'
    <2>1. /\ made' = made /\ issued' \in {issued, issued + 1} /\ Run \subseteq Run'
      BY <1>10 DEF Store, Upserted, Replaced, Run, KeysType
    <2>2. CASE SignsIn(w)
      <3>1. run' = [run EXCEPT ![w] = [run[w] EXCEPT !.pc = "old", !.old = row.key, !.id = row'.id]]
        BY <1>10, <2>2 DEF Store, RunType
      <3>2. row'.id \in 0..issued' /\ row.key \in 0..made'
        BY <1>10, <2>1, <2>2 DEF Store, Upserted, KeysType
      <3>3. [run[w] EXCEPT !.pc = "old", !.old = row.key, !.id = row'.id] \in Run'
        <4>1. run[w] \in Run'
          BY <2>1, RunAt
        <4>2. QED
          BY <3>2, <4>1, ZenonT(60) DEF Run, Pcs
      <3>4. QED
        BY <2>1, <3>1, <3>3, RunMoves
    <2>3. CASE ~SignsIn(w)
      <3>1. run' = [run EXCEPT ![w] = [run[w] EXCEPT !.pc = "old"]]
        BY <1>10, <2>3 DEF Store, Goes, RunType
      <3>2. [run[w] EXCEPT !.pc = "old"] \in Run'
        BY <2>1, RunAt, ZenonT(60) DEF Run, Pcs
      <3>3. QED
        BY <2>1, <3>1, <3>2, RunMoves
    <2>4. QED
      BY <2>2, <2>3
  <1>11. ASSUME NEW w \in Workers, DropOld(w) PROVE RunType'
    <2>0. Run' = Run
      BY <1>11, RunStays DEF DropOld
    <2>1. \/ run' = [run EXCEPT ![w] = Idle]
          \/ run' = [run EXCEPT ![w] = [run[w] EXCEPT !.pc = "open"]]
      BY <1>11 DEF DropOld, Ends, Goes, RunType
    <2>2. /\ Idle \in Run'
          /\ [run[w] EXCEPT !.pc = "open"] \in Run'
      BY <1>11, <2>0, IdleType, RunAt, ZenonT(60) DEF DropOld, Ends, Goes, Run, Pcs
    <2>3. QED
      BY <2>0, <2>1, <2>2, RunMoves
  <1>12. ASSUME NEW w \in Workers, Open(w) PROVE RunType'
    <2>0. Run \subseteq Run'
      BY <1>12 DEF Open, Run, KeysType
    <2>1. run' = [run EXCEPT ![w] = Idle]
      BY <1>12 DEF Open, Ends, RunType
    <2>2. Idle \in Run'
      BY <1>12, <2>0, IdleType, RunAt, ZenonT(60) DEF Open, Ends, Run, Pcs
    <2>3. QED
      BY <2>0, <2>1, <2>2, RunMoves
  <1>13. ASSUME NEW w \in Workers, NEW s \in sessions, Request(w, s) PROVE RunType'
    <2>0. Run' = Run
      BY <1>13, RunStays DEF Request
    <2> DEFINE r == [Idle EXCEPT !.pc = "row", !.n = s.n, !.id = s.id,
                                 !.live = s.id = row.id]
    <2>1. run' = [run EXCEPT ![w] = r]
      BY <1>13 DEF Request, Begins
    <2>2. s.n \in 0..made /\ s.id \in 0..issued /\ (s.id = row.id) \in BOOLEAN
      BY DEF SessionsType, KeysType
    <2>3. r \in Run'
      BY <2>0, <2>2, IdleType, ZenonT(60) DEF Run, Pcs
    <2>4. QED
      BY <2>0, <2>1, <2>3, RunMoves
  <1>14. ASSUME NEW w \in Workers, Row(w) PROVE RunType'
    <2>0. Run' = Run
      BY <1>14, RunStays DEF Row
    <2>1. \/ run' = [run EXCEPT ![w] = [run[w] EXCEPT !.pc = "check", !.key = row.key]]
          \/ run' = [run EXCEPT ![w] = [run[w] EXCEPT !.pc = "close"]]
      BY <1>14 DEF Row, Goes, RunType
    <2>2. /\ [run[w] EXCEPT !.pc = "check", !.key = row.key] \in Run'
          /\ [run[w] EXCEPT !.pc = "close"] \in Run'
      BY <1>14, <2>0, RunAt, ZenonT(60) DEF Run, Pcs, KeysType
    <2>3. QED
      BY <2>0, <2>1, <2>2, RunMoves
  <1>15. ASSUME NEW w \in Workers, Check(w) PROVE RunType'
    <2>0. Run' = Run
      BY <1>15, RunStays DEF Check
    <2>1. \/ run' = [run EXCEPT ![w] = [run[w] EXCEPT !.pc = "act"]]
          \/ run' = [run EXCEPT ![w] = [run[w] EXCEPT !.pc = "close"]]
      BY <1>15 DEF Check, Goes, RunType
    <2>2. /\ [run[w] EXCEPT !.pc = "act"] \in Run'
          /\ [run[w] EXCEPT !.pc = "close"] \in Run'
      BY <1>15, <2>0, RunAt, ZenonT(60) DEF Run, Pcs
    <2>3. QED
      BY <2>0, <2>1, <2>2, RunMoves
  <1>16. ASSUME NEW w \in Workers, Act(w) PROVE RunType'
    <2>0. Run' = Run
      BY <1>16, RunStays DEF Act
    <2>1. CASE run' = [run EXCEPT ![w] = Idle]
      BY <2>0, <2>1, IdleType, RunMoves
    <2>2. ASSUME NEW o \in Origins, run' = [run EXCEPT ![w].pc = "peek", ![w].origin = o,
                                              ![w].todo = CountersOf[o], ![w].key = 0]
          PROVE  RunType'
      <3>1. [run[w] EXCEPT !.pc = "peek", !.origin = o, !.todo = CountersOf[o], !.key = 0] \in Run'
        <4>1. run[w] \in Run' /\ CountersOf[o] \in Seq(Counters)
          BY <2>0, RunAt, CountersAre
        <4>2. 0 \in 0..made
          BY DEF KeysType
        <4>3. QED
          BY <2>0, <4>1, <4>2, RunAt, ZenonT(60) DEF Run, Pcs
      <3>2. run' = [run EXCEPT ![w] = [run[w] EXCEPT !.pc = "peek", !.origin = o,
                                                   !.todo = CountersOf[o], !.key = 0]]
        BY <2>2 DEF RunType
      <3>3. QED
        BY <2>0, <3>1, <3>2, RunMoves
    <2>3. CASE Goes(w, "close")
      <3>1. run' = [run EXCEPT ![w] = [run[w] EXCEPT !.pc = "close"]]
        BY <2>3 DEF Goes, RunType
      <3>2. [run[w] EXCEPT !.pc = "close"] \in Run'
        BY <2>0, RunAt, ZenonT(60) DEF Run, Pcs
      <3>3. QED
        BY <2>0, <3>1, <3>2, RunMoves
    <2>4. QED
      BY <1>16, <2>1, <2>2, <2>3 DEF Act, Ends
  <1>17. ASSUME NEW w \in Workers, DisconnectSelf(w) PROVE RunType'
    <2>0. Run' = Run
      BY <1>17, RunStays DEF DisconnectSelf
    <2> DEFINE r == [run[w] EXCEPT !.pc = "drop", !.who = row.id, !.old = row.key]
    <2>1. run' = [run EXCEPT ![w] = r]
      BY <1>17 DEF DisconnectSelf, Listed
    <2>2. r \in Run'
      BY <2>0, RunAt, ZenonT(60) DEF Run, Pcs, KeysType
    <2>3. QED
      BY <2>0, <2>1, <2>2, RunMoves
  <1>18. ASSUME NEW w \in Workers, Fails(w) PROVE RunType'
    BY <1>18, IdleType, RunStays DEF Fails, Ends, RunType
  <1>19. ASSUME NEW w \in Workers, FailsWithKey(w) PROVE RunType'
    <2>0. Run' = Run
      BY <1>19, RunStays DEF FailsWithKey
    <2>1. \/ run' = [run EXCEPT ![w] = Idle]
          \/ run' = [run EXCEPT ![w] = [run[w] EXCEPT !.pc = "undo"]]
      BY <1>19 DEF FailsWithKey, Ends, Goes, RunType
    <2>2. /\ Idle \in Run'
          /\ [run[w] EXCEPT !.pc = "undo"] \in Run'
      BY <1>19, <2>0, IdleType, RunAt, ZenonT(60) DEF FailsWithKey, Ends, Goes, Run, Pcs
    <2>3. QED
      BY <2>0, <2>1, <2>2, RunMoves
  <1>20. ASSUME NEW w \in Workers, StoreUnsure(w) PROVE RunType'
    <2>0. Run \subseteq Run'
      BY <1>20 DEF StoreUnsure, Upserted, Run, KeysType
    <2>1. \/ run' = [run EXCEPT ![w] = Idle]
          \/ run' = [run EXCEPT ![w] = [run[w] EXCEPT !.pc = "undo"]]
      BY <1>20 DEF StoreUnsure, Ends, Goes, RunType
    <2>2. [run[w] EXCEPT !.pc = "undo"] \in Run
      BY RunAt, ZenonT(60) DEF Run, Pcs
    <2>3. QED
      BY <2>0, <2>1, <2>2, IdleType, RunMoves
  <1>21. ASSUME NEW w \in Workers, DeletionFails(w) PROVE RunType'
    <2>0. Run' = Run
      BY <1>21, RunStays DEF DeletionFails
    <2>1. \/ run' = [run EXCEPT ![w] = Idle]
          \/ run' = [run EXCEPT ![w] = [run[w] EXCEPT !.pc = "open"]]
      BY <1>21 DEF DeletionFails, Ends, Goes, RunType
    <2>2. /\ Idle \in Run'
          /\ [run[w] EXCEPT !.pc = "open"] \in Run'
      BY <1>21, <2>0, IdleType, RunAt, ZenonT(60) DEF DeletionFails, Ends, Goes, Run, Pcs
    <2>3. QED
      BY <2>0, <2>1, <2>2, RunMoves
  <1>22. ASSUME NEW s \in sessions, Logout(s) PROVE RunType'
    BY <1>22, IdleType, RunStays DEF Logout, Closed, RunType
  <1>23. ASSUME NEW c \in Counters, LapseCount(c) PROVE RunType'
    BY <1>23, IdleType, RunStays DEF LapseCount, RunType
  <1>24. ASSUME NEW w \in Workers, Disconnect(w) PROVE RunType'
    <2>0. Run' = Run
      BY <1>24, RunStays DEF Disconnect
    <2> DEFINE r == [Idle EXCEPT !.pc = "drop", !.who = row.id, !.old = row.key]
    <2>1. run' = [run EXCEPT ![w] = r]
      BY <1>24 DEF Disconnect, Listed
    <2>2. r \in Run'
      BY <2>0, IdleType, ZenonT(60) DEF Run, Pcs, KeysType
    <2>3. QED
      BY <2>0, <2>1, <2>2, RunMoves
  <1>25. ASSUME SetAdmin PROVE RunType'
    BY <1>25, IdleType, RunStays DEF SetAdmin, RunType
  <1>26. ASSUME LapseCreds PROVE RunType'
    BY <1>26, IdleType, RunStays DEF LapseCreds, RunType
  <1>27. ASSUME Crash PROVE RunType'
    BY <1>27, IdleType, RunStays DEF Crash, RunType
  <1>28. ASSUME NEW w \in Workers, DropRow(w) PROVE RunType'
    <2>0. Run' = Run
      BY <1>28, RunStays DEF DropRow, Dropped
    <2>1. run' = [run EXCEPT ![w] = [run[w] EXCEPT !.pc = "revoke"]]
      BY <1>28 DEF DropRow, Goes, RunType
    <2>2. [run[w] EXCEPT !.pc = "revoke"] \in Run'
      BY <2>0, RunAt, ZenonT(60) DEF Run, Pcs
    <2>3. QED
      BY <2>0, <2>1, <2>2, RunMoves
  <1>29. ASSUME NEW w \in Workers, DropKey(w) PROVE RunType'
    <2>0. Run' = Run
      BY <1>29, RunStays DEF DropKey
    <2>1. \/ run' = [run EXCEPT ![w] = Idle]
          \/ run' = [run EXCEPT ![w] = [run[w] EXCEPT !.pc = "close"]]
      BY <1>29 DEF DropKey, Ends, Goes, RunType
    <2>2. Idle \in Run' /\ [run[w] EXCEPT !.pc = "close"] \in Run'
      BY <2>0, IdleType, RunAt, ZenonT(60) DEF Run, Pcs
    <2>3. QED
      BY <2>0, <2>1, <2>2, RunMoves
  <1>30. ASSUME NEW w \in Workers, DropUnsure(w) PROVE RunType'
    BY <1>30, IdleType, RunStays DEF DropUnsure, Dropped, Ends, RunType
  <1>31. ASSUME NEW w \in Workers, Close(w) PROVE RunType'
    BY <1>31, IdleType, RunStays DEF Close, Ends, RunType
  <1>32. QED
    BY <1>1, <1>2, <1>3, <1>4, <1>5, <1>6, <1>7, <1>8, <1>9, <1>10, <1>11, <1>12, <1>13, <1>14,
       <1>15, <1>16, <1>17, <1>18, <1>19, <1>20, <1>21, <1>22, <1>23, <1>24, <1>25, <1>26, <1>27,
       <1>28, <1>29, <1>30, <1>31
       DEF Next, Signing, Paging, Breaking

-----------------------------------------------------------------------------
(* Where a request goes *)

\* All but one request stay where they are; one keeps its locals, but for the counters.
Others(w) == \A v \in Workers \ {w} : run'[v] = run[v]
Keeps(w) ==
  /\ run'[w].n = run[w].n /\ run'[w].id = run[w].id /\ run'[w].live = run[w].live
  /\ run'[w].origin = run[w].origin /\ run'[w].old = run[w].old /\ run'[w].who = run[w].who

LEMMA RunFields ==
  ASSUME RunType, NEW w \in Workers
  PROVE  run[w].pc \in Pcs /\ run[w].origin \in Origins /\ run[w].todo \in Seq(Counters)
  BY DEF RunType, Run

LEMMA RunNumbers ==
  ASSUME KeysType, RunType
  PROVE  \A w \in Workers : /\ run[w].key <= made /\ run[w].key \in Nat
                            /\ run[w].old <= made /\ run[w].old \in Nat
                            /\ run[w].id <= issued /\ run[w].id \in Nat
                            /\ run[w].n <= made /\ run[w].n \in Nat
                            /\ run[w].who <= issued /\ run[w].who \in Nat
  BY DEF KeysType, RunType, Run

LEMMA KeyNumbers ==
  ASSUME KeysType
  PROVE  /\ made \in Nat /\ issued \in Nat
         /\ row.key <= made /\ row.key \in Nat /\ acct <= made /\ acct \in Nat
         /\ row.id <= issued /\ row.id \in Nat /\ 0 \notin keys
  BY DEF KeysType

LEMMA SessionNumbers ==
  ASSUME SessionsType
  PROVE  /\ \A s \in sessions : s.n \in Nat \ {0} /\ s.id \in Nat \ {0} /\ s.n <= made
         /\ \A s, t \in sessions : s.n = t.n => s = t
  BY DEF SessionsType

LEMMA EndsDoes ==
  ASSUME RunType, NEW w \in Workers, Ends(w)
  PROVE  Others(w) /\ run'[w] = Idle
  BY DEF RunType, Ends, Others

LEMMA GoesDoes ==
  ASSUME RunType, NEW w \in Workers, NEW pc, Goes(w, pc)
  PROVE  /\ Others(w) /\ Keeps(w) /\ run'[w].pc = pc /\ run'[w].todo = run[w].todo
         /\ run'[w].key = run[w].key /\ run'[w].old = run[w].old
  BY DEF RunType, Run, Goes, Others, Keeps

LEMMA NextDoes ==
  ASSUME RunType, NEW w \in Workers, NEW after, NextCounter(w, after)
  PROVE  /\ Others(w) /\ Keeps(w) /\ run'[w].todo = Tail(run[w].todo)
         /\ run'[w].pc = IF Len(run[w].todo) = 1 THEN after ELSE run[w].pc
  BY DEF RunType, Run, NextCounter, Others, Keeps

LEMMA SubmitDoes ==
  ASSUME RunType, NEW w \in Workers, NEW o \in Origins, Submit(w, o)
  PROVE  /\ run[w].pc = "idle" /\ Others(w)
         /\ run'[w].pc = "peek" /\ run'[w].origin = o /\ run'[w].todo = CountersOf[o]
         /\ run'[w].old = 0 /\ UNCHANGED <<yougile, postgres, cookies, attempts, made>>
  <1>1. /\ run' = [run EXCEPT ![w] = Trying(o)] /\ run[w].pc = "idle"
        /\ UNCHANGED <<yougile, postgres, cookies, attempts, made>>
    BY DEF Submit, Begins, At
  <1>2. /\ Trying(o).pc = "peek" /\ Trying(o).origin = o /\ Trying(o).todo = CountersOf[o]
        /\ Trying(o).old = 0
    BY DEF Trying, Idle
  <1>3. QED
    BY <1>1, <1>2 DEF RunType, Others

LEMMA ChooseDoes ==
  ASSUME RunType, NEW w \in Workers, NEW o \in Origins, Choose(w, o)
  PROVE  /\ run[w].pc = "idle" /\ Others(w) /\ run'[w].pc = "key" /\ run'[w].n = 0
         /\ run'[w].old = 0 /\ UNCHANGED <<yougile, postgres, cookies, attempts, made>>
  <1> DEFINE r == [Idle EXCEPT !.pc = "key", !.origin = o]
  <1>1. /\ run' = [run EXCEPT ![w] = r] /\ run[w].pc = "idle"
        /\ UNCHANGED <<yougile, postgres, cookies, attempts, made>>
    BY DEF Choose, Begins, At
  <1>2. r.pc = "key" /\ r.n = 0 /\ r.old = 0
    BY DEF Idle
  <1>3. QED
    BY <1>1, <1>2 DEF RunType, Others

LEMMA RequestDoes ==
  ASSUME RunType, NEW w \in Workers, NEW s \in sessions, Request(w, s)
  PROVE  /\ run[w].pc = "idle" /\ Others(w)
         /\ run'[w].pc = "row" /\ run'[w].n = s.n /\ run'[w].id = s.id
         /\ run'[w].live = (s.id = row.id) /\ run'[w].old = 0
         /\ UNCHANGED <<yougile, postgres, cookies, attempts, made>>
  <1> DEFINE live == s.id = row.id
  <1> DEFINE r == [Idle EXCEPT !.pc = "row", !.n = s.n, !.id = s.id, !.live = live]
  <1>1. /\ run' = [run EXCEPT ![w] = r] /\ run[w].pc = "idle"
        /\ UNCHANGED <<yougile, postgres, cookies, attempts, made>>
    BY DEF Request, Begins, At
  <1> HIDE DEF live
  <1>2. r.pc = "row" /\ r.n = s.n /\ r.id = s.id /\ r.live = live /\ r.old = 0
    BY DEF Idle
  <1>3. run'[w] = r /\ Others(w)
    BY <1>1 DEF RunType, Others
  <1>4. QED
    BY <1>1, <1>2, <1>3 DEF live

\* YouGile says no, or the request ends, or it goes on.
LEMMA CompaniesDoes ==
  ASSUME RunType, NEW w \in Workers, Companies(w)
  PROVE  /\ run[w].pc = "companies" /\ Others(w)
         /\ \/ /\ run'[w].pc = "hit" /\ run'[w].todo = CountersOf[run[w].origin] /\ Keeps(w)
               /\ failed' = [c \in Counters |->
                    failed[c] + IF Concerned(c, run[w].origin) THEN 1 ELSE 0]
            \/ run'[w] = Idle /\ failed' = failed
            \/ run'[w].pc = "key" /\ Keeps(w) /\ failed' = failed
         /\ UNCHANGED <<yougile, postgres, sessions, count, made>>
  <1>1. run[w].pc = "companies" /\ UNCHANGED <<yougile, postgres, sessions, count, made>>
    BY DEF Companies, At
  <1>2. ASSUME Ends(w) \/ Goes(w, "key")
        PROVE  Others(w) /\ (run'[w] = Idle \/ (run'[w].pc = "key" /\ Keeps(w)))
    <2>1. CASE Ends(w)
      BY <2>1, EndsDoes
    <2>2. CASE Goes(w, "key")
      BY <2>2, GoesDoes
    <2>3. QED
      BY <1>2, <2>1, <2>2
  <1>3. ASSUME run' = [run EXCEPT ![w].pc = "hit", ![w].todo = CountersOf[run[w].origin]]
        PROVE  /\ Others(w) /\ Keeps(w)
               /\ run'[w].pc = "hit" /\ run'[w].todo = CountersOf[run[w].origin]
    BY <1>3 DEF RunType, Run, Others, Keeps
  <1>4. QED
    BY <1>1, <1>2, <1>3 DEF Companies

LEMMA CreateKeyDoes ==
  ASSUME RunType, NEW w \in Workers, CreateKey(w)
  PROVE  /\ run[w].pc = "key" /\ Others(w) /\ Keeps(w)
         /\ run'[w].pc = "me" /\ run'[w].key = made' /\ run'[w].old = run[w].old
         /\ made' = made + 1 /\ keys' = keys \cup {made'}
         /\ UNCHANGED <<admin, stranded, postgres, cookies, attempts>>
  BY DEF CreateKey, RunType, Run, Others, Keeps, At

LEMMA MeDoes ==
  ASSUME RunType, NEW w \in Workers, Me(w)
  PROVE  /\ run[w].pc = "me" /\ Others(w)
         /\ run'[w].pc \in {"store", "undo", "previous"} /\ run'[w].key = run[w].key
         /\ run'[w].old = run[w].old /\ run'[w].n = run[w].n
         /\ UNCHANGED <<yougile, postgres, cookies, attempts, made>>
  BY DEF Me, RunType, Run, Others, At

LEMMA PreviousDoes ==
  ASSUME RunType, NEW w \in Workers, Previous(w)
  PROVE  /\ run[w].pc = "previous" /\ Others(w) /\ run'[w].n = run[w].n
         /\ run'[w].pc = "store" /\ run'[w].key = run[w].key /\ run'[w].old = acct
         /\ UNCHANGED <<yougile, postgres, cookies, attempts, made>>
  BY DEF Previous, RunType, Run, Others, Keeps, At

LEMMA StoreDoes ==
  ASSUME RunType, NEW w \in Workers, Store(w)
  PROVE  /\ run[w].pc = "store" /\ Others(w) /\ run'[w].pc = "old" /\ run'[w].n = run[w].n
         /\ \/ /\ SignsIn(w) /\ Upserted(w) /\ stranded' = stranded
               /\ run'[w].old = row.key /\ run'[w].id = row'.id
            \/ /\ ~SignsIn(w) /\ Replaced(w)
               /\ run'[w].old = run[w].old /\ run'[w].id = run[w].id
         /\ UNCHANGED <<admin, keys, cookies, attempts, made>>
  <1>1. run[w].pc = "store" /\ UNCHANGED <<admin, keys, cookies, attempts, made>>
    BY DEF Store, At
  <1>2. CASE SignsIn(w)
    BY <1>1, <1>2 DEF Store, RunType, Run, Others
  <1>3. CASE ~SignsIn(w)
    BY <1>1, <1>3, GoesDoes DEF Store, Keeps
  <1>4. QED
    BY <1>2, <1>3

LEMMA RowDoes ==
  ASSUME RunType, NEW w \in Workers, Row(w)
  PROVE  /\ run[w].pc = "row" /\ Others(w) /\ Keeps(w)
         /\ \/ /\ row.id = run[w].id /\ row.admin
               /\ run'[w].pc = "check" /\ run'[w].key = row.key
            \/ ~(row.id = run[w].id /\ row.admin) /\ run'[w].pc = "close"
         /\ UNCHANGED <<yougile, postgres, cookies, attempts, made>>
  <1>1. run[w].pc = "row" /\ UNCHANGED <<yougile, postgres, cookies, attempts, made>>
    BY DEF Row, At
  <1>2. CASE row.id = run[w].id /\ row.admin
    BY <1>1, <1>2 DEF Row, RunType, Run, Others, Keeps
  <1>3. CASE ~(row.id = run[w].id /\ row.admin)
    BY <1>1, <1>3, GoesDoes DEF Row
  <1>4. QED
    BY <1>2, <1>3

LEMMA ActDoes ==
  ASSUME RunType, NEW w \in Workers, Act(w)
  PROVE  /\ run[w].pc = "act" /\ Others(w)
         /\ \/ run'[w] = Idle
            \/ run[w].key \notin keys /\ run'[w].pc = "close" /\ Keeps(w)
            \/ \E o \in Origins : /\ run'[w].pc = "peek" /\ run'[w].todo = CountersOf[o]
                                  /\ run'[w].origin = o /\ run'[w].n = run[w].n
                                  /\ run'[w].old = run[w].old
         /\ UNCHANGED <<yougile, postgres, cookies, attempts, made>>
  <1>1. run[w].pc = "act" /\ UNCHANGED <<yougile, postgres, cookies, attempts, made>>
    BY DEF Act, At
  <1>2. CASE Ends(w)
    BY <1>1, <1>2, EndsDoes
  <1>3. ASSUME NEW o \in Origins,
               run' = [run EXCEPT ![w].pc = "peek", ![w].origin = o, ![w].todo = CountersOf[o],
                                  ![w].key = 0]
        PROVE  /\ Others(w) /\ run'[w].pc = "peek" /\ run'[w].todo = CountersOf[o]
               /\ run'[w].origin = o /\ run'[w].n = run[w].n /\ run'[w].old = run[w].old
    BY <1>3 DEF RunType, Run, Others
  <1>4. CASE run[w].key \notin keys /\ Goes(w, "close")
    BY <1>1, <1>4, GoesDoes
  <1>5. QED
    BY <1>1, <1>2, <1>3, <1>4 DEF Act

LEMMA HeadAmong ==
  ASSUME NEW S, NEW s \in Seq(S), s # <<>>
  PROVE  Among(Head(s), s)
  <1>1. Head(s) = s[1] /\ 1 \in DOMAIN s
    OBVIOUS
  <1>2. QED
    BY <1>1 DEF Among

\* The next counter of a request is looked at, or added to.

LEMMA PeekDoes ==
  ASSUME RunType, RestType, CarryInv, NEW w \in Workers, Peek(w), NEW c, c = Head(run[w].todo)
  PROVE  /\ run[w].pc = "peek" /\ Others(w)
         /\ c \in Counters /\ Among(c, run[w].todo)
         /\ \/ run'[w] = Idle
            \/ /\ Distinct(run'[w].todo) /\ Keeps(w)
               /\ \A d : Among(d, run'[w].todo) <=> Among(d, run[w].todo) /\ d # c
               /\ count[c] < Limit[c]
               /\ \/ run'[w].pc = "peek" /\ run'[w].todo # <<>>
                  \/ run'[w].pc = "companies" /\ \A d : ~Among(d, run'[w].todo)
         /\ UNCHANGED <<yougile, postgres, cookies, attempts, made>>
  <1> DEFINE s == run[w].todo
  <1>1. run[w].pc = "peek" /\ UNCHANGED <<yougile, postgres, cookies, attempts, made>>
    BY DEF Peek, At
  <1>2. s \in Seq(Counters) /\ s # <<>> /\ Distinct(s)
    BY <1>1, RunFields DEF CarryInv, Counting
  <1>3. /\ c \in Counters /\ Distinct(Tail(s)) /\ Among(c, s)
        /\ Len(s) # 1 => Tail(s) # <<>>
        /\ Len(s) = 1 => \A d : ~Among(d, Tail(s))
        /\ \A d : Among(d, Tail(s)) <=> Among(d, s) /\ d # c
    BY <1>2, TailOf, HeadAmong
  <1>4. CASE count[c] >= Limit[c]
    <2>1. Ends(w)
      BY <1>3, <1>4 DEF Peek
    <2>2. Others(w) /\ run'[w] = Idle
      BY <2>1, EndsDoes
    <2>3. QED
      BY <1>1, <1>3, <1>4, <2>2
  <1>5. CASE ~(count[c] >= Limit[c])
    <2>1. NextCounter(w, "companies")
      BY <1>5 DEF Peek
    <2>2. /\ Others(w) /\ Keeps(w) /\ run'[w].todo = Tail(s)
          /\ run'[w].pc = IF Len(s) = 1 THEN "companies" ELSE run[w].pc
      BY <2>1, NextDoes
    <2>3. count[c] < Limit[c]
      BY <1>3, <1>5, ConstantsAssumption DEF RestType
    <2>4. QED
      BY <1>1, <1>3, <1>5, <2>2, <2>3
  <1>6. QED
    BY <1>4, <1>5

LEMMA HitDoes ==
  ASSUME RunType, RestType, CarryInv, NEW w \in Workers, Hit(w), NEW c, c = Head(run[w].todo)
  PROVE  /\ run[w].pc = "hit" /\ Others(w)
         /\ c \in Counters /\ Among(c, run[w].todo)
         /\ count' = [count EXCEPT ![c] = count[c] + 1]
         /\ \/ run'[w] = Idle /\ \A d : Among(d, run[w].todo) => d = c
            \/ /\ Distinct(run'[w].todo) /\ Keeps(w)
               /\ \A d : Among(d, run'[w].todo) <=> Among(d, run[w].todo) /\ d # c
               /\ run'[w].pc = "hit" /\ run'[w].todo # <<>>
         /\ UNCHANGED <<yougile, postgres, cookies, failed, made>>
  <1> DEFINE s == run[w].todo
  <1>1. run[w].pc = "hit" /\ UNCHANGED <<yougile, postgres, cookies, failed, made>>
         /\ count' = [count EXCEPT ![c] = count[c] + 1]
    BY DEF Hit, At
  <1>2. s \in Seq(Counters) /\ s # <<>> /\ Distinct(s)
    BY <1>1, RunFields DEF CarryInv, Counting
  <1>3. /\ c \in Counters /\ Distinct(Tail(s)) /\ Among(c, s)
        /\ Len(s) # 1 => Tail(s) # <<>>
        /\ Len(s) = 1 => \A d : ~Among(d, Tail(s))
        /\ \A d : Among(d, Tail(s)) <=> Among(d, s) /\ d # c
    BY <1>2, TailOf, HeadAmong
  <1>4. CASE Len(run[w].todo) = 1
    <2>1. Ends(w)
      BY <1>3, <1>4 DEF Hit
    <2>2. Others(w) /\ run'[w] = Idle
      BY <2>1, EndsDoes
    <2>3. QED
      BY <1>1, <1>3, <1>4, <2>2
  <1>5. CASE ~(Len(run[w].todo) = 1)
    <2>1. NextCounter(w, "hit")
      BY <1>5 DEF Hit
    <2>2. /\ Others(w) /\ Keeps(w) /\ run'[w].todo = Tail(s)
          /\ run'[w].pc = IF Len(s) = 1 THEN "hit" ELSE run[w].pc
      BY <2>1, NextDoes
    <2>4. QED
      BY <1>1, <1>3, <1>5, <2>2
  <1>6. QED
    BY <1>4, <1>5

LEMMA UndoDoes ==
  ASSUME RunType, NEW w \in Workers, Undo(w)
  PROVE  /\ run[w].pc = "undo" /\ Others(w) /\ run'[w] = Idle /\ keys' = keys \ {run[w].key}
         /\ UNCHANGED <<admin, stranded, postgres, sessions, attempts, made>>
  BY EndsDoes DEF Undo, At

LEMMA DropOldDoes ==
  ASSUME RunType, NEW w \in Workers, DropOld(w)
  PROVE  /\ run[w].pc = "old" /\ Others(w) /\ keys' = keys \ {run[w].old}
         /\ \/ run'[w] = Idle
            \/ run[w].n = 0 /\ run'[w].pc = "open" /\ Keeps(w)
         /\ UNCHANGED <<admin, stranded, postgres, sessions, attempts, made>>
  <1>1. /\ run[w].pc = "old" /\ keys' = keys \ {run[w].old}
        /\ UNCHANGED <<admin, stranded, postgres, sessions, attempts, made>>
    BY DEF DropOld, At
  <1>2. Ends(w) \/ (run[w].n = 0 /\ Goes(w, "open"))
    BY DEF DropOld, SignsIn
  <1>3. QED
    BY <1>1, <1>2, EndsDoes, GoesDoes

LEMMA OpenDoes ==
  ASSUME RunType, NEW w \in Workers, Open(w)
  PROVE  /\ run[w].pc = "open" /\ Others(w) /\ run'[w] = Idle /\ made' = made + 1
         /\ sessions' = sessions \cup {[n |-> made', id |-> run[w].id]}
         /\ UNCHANGED <<yougile, postgres, attempts>>
  BY EndsDoes DEF Open, At

\* Without a key, or without rights, the session is to end; else the page is done.
LEMMA CheckDoes ==
  ASSUME RunType, NEW w \in Workers, Check(w)
  PROVE  /\ run[w].pc = "check" /\ Others(w) /\ Keeps(w)
         /\ \/ (run[w].key \notin keys \/ ~admin) /\ run'[w].pc = "close"
            \/ run'[w].pc = "act"
         /\ UNCHANGED <<yougile, postgres, cookies, attempts, made>>
  <1>1. run[w].pc = "check" /\ UNCHANGED <<yougile, postgres, cookies, attempts, made>>
    BY DEF Check, At
  <1>2. CASE run[w].key \in keys /\ admin
    BY <1>1, <1>2, GoesDoes DEF Check
  <1>3. CASE ~(run[w].key \in keys /\ admin)
    BY <1>1, <1>3, GoesDoes DEF Check
  <1>4. QED
    BY <1>2, <1>3

LEMMA CloseDoes ==
  ASSUME RunType, NEW w \in Workers, Close(w)
  PROVE  /\ run[w].pc = "close" /\ Others(w) /\ run'[w] = Idle
         /\ sessions' \subseteq sessions
         /\ UNCHANGED <<yougile, postgres, creds, attempts, made>>
  BY EndsDoes DEF Close, Closed, At

\* A disconnect begins with the row as it is.
LEMMA DisconnectDoes ==
  ASSUME RunType, NEW w \in Workers, Disconnect(w)
  PROVE  /\ run[w].pc = "idle" /\ Others(w) /\ row.id # 0
         /\ run'[w].pc = "drop" /\ run'[w].who = row.id /\ run'[w].old = row.key
         /\ UNCHANGED <<yougile, postgres, cookies, attempts, made>>
  <1> DEFINE r == [Idle EXCEPT !.pc = "drop", !.who = row.id, !.old = row.key]
  <1>1. /\ run' = [run EXCEPT ![w] = r] /\ run[w].pc = "idle" /\ row.id # 0
        /\ UNCHANGED <<yougile, postgres, cookies, attempts, made>>
    BY DEF Disconnect, Listed, At
  <1>2. r.pc = "drop" /\ r.who = row.id /\ r.old = row.key
    BY DEF Idle
  <1>3. QED
    BY <1>1, <1>2 DEF RunType, Others

LEMMA DisconnectSelfDoes ==
  ASSUME RunType, NEW w \in Workers, DisconnectSelf(w)
  PROVE  /\ run[w].pc = "act" /\ Others(w) /\ row.id # 0
         /\ run'[w].pc = "drop" /\ run'[w].who = row.id /\ run'[w].old = row.key
         /\ UNCHANGED <<yougile, postgres, cookies, attempts, made>>
  <1> DEFINE r == [run[w] EXCEPT !.pc = "drop", !.who = row.id, !.old = row.key]
  <1>1. /\ run' = [run EXCEPT ![w] = r] /\ run[w].pc = "act" /\ row.id # 0
        /\ UNCHANGED <<yougile, postgres, cookies, attempts, made>>
    BY DEF DisconnectSelf, Listed, At
  <1>2. r.pc = "drop" /\ r.who = row.id /\ r.old = row.key
    BY RunAt DEF Run
  <1>3. QED
    BY <1>1, <1>2 DEF RunType, Others

\* The row goes with the key that is in it by now, or was gone before.
LEMMA DropRowDoes ==
  ASSUME RunType, NEW w \in Workers, DropRow(w)
  PROVE  /\ run[w].pc = "drop" /\ Others(w) /\ Keeps(w) /\ run'[w].pc = "revoke"
         /\ \/ /\ row.id = run[w].who /\ row' = NoRow /\ UNCHANGED <<issued, acct>>
               /\ stranded' = stranded \cup ({row.key} \ {run[w].old})
            \/ row.id # run[w].who /\ UNCHANGED <<postgres, stranded>>
         /\ UNCHANGED <<admin, keys, cookies, attempts, made>>
  <1>1. /\ run[w].pc = "drop" /\ Goes(w, "revoke")
        /\ UNCHANGED <<admin, keys, cookies, attempts, made>>
    BY DEF DropRow, At
  <1>2. CASE row.id = run[w].who
    BY <1>1, <1>2, GoesDoes DEF DropRow, Dropped
  <1>3. CASE row.id # run[w].who
    BY <1>1, <1>3, GoesDoes DEF DropRow
  <1>4. QED
    BY <1>2, <1>3

LEMMA DropKeyDoes ==
  ASSUME RunType, NEW w \in Workers, DropKey(w)
  PROVE  /\ run[w].pc = "revoke" /\ Others(w)
         /\ \/ keys' = keys \ {run[w].old} /\ stranded' = stranded
            \/ keys' = keys /\ stranded' = stranded \cup {run[w].old}
         /\ \/ run'[w] = Idle
            \/ run[w].who = run[w].id /\ run'[w].pc = "close" /\ Keeps(w)
         /\ UNCHANGED <<admin, postgres, cookies, attempts, made>>
  <1>1. /\ run[w].pc = "revoke" /\ UNCHANGED <<admin, postgres, cookies, attempts, made>>
        /\ \/ keys' = keys \ {run[w].old} /\ stranded' = stranded
           \/ keys' = keys /\ stranded' = stranded \cup {run[w].old}
    BY DEF DropKey, At
  <1>2. CASE run[w].who = run[w].id
    BY <1>1, <1>2, GoesDoes DEF DropKey
  <1>3. CASE run[w].who # run[w].id
    BY <1>1, <1>3, EndsDoes DEF DropKey
  <1>4. QED
    BY <1>2, <1>3

LEMMA DropUnsureDoes ==
  ASSUME RunType, NEW w \in Workers, DropUnsure(w)
  PROVE  /\ run[w].pc = "drop" /\ Others(w) /\ run'[w] = Idle
         /\ row.id = run[w].who /\ row' = NoRow /\ UNCHANGED <<issued, acct>>
         /\ stranded' = stranded \cup {row.key}
         /\ UNCHANGED <<admin, keys, cookies, attempts, made>>
  BY EndsDoes DEF DropUnsure, Dropped, At

LEMMA FailsDoes ==
  ASSUME RunType, NEW w \in Workers, Fails(w)
  PROVE  /\ run[w].pc \in Unhurt /\ Others(w) /\ run'[w] = Idle
         /\ UNCHANGED <<yougile, postgres, sessions, attempts, made>>
  BY EndsDoes DEF Fails

LEMMA FailsWithKeyDoes ==
  ASSUME RunType, NEW w \in Workers, FailsWithKey(w)
  PROVE  /\ run[w].pc \in {"me", "previous", "store"} /\ Others(w)
         /\ \/ /\ run'[w].pc = "undo" /\ Keeps(w) /\ run'[w].key = run[w].key
               /\ stranded' = stranded
            \/ run'[w] = Idle /\ stranded' = stranded \cup {run[w].key}
         /\ UNCHANGED <<admin, keys, postgres, cookies, attempts, made>>
  BY EndsDoes, GoesDoes DEF FailsWithKey

\* The key is in use from here on, whatever the request does with it.
LEMMA StoreUnsureDoes ==
  ASSUME RunType, NEW w \in Workers, StoreUnsure(w)
  PROVE  /\ run[w].pc = "store" /\ Others(w)
         /\ \/ /\ Upserted(w) /\ run'[w].pc = "undo" /\ Keeps(w) /\ run'[w].key = run[w].key
               /\ stranded' = stranded \cup ({row.key} \ {0})
            \/ /\ acct' = run[w].key /\ run'[w] = Idle /\ UNCHANGED <<row, issued>>
               /\ stranded' = stranded \cup ({acct} \ {0})
         /\ UNCHANGED <<admin, keys, cookies, attempts, made>>
  BY EndsDoes, GoesDoes DEF StoreUnsure, At

LEMMA DeletionFailsDoes ==
  ASSUME RunType, NEW w \in Workers, DeletionFails(w)
  PROVE  /\ Others(w)
         /\ \/ /\ run[w].pc = "undo" /\ run'[w] = Idle
               /\ stranded' = stranded \cup ({run[w].key} \ {0})
            \/ /\ run[w].pc = "old" /\ stranded' = stranded \cup ({run[w].old} \ {0})
               /\ \/ run'[w] = Idle
                  \/ run[w].n = 0 /\ run'[w].pc = "open" /\ Keeps(w)
         /\ UNCHANGED <<admin, keys, postgres, sessions, attempts, made>>
  <1>1. UNCHANGED <<admin, keys, postgres, sessions, attempts, made>>
    BY DEF DeletionFails
  <1>2. CASE run[w].pc = "undo"
    BY <1>1, <1>2, EndsDoes DEF DeletionFails, At
  <1>3. CASE run[w].pc = "old"
    <2>1. stranded' = stranded \cup ({run[w].old} \ {0})
      BY <1>3 DEF DeletionFails, At
    <2>2. Ends(w) \/ (run[w].n = 0 /\ Goes(w, "open"))
      BY DEF DeletionFails, SignsIn
    <2>3. QED
      BY <1>1, <1>3, <2>1, <2>2, EndsDoes, GoesDoes
  <1>4. QED
    BY <1>2, <1>3 DEF DeletionFails

LEMMA CrashDoes ==
  ASSUME Crash
  PROVE  /\ \A w \in Workers : run'[w] = Idle
         /\ stranded' = stranded \cup ((UNION {InHand(w) : w \in Workers}) \cap keys)
         /\ UNCHANGED <<admin, keys, postgres, cookies, attempts, made>>
  BY DEF Crash

-----------------------------------------------------------------------------
(* What requests carry *)

\* Every step keeps what requests carry.
LEMMA CarryStep ==
  ASSUME KeysType, SessionsType, RestType, RunType, CarryInv, Next
  PROVE  CarryInv'
  <1> USE DEF CarryInv, WithKey, Counting, OnPage, At, SignsIn, Others, Keeps, yougile,
              postgres, cookies, attempts
  <1>1. ASSUME NEW w \in Workers, NEW o \in Origins, Submit(w, o) PROVE CarryInv'
    BY <1>1, IdleIs, SubmitDoes, CountersAre
  <1>2. ASSUME NEW w \in Workers, NEW o \in Origins, Choose(w, o) PROVE CarryInv'
    BY <1>2, IdleIs, ChooseDoes
  <1>3. ASSUME NEW w \in Workers, Peek(w) PROVE CarryInv'
    BY <1>3, IdleIs, PeekDoes
  <1>4. ASSUME NEW w \in Workers, Companies(w) PROVE CarryInv'
    BY <1>4, IdleIs, CompaniesDoes, CountersAre, RunFields
  <1>5. ASSUME NEW w \in Workers, Hit(w) PROVE CarryInv'
    BY <1>5, IdleIs, HitDoes
  <1>6. ASSUME NEW w \in Workers, CreateKey(w) PROVE CarryInv'
    BY <1>6, IdleIs, CreateKeyDoes, KeyNumbers
  <1>7. ASSUME NEW w \in Workers, Me(w) PROVE CarryInv'
    BY <1>7, IdleIs, MeDoes
  <1>8. ASSUME NEW w \in Workers, Undo(w) PROVE CarryInv'
    BY <1>8, IdleIs, UndoDoes
  <1>9. ASSUME NEW w \in Workers, Previous(w) PROVE CarryInv'
    BY <1>9, IdleIs, PreviousDoes
  <1>10. ASSUME NEW w \in Workers, Store(w) PROVE CarryInv'
    BY <1>10, IdleIs, StoreDoes, KeyNumbers DEF Upserted, Replaced
  <1>11. ASSUME NEW w \in Workers, DropOld(w) PROVE CarryInv'
    BY <1>11, IdleIs, DropOldDoes
  <1>12. ASSUME NEW w \in Workers, Open(w) PROVE CarryInv'
    BY <1>12, IdleIs, OpenDoes
  <1>13. ASSUME NEW w \in Workers, NEW s \in sessions, Request(w, s) PROVE CarryInv'
    BY <1>13, IdleIs, RequestDoes, SessionNumbers
  <1>14. ASSUME NEW w \in Workers, Row(w) PROVE CarryInv'
    BY <1>14, IdleIs, RowDoes
  <1>15. ASSUME NEW w \in Workers, Check(w) PROVE CarryInv'
    BY <1>15, IdleIs, CheckDoes
  <1>16. ASSUME NEW w \in Workers, Act(w) PROVE CarryInv'
    BY <1>16, IdleIs, ActDoes, CountersAre
  <1>17. ASSUME NEW w \in Workers, DisconnectSelf(w) PROVE CarryInv'
    BY <1>17, IdleIs, DisconnectSelfDoes, KeyNumbers DEF KeysType
  <1>18. ASSUME NEW w \in Workers, Fails(w) PROVE CarryInv'
    BY <1>18, IdleIs, FailsDoes
  <1>19. ASSUME NEW w \in Workers, FailsWithKey(w) PROVE CarryInv'
    BY <1>19, IdleIs, FailsWithKeyDoes
  <1>20. ASSUME NEW w \in Workers, StoreUnsure(w) PROVE CarryInv'
    BY <1>20, IdleIs, StoreUnsureDoes DEF Upserted
  <1>21. ASSUME NEW w \in Workers, DeletionFails(w) PROVE CarryInv'
    BY <1>21, IdleIs, DeletionFailsDoes
  <1>22. ASSUME NEW s \in sessions, Logout(s) PROVE CarryInv'
    BY <1>22 DEF Logout, Closed
  <1>23. ASSUME NEW c \in Counters, LapseCount(c) PROVE CarryInv'
    BY <1>23 DEF LapseCount
  <1>24. ASSUME NEW w \in Workers, Disconnect(w) PROVE CarryInv'
    BY <1>24, IdleIs, DisconnectDoes, KeyNumbers DEF KeysType
  <1>25. ASSUME SetAdmin PROVE CarryInv'
    BY <1>25 DEF SetAdmin
  <1>26. ASSUME LapseCreds PROVE CarryInv'
    BY <1>26 DEF LapseCreds
  <1>27. ASSUME Crash PROVE CarryInv'
    BY <1>27, IdleIs, CrashDoes
  <1>28. ASSUME NEW w \in Workers, DropRow(w) PROVE CarryInv'
    BY <1>28, IdleIs, DropRowDoes
  <1>29. ASSUME NEW w \in Workers, DropKey(w) PROVE CarryInv'
    BY <1>29, IdleIs, DropKeyDoes
  <1>30. ASSUME NEW w \in Workers, DropUnsure(w) PROVE CarryInv'
    BY <1>30, IdleIs, DropUnsureDoes
  <1>31. ASSUME NEW w \in Workers, Close(w) PROVE CarryInv'
    BY <1>31, IdleIs, CloseDoes
  <1>32. QED
    BY <1>1, <1>2, <1>3, <1>4, <1>5, <1>6, <1>7, <1>8, <1>9, <1>10, <1>11, <1>12, <1>13, <1>14,
       <1>15, <1>16, <1>17, <1>18, <1>19, <1>20, <1>21, <1>22, <1>23, <1>24, <1>25, <1>26, <1>27,
       <1>28, <1>29, <1>30, <1>31
       DEF Next, Signing, Paging, Breaking

-----------------------------------------------------------------------------
(* Keys *)

\* Every step keeps the keys apart.
LEMMA KeyStep ==
  ASSUME KeysType, RestType, RunType, CarryInv, KeyInv, KeysHaveAPlace, Next
  PROVE  KeyInv'
  <1> USE DEF CarryInv, WithKey, Making, Deleting, KeyInv, At, SignsIn, Others, Keeps, yougile, postgres,
              cookies, attempts
  <1>1. ASSUME NEW w \in Workers, NEW o \in Origins, Submit(w, o) PROVE KeyInv'
    BY <1>1, IdleIs, SubmitDoes
  <1>2. ASSUME NEW w \in Workers, NEW o \in Origins, Choose(w, o) PROVE KeyInv'
    BY <1>2, IdleIs, ChooseDoes
  <1>3. ASSUME NEW w \in Workers, Peek(w) PROVE KeyInv'
    BY <1>3, IdleIs, PeekDoes
  <1>4. ASSUME NEW w \in Workers, Companies(w) PROVE KeyInv'
    BY <1>4, IdleIs, CompaniesDoes
  <1>5. ASSUME NEW w \in Workers, Hit(w) PROVE KeyInv'
    BY <1>5, IdleIs, HitDoes
  <1>6. ASSUME NEW w \in Workers, CreateKey(w) PROVE KeyInv'
    <2>1. /\ \A v \in Workers : run[v].key # made' /\ run[v].old # made'
          /\ made' # row.key /\ made' # acct /\ made' \in keys'
      BY <1>6, RunNumbers, KeyNumbers, CreateKeyDoes
    <2>2. /\ run[w].pc = "key" /\ run'[w].pc = "me" /\ run'[w].key = made'
          /\ run'[w].old = run[w].old /\ UNCHANGED <<row, acct>> /\ keys \subseteq keys'
          /\ \A v \in Workers \ {w} : run'[v] = run[v]
      BY <1>6, CreateKeyDoes
    <2>3. /\ acct' # 0 => acct' # row'.key
          /\ \A v \in Workers : run'[v].pc \in WithKey => run'[v].key # acct'
          /\ \A v \in Workers : run'[v].pc \in Making =>
               run'[v].key \in keys' /\ run'[v].key # row'.key
      BY <2>1, <2>2
    <2>4. /\ \A u, v \in Workers :
               run'[u].pc \in WithKey /\ run'[v].pc \in WithKey /\ run'[u].key = run'[v].key => u = v
          /\ \A u, v \in Workers :
               run'[u].pc \in Making /\ run'[v].pc \in Deleting => run'[v].old # run'[u].key
          /\ \A v \in Workers :
               run'[v].pc \in Deleting \ {"store"} /\ acct' # 0 => run'[v].old # acct'
      BY <2>1, <2>2
    <2>5. QED
      BY <2>3, <2>4
  <1>7. ASSUME NEW w \in Workers, Me(w) PROVE KeyInv'
    BY <1>7, IdleIs, MeDoes
  <1>8. ASSUME NEW w \in Workers, Undo(w) PROVE KeyInv'
    BY <1>8, IdleIs, UndoDoes
  <1>9. ASSUME NEW w \in Workers, Previous(w) PROVE KeyInv'
    BY <1>9, IdleIs, PreviousDoes
  <1>10. ASSUME NEW w \in Workers, Store(w) PROVE KeyInv'
    BY <1>10, IdleIs, StoreDoes DEF Upserted, Replaced
  <1>11. ASSUME NEW w \in Workers, DropOld(w) PROVE KeyInv'
    BY <1>11, IdleIs, DropOldDoes
  <1>12. ASSUME NEW w \in Workers, Open(w) PROVE KeyInv'
    BY <1>12, IdleIs, OpenDoes
  <1>13. ASSUME NEW w \in Workers, NEW s \in sessions, Request(w, s) PROVE KeyInv'
    BY <1>13, IdleIs, RequestDoes
  <1>14. ASSUME NEW w \in Workers, Row(w) PROVE KeyInv'
    BY <1>14, IdleIs, RowDoes
  <1>15. ASSUME NEW w \in Workers, Check(w) PROVE KeyInv'
    BY <1>15, IdleIs, CheckDoes
  <1>16. ASSUME NEW w \in Workers, Act(w) PROVE KeyInv'
    BY <1>16, IdleIs, ActDoes
  <1>17. ASSUME NEW w \in Workers, DisconnectSelf(w) PROVE KeyInv'
    BY <1>17, IdleIs, DisconnectSelfDoes
  <1>18. ASSUME NEW w \in Workers, Fails(w) PROVE KeyInv'
    BY <1>18, IdleIs, FailsDoes
  <1>19. ASSUME NEW w \in Workers, FailsWithKey(w) PROVE KeyInv'
    BY <1>19, IdleIs, FailsWithKeyDoes
  <1>20. ASSUME NEW w \in Workers, StoreUnsure(w) PROVE KeyInv'
    BY <1>20, IdleIs, StoreUnsureDoes DEF Upserted
  <1>21. ASSUME NEW w \in Workers, DeletionFails(w) PROVE KeyInv'
    BY <1>21, IdleIs, DeletionFailsDoes
  <1>22. ASSUME NEW s \in sessions, Logout(s) PROVE KeyInv'
    BY <1>22 DEF Logout, Closed
  <1>23. ASSUME NEW c \in Counters, LapseCount(c) PROVE KeyInv'
    BY <1>23 DEF LapseCount
  <1>24. ASSUME NEW w \in Workers, Disconnect(w) PROVE KeyInv'
    BY <1>24, IdleIs, DisconnectDoes
  <1>25. ASSUME SetAdmin PROVE KeyInv'
    BY <1>25 DEF SetAdmin
  <1>26. ASSUME LapseCreds PROVE KeyInv'
    BY <1>26 DEF LapseCreds
  <1>27. ASSUME Crash PROVE KeyInv'
    BY <1>27, IdleIs, CrashDoes
  <1>28. ASSUME NEW w \in Workers, DropRow(w) PROVE KeyInv'
    BY <1>28, IdleIs, DropRowDoes, KeyNumbers DEF NoRow
  <1>29. ASSUME NEW w \in Workers, DropKey(w) PROVE KeyInv'
    BY <1>29, IdleIs, DropKeyDoes
  <1>30. ASSUME NEW w \in Workers, DropUnsure(w) PROVE KeyInv'
    BY <1>30, IdleIs, DropUnsureDoes DEF NoRow
  <1>31. ASSUME NEW w \in Workers, Close(w) PROVE KeyInv'
    BY <1>31, IdleIs, CloseDoes
  <1>32. QED
    BY <1>1, <1>2, <1>3, <1>4, <1>5, <1>6, <1>7, <1>8, <1>9, <1>10, <1>11, <1>12, <1>13, <1>14,
       <1>15, <1>16, <1>17, <1>18, <1>19, <1>20, <1>21, <1>22, <1>23, <1>24, <1>25, <1>26, <1>27,
       <1>28, <1>29, <1>30, <1>31
       DEF Next, Signing, Paging, Breaking

\* A key of the person, of the bot, of a request, or stranded.
HasAPlace(k) ==
  k = row.key \/ k = acct \/ k \in stranded \/ \E w \in Workers : k \in InHand(w)

LEMMA Placed ==
  ASSUME KeysHaveAPlace
  PROVE  /\ \A k \in keys : HasAPlace(k)
         /\ acct # 0 => acct \in keys
  BY DEF KeysHaveAPlace, HasAPlace

LEMMA Places ==
  ASSUME \A k \in keys' : HasAPlace(k)', acct' # 0 => acct' \in keys'
  PROVE  KeysHaveAPlace'
  BY DEF KeysHaveAPlace, HasAPlace

\* Every step keeps a place for every key.
LEMMA PlaceStep ==
  ASSUME KeysType, RestType, RunType, CarryInv, KeyInv, KeysHaveAPlace, Next
  PROVE  KeysHaveAPlace'
  <1> USE DEF CarryInv, WithKey, Making, Deleting, KeyInv, At, SignsIn, Others, Keeps, KeysHaveAPlace,
              InHand, yougile, postgres, cookies, attempts
  <1>1. ASSUME NEW w \in Workers, NEW o \in Origins, Submit(w, o) PROVE KeysHaveAPlace'
    BY <1>1, IdleIs, SubmitDoes
  <1>2. ASSUME NEW w \in Workers, NEW o \in Origins, Choose(w, o) PROVE KeysHaveAPlace'
    BY <1>2, IdleIs, ChooseDoes
  <1>3. ASSUME NEW w \in Workers, Peek(w) PROVE KeysHaveAPlace'
    BY <1>3, IdleIs, PeekDoes
  <1>4. ASSUME NEW w \in Workers, Companies(w) PROVE KeysHaveAPlace'
    BY <1>4, IdleIs, CompaniesDoes
  <1>5. ASSUME NEW w \in Workers, Hit(w) PROVE KeysHaveAPlace'
    BY <1>5, IdleIs, HitDoes
  <1>6. ASSUME NEW w \in Workers, CreateKey(w) PROVE KeysHaveAPlace'
    BY <1>6, IdleIs, CreateKeyDoes
  <1>7. ASSUME NEW w \in Workers, Me(w) PROVE KeysHaveAPlace'
    BY <1>7, IdleIs, MeDoes
  <1>8. ASSUME NEW w \in Workers, Undo(w) PROVE KeysHaveAPlace'
    BY <1>8, IdleIs, UndoDoes
  <1>9. ASSUME NEW w \in Workers, Previous(w) PROVE KeysHaveAPlace'
    BY <1>9, IdleIs, PreviousDoes
  <1>10. ASSUME NEW w \in Workers, Store(w) PROVE KeysHaveAPlace'
    <2>1. ASSUME NEW k \in keys' PROVE HasAPlace(k)'
      <3>1. k \in keys /\ k # 0 /\ HasAPlace(k)
        BY <1>10, StoreDoes, Placed, KeyNumbers
      <3>2. ASSUME NEW v \in Workers, v # w, k \in InHand(v) PROVE k \in InHand(v)'
        BY <1>10, StoreDoes, <3>2
      <3>3. QED
        BY <1>10, IdleIs, StoreDoes, <3>1, <3>2 DEF HasAPlace, Upserted, Replaced
    <2>2. acct' # 0 => acct' \in keys'
      BY <1>10, StoreDoes DEF Upserted, Replaced
    <2>3. QED
      BY <2>1, <2>2, Places
  <1>11. ASSUME NEW w \in Workers, DropOld(w) PROVE KeysHaveAPlace'
    BY <1>11, IdleIs, DropOldDoes
  <1>12. ASSUME NEW w \in Workers, Open(w) PROVE KeysHaveAPlace'
    BY <1>12, IdleIs, OpenDoes
  <1>13. ASSUME NEW w \in Workers, NEW s \in sessions, Request(w, s) PROVE KeysHaveAPlace'
    BY <1>13, IdleIs, RequestDoes
  <1>14. ASSUME NEW w \in Workers, Row(w) PROVE KeysHaveAPlace'
    BY <1>14, IdleIs, RowDoes
  <1>15. ASSUME NEW w \in Workers, Check(w) PROVE KeysHaveAPlace'
    BY <1>15, IdleIs, CheckDoes
  <1>16. ASSUME NEW w \in Workers, Act(w) PROVE KeysHaveAPlace'
    BY <1>16, IdleIs, ActDoes
  <1>17. ASSUME NEW w \in Workers, DisconnectSelf(w) PROVE KeysHaveAPlace'
    BY <1>17, IdleIs, DisconnectSelfDoes
  <1>18. ASSUME NEW w \in Workers, Fails(w) PROVE KeysHaveAPlace'
    BY <1>18, IdleIs, FailsDoes DEF Unhurt
  <1>19. ASSUME NEW w \in Workers, FailsWithKey(w) PROVE KeysHaveAPlace'
    BY <1>19, IdleIs, FailsWithKeyDoes
  <1>20. ASSUME NEW w \in Workers, StoreUnsure(w) PROVE KeysHaveAPlace'
    <2>1. ASSUME NEW k \in keys' PROVE HasAPlace(k)'
      <3>1. k \in keys /\ k # 0 /\ HasAPlace(k)
        BY <1>20, StoreUnsureDoes, Placed, KeyNumbers
      <3>2. ASSUME NEW v \in Workers, v # w, k \in InHand(v) PROVE k \in InHand(v)'
        BY <1>20, StoreUnsureDoes, <3>2
      <3>3. QED
        BY <1>20, IdleIs, StoreUnsureDoes, <3>1, <3>2 DEF HasAPlace, Upserted
    <2>2. acct' # 0 => acct' \in keys'
      BY <1>20, StoreUnsureDoes DEF Upserted
    <2>3. QED
      BY <2>1, <2>2, Places
  <1>21. ASSUME NEW w \in Workers, DeletionFails(w) PROVE KeysHaveAPlace'
    <2>1. ASSUME NEW k \in keys' PROVE HasAPlace(k)'
      <3>1. k \in keys /\ k # 0 /\ HasAPlace(k)
        BY <1>21, DeletionFailsDoes, Placed, KeyNumbers
      <3>2. ASSUME NEW v \in Workers, v # w, k \in InHand(v) PROVE k \in InHand(v)'
        BY <1>21, DeletionFailsDoes, <3>2
      <3>3. QED
        BY <1>21, IdleIs, DeletionFailsDoes, <3>1, <3>2 DEF HasAPlace
    <2>2. acct' # 0 => acct' \in keys'
      BY <1>21, DeletionFailsDoes
    <2>3. QED
      BY <2>1, <2>2, Places
  <1>22. ASSUME NEW s \in sessions, Logout(s) PROVE KeysHaveAPlace'
    BY <1>22 DEF Logout, Closed
  <1>23. ASSUME NEW c \in Counters, LapseCount(c) PROVE KeysHaveAPlace'
    BY <1>23 DEF LapseCount
  <1>24. ASSUME NEW w \in Workers, Disconnect(w) PROVE KeysHaveAPlace'
    BY <1>24, IdleIs, DisconnectDoes
  <1>25. ASSUME SetAdmin PROVE KeysHaveAPlace'
    BY <1>25 DEF SetAdmin
  <1>26. ASSUME LapseCreds PROVE KeysHaveAPlace'
    BY <1>26 DEF LapseCreds
  <1>27. ASSUME Crash PROVE KeysHaveAPlace'
    BY <1>27, IdleIs, CrashDoes
  <1>28. ASSUME NEW w \in Workers, DropRow(w) PROVE KeysHaveAPlace'
    <2>1. ASSUME NEW k \in keys' PROVE HasAPlace(k)'
      <3>1. k \in keys /\ k # 0 /\ HasAPlace(k)
        BY <1>28, DropRowDoes, Placed, KeyNumbers
      <3>2. ASSUME NEW v \in Workers, v # w, k \in InHand(v) PROVE k \in InHand(v)'
        BY <1>28, DropRowDoes, <3>2
      <3>3. InHand(w) = {} /\ InHand(w)' = {run[w].old}
        BY <1>28, DropRowDoes
      <3>4. QED
        BY <1>28, DropRowDoes, <3>1, <3>2, <3>3 DEF HasAPlace
    <2>2. acct' # 0 => acct' \in keys'
      BY <1>28, DropRowDoes
    <2>3. QED
      BY <2>1, <2>2, Places
  <1>29. ASSUME NEW w \in Workers, DropKey(w) PROVE KeysHaveAPlace'
    <2>1. ASSUME NEW k \in keys' PROVE HasAPlace(k)'
      <3>1. k \in keys /\ k # 0 /\ HasAPlace(k)
        BY <1>29, DropKeyDoes, Placed, KeyNumbers
      <3>2. ASSUME NEW v \in Workers, v # w, k \in InHand(v) PROVE k \in InHand(v)'
        BY <1>29, DropKeyDoes, <3>2
      <3>3. InHand(w) = {run[w].old}
        BY <1>29, DropKeyDoes
      <3>4. QED
        BY <1>29, DropKeyDoes, <3>1, <3>2, <3>3 DEF HasAPlace
    <2>2. acct' # 0 => acct' \in keys'
      BY <1>29, DropKeyDoes
    <2>3. QED
      BY <2>1, <2>2, Places
  <1>30. ASSUME NEW w \in Workers, DropUnsure(w) PROVE KeysHaveAPlace'
    <2>1. ASSUME NEW k \in keys' PROVE HasAPlace(k)'
      <3>1. k \in keys /\ k # 0 /\ HasAPlace(k)
        BY <1>30, DropUnsureDoes, Placed, KeyNumbers
      <3>2. ASSUME NEW v \in Workers, v # w, k \in InHand(v) PROVE k \in InHand(v)'
        BY <1>30, DropUnsureDoes, <3>2
      <3>3. InHand(w) = {}
        BY <1>30, DropUnsureDoes
      <3>4. QED
        BY <1>30, DropUnsureDoes, <3>1, <3>2, <3>3 DEF HasAPlace
    <2>2. acct' # 0 => acct' \in keys'
      BY <1>30, DropUnsureDoes
    <2>3. QED
      BY <2>1, <2>2, Places
  <1>31. ASSUME NEW w \in Workers, Close(w) PROVE KeysHaveAPlace'
    BY <1>31, IdleIs, CloseDoes
  <1>32. QED
    BY <1>1, <1>2, <1>3, <1>4, <1>5, <1>6, <1>7, <1>8, <1>9, <1>10, <1>11, <1>12, <1>13, <1>14,
       <1>15, <1>16, <1>17, <1>18, <1>19, <1>20, <1>21, <1>22, <1>23, <1>24, <1>25, <1>26, <1>27,
       <1>28, <1>29, <1>30, <1>31
       DEF Next, Signing, Paging, Breaking

-----------------------------------------------------------------------------
(* Sessions *)

\* Every step keeps sessions what they were.
LEMMA SessionStep ==
  ASSUME KeysType, SessionsType, RestType, RunType, CarryInv, SessionInv, Next
  PROVE  SessionInv'
  <1> USE DEF CarryInv, OnPage, SessionInv, At, SignsIn, Others, Keeps, yougile, postgres,
              cookies, attempts
  <1>1. ASSUME NEW w \in Workers, NEW o \in Origins, Submit(w, o) PROVE SessionInv'
    BY <1>1, IdleIs, SubmitDoes
  <1>2. ASSUME NEW w \in Workers, NEW o \in Origins, Choose(w, o) PROVE SessionInv'
    BY <1>2, IdleIs, ChooseDoes
  <1>3. ASSUME NEW w \in Workers, Peek(w) PROVE SessionInv'
    BY <1>3, IdleIs, PeekDoes
  <1>4. ASSUME NEW w \in Workers, Companies(w) PROVE SessionInv'
    BY <1>4, IdleIs, CompaniesDoes
  <1>5. ASSUME NEW w \in Workers, Hit(w) PROVE SessionInv'
    BY <1>5, IdleIs, HitDoes
  <1>6. ASSUME NEW w \in Workers, CreateKey(w) PROVE SessionInv'
    BY <1>6, IdleIs, CreateKeyDoes
  <1>7. ASSUME NEW w \in Workers, Me(w) PROVE SessionInv'
    BY <1>7, IdleIs, MeDoes
  <1>8. ASSUME NEW w \in Workers, Undo(w) PROVE SessionInv'
    BY <1>8, IdleIs, UndoDoes
  <1>9. ASSUME NEW w \in Workers, Previous(w) PROVE SessionInv'
    BY <1>9, IdleIs, PreviousDoes
  <1>10. ASSUME NEW w \in Workers, Store(w) PROVE SessionInv'
    BY <1>10, IdleIs, StoreDoes, RunNumbers, KeyNumbers DEF Upserted, Replaced
  <1>11. ASSUME NEW w \in Workers, DropOld(w) PROVE SessionInv'
    BY <1>11, IdleIs, DropOldDoes
  <1>12. ASSUME NEW w \in Workers, Open(w) PROVE SessionInv'
    BY <1>12, IdleIs, OpenDoes
  <1>13. ASSUME NEW w \in Workers, NEW s \in sessions, Request(w, s) PROVE SessionInv'
    <2>1. /\ Others(w) /\ run'[w].pc = "row" /\ row' = row
          /\ ~run'[w].live => run'[w].id # row'.id
      BY <1>13, RequestDoes
    <2>2. QED
      BY <2>1
  <1>14. ASSUME NEW w \in Workers, Row(w) PROVE SessionInv'
    BY <1>14, IdleIs, RowDoes
  <1>15. ASSUME NEW w \in Workers, Check(w) PROVE SessionInv'
    BY <1>15, IdleIs, CheckDoes
  <1>16. ASSUME NEW w \in Workers, Act(w) PROVE SessionInv'
    BY <1>16, IdleIs, ActDoes
  <1>17. ASSUME NEW w \in Workers, DisconnectSelf(w) PROVE SessionInv'
    BY <1>17, IdleIs, DisconnectSelfDoes
  <1>18. ASSUME NEW w \in Workers, Fails(w) PROVE SessionInv'
    BY <1>18, IdleIs, FailsDoes
  <1>19. ASSUME NEW w \in Workers, FailsWithKey(w) PROVE SessionInv'
    BY <1>19, IdleIs, FailsWithKeyDoes
  <1>20. ASSUME NEW w \in Workers, StoreUnsure(w) PROVE SessionInv'
    <2>1. Others(w) /\ (run'[w] = Idle \/ run'[w].pc = "undo")
      BY <1>20, StoreUnsureDoes
    <2>2. row'.id = row.id \/ row'.id = issued + 1
      BY <1>20, StoreUnsureDoes DEF Upserted
    <2>3. \A v \in Workers : run[v].id # issued + 1 /\ run[v].who # issued + 1
      BY RunNumbers, KeyNumbers
    <2>4. QED
      BY <2>1, <2>2, <2>3, IdleIs
  <1>21. ASSUME NEW w \in Workers, DeletionFails(w) PROVE SessionInv'
    BY <1>21, IdleIs, DeletionFailsDoes
  <1>22. ASSUME NEW s \in sessions, Logout(s) PROVE SessionInv'
    BY <1>22 DEF Logout, Closed
  <1>23. ASSUME NEW c \in Counters, LapseCount(c) PROVE SessionInv'
    BY <1>23 DEF LapseCount
  <1>24. ASSUME NEW w \in Workers, Disconnect(w) PROVE SessionInv'
    BY <1>24, IdleIs, DisconnectDoes
  <1>25. ASSUME SetAdmin PROVE SessionInv'
    BY <1>25 DEF SetAdmin
  <1>26. ASSUME LapseCreds PROVE SessionInv'
    BY <1>26 DEF LapseCreds
  <1>27. ASSUME Crash PROVE SessionInv'
    BY <1>27, IdleIs, CrashDoes
  <1>28. ASSUME NEW w \in Workers, DropRow(w) PROVE SessionInv'
    BY <1>28, IdleIs, DropRowDoes DEF NoRow
  <1>29. ASSUME NEW w \in Workers, DropKey(w) PROVE SessionInv'
    BY <1>29, IdleIs, DropKeyDoes
  <1>30. ASSUME NEW w \in Workers, DropUnsure(w) PROVE SessionInv'
    BY <1>30, IdleIs, DropUnsureDoes DEF NoRow
  <1>31. ASSUME NEW w \in Workers, Close(w) PROVE SessionInv'
    BY <1>31, IdleIs, CloseDoes
  <1>32. QED
    BY <1>1, <1>2, <1>3, <1>4, <1>5, <1>6, <1>7, <1>8, <1>9, <1>10, <1>11, <1>12, <1>13, <1>14,
       <1>15, <1>16, <1>17, <1>18, <1>19, <1>20, <1>21, <1>22, <1>23, <1>24, <1>25, <1>26, <1>27,
       <1>28, <1>29, <1>30, <1>31
       DEF Next, Signing, Paging, Breaking

-----------------------------------------------------------------------------
(* Counters *)

\* Sets of requests.
LEMMA Cards ==
  ASSUME NEW A \in SUBSET Workers
  PROVE  /\ IsFiniteSet(A) /\ Cardinality(A) \in Nat /\ Cardinality(A) <= Cardinality(Workers)
         /\ \A B \in SUBSET A : Cardinality(B) <= Cardinality(A) /\ Cardinality(B) \in Nat
         /\ \A w \in A : \A B \in SUBSET (A \ {w}) : Cardinality(B) + 1 <= Cardinality(A)
  <1>1. IsFiniteSet(A) /\ Cardinality(A) \in Nat /\ Cardinality(A) <= Cardinality(Workers)
    BY ConstantsAssumption, FS_Subset, FS_CardinalityType
  <1>2. ASSUME NEW B \in SUBSET A PROVE Cardinality(B) <= Cardinality(A) /\ Cardinality(B) \in Nat
    BY <1>1, FS_Subset, FS_CardinalityType
  <1>3. ASSUME NEW w \in A, NEW B \in SUBSET (A \ {w})
        PROVE  Cardinality(B) + 1 <= Cardinality(A)
    <2>1. IsFiniteSet(A \ {w}) /\ Cardinality(A \ {w}) = Cardinality(A) - 1
      BY <1>1, FS_RemoveElement
    <2>2. Cardinality(B) <= Cardinality(A \ {w}) /\ Cardinality(B) \in Nat
      BY <1>2, <2>1, FS_Subset
    <2>3. QED
      BY <1>1, <2>1, <2>2
  <1>4. QED
    BY <1>1, <1>2, <1>3

LEMMA WhoIsPending ==
  ASSUME NEW c
  PROVE  /\ \A v : v \in Pending(c) <=> /\ v \in Workers /\ run[v].pc = "hit"
                                        /\ Among(c, run[v].todo)
         /\ \A v : v \in Pending(c)' <=> /\ v \in Workers /\ run'[v].pc = "hit"
                                         /\ Among(c, run'[v].todo)
  BY DEF Pending, Among

LEMMA WhoIsPast ==
  ASSUME NEW c
  PROVE  /\ \A v : v \in Past(c) <=>
              /\ v \in Workers
              /\ \/ /\ run[v].pc = "peek" /\ Concerned(c, run[v].origin)
                    /\ ~Among(c, run[v].todo)
                 \/ run[v].pc = "companies" /\ Concerned(c, run[v].origin)
                 \/ run[v].pc = "hit" /\ Among(c, run[v].todo)
         /\ \A v : v \in Past(c)' <=>
              /\ v \in Workers
              /\ \/ /\ run'[v].pc = "peek" /\ Concerned(c, run'[v].origin)
                    /\ ~Among(c, run'[v].todo)
                 \/ run'[v].pc = "companies" /\ Concerned(c, run'[v].origin)
                 \/ run'[v].pc = "hit" /\ Among(c, run'[v].todo)
  BY DEF Past, Among, Concerned

LEMMA Subsets ==
  ASSUME NEW c
  PROVE  /\ Pending(c) \in SUBSET Workers /\ Pending(c)' \in SUBSET Workers
         /\ Past(c) \in SUBSET Workers /\ Past(c)' \in SUBSET Workers
  BY WhoIsPending, WhoIsPast

LEMMA LimitIs == \A c \in Counters : Limit[c] \in Nat \ {0}
  BY ConstantsAssumption

\* Fewer requests, no failed sign-in more.
LEMMA CountOf ==
  ASSUME RestType, RestType', CountInv, NEW c \in Counters, count'[c] <= count[c],
         failed[c] <= failed'[c], Pending(c)' \subseteq Pending(c), Past(c)' \subseteq Past(c)
  PROVE  /\ count'[c] + Cardinality(Pending(c)') <= failed'[c]
         /\ count'[c] + Cardinality(Past(c)') < Limit[c] + Cardinality(Workers)
  <1>1. /\ Cardinality(Pending(c)') <= Cardinality(Pending(c))
        /\ Cardinality(Past(c)') <= Cardinality(Past(c))
        /\ Cardinality(Pending(c)') \in Nat /\ Cardinality(Pending(c)) \in Nat
        /\ Cardinality(Past(c)') \in Nat /\ Cardinality(Past(c)) \in Nat
    BY Cards, Subsets
  <1>2. Cardinality(Workers) \in Nat
    BY ConstantsAssumption, FS_CardinalityType
  <1>3. /\ count[c] + Cardinality(Pending(c)) <= failed[c]
        /\ count[c] + Cardinality(Past(c)) < Limit[c] + Cardinality(Workers)
    BY DEF CountInv
  <1>4. /\ count[c] \in Nat /\ count'[c] \in Nat /\ failed[c] \in Nat /\ failed'[c] \in Nat
        /\ Limit[c] \in Nat
    BY LimitIs DEF RestType
  <1>5. QED
    BY <1>1, <1>2, <1>3, <1>4

LEMMA CountSame ==
  ASSUME RestType, RestType', CountInv, UNCHANGED attempts,
         \A c \in Counters : Pending(c)' \subseteq Pending(c) /\ Past(c)' \subseteq Past(c)
  PROVE  CountInv'
  <1>1. ASSUME NEW c \in Counters PROVE count'[c] <= count[c] /\ failed[c] <= failed'[c]
    BY DEF attempts, RestType
  <1>2. QED
    BY <1>1, CountOf DEF CountInv

\* A request that is not trying counters any more, or has all of them before it.
LEMMA CountLeaves ==
  ASSUME RestType, RestType', CountInv, UNCHANGED attempts, NEW w \in Workers, Others(w),
         \/ run'[w].pc \notin {"peek", "companies", "hit"}
         \/ run'[w].pc = "peek" /\ \A c : Concerned(c, run'[w].origin) => Among(c, run'[w].todo)
  PROVE  CountInv'
  <1>1. ASSUME NEW c \in Counters PROVE Pending(c)' \subseteq Pending(c) /\ Past(c)' \subseteq Past(c)
    BY WhoIsPending, WhoIsPast DEF Others
  <1>2. QED
    BY <1>1, CountSame

LEMMA CountStays ==
  ASSUME RestType, RestType', CountInv, UNCHANGED <<attempts, run>>
  PROVE  CountInv'
  <1>1. ASSUME NEW c \in Counters PROVE Pending(c)' \subseteq Pending(c) /\ Past(c)' \subseteq Past(c)
    BY WhoIsPending, WhoIsPast
  <1>2. QED
    BY <1>1, CountSame

\* Every step keeps the counters within bounds.
LEMMA CountStep ==
  ASSUME RestType, RestType', RunType, CarryInv, CountInv, Next
  PROVE  CountInv'
  <1> USE DEF SignsIn, yougile, postgres, cookies, attempts
  <1>1. ASSUME NEW w \in Workers, NEW o \in Origins, Submit(w, o) PROVE CountInv'
    BY <1>1, SubmitDoes, IdleIs, CountersAre, CountLeaves
  <1>2. ASSUME NEW w \in Workers, NEW o \in Origins, Choose(w, o) PROVE CountInv'
    BY <1>2, ChooseDoes, IdleIs, CountLeaves
  <1>3. ASSUME NEW w \in Workers, Peek(w) PROVE CountInv'
    <2>0. PICK c : c = Head(run[w].todo)
      OBVIOUS
    <2>1. /\ run[w].pc = "peek" /\ Others(w) /\ c \in Counters /\ UNCHANGED attempts
          /\ \/ run'[w] = Idle
             \/ /\ Keeps(w) /\ count[c] < Limit[c]
                /\ \A d : Among(d, run'[w].todo) <=> Among(d, run[w].todo) /\ d # c
                /\ \/ run'[w].pc = "peek"
                   \/ run'[w].pc = "companies" /\ \A d : ~Among(d, run'[w].todo)
      BY <1>3, <2>0, PeekDoes
    <2>2. CASE run'[w] = Idle
      BY <2>1, <2>2, IdleIs, CountLeaves
    <2>3. CASE run'[w] # Idle
      <3>1. ASSUME NEW d \in Counters
            PROVE  /\ Pending(d)' \subseteq Pending(d)
                   /\ d # c => Past(d)' \subseteq Past(d)
                   /\ count'[d] <= count[d] /\ failed[d] <= failed'[d]
        <4>1. Pending(d)' \subseteq Pending(d)
          BY <2>1, <2>3, WhoIsPending DEF Others
        <4>2. d # c => Past(d)' \subseteq Past(d)
          BY <2>1, <2>3, WhoIsPast DEF Others, Keeps
        <4>3. count'[d] <= count[d] /\ failed[d] <= failed'[d]
          BY <2>1 DEF attempts, RestType
        <4>4. QED
          BY <4>1, <4>2, <4>3
      <3>2. count'[c] + Cardinality(Past(c)') < Limit[c] + Cardinality(Workers)
        <4>1. Cardinality(Past(c)') \in Nat /\ Cardinality(Past(c)') <= Cardinality(Workers)
          BY Cards, Subsets
        <4>2. count'[c] = count[c] /\ count[c] < Limit[c] /\ count[c] \in Nat /\ Limit[c] \in Nat
          BY <2>1, <2>3, LimitIs DEF attempts, RestType
        <4>3. Cardinality(Workers) \in Nat
          BY ConstantsAssumption, FS_CardinalityType
        <4>4. QED
          BY <4>1, <4>2, <4>3
      <3>3. count'[c] + Cardinality(Pending(c)') <= failed'[c]
        <4>1. /\ Cardinality(Pending(c)') \in Nat /\ Cardinality(Pending(c)) \in Nat
              /\ Cardinality(Pending(c)') <= Cardinality(Pending(c))
          BY <2>1, <3>1, Cards, Subsets
        <4>2. count[c] + Cardinality(Pending(c)) <= failed[c]
          BY <2>1 DEF CountInv
        <4>3. /\ count'[c] = count[c] /\ failed'[c] = failed[c]
              /\ count[c] \in Nat /\ failed[c] \in Nat
          BY <2>1 DEF attempts, RestType
        <4>4. QED
          BY <4>1, <4>2, <4>3
      <3>4. ASSUME NEW d \in Counters, d # c
            PROVE  /\ count'[d] + Cardinality(Pending(d)') <= failed'[d]
                   /\ count'[d] + Cardinality(Past(d)') < Limit[d] + Cardinality(Workers)
        BY <3>1, <3>4, CountOf
      <3>5. QED
        BY <3>2, <3>3, <3>4 DEF CountInv
    <2>4. QED
      BY <2>2, <2>3
  <1>4. ASSUME NEW w \in Workers, Companies(w) PROVE CountInv'
    <2>1. CASE run'[w].pc \notin {"peek", "companies", "hit"} /\ failed' = failed
      BY <1>4, <2>1, CompaniesDoes, CountLeaves
    <2>2. CASE run'[w].pc = "hit"
      <3>1. /\ run[w].pc = "companies" /\ Others(w) /\ Keeps(w) /\ count' = count
            /\ \A c : Among(c, run'[w].todo) <=> Concerned(c, run[w].origin)
            /\ \A c \in Counters :
                 failed'[c] = failed[c] + IF Concerned(c, run[w].origin) THEN 1 ELSE 0
        BY <1>4, <2>2, CompaniesDoes, IdleIs, RunFields, CountersAre
      <3>2. ASSUME NEW c \in Counters
            PROVE  /\ count'[c] + Cardinality(Pending(c)') <= failed'[c]
                   /\ count'[c] + Cardinality(Past(c)') < Limit[c] + Cardinality(Workers)
        <4>1. Past(c)' \subseteq Past(c)
          BY <2>2, <3>1, WhoIsPast DEF Others, Keeps
        <4>2. CASE ~Concerned(c, run[w].origin)
          <5>1. Pending(c)' \subseteq Pending(c)
            BY <3>1, <4>2, WhoIsPending DEF Others
          <5>2. count'[c] <= count[c] /\ failed[c] <= failed'[c]
            BY <3>1, <4>2 DEF RestType
          <5>3. QED
            BY <4>1, <5>1, <5>2, CountOf
        <4>3. CASE Concerned(c, run[w].origin)
          <5>1. w \in Pending(c)' /\ Pending(c)' \ {w} \subseteq Pending(c)
            BY <2>2, <3>1, <4>3, WhoIsPending DEF Others
          <5>2. /\ Cardinality(Pending(c)') <= Cardinality(Pending(c)) + 1
                /\ Cardinality(Pending(c)') \in Nat /\ Cardinality(Pending(c)) \in Nat
            <6>1. /\ IsFiniteSet(Pending(c)') /\ Cardinality(Pending(c)') \in Nat
                  /\ Cardinality(Pending(c)) \in Nat
                  /\ Cardinality(Pending(c)' \ {w}) <= Cardinality(Pending(c))
              BY <5>1, Subsets, Cards
            <6>2. Cardinality(Pending(c)' \ {w}) = Cardinality(Pending(c)') - 1
              BY <5>1, <6>1, FS_RemoveElement
            <6>3. QED
              BY <6>1, <6>2
          <5>3. /\ Cardinality(Past(c)') <= Cardinality(Past(c))
                /\ Cardinality(Past(c)') \in Nat /\ Cardinality(Past(c)) \in Nat
            BY <4>1, Cards, Subsets
          <5>4. /\ count[c] + Cardinality(Pending(c)) <= failed[c]
                /\ count[c] + Cardinality(Past(c)) < Limit[c] + Cardinality(Workers)
            BY DEF CountInv
          <5>5. /\ count[c] \in Nat /\ failed[c] \in Nat /\ Limit[c] \in Nat
                /\ count'[c] = count[c] /\ failed'[c] = failed[c] + 1
                /\ Cardinality(Workers) \in Nat
            BY <3>1, <4>3, LimitIs, ConstantsAssumption, FS_CardinalityType DEF RestType
          <5>6. QED
            BY <5>2, <5>3, <5>4, <5>5
        <4>4. QED
          BY <4>2, <4>3
      <3>3. QED
        BY <3>2 DEF CountInv
    <2>3. QED
      BY <1>4, <2>1, <2>2, CompaniesDoes, IdleIs
  <1>5. ASSUME NEW w \in Workers, Hit(w) PROVE CountInv'
    <2>0. PICK c : c = Head(run[w].todo)
      OBVIOUS
    <2>1. /\ run[w].pc = "hit" /\ Others(w) /\ c \in Counters /\ Among(c, run[w].todo)
          /\ count' = [count EXCEPT ![c] = count[c] + 1] /\ failed' = failed
          /\ \/ run'[w] = Idle
             \/ \A d : Among(d, run'[w].todo) <=> Among(d, run[w].todo) /\ d # c
          /\ run'[w].pc \in {"idle", "hit"}
      BY <1>5, <2>0, HitDoes, IdleIs
    <2>2. /\ w \in Pending(c) /\ Pending(c)' \subseteq Pending(c) \ {w}
          /\ w \in Past(c) /\ Past(c)' \subseteq Past(c) \ {w}
      BY <2>1, IdleIs, WhoIsPending, WhoIsPast DEF Others
    <2>3. /\ count'[c] + Cardinality(Pending(c)') <= failed'[c]
          /\ count'[c] + Cardinality(Past(c)') < Limit[c] + Cardinality(Workers)
      <3>1. /\ Cardinality(Pending(c)') + 1 <= Cardinality(Pending(c))
            /\ Cardinality(Past(c)') + 1 <= Cardinality(Past(c))
        BY <2>2, Cards, Subsets
      <3>2. /\ Cardinality(Pending(c)') \in Nat /\ Cardinality(Pending(c)) \in Nat
            /\ Cardinality(Past(c)') \in Nat /\ Cardinality(Past(c)) \in Nat
        BY Cards, Subsets
      <3>3. /\ count[c] + Cardinality(Pending(c)) <= failed[c]
            /\ count[c] + Cardinality(Past(c)) < Limit[c] + Cardinality(Workers)
        BY <2>1 DEF CountInv
      <3>4. /\ count[c] \in Nat /\ failed[c] \in Nat /\ Limit[c] \in Nat
            /\ count'[c] = count[c] + 1 /\ failed'[c] = failed[c] /\ Cardinality(Workers) \in Nat
        BY <2>1, LimitIs, ConstantsAssumption, FS_CardinalityType DEF RestType
      <3>5. QED
        BY <3>1, <3>2, <3>3, <3>4
    <2>4. ASSUME NEW d \in Counters, d # c
          PROVE  /\ count'[d] + Cardinality(Pending(d)') <= failed'[d]
                 /\ count'[d] + Cardinality(Past(d)') < Limit[d] + Cardinality(Workers)
      <3>1. Pending(d)' \subseteq Pending(d) /\ Past(d)' \subseteq Past(d)
        BY <2>1, <2>4, IdleIs, WhoIsPending, WhoIsPast DEF Others
      <3>2. count'[d] <= count[d] /\ failed[d] <= failed'[d]
        BY <2>1, <2>4 DEF RestType
      <3>3. QED
        BY <3>1, <3>2, CountOf
    <2>5. QED
      BY <2>3, <2>4 DEF CountInv
  <1>6. ASSUME NEW w \in Workers, CreateKey(w) PROVE CountInv'
    BY <1>6, CreateKeyDoes, IdleIs, CountLeaves
  <1>7. ASSUME NEW w \in Workers, Me(w) PROVE CountInv'
    BY <1>7, MeDoes, IdleIs, CountLeaves
  <1>8. ASSUME NEW w \in Workers, Undo(w) PROVE CountInv'
    BY <1>8, UndoDoes, IdleIs, CountLeaves
  <1>9. ASSUME NEW w \in Workers, Previous(w) PROVE CountInv'
    BY <1>9, PreviousDoes, IdleIs, CountLeaves
  <1>10. ASSUME NEW w \in Workers, Store(w) PROVE CountInv'
    BY <1>10, StoreDoes, IdleIs, CountLeaves
  <1>11. ASSUME NEW w \in Workers, DropOld(w) PROVE CountInv'
    BY <1>11, DropOldDoes, IdleIs, CountLeaves
  <1>12. ASSUME NEW w \in Workers, Open(w) PROVE CountInv'
    BY <1>12, OpenDoes, IdleIs, CountLeaves
  <1>13. ASSUME NEW w \in Workers, NEW s \in sessions, Request(w, s) PROVE CountInv'
    BY <1>13, RequestDoes, IdleIs, CountLeaves
  <1>14. ASSUME NEW w \in Workers, Row(w) PROVE CountInv'
    BY <1>14, RowDoes, IdleIs, CountLeaves
  <1>15. ASSUME NEW w \in Workers, Check(w) PROVE CountInv'
    BY <1>15, CheckDoes, IdleIs, CountLeaves
  <1>16. ASSUME NEW w \in Workers, Act(w) PROVE CountInv'
    BY <1>16, ActDoes, IdleIs, CountersAre, CountLeaves
  <1>17. ASSUME NEW w \in Workers, DisconnectSelf(w) PROVE CountInv'
    BY <1>17, DisconnectSelfDoes, IdleIs, CountLeaves
  <1>18. ASSUME NEW w \in Workers, Fails(w) PROVE CountInv'
    BY <1>18, FailsDoes, IdleIs, CountLeaves
  <1>19. ASSUME NEW w \in Workers, FailsWithKey(w) PROVE CountInv'
    BY <1>19, FailsWithKeyDoes, IdleIs, CountLeaves
  <1>20. ASSUME NEW w \in Workers, StoreUnsure(w) PROVE CountInv'
    BY <1>20, StoreUnsureDoes, IdleIs, CountLeaves
  <1>21. ASSUME NEW w \in Workers, DeletionFails(w) PROVE CountInv'
    BY <1>21, DeletionFailsDoes, IdleIs, CountLeaves
  <1>22. ASSUME NEW s \in sessions, Logout(s) PROVE CountInv'
    BY <1>22, CountStays DEF Logout, Closed
  <1>23. ASSUME NEW c \in Counters, LapseCount(c) PROVE CountInv'
    <2>1. /\ UNCHANGED <<run, failed>> /\ count'[c] = 0
          /\ \A d \in Counters : d # c => count'[d] = count[d]
      BY <1>23 DEF LapseCount, RestType
    <2>2. ASSUME NEW d \in Counters
          PROVE  /\ count'[d] <= count[d] /\ failed[d] <= failed'[d]
                 /\ Pending(d)' \subseteq Pending(d) /\ Past(d)' \subseteq Past(d)
      BY <2>1, WhoIsPending, WhoIsPast DEF RestType
    <2>3. QED
      BY <2>2, CountOf DEF CountInv
  <1>24. ASSUME NEW w \in Workers, Disconnect(w) PROVE CountInv'
    BY <1>24, DisconnectDoes, IdleIs, CountLeaves
  <1>25. ASSUME SetAdmin PROVE CountInv'
    BY <1>25, CountStays DEF SetAdmin
  <1>26. ASSUME LapseCreds PROVE CountInv'
    BY <1>26, CountStays DEF LapseCreds
  <1>27. ASSUME Crash PROVE CountInv'
    <2>1. ASSUME NEW c \in Counters
          PROVE  Pending(c)' \subseteq Pending(c) /\ Past(c)' \subseteq Past(c)
      BY <1>27, CrashDoes, IdleIs, WhoIsPending, WhoIsPast
    <2>2. QED
      BY <1>27, <2>1, CrashDoes, CountSame
  <1>28. ASSUME NEW w \in Workers, DropRow(w) PROVE CountInv'
    BY <1>28, DropRowDoes, IdleIs, CountLeaves
  <1>29. ASSUME NEW w \in Workers, DropKey(w) PROVE CountInv'
    BY <1>29, DropKeyDoes, IdleIs, CountLeaves
  <1>30. ASSUME NEW w \in Workers, DropUnsure(w) PROVE CountInv'
    BY <1>30, DropUnsureDoes, IdleIs, CountLeaves
  <1>31. ASSUME NEW w \in Workers, Close(w) PROVE CountInv'
    BY <1>31, CloseDoes, IdleIs, CountLeaves
  <1>32. QED
    BY <1>1, <1>2, <1>3, <1>4, <1>5, <1>6, <1>7, <1>8, <1>9, <1>10, <1>11, <1>12, <1>13, <1>14,
       <1>15, <1>16, <1>17, <1>18, <1>19, <1>20, <1>21, <1>22, <1>23, <1>24, <1>25, <1>26, <1>27,
       <1>28, <1>29, <1>30, <1>31
       DEF Next, Signing, Paging, Breaking

-----------------------------------------------------------------------------
(* Together *)

LEMMA InvInit ==
  ASSUME Init
  PROVE  IInv
  <1>1. \A w \in Workers : run[w] = Idle
    BY DEF Init
  <1>2. KeysType
    BY DEF Init, KeysType, NoRow
  <1>3. SessionsType
    BY DEF Init, SessionsType
  <1>4. RunType
    BY <1>2, IdleType DEF Init, RunType
  <1>5. RestType
    BY ConstantsAssumption DEF Init, RestType
  <1>6. CarryInv
    BY <1>1, IdleIs DEF CarryInv, WithKey, Counting, OnPage
  <1>7. KeyInv
    BY <1>1, IdleIs DEF Init, NoRow, KeyInv, WithKey, Making, Deleting
  <1>8. KeysHaveAPlace
    BY DEF Init, KeysHaveAPlace
  <1>9. SessionInv
    BY <1>1, IdleIs DEF Init, SessionInv, OnPage
  <1>10. CountInv
    <2>1. ASSUME NEW c \in Counters PROVE Pending(c) = {} /\ Past(c) = {}
      BY <1>1, IdleIs DEF Pending, Past
    <2>2. Cardinality({}) = 0 /\ Cardinality(Workers) \in Nat
      BY ConstantsAssumption, FS_EmptySet, FS_CardinalityType
    <2>3. \A c \in Counters : count[c] = 0 /\ failed[c] = 0 /\ Limit[c] \in Nat \ {0}
      BY LimitIs DEF Init
    <2>4. QED
      BY <2>1, <2>2, <2>3 DEF CountInv
  <1>11. QED
    BY <1>2, <1>3, <1>4, <1>5, <1>6, <1>7, <1>8, <1>9, <1>10 DEF IInv, Types

LEMMA InvStep ==
  ASSUME IInv, [Next]_vars
  PROVE  IInv'
  <1> USE DEF IInv, Types
  <1>1. CASE Next
    <2>1. KeysType' /\ SessionsType' /\ RunType' /\ RestType'
      BY <1>1, KeysStep, SessionsStep, RunStep, RestStep
    <2>2. CarryInv' /\ KeyInv' /\ KeysHaveAPlace' /\ SessionInv'
      BY <1>1, CarryStep, KeyStep, PlaceStep, SessionStep
    <2>3. CountInv'
      BY <1>1, <2>1, CountStep
    <2>4. QED
      BY <2>1, <2>2, <2>3
  <1>2. CASE UNCHANGED vars
    <2>1. UNCHANGED <<admin, keys, row, issued, acct, sessions, creds, count, run, made, left, failed,
                      stranded>>
      BY <1>2 DEF vars
    <2>2. KeysType' /\ SessionsType' /\ RunType' /\ RestType'
      BY <2>1 DEF KeysType, SessionsType, RunType, RestType, Run
    <2>3. CarryInv' /\ KeyInv' /\ KeysHaveAPlace' /\ SessionInv'
      BY <2>1 DEF CarryInv, KeyInv, KeysHaveAPlace, InHand, SessionInv
    <2>4. CountInv'
      BY <2>1, <2>2, CountStays DEF attempts
    <2>5. QED
      BY <2>2, <2>3, <2>4
  <1>3. QED
    BY <1>1, <1>2

LEMMA Invariant == Spec => []IInv
  BY InvInit, InvStep, PTL DEF Spec

\* Every variable keeps its type, for any number of requests, counters and steps.
THEOREM TypeCorrect == Spec => []TypeOK
  <1>1. IInv => TypeOK
    BY TypesAre DEF IInv
  <1>2. QED
    BY <1>1, Invariant, PTL

\* signin.py:52: as many attempts as run at once, less one, may pass a limit, and no more, however
\* many counters an attempt has and whichever it shares with others.
THEOREM WithinBounds == Spec => []AttemptsBounded
  <1>1. IInv => AttemptsBounded
    <2> SUFFICES ASSUME IInv, NEW c \in Counters
                 PROVE  count[c] < Limit[c] + Cardinality(Workers) /\ count[c] <= failed[c]
      BY DEF AttemptsBounded
    <2>1. /\ Cardinality(Pending(c)) \in Nat /\ Cardinality(Past(c)) \in Nat
          /\ Cardinality(Workers) \in Nat
      BY ConstantsAssumption, Cards, Subsets, FS_CardinalityType
    <2>2. count[c] \in Nat /\ failed[c] \in Nat /\ Limit[c] \in Nat
      BY LimitIs DEF IInv, Types, RestType
    <2>3. QED
      BY <2>1, <2>2 DEF IInv, CountInv
  <1>2. QED
    BY <1>1, Invariant, PTL

\* admin.py:252: no page is done for a session whose row was gone when its request began, however
\* often the person is disconnected and signs in again.
THEOREM OnlyAdminsAct == Spec => []ActsOnlyAdmins
  <1>1. IInv => ActsOnlyAdmins
    BY DEF IInv, SessionInv, ActsOnlyAdmins, At
  <1>2. QED
    BY <1>1, Invariant, PTL

\* admin.py:757, admin_page.py:314: a key is somebody's, a request's, or stranded by an error, a
\* crash, two saves at once or a disconnect that crossed a sign-in; and the key the bot has works.
THEOREM EveryKeyHasAPlace == Spec => []KeysHaveAPlace
  <1>1. IInv => KeysHaveAPlace
    BY DEF IInv
  <1>2. QED
    BY <1>1, Invariant, PTL

\* What SessionsLast says of a step.
EndsWell ==
  \A w \in Workers :
    ~At(w, "close") /\ run'[w].pc = "close" =>
      \/ run[w].id # row.id
      \/ ~row.admin \/ ~admin
      \/ run[w].key # row.key \/ row.key \notin keys

\* A session ends as SessionsLast says.
LEMMA EndStep ==
  ASSUME SessionsType, RestType, RunType, CarryInv, SessionInv, Next
  PROVE  EndsWell
  <1> USE DEF EndsWell, At, SessionInv, Others, yougile, postgres, cookies, attempts
  <1>1. ASSUME NEW w \in Workers, NEW o \in Origins, Submit(w, o) PROVE EndsWell
    BY <1>1, IdleIs, SubmitDoes
  <1>2. ASSUME NEW w \in Workers, NEW o \in Origins, Choose(w, o) PROVE EndsWell
    BY <1>2, IdleIs, ChooseDoes
  <1>3. ASSUME NEW w \in Workers, Peek(w) PROVE EndsWell
    BY <1>3, IdleIs, PeekDoes
  <1>4. ASSUME NEW w \in Workers, Companies(w) PROVE EndsWell
    BY <1>4, IdleIs, CompaniesDoes
  <1>5. ASSUME NEW w \in Workers, Hit(w) PROVE EndsWell
    BY <1>5, IdleIs, HitDoes
  <1>6. ASSUME NEW w \in Workers, CreateKey(w) PROVE EndsWell
    BY <1>6, IdleIs, CreateKeyDoes
  <1>7. ASSUME NEW w \in Workers, Me(w) PROVE EndsWell
    BY <1>7, IdleIs, MeDoes
  <1>8. ASSUME NEW w \in Workers, Undo(w) PROVE EndsWell
    BY <1>8, IdleIs, UndoDoes
  <1>9. ASSUME NEW w \in Workers, Previous(w) PROVE EndsWell
    BY <1>9, IdleIs, PreviousDoes
  <1>10. ASSUME NEW w \in Workers, Store(w) PROVE EndsWell
    BY <1>10, IdleIs, StoreDoes
  <1>11. ASSUME NEW w \in Workers, DropOld(w) PROVE EndsWell
    BY <1>11, IdleIs, DropOldDoes
  <1>12. ASSUME NEW w \in Workers, Open(w) PROVE EndsWell
    BY <1>12, IdleIs, OpenDoes
  <1>13. ASSUME NEW w \in Workers, NEW s \in sessions, Request(w, s) PROVE EndsWell
    BY <1>13, IdleIs, RequestDoes
  <1>14. ASSUME NEW w \in Workers, Row(w) PROVE EndsWell
    BY <1>14, IdleIs, RowDoes
  <1>15. ASSUME NEW w \in Workers, Check(w) PROVE EndsWell
    BY <1>15, IdleIs, CheckDoes
  <1>16. ASSUME NEW w \in Workers, Act(w) PROVE EndsWell
    BY <1>16, IdleIs, ActDoes
  <1>17. ASSUME NEW w \in Workers, DisconnectSelf(w) PROVE EndsWell
    BY <1>17, IdleIs, DisconnectSelfDoes
  <1>18. ASSUME NEW w \in Workers, Fails(w) PROVE EndsWell
    BY <1>18, IdleIs, FailsDoes
  <1>19. ASSUME NEW w \in Workers, FailsWithKey(w) PROVE EndsWell
    BY <1>19, IdleIs, FailsWithKeyDoes
  <1>20. ASSUME NEW w \in Workers, StoreUnsure(w) PROVE EndsWell
    BY <1>20, IdleIs, StoreUnsureDoes
  <1>21. ASSUME NEW w \in Workers, DeletionFails(w) PROVE EndsWell
    BY <1>21, IdleIs, DeletionFailsDoes
  <1>22. ASSUME NEW s \in sessions, Logout(s) PROVE EndsWell
    BY <1>22 DEF Logout
  <1>23. ASSUME NEW c \in Counters, LapseCount(c) PROVE EndsWell
    BY <1>23 DEF LapseCount
  <1>24. ASSUME NEW w \in Workers, Disconnect(w) PROVE EndsWell
    BY <1>24, IdleIs, DisconnectDoes
  <1>25. ASSUME SetAdmin PROVE EndsWell
    BY <1>25 DEF SetAdmin
  <1>26. ASSUME LapseCreds PROVE EndsWell
    BY <1>26 DEF LapseCreds
  <1>27. ASSUME Crash PROVE EndsWell
    BY <1>27, IdleIs, CrashDoes
  <1>28. ASSUME NEW w \in Workers, DropRow(w) PROVE EndsWell
    BY <1>28, IdleIs, DropRowDoes
  <1>29. ASSUME NEW w \in Workers, DropKey(w) PROVE EndsWell
    BY <1>29, IdleIs, DropKeyDoes
  <1>30. ASSUME NEW w \in Workers, DropUnsure(w) PROVE EndsWell
    BY <1>30, IdleIs, DropUnsureDoes
  <1>31. ASSUME NEW w \in Workers, Close(w) PROVE EndsWell
    BY <1>31, IdleIs, CloseDoes
  <1>32. QED
    BY <1>1, <1>2, <1>3, <1>4, <1>5, <1>6, <1>7, <1>8, <1>9, <1>10, <1>11, <1>12, <1>13, <1>14,
       <1>15, <1>16, <1>17, <1>18, <1>19, <1>20, <1>21, <1>22, <1>23, <1>24, <1>25, <1>26, <1>27,
       <1>28, <1>29, <1>30, <1>31
       DEF Next, Signing, Paging, Breaking

\* admin.py:312: a request sets out to close its session only for the loss of the person, of their
\* rights, or of the key it had read, whatever fails meanwhile.
THEOREM SessionsOutlive == Spec => SessionsLast
  <1>1. IInv /\ [Next]_vars => [EndsWell]_vars
    BY EndStep DEF IInv, Types
  <1>2. QED
    BY <1>1, Invariant, PTL DEF Spec, SessionsLast, EndsWell
================================================================================
