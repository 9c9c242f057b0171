----------------------------- MODULE Tokens_proofs -----------------------------
(***************************************************************************)
(* Proofs about Tokens, for any number of requests and clients and any     *)
(* budget: a grant never forks, what ended has no successor, a person who  *)
(* is gone has no token, and a client is locked out only for a reason.     *)
(***************************************************************************)
EXTENDS Tokens, TLAPS

Run == [pc : Phases, flow : Nat, client : Clients \cup {Nobody}, id : Nat, grant : Nat, n : Nat]

\* Every request is one of a client.
OfAClient == \A w \in Workers : run[w].pc # "idle" => run[w].client \in Clients

\* Two secrets, or a secret and what a request carries of it.
Same(a, b) == a.grant = b.grant /\ a.client = b.client /\ a.id = b.id

\* Numbers that were handed out: no secret, request or id is ahead of the counters.
NumInv ==
  /\ \A t \in tokens : t.n <= made /\ t.grant <= made
  /\ \A h \in held : h.n <= made
  /\ \A x \in codes : x.n <= made
  /\ \A g \in ended : g <= made
  /\ \A w \in Workers : run[w].grant <= made /\ run[w].n <= made
  /\ \A i \in gone : 0 < i /\ i <= issued
  /\ user <= issued /\ user \notin gone

\* A number is the number of one thing.
NameInv ==
  /\ \A s, t \in tokens : s.n = t.n => Same(s, t)
  /\ \A h \in held, t \in tokens : h.n = t.n => Same(h, t)
  /\ \A w \in Workers, t \in tokens :
       run[w].pc \in {"rotate", "answer"} /\ run[w].n = t.n => Same(run[w], t)
  /\ \A x, y \in codes : x.n = y.n => x = y

\* What is over has no code either.
NoCodeOver == \A x \in codes : x.n \notin ended

\* The client of a request that trades is known, or the purge came in between.
ClientInv == \A w \in Workers : Trading(w) => run[w].client \in clients \cup forgotten

\* A token that is stored and not yet answered with is nobody else's to lose.
Lost(w) == run[w].grant \in ended \/ run[w].id \in gone \/ run[w].client \in forgotten
Unanswered(w) ==
  /\ \A h \in held : h.n # run[w].n
  /\ \A v \in Workers \ {w} : run[v].pc \in {"rotate", "answer"} => run[v].n # run[w].n
  /\ (run[w].n \in {t.n : t \in tokens} /\ run[w].client \in clients) \/ Lost(w)
AnswerInv == \A w \in Workers : run[w].pc = "answer" => Unanswered(w)

\* Why a client need not have lost what it holds, or has a reason to.
Stored(h) == h.n \in {t.n : t \in tokens} /\ h.client \in clients
Handled(h) ==
  \E w \in Workers : run[w].pc \in {"user", "company", "save", "answer"} /\ run[w].grant = h.grant
Over(h) == h.grant \in ended \cup burnt \/ h.id \in gone \/ h.client \in forgotten
Reason(h) == Stored(h) \/ Handled(h) \/ Over(h)
ReasonInv == \A h \in held : Reason(h)

OneInv == GrantIsOne /\ EndedIsOver /\ NoCodeOver
KnownInv == ClientInv /\ AnswerInv /\ ReasonInv
IInv == TypeOK /\ OfAClient /\ NumInv /\ NameInv /\ OneInv /\ GoneHaveNothing /\ KnownInv

-----------------------------------------------------------------------------
(* Types *)

LEMMA TypeInit == Init => TypeOK
  BY ConstantsAssumption DEF Init, TypeOK, Idle, Phases, Kinds

LEMMA IdleType == Idle \in Run
  BY DEF Idle, Run, Phases

LEMMA LeftType ==
  ASSUME TypeOK, NEW kind \in Kinds, Spend(kind)
  PROVE  left' \in [Kinds -> Nat]
  BY DEF TypeOK, Spend

\* Locals put together from typed values, and a request that begins with them.
LEMMA BeginsType ==
  ASSUME TypeOK, NEW w \in Workers, NEW r \in Run, Begins(w, r)
  PROVE  run' \in [Workers -> Run]
  BY DEF TypeOK, Begins, Run

LEMMA GoesType ==
  ASSUME TypeOK, NEW w \in Workers, NEW pc \in Phases, Goes(w, pc)
  PROVE  run' \in [Workers -> Run]
  BY DEF TypeOK, Goes, Run

LEMMA EndsType ==
  ASSUME TypeOK, NEW w \in Workers, Ends(w)
  PROVE  run' \in [Workers -> Run]
  BY IdleType DEF TypeOK, Ends, Run

\* The secret a request has stored.
LEMMA TokenType ==
  ASSUME TypeOK, NEW w \in Workers, NEW n \in Nat, run[w].client \in Clients
  PROVE  Token(w, n) \in Secrets
  BY DEF TypeOK, Token, Secrets

\* Every step keeps the types.
LEMMA TypeStep ==
  ASSUME TypeOK, OfAClient, Next
  PROVE  TypeOK'
  <1> USE DEF TypeOK, Run, Phases, Secrets, Kinds, Spend, valkey, people, marks
  <1>1. ASSUME NEW c \in Clients, Register(c) PROVE TypeOK'
    BY <1>1 DEF Register
  <1>2. ASSUME NEW c \in Clients, Authorize(c) PROVE TypeOK'
    BY <1>2 DEF Authorize
  <1>3. ASSUME NEW w \in Workers, NEW f \in flows, Submit(w, f) PROVE TypeOK'
    <2>0. f.n \in Nat /\ f.client \in Clients
      BY DEF TypeOK
    <2>1. [Idle EXCEPT !.pc = "companies", !.flow = f.n, !.client = f.client] \in Run
      BY <2>0 DEF Idle, Run, Phases
    <2>2. run' \in [Workers -> Run]
      BY <1>3, <2>1, BeginsType DEF Submit
    <2>3. left' \in [Kinds -> Nat]
      BY <1>3, LeftType DEF Submit, Kinds
    <2>4. QED
      BY <1>3, <2>2, <2>3 DEF Submit, TypeOK, Run
  <1>4. ASSUME NEW w \in Workers, NEW f \in flows, Choose(w, f) PROVE TypeOK'
    <2>0. f.n \in Nat /\ f.client \in Clients
      BY DEF TypeOK
    <2>1. [Idle EXCEPT !.pc = "connect", !.flow = f.n, !.client = f.client] \in Run
      BY <2>0 DEF Idle, Run, Phases
    <2>2. run' \in [Workers -> Run]
      BY <1>4, <2>1, BeginsType DEF Choose
    <2>3. left' \in [Kinds -> Nat]
      BY <1>4, LeftType DEF Choose, Kinds
    <2>4. QED
      BY <1>4, <2>2, <2>3 DEF Choose, TypeOK, Run
  <1>5. ASSUME NEW w \in Workers, Companies(w) PROVE TypeOK'
    BY <1>5 DEF Companies, At, Ends, Goes, Idle
  <1>6. ASSUME NEW w \in Workers, Connect(w) PROVE TypeOK'
    BY <1>6 DEF Connect, At, Ends, Idle
  <1>7. ASSUME NEW w \in Workers, IssueCode(w) PROVE TypeOK'
    <2>1. run' \in [Workers -> Run]
      BY <1>7, GoesType DEF IssueCode, Phases
    <2>2. run[w].client \in Clients /\ run[w].id \in Nat /\ made' \in Nat
      BY <1>7 DEF IssueCode, TypeOK, At, OfAClient
    <2>3. codes' \subseteq [n : Nat, client : Clients, id : Nat]
      BY <1>7, <2>2 DEF IssueCode, TypeOK
    <2>4. QED
      BY <1>7, <2>1, <2>2, <2>3 DEF IssueCode, TypeOK, Run
  <1>8. ASSUME NEW w \in Workers, ForgetFlow(w) PROVE TypeOK'
    BY <1>8 DEF ForgetFlow, At, Ends, Idle
  <1>9. ASSUME NEW w \in Workers, NEW c \in Clients, NEW x \in codes, LoadCode(w, c, x)
        PROVE TypeOK'
    <2>1. [Idle EXCEPT !.pc = "take", !.client = c, !.grant = x.n] \in Run
      BY DEF TypeOK, Idle, Run, Phases
    <2>2. run' \in [Workers -> Run]
      BY <1>9, <2>1, BeginsType DEF LoadCode, TypeOK, Run
    <2>3. left' \in [Kinds -> Nat]
      BY <1>9, LeftType DEF LoadCode, Kinds
    <2>4. QED
      BY <1>9, <2>2, <2>3 DEF LoadCode, TypeOK, Run
  <1>10. ASSUME NEW w \in Workers, TakeCode(w) PROVE TypeOK'
    BY <1>10 DEF TakeCode, At, Ends, Idle
  <1>11. ASSUME NEW w \in Workers, NEW c \in Clients, NEW t \in tokens,
               Known(t), LoadRefresh(w, c, t)
        PROVE TypeOK'
    <2>0. t \in Secrets
      BY DEF TypeOK
    <2>1. [Idle EXCEPT !.pc = "rotate", !.client = c, !.grant = t.grant, !.n = t.n, !.id = t.id]
            \in Run
      BY <2>0 DEF Secrets, Idle, Run, Phases
    <2>2. run' \in [Workers -> Run]
      BY <1>11, <2>1, BeginsType DEF LoadRefresh, TypeOK, Run
    <2>3. left' \in [Kinds -> Nat]
      BY <1>11, LeftType DEF LoadRefresh, Kinds
    <2>4. tokens' \subseteq Secrets /\ ended' \subseteq Nat
      BY <1>11, <2>0 DEF LoadRefresh, TypeOK, Secrets
    <2>5. QED
      BY <1>11, <2>2, <2>3, <2>4 DEF LoadRefresh, TypeOK, Run
  <1>12. ASSUME NEW w \in Workers, Rotate(w) PROVE TypeOK'
    BY <1>12 DEF Rotate, At, Goes, Ends, Idle
  <1>13. ASSUME NEW w \in Workers, LookUpUser(w) PROVE TypeOK'
    BY <1>13 DEF LookUpUser, Burns, At, Goes, Ends, Idle
  <1>14. ASSUME NEW w \in Workers, LookUpCompany(w) PROVE TypeOK'
    BY <1>14 DEF LookUpCompany, Burns, At, Goes, Ends, Idle
  <1>15. ASSUME NEW w \in Workers, Save(w) PROVE TypeOK'
    <2>1. run' \in [Workers -> Run]
      BY <1>15, EndsType DEF Save, Burns, TypeOK, Run, Phases
    <2>2. tokens' \subseteq Secrets /\ made' \in Nat
      BY <1>15, TokenType DEF Save, TypeOK, At, OfAClient
    <2>3. burnt' \subseteq Nat
      BY <1>15 DEF Save, Burns, TypeOK
    <2>4. QED
      BY <1>15, <2>1, <2>2, <2>3 DEF Save, TypeOK, Run
  <1>16. ASSUME NEW w \in Workers, Answer(w) PROVE TypeOK'
    <2>1. run' \in [Workers -> Run]
      BY <1>16, EndsType DEF Answer
    <2>2. held' \subseteq Secrets
      BY <1>16, TokenType DEF Answer, TypeOK, At, OfAClient
    <2>3. QED
      BY <1>16, <2>1, <2>2 DEF Answer, TypeOK, Run
  <1>17. ASSUME NEW t \in tokens, Revoke(t) PROVE TypeOK'
    <2>1. t \in Secrets
      BY DEF TypeOK
    <2>2. left' \in [Kinds -> Nat]
      BY <1>17, LeftType DEF Revoke, Kinds
    <2>3. QED
      BY <1>17, <2>1, <2>2 DEF Revoke, TypeOK, Secrets
  <1>18. ASSUME Disconnect PROVE TypeOK'
    BY <1>18 DEF Disconnect
  <1>19. ASSUME SetCompany PROVE TypeOK'
    BY <1>19 DEF SetCompany
  <1>20. ASSUME Lapse PROVE TypeOK'
    <2>1. left' \in [Kinds -> Nat]
      BY <1>20, LeftType DEF Lapse, Kinds
    <2>2. flows' \subseteq flows /\ creds' \subseteq creds /\ codes' \subseteq codes
      BY <1>20 DEF Lapse
    <2>3. tokens' \subseteq Secrets
      <3>1. \A t \in Secrets : [t EXCEPT !.lapsed = TRUE] \in Secrets
        BY DEF Secrets
      <3>2. tokens \subseteq Secrets
        BY DEF TypeOK
      <3>3. QED
        BY <1>20, <3>1, <3>2 DEF Lapse
    <2>4. QED
      BY <1>20, <2>1, <2>2, <2>3 DEF Lapse, TypeOK
  <1>21. ASSUME PurgeTokens PROVE TypeOK'
    <2>1. left' \in [Kinds -> Nat]
      BY <1>21, LeftType DEF PurgeTokens, Kinds
    <2>2. tokens' \subseteq Secrets /\ {t.grant : t \in tokens \ tokens'} \subseteq Nat
      BY <1>21 DEF PurgeTokens, TypeOK, Secrets
    <2>3. QED
      BY <1>21, <2>1, <2>2 DEF PurgeTokens, TypeOK
  <1>22. ASSUME PurgeClients PROVE TypeOK'
    BY <1>22 DEF PurgeClients
  <1>23. ASSUME NEW w \in Workers, Fails(w) PROVE TypeOK'
    <2>1. run' \in [Workers -> Run] /\ left' \in [Kinds -> Nat]
      BY <1>23, EndsType, LeftType DEF Fails, Kinds
    <2>2. InHand(w) \subseteq Nat
      BY DEF InHand, TypeOK
    <2>3. QED
      BY <1>23, <2>1, <2>2 DEF Fails, TypeOK, Run
  <1>24. ASSUME Crash PROVE TypeOK'
    <2>1. run' \in [Workers -> Run] /\ left' \in [Kinds -> Nat]
      BY <1>24, IdleType, LeftType DEF Crash, Kinds
    <2>2. \A w \in Workers : InHand(w) \subseteq Nat
      BY DEF InHand, TypeOK
    <2>3. UNION {InHand(w) : w \in Workers} \subseteq Nat
      BY <2>2
    <2>4. burnt' \subseteq Nat
      BY <1>24, <2>3 DEF Crash, TypeOK
    <2>5. QED
      BY <1>24, <2>1, <2>4 DEF Crash, TypeOK, Run
  <1>25. QED
    BY <1>1, <1>2, <1>3, <1>4, <1>5, <1>6, <1>7, <1>8, <1>9, <1>10, <1>11, <1>12, <1>13, <1>14,
       <1>15, <1>16, <1>17, <1>18, <1>19, <1>20, <1>21, <1>22, <1>23, <1>24
       DEF Next, SignsIn, Trades

\* Every request is begun for a client.
LEMMA ClientTypeStep ==
  ASSUME TypeOK, OfAClient, Next
  PROVE  OfAClient'
  <1> USE DEF TypeOK, OfAClient, valkey, people, marks
  <1>1. ASSUME NEW c \in Clients, Register(c) PROVE OfAClient'
    BY <1>1 DEF Register
  <1>2. ASSUME NEW c \in Clients, Authorize(c) PROVE OfAClient'
    BY <1>2 DEF Authorize
  <1>3. ASSUME NEW w \in Workers, NEW f \in flows, Submit(w, f) PROVE OfAClient'
    BY <1>3 DEF Submit, Begins, At, Idle
  <1>4. ASSUME NEW w \in Workers, NEW f \in flows, Choose(w, f) PROVE OfAClient'
    BY <1>4 DEF Choose, Begins, At, Idle
  <1>5. ASSUME NEW w \in Workers, Companies(w) PROVE OfAClient'
    BY <1>5 DEF Companies, At, Ends, Goes, Idle
  <1>6. ASSUME NEW w \in Workers, Connect(w) PROVE OfAClient'
    BY <1>6 DEF Connect, At, Ends, Idle
  <1>7. ASSUME NEW w \in Workers, IssueCode(w) PROVE OfAClient'
    BY <1>7 DEF IssueCode, At, Goes
  <1>8. ASSUME NEW w \in Workers, ForgetFlow(w) PROVE OfAClient'
    BY <1>8 DEF ForgetFlow, At, Ends, Idle
  <1>9. ASSUME NEW w \in Workers, NEW c \in Clients, NEW x \in codes, LoadCode(w, c, x)
        PROVE OfAClient'
    BY <1>9 DEF LoadCode, Begins, At, Idle
  <1>10. ASSUME NEW w \in Workers, TakeCode(w) PROVE OfAClient'
    BY <1>10 DEF TakeCode, At, Ends, Idle
  <1>11. ASSUME NEW w \in Workers, NEW c \in Clients, NEW t \in tokens,
               Known(t), LoadRefresh(w, c, t)
        PROVE OfAClient'
    BY <1>11 DEF LoadRefresh, Begins, At, Idle
  <1>12. ASSUME NEW w \in Workers, Rotate(w) PROVE OfAClient'
    BY <1>12 DEF Rotate, At, Goes, Ends, Idle
  <1>13. ASSUME NEW w \in Workers, LookUpUser(w) PROVE OfAClient'
    BY <1>13 DEF LookUpUser, Burns, At, Goes, Ends, Idle
  <1>14. ASSUME NEW w \in Workers, LookUpCompany(w) PROVE OfAClient'
    BY <1>14 DEF LookUpCompany, Burns, At, Goes, Ends, Idle
  <1>15. ASSUME NEW w \in Workers, Save(w) PROVE OfAClient'
    BY <1>15 DEF Save, Token, Burns, At, Ends, Idle
  <1>16. ASSUME NEW w \in Workers, Answer(w) PROVE OfAClient'
    BY <1>16 DEF Answer, Token, At, Ends, Idle
  <1>17. ASSUME NEW t \in tokens, Revoke(t) PROVE OfAClient'
    BY <1>17 DEF Revoke, Known
  <1>18. ASSUME Disconnect PROVE OfAClient'
    BY <1>18 DEF Disconnect
  <1>19. ASSUME SetCompany PROVE OfAClient'
    BY <1>19 DEF SetCompany
  <1>20. ASSUME Lapse PROVE OfAClient'
    BY <1>20 DEF Lapse
  <1>21. ASSUME PurgeTokens PROVE OfAClient'
    BY <1>21 DEF PurgeTokens
  <1>22. ASSUME PurgeClients PROVE OfAClient'
    BY <1>22 DEF PurgeClients
  <1>23. ASSUME NEW w \in Workers, Fails(w) PROVE OfAClient'
    BY <1>23 DEF Fails, At, Ends, Idle, InHand
  <1>24. ASSUME Crash PROVE OfAClient'
    BY <1>24 DEF Crash, Idle, InHand
  <1>25. QED
    BY <1>1, <1>2, <1>3, <1>4, <1>5, <1>6, <1>7, <1>8, <1>9, <1>10, <1>11, <1>12, <1>13, <1>14,
       <1>15, <1>16, <1>17, <1>18, <1>19, <1>20, <1>21, <1>22, <1>23, <1>24
       DEF Next, SignsIn, Trades

-----------------------------------------------------------------------------
(* What the longer steps do *)

LEMMA LoadCodeDoes ==
  ASSUME TypeOK, NEW w \in Workers, NEW c \in Clients, NEW x \in codes, LoadCode(w, c, x)
  PROVE  /\ UNCHANGED <<clients, tokens, people, valkey, made, held, marks>>
         /\ \A v \in Workers : \/ run'[v] = run[v]
                               \/ /\ v = w /\ run[v].pc = "idle" /\ run'[v].pc = "take"
                                  /\ run'[v].client = c /\ run'[v].grant = x.n /\ run'[v].n = 0
                                  /\ c \in clients
  <1>1. UNCHANGED <<clients, tokens, people, valkey, made, held, marks>>
    BY DEF LoadCode
  <1>2. CASE x.client = c
    <2> DEFINE r == [Idle EXCEPT !.pc = "take", !.client = c, !.grant = x.n]
    <2>1. r.pc = "take" /\ r.client = c /\ r.grant = x.n /\ r.n = 0
      BY DEF Idle
    <2>2. run[w].pc = "idle" /\ run' = [run EXCEPT ![w] = r] /\ c \in clients
      BY <1>2 DEF LoadCode, Begins, At
    <2>3. run \in [Workers -> Run]
      BY DEF TypeOK, Run
    <2> HIDE DEF r
    <2>4. QED
      BY <1>1, <2>1, <2>2, <2>3
  <1>3. CASE x.client # c
    BY <1>3 DEF LoadCode
  <1>4. QED
    BY <1>1, <1>2, <1>3

LEMMA LoadRefreshDoes ==
  ASSUME TypeOK, NEW w \in Workers, NEW c \in Clients, NEW t \in tokens, LoadRefresh(w, c, t)
  PROVE  /\ UNCHANGED <<clients, people, valkey, made, held, burnt, forgotten>>
         /\ \/ UNCHANGED <<tokens, ended>>
            \/ tokens' = tokens \ {t} /\ ended' = ended \cup {t.grant}
         /\ \A v \in Workers : \/ run'[v] = run[v]
                               \/ /\ v = w /\ run[v].pc = "idle" /\ run'[v].pc = "rotate"
                                  /\ run'[v].n = t.n /\ Same(run'[v], t) /\ t.client \in clients
  BY DEF LoadRefresh, Begins, At, Idle, TypeOK, Same, valkey, people, marks

\* A token that lapses is the token it was but for that.
LEMMA LapseDoes ==
  ASSUME TypeOK, Lapse
  PROVE  /\ UNCHANGED <<clients, people, run, made, held, marks>> /\ codes' \subseteq codes
         /\ \/ tokens' = tokens
            \/ \E t \in tokens, u \in Secrets : /\ tokens' = (tokens \ {t}) \cup {u}
                                              /\ u.n = t.n /\ Same(u, t)
  <1>1. UNCHANGED <<clients, people, run, made, held, marks>> /\ codes' \subseteq codes
    BY DEF Lapse, valkey
  <1>2. ASSUME NEW t \in tokens
        PROVE  LET u == [t EXCEPT !.lapsed = TRUE] IN u \in Secrets /\ u.n = t.n /\ Same(u, t)
    BY DEF TypeOK, Secrets, Same
  <1>3. \/ tokens' = tokens
        \/ \E t \in tokens : tokens' = (tokens \ {t}) \cup {[t EXCEPT !.lapsed = TRUE]}
    BY DEF Lapse, valkey
  <1>4. QED
    BY <1>1, <1>2, <1>3

\* The new token follows what the request took; without a person there is none.
LEMMA SaveDoes ==
  ASSUME TypeOK, NEW w \in Workers, Save(w)
  PROVE  /\ run[w].pc = "save"
         /\ \A v \in Workers \ {w} : run'[v] = run[v]
         /\ \/ /\ user = run[w].id /\ made' = made + 1 /\ tokens' = tokens \cup {Token(w, made')}
               /\ Token(w, made').n = made' /\ Same(run[w], Token(w, made'))
               /\ run'[w].pc = "answer" /\ run'[w].n = made' /\ Same(run'[w], run[w])
               /\ burnt' = burnt
            \/ /\ user # run[w].id /\ UNCHANGED <<made, tokens>> /\ run'[w] = Idle
               /\ burnt' = burnt \cup {run[w].grant}
  BY DEF Save, Burns, Ends, At, Token, Same, TypeOK

-----------------------------------------------------------------------------
(* Numbers and names *)

\* Every step keeps the numbers.
LEMMA NumStep ==
  ASSUME TypeOK, NumInv, Next
  PROVE  NumInv'
  <1> USE DEF TypeOK, NumInv, Secrets, valkey, people, marks
  <1>1. ASSUME NEW c \in Clients, Register(c) PROVE NumInv'
    BY <1>1 DEF Register
  <1>2. ASSUME NEW c \in Clients, Authorize(c) PROVE NumInv'
    BY <1>2 DEF Authorize
  <1>3. ASSUME NEW w \in Workers, NEW f \in flows, Submit(w, f) PROVE NumInv'
    BY <1>3 DEF Submit, Begins, At, Idle
  <1>4. ASSUME NEW w \in Workers, NEW f \in flows, Choose(w, f) PROVE NumInv'
    BY <1>4 DEF Choose, Begins, At, Idle
  <1>5. ASSUME NEW w \in Workers, Companies(w) PROVE NumInv'
    BY <1>5 DEF Companies, At, Ends, Goes, Idle
  <1>6. ASSUME NEW w \in Workers, Connect(w) PROVE NumInv'
    BY <1>6 DEF Connect, At, Ends, Idle
  <1>7. ASSUME NEW w \in Workers, IssueCode(w) PROVE NumInv'
    BY <1>7 DEF IssueCode, At, Goes
  <1>8. ASSUME NEW w \in Workers, ForgetFlow(w) PROVE NumInv'
    BY <1>8 DEF ForgetFlow, At, Ends, Idle
  <1>9. ASSUME NEW w \in Workers, NEW c \in Clients, NEW x \in codes, LoadCode(w, c, x)
        PROVE NumInv'
    <2>1. \A v \in Workers : run'[v].grant <= made /\ run'[v].n <= made
      BY <1>9, LoadCodeDoes DEF TypeOK, NumInv
    <2>2. UNCHANGED <<tokens, user, issued, gone, codes, made, held, ended>>
      BY <1>9, LoadCodeDoes DEF people, valkey, marks
    <2>3. QED
      BY <2>1, <2>2 DEF NumInv
  <1>10. ASSUME NEW w \in Workers, TakeCode(w) PROVE NumInv'
    BY <1>10 DEF TakeCode, At, Ends, Idle
  <1>11. ASSUME NEW w \in Workers, NEW c \in Clients, NEW t \in tokens,
               Known(t), LoadRefresh(w, c, t)
        PROVE NumInv'
    BY <1>11 DEF LoadRefresh, Begins, At, Idle
  <1>12. ASSUME NEW w \in Workers, Rotate(w) PROVE NumInv'
    BY <1>12 DEF Rotate, At, Goes, Ends, Idle
  <1>13. ASSUME NEW w \in Workers, LookUpUser(w) PROVE NumInv'
    BY <1>13 DEF LookUpUser, Burns, At, Goes, Ends, Idle
  <1>14. ASSUME NEW w \in Workers, LookUpCompany(w) PROVE NumInv'
    BY <1>14 DEF LookUpCompany, Burns, At, Goes, Ends, Idle
  <1>15. ASSUME NEW w \in Workers, Save(w) PROVE NumInv'
    BY <1>15 DEF Save, Token, Burns, At, Ends, Idle
  <1>16. ASSUME NEW w \in Workers, Answer(w) PROVE NumInv'
    BY <1>16 DEF Answer, Token, At, Ends, Idle
  <1>17. ASSUME NEW t \in tokens, Revoke(t) PROVE NumInv'
    BY <1>17 DEF Revoke, Known
  <1>18. ASSUME Disconnect PROVE NumInv'
    BY <1>18 DEF Disconnect
  <1>19. ASSUME SetCompany PROVE NumInv'
    BY <1>19 DEF SetCompany
  <1>20. ASSUME Lapse PROVE NumInv'
    BY <1>20 DEF Lapse
  <1>21. ASSUME PurgeTokens PROVE NumInv'
    BY <1>21 DEF PurgeTokens
  <1>22. ASSUME PurgeClients PROVE NumInv'
    BY <1>22 DEF PurgeClients
  <1>23. ASSUME NEW w \in Workers, Fails(w) PROVE NumInv'
    BY <1>23 DEF Fails, At, Ends, Idle, InHand
  <1>24. ASSUME Crash PROVE NumInv'
    <2>1. \A w \in Workers : run'[w] = Idle
      BY <1>24 DEF Crash
    <2>2. UNCHANGED <<clients, tokens, people, valkey, made, held, ended, forgotten>>
      BY <1>24 DEF Crash
    <2>3. QED
      BY <2>1, <2>2 DEF Idle
  <1>25. QED
    BY <1>1, <1>2, <1>3, <1>4, <1>5, <1>6, <1>7, <1>8, <1>9, <1>10, <1>11, <1>12, <1>13, <1>14,
       <1>15, <1>16, <1>17, <1>18, <1>19, <1>20, <1>21, <1>22, <1>23, <1>24
       DEF Next, SignsIn, Trades

\* Every step keeps the names.
LEMMA NameStep ==
  ASSUME TypeOK, NumInv, NameInv, AnswerInv, Next
  PROVE  NameInv'
  <1> USE DEF TypeOK, NumInv, NameInv, Same, Secrets, valkey, people, marks
  <1>1. ASSUME NEW c \in Clients, Register(c) PROVE NameInv'
    BY <1>1 DEF Register
  <1>2. ASSUME NEW c \in Clients, Authorize(c) PROVE NameInv'
    BY <1>2 DEF Authorize
  <1>3. ASSUME NEW w \in Workers, NEW f \in flows, Submit(w, f) PROVE NameInv'
    BY <1>3 DEF Submit, Begins, At, Idle
  <1>4. ASSUME NEW w \in Workers, NEW f \in flows, Choose(w, f) PROVE NameInv'
    BY <1>4 DEF Choose, Begins, At, Idle
  <1>5. ASSUME NEW w \in Workers, Companies(w) PROVE NameInv'
    BY <1>5 DEF Companies, At, Ends, Goes, Idle
  <1>6. ASSUME NEW w \in Workers, Connect(w) PROVE NameInv'
    BY <1>6 DEF Connect, At, Ends, Idle
  <1>7. ASSUME NEW w \in Workers, IssueCode(w) PROVE NameInv'
    BY <1>7 DEF IssueCode, At, Goes
  <1>8. ASSUME NEW w \in Workers, ForgetFlow(w) PROVE NameInv'
    BY <1>8 DEF ForgetFlow, At, Ends, Idle
  <1>9. ASSUME NEW w \in Workers, NEW c \in Clients, NEW x \in codes, LoadCode(w, c, x)
        PROVE NameInv'
    BY <1>9, LoadCodeDoes
  <1>10. ASSUME NEW w \in Workers, TakeCode(w) PROVE NameInv'
    BY <1>10 DEF TakeCode, At, Ends, Idle
  <1>11. ASSUME NEW w \in Workers, NEW c \in Clients, NEW t \in tokens,
               Known(t), LoadRefresh(w, c, t)
        PROVE NameInv'
    BY <1>11, LoadRefreshDoes
  <1>12. ASSUME NEW w \in Workers, Rotate(w) PROVE NameInv'
    BY <1>12 DEF Rotate, At, Goes, Ends, Idle
  <1>13. ASSUME NEW w \in Workers, LookUpUser(w) PROVE NameInv'
    BY <1>13 DEF LookUpUser, Burns, At, Goes, Ends, Idle
  <1>14. ASSUME NEW w \in Workers, LookUpCompany(w) PROVE NameInv'
    BY <1>14 DEF LookUpCompany, Burns, At, Goes, Ends, Idle
  <1>15. ASSUME NEW w \in Workers, Save(w) PROVE NameInv'
    BY <1>15 DEF Save, Token, Burns, At, Ends, Idle
  <1>16. ASSUME NEW w \in Workers, Answer(w) PROVE NameInv'
    BY <1>16 DEF Answer, Token, At, Ends, Idle
  <1>17. ASSUME NEW t \in tokens, Revoke(t) PROVE NameInv'
    BY <1>17 DEF Revoke, Known
  <1>18. ASSUME Disconnect PROVE NameInv'
    BY <1>18 DEF Disconnect
  <1>19. ASSUME SetCompany PROVE NameInv'
    BY <1>19 DEF SetCompany
  <1>20. ASSUME Lapse PROVE NameInv'
    BY <1>20 DEF Lapse
  <1>21. ASSUME PurgeTokens PROVE NameInv'
    BY <1>21 DEF PurgeTokens
  <1>22. ASSUME PurgeClients PROVE NameInv'
    BY <1>22 DEF PurgeClients
  <1>23. ASSUME NEW w \in Workers, Fails(w) PROVE NameInv'
    BY <1>23 DEF Fails, At, Ends, Idle, InHand
  <1>24. ASSUME Crash PROVE NameInv'
    BY <1>24 DEF Crash, Idle, InHand
  <1>25. QED
    BY <1>1, <1>2, <1>3, <1>4, <1>5, <1>6, <1>7, <1>8, <1>9, <1>10, <1>11, <1>12, <1>13, <1>14,
       <1>15, <1>16, <1>17, <1>18, <1>19, <1>20, <1>21, <1>22, <1>23, <1>24
       DEF Next, SignsIn, Trades

-----------------------------------------------------------------------------
(* One grant *)

\* Every step keeps a grant one, and what is over over.
LEMMA OneStep ==
  ASSUME TypeOK, NumInv, NameInv, OneInv, Next
  PROVE  OneInv'
  <1> USE DEF TypeOK, NumInv, NameInv, OneInv, GrantIsOne, EndedIsOver, NoCodeOver, Taking,
              Same, Secrets, valkey, people, marks
  <1>1. ASSUME NEW c \in Clients, Register(c) PROVE OneInv'
    BY <1>1 DEF Register
  <1>2. ASSUME NEW c \in Clients, Authorize(c) PROVE OneInv'
    BY <1>2 DEF Authorize
  <1>3. ASSUME NEW w \in Workers, NEW f \in flows, Submit(w, f) PROVE OneInv'
    BY <1>3 DEF Submit, Begins, At, Idle
  <1>4. ASSUME NEW w \in Workers, NEW f \in flows, Choose(w, f) PROVE OneInv'
    BY <1>4 DEF Choose, Begins, At, Idle
  <1>5. ASSUME NEW w \in Workers, Companies(w) PROVE OneInv'
    BY <1>5 DEF Companies, At, Ends, Goes, Idle
  <1>6. ASSUME NEW w \in Workers, Connect(w) PROVE OneInv'
    BY <1>6 DEF Connect, At, Ends, Idle
  <1>7. ASSUME NEW w \in Workers, IssueCode(w) PROVE OneInv'
    BY <1>7 DEF IssueCode, At, Goes
  <1>8. ASSUME NEW w \in Workers, ForgetFlow(w) PROVE OneInv'
    BY <1>8 DEF ForgetFlow, At, Ends, Idle
  <1>9. ASSUME NEW w \in Workers, NEW c \in Clients, NEW x \in codes, LoadCode(w, c, x)
        PROVE OneInv'
    BY <1>9, LoadCodeDoes
  <1>10. ASSUME NEW w \in Workers, TakeCode(w) PROVE OneInv'
    BY <1>10 DEF TakeCode, At, Ends, Idle
  <1>11. ASSUME NEW w \in Workers, NEW c \in Clients, NEW t \in tokens,
               Known(t), LoadRefresh(w, c, t)
        PROVE OneInv'
    BY <1>11, LoadRefreshDoes
  <1>12. ASSUME NEW w \in Workers, Rotate(w) PROVE OneInv'
    BY <1>12 DEF Rotate, At, Goes, Ends, Idle
  <1>13. ASSUME NEW w \in Workers, LookUpUser(w) PROVE OneInv'
    BY <1>13 DEF LookUpUser, Burns, At, Goes, Ends, Idle
  <1>14. ASSUME NEW w \in Workers, LookUpCompany(w) PROVE OneInv'
    BY <1>14 DEF LookUpCompany, Burns, At, Goes, Ends, Idle
  <1>15. ASSUME NEW w \in Workers, Save(w) PROVE OneInv'
    <2>1. UNCHANGED <<clients, people, valkey, held, ended, forgotten>>
      BY <1>15 DEF Save
    <2>2. QED
      BY <1>15, <2>1, SaveDoes DEF Idle
  <1>16. ASSUME NEW w \in Workers, Answer(w) PROVE OneInv'
    BY <1>16 DEF Answer, Token, At, Ends, Idle
  <1>17. ASSUME NEW t \in tokens, Revoke(t) PROVE OneInv'
    BY <1>17 DEF Revoke, Known
  <1>18. ASSUME Disconnect PROVE OneInv'
    BY <1>18 DEF Disconnect
  <1>19. ASSUME SetCompany PROVE OneInv'
    BY <1>19 DEF SetCompany
  <1>20. ASSUME Lapse PROVE OneInv'
    BY <1>20, LapseDoes
  <1>21. ASSUME PurgeTokens PROVE OneInv'
    BY <1>21 DEF PurgeTokens
  <1>22. ASSUME PurgeClients PROVE OneInv'
    BY <1>22 DEF PurgeClients
  <1>23. ASSUME NEW w \in Workers, Fails(w) PROVE OneInv'
    BY <1>23 DEF Fails, At, Ends, Idle, InHand
  <1>24. ASSUME Crash PROVE OneInv'
    BY <1>24 DEF Crash, Idle, InHand
  <1>25. QED
    BY <1>1, <1>2, <1>3, <1>4, <1>5, <1>6, <1>7, <1>8, <1>9, <1>10, <1>11, <1>12, <1>13, <1>14,
       <1>15, <1>16, <1>17, <1>18, <1>19, <1>20, <1>21, <1>22, <1>23, <1>24
       DEF Next, SignsIn, Trades

\* Every step keeps those who are gone without a token.
LEMMA GoneStep ==
  ASSUME TypeOK, NumInv, GoneHaveNothing, Next
  PROVE  GoneHaveNothing'
  <1> USE DEF TypeOK, NumInv, GoneHaveNothing, Same, valkey, people, marks
  <1>1. ASSUME NEW c \in Clients, Register(c) PROVE GoneHaveNothing'
    BY <1>1 DEF Register
  <1>2. ASSUME NEW c \in Clients, Authorize(c) PROVE GoneHaveNothing'
    BY <1>2 DEF Authorize
  <1>3. ASSUME NEW w \in Workers, NEW f \in flows, Submit(w, f) PROVE GoneHaveNothing'
    BY <1>3 DEF Submit, Begins, At, Idle
  <1>4. ASSUME NEW w \in Workers, NEW f \in flows, Choose(w, f) PROVE GoneHaveNothing'
    BY <1>4 DEF Choose, Begins, At, Idle
  <1>5. ASSUME NEW w \in Workers, Companies(w) PROVE GoneHaveNothing'
    BY <1>5 DEF Companies, At, Ends, Goes, Idle
  <1>6. ASSUME NEW w \in Workers, Connect(w) PROVE GoneHaveNothing'
    BY <1>6 DEF Connect, At, Ends, Idle
  <1>7. ASSUME NEW w \in Workers, IssueCode(w) PROVE GoneHaveNothing'
    BY <1>7 DEF IssueCode, At, Goes
  <1>8. ASSUME NEW w \in Workers, ForgetFlow(w) PROVE GoneHaveNothing'
    BY <1>8 DEF ForgetFlow, At, Ends, Idle
  <1>9. ASSUME NEW w \in Workers, NEW c \in Clients, NEW x \in codes, LoadCode(w, c, x)
        PROVE GoneHaveNothing'
    BY <1>9 DEF LoadCode, Begins, At, Idle
  <1>10. ASSUME NEW w \in Workers, TakeCode(w) PROVE GoneHaveNothing'
    BY <1>10 DEF TakeCode, At, Ends, Idle
  <1>11. ASSUME NEW w \in Workers, NEW c \in Clients, NEW t \in tokens,
               Known(t), LoadRefresh(w, c, t)
        PROVE GoneHaveNothing'
    BY <1>11 DEF LoadRefresh, Begins, At, Idle
  <1>12. ASSUME NEW w \in Workers, Rotate(w) PROVE GoneHaveNothing'
    BY <1>12 DEF Rotate, At, Goes, Ends, Idle
  <1>13. ASSUME NEW w \in Workers, LookUpUser(w) PROVE GoneHaveNothing'
    BY <1>13 DEF LookUpUser, Burns, At, Goes, Ends, Idle
  <1>14. ASSUME NEW w \in Workers, LookUpCompany(w) PROVE GoneHaveNothing'
    BY <1>14 DEF LookUpCompany, Burns, At, Goes, Ends, Idle
  <1>15. ASSUME NEW w \in Workers, Save(w) PROVE GoneHaveNothing'
    BY <1>15 DEF Save, Token, Burns, At, Ends, Idle
  <1>16. ASSUME NEW w \in Workers, Answer(w) PROVE GoneHaveNothing'
    BY <1>16 DEF Answer, Token, At, Ends, Idle
  <1>17. ASSUME NEW t \in tokens, Revoke(t) PROVE GoneHaveNothing'
    BY <1>17 DEF Revoke, Known
  <1>18. ASSUME Disconnect PROVE GoneHaveNothing'
    BY <1>18 DEF Disconnect
  <1>19. ASSUME SetCompany PROVE GoneHaveNothing'
    BY <1>19 DEF SetCompany
  <1>20. ASSUME Lapse PROVE GoneHaveNothing'
    BY <1>20, LapseDoes
  <1>21. ASSUME PurgeTokens PROVE GoneHaveNothing'
    BY <1>21 DEF PurgeTokens
  <1>22. ASSUME PurgeClients PROVE GoneHaveNothing'
    BY <1>22 DEF PurgeClients
  <1>23. ASSUME NEW w \in Workers, Fails(w) PROVE GoneHaveNothing'
    BY <1>23 DEF Fails, At, Ends, Idle, InHand
  <1>24. ASSUME Crash PROVE GoneHaveNothing'
    BY <1>24 DEF Crash, Idle, InHand
  <1>25. QED
    BY <1>1, <1>2, <1>3, <1>4, <1>5, <1>6, <1>7, <1>8, <1>9, <1>10, <1>11, <1>12, <1>13, <1>14,
       <1>15, <1>16, <1>17, <1>18, <1>19, <1>20, <1>21, <1>22, <1>23, <1>24
       DEF Next, SignsIn, Trades

-----------------------------------------------------------------------------
(* Who is known *)

\* Every step keeps the clients of requests known, or forgotten.
LEMMA ClientStep ==
  ASSUME TypeOK, ClientInv, Next
  PROVE  ClientInv'
  <1> USE DEF TypeOK, ClientInv, Trading, Same, valkey, people, marks
  <1>1. ASSUME NEW c \in Clients, Register(c) PROVE ClientInv'
    BY <1>1 DEF Register
  <1>2. ASSUME NEW c \in Clients, Authorize(c) PROVE ClientInv'
    BY <1>2 DEF Authorize
  <1>3. ASSUME NEW w \in Workers, NEW f \in flows, Submit(w, f) PROVE ClientInv'
    BY <1>3 DEF Submit, Begins, At, Idle
  <1>4. ASSUME NEW w \in Workers, NEW f \in flows, Choose(w, f) PROVE ClientInv'
    BY <1>4 DEF Choose, Begins, At, Idle
  <1>5. ASSUME NEW w \in Workers, Companies(w) PROVE ClientInv'
    BY <1>5 DEF Companies, At, Ends, Goes, Idle
  <1>6. ASSUME NEW w \in Workers, Connect(w) PROVE ClientInv'
    BY <1>6 DEF Connect, At, Ends, Idle
  <1>7. ASSUME NEW w \in Workers, IssueCode(w) PROVE ClientInv'
    BY <1>7 DEF IssueCode, At, Goes
  <1>8. ASSUME NEW w \in Workers, ForgetFlow(w) PROVE ClientInv'
    BY <1>8 DEF ForgetFlow, At, Ends, Idle
  <1>9. ASSUME NEW w \in Workers, NEW c \in Clients, NEW x \in codes, LoadCode(w, c, x)
        PROVE ClientInv'
    BY <1>9, LoadCodeDoes
  <1>10. ASSUME NEW w \in Workers, TakeCode(w) PROVE ClientInv'
    BY <1>10 DEF TakeCode, At, Ends, Idle
  <1>11. ASSUME NEW w \in Workers, NEW c \in Clients, NEW t \in tokens,
               Known(t), LoadRefresh(w, c, t)
        PROVE ClientInv'
    BY <1>11, LoadRefreshDoes
  <1>12. ASSUME NEW w \in Workers, Rotate(w) PROVE ClientInv'
    BY <1>12 DEF Rotate, At, Goes, Ends, Idle
  <1>13. ASSUME NEW w \in Workers, LookUpUser(w) PROVE ClientInv'
    BY <1>13 DEF LookUpUser, Burns, At, Goes, Ends, Idle
  <1>14. ASSUME NEW w \in Workers, LookUpCompany(w) PROVE ClientInv'
    BY <1>14 DEF LookUpCompany, Burns, At, Goes, Ends, Idle
  <1>15. ASSUME NEW w \in Workers, Save(w) PROVE ClientInv'
    BY <1>15 DEF Save, Token, Burns, At, Ends, Idle
  <1>16. ASSUME NEW w \in Workers, Answer(w) PROVE ClientInv'
    BY <1>16 DEF Answer, Token, At, Ends, Idle
  <1>17. ASSUME NEW t \in tokens, Revoke(t) PROVE ClientInv'
    BY <1>17 DEF Revoke, Known
  <1>18. ASSUME Disconnect PROVE ClientInv'
    BY <1>18 DEF Disconnect
  <1>19. ASSUME SetCompany PROVE ClientInv'
    BY <1>19 DEF SetCompany
  <1>20. ASSUME Lapse PROVE ClientInv'
    BY <1>20 DEF Lapse
  <1>21. ASSUME PurgeTokens PROVE ClientInv'
    BY <1>21 DEF PurgeTokens
  <1>22. ASSUME PurgeClients PROVE ClientInv'
    BY <1>22 DEF PurgeClients
  <1>23. ASSUME NEW w \in Workers, Fails(w) PROVE ClientInv'
    BY <1>23 DEF Fails, At, Ends, Idle, InHand
  <1>24. ASSUME Crash PROVE ClientInv'
    BY <1>24 DEF Crash, Idle, InHand
  <1>25. QED
    BY <1>1, <1>2, <1>3, <1>4, <1>5, <1>6, <1>7, <1>8, <1>9, <1>10, <1>11, <1>12, <1>13, <1>14,
       <1>15, <1>16, <1>17, <1>18, <1>19, <1>20, <1>21, <1>22, <1>23, <1>24
       DEF Next, SignsIn, Trades

\* Every step keeps a new token where its request left it.
LEMMA AnswerStep ==
  ASSUME TypeOK, NumInv, NameInv, GoneHaveNothing, ClientInv, AnswerInv, Next
  PROVE  AnswerInv'
  <1> USE DEF TypeOK, NumInv, NameInv, ClientInv, AnswerInv, Unanswered, Lost, Trading, Same,
              Secrets, valkey, people, marks
  <1>1. ASSUME NEW c \in Clients, Register(c) PROVE AnswerInv'
    BY <1>1 DEF Register
  <1>2. ASSUME NEW c \in Clients, Authorize(c) PROVE AnswerInv'
    BY <1>2 DEF Authorize
  <1>3. ASSUME NEW w \in Workers, NEW f \in flows, Submit(w, f) PROVE AnswerInv'
    BY <1>3 DEF Submit, Begins, At, Idle
  <1>4. ASSUME NEW w \in Workers, NEW f \in flows, Choose(w, f) PROVE AnswerInv'
    BY <1>4 DEF Choose, Begins, At, Idle
  <1>5. ASSUME NEW w \in Workers, Companies(w) PROVE AnswerInv'
    BY <1>5 DEF Companies, At, Ends, Goes, Idle
  <1>6. ASSUME NEW w \in Workers, Connect(w) PROVE AnswerInv'
    BY <1>6 DEF Connect, At, Ends, Idle
  <1>7. ASSUME NEW w \in Workers, IssueCode(w) PROVE AnswerInv'
    BY <1>7 DEF IssueCode, At, Goes
  <1>8. ASSUME NEW w \in Workers, ForgetFlow(w) PROVE AnswerInv'
    BY <1>8 DEF ForgetFlow, At, Ends, Idle
  <1>9. ASSUME NEW w \in Workers, NEW c \in Clients, NEW x \in codes, LoadCode(w, c, x)
        PROVE AnswerInv'
    BY <1>9, LoadCodeDoes
  <1>10. ASSUME NEW w \in Workers, TakeCode(w) PROVE AnswerInv'
    BY <1>10 DEF TakeCode, At, Ends, Idle
  <1>11. ASSUME NEW w \in Workers, NEW c \in Clients, NEW t \in tokens,
               Known(t), LoadRefresh(w, c, t)
        PROVE AnswerInv'
    BY <1>11, LoadRefreshDoes DEF Known
  <1>12. ASSUME NEW w \in Workers, Rotate(w) PROVE AnswerInv'
    BY <1>12 DEF Rotate, At, Goes, Ends, Idle
  <1>13. ASSUME NEW w \in Workers, LookUpUser(w) PROVE AnswerInv'
    BY <1>13 DEF LookUpUser, Burns, At, Goes, Ends, Idle
  <1>14. ASSUME NEW w \in Workers, LookUpCompany(w) PROVE AnswerInv'
    BY <1>14 DEF LookUpCompany, Burns, At, Goes, Ends, Idle
  <1>15. ASSUME NEW w \in Workers, Save(w) PROVE AnswerInv'
    <2>1. UNCHANGED <<clients, people, valkey, held, ended, forgotten>>
      BY <1>15 DEF Save
    <2>2. QED
      BY <1>15, <2>1, SaveDoes DEF Idle
  <1>16. ASSUME NEW w \in Workers, Answer(w) PROVE AnswerInv'
    BY <1>16 DEF Answer, Token, At, Ends, Idle
  <1>17. ASSUME NEW t \in tokens, Revoke(t) PROVE AnswerInv'
    BY <1>17 DEF Revoke, Known
  <1>18. ASSUME Disconnect PROVE AnswerInv'
    BY <1>18 DEF Disconnect
  <1>19. ASSUME SetCompany PROVE AnswerInv'
    BY <1>19 DEF SetCompany
  <1>20. ASSUME Lapse PROVE AnswerInv'
    BY <1>20, LapseDoes
  <1>21. ASSUME PurgeTokens PROVE AnswerInv'
    BY <1>21 DEF PurgeTokens
  <1>22. ASSUME PurgeClients PROVE AnswerInv'
    BY <1>22 DEF PurgeClients
  <1>23. ASSUME NEW w \in Workers, Fails(w) PROVE AnswerInv'
    BY <1>23 DEF Fails, At, Ends, Idle, InHand
  <1>24. ASSUME Crash PROVE AnswerInv'
    BY <1>24 DEF Crash, Idle, InHand
  <1>25. QED
    BY <1>1, <1>2, <1>3, <1>4, <1>5, <1>6, <1>7, <1>8, <1>9, <1>10, <1>11, <1>12, <1>13, <1>14,
       <1>15, <1>16, <1>17, <1>18, <1>19, <1>20, <1>21, <1>22, <1>23, <1>24
       DEF Next, SignsIn, Trades

\* Every step keeps a reason for whoever is locked out.
LEMMA ReasonStep ==
  ASSUME TypeOK, NumInv, NameInv, AnswerInv, ReasonInv, Next
  PROVE  ReasonInv'
  <1> USE DEF TypeOK, NumInv, NameInv, AnswerInv, Unanswered, Lost, ReasonInv, Reason, Stored,
              Handled, Over, Same, valkey, people, marks
  <1>1. ASSUME NEW c \in Clients, Register(c) PROVE ReasonInv'
    BY <1>1 DEF Register
  <1>2. ASSUME NEW c \in Clients, Authorize(c) PROVE ReasonInv'
    BY <1>2 DEF Authorize
  <1>3. ASSUME NEW w \in Workers, NEW f \in flows, Submit(w, f) PROVE ReasonInv'
    BY <1>3 DEF Submit, Begins, At, Idle
  <1>4. ASSUME NEW w \in Workers, NEW f \in flows, Choose(w, f) PROVE ReasonInv'
    BY <1>4 DEF Choose, Begins, At, Idle
  <1>5. ASSUME NEW w \in Workers, Companies(w) PROVE ReasonInv'
    BY <1>5 DEF Companies, At, Ends, Goes, Idle
  <1>6. ASSUME NEW w \in Workers, Connect(w) PROVE ReasonInv'
    BY <1>6 DEF Connect, At, Ends, Idle
  <1>7. ASSUME NEW w \in Workers, IssueCode(w) PROVE ReasonInv'
    BY <1>7 DEF IssueCode, At, Goes
  <1>8. ASSUME NEW w \in Workers, ForgetFlow(w) PROVE ReasonInv'
    BY <1>8 DEF ForgetFlow, At, Ends, Idle
  <1>9. ASSUME NEW w \in Workers, NEW c \in Clients, NEW x \in codes, LoadCode(w, c, x)
        PROVE ReasonInv'
    BY <1>9, LoadCodeDoes
  <1>10. ASSUME NEW w \in Workers, TakeCode(w) PROVE ReasonInv'
    BY <1>10 DEF TakeCode, At, Ends, Idle
  <1>11. ASSUME NEW w \in Workers, NEW c \in Clients, NEW t \in tokens,
               Known(t), LoadRefresh(w, c, t)
        PROVE ReasonInv'
    BY <1>11, LoadRefreshDoes DEF Known
  <1>12. ASSUME NEW w \in Workers, Rotate(w) PROVE ReasonInv'
    BY <1>12 DEF Rotate, At, Goes, Ends, Idle
  <1>13. ASSUME NEW w \in Workers, LookUpUser(w) PROVE ReasonInv'
    BY <1>13 DEF LookUpUser, Burns, At, Goes, Ends, Idle
  <1>14. ASSUME NEW w \in Workers, LookUpCompany(w) PROVE ReasonInv'
    BY <1>14 DEF LookUpCompany, Burns, At, Goes, Ends, Idle
  <1>15. ASSUME NEW w \in Workers, Save(w) PROVE ReasonInv'
    <2>1. UNCHANGED <<clients, people, valkey, held, ended, forgotten>>
      BY <1>15 DEF Save
    <2>2. QED
      BY <1>15, <2>1, SaveDoes DEF Idle
  <1>16. ASSUME NEW w \in Workers, Answer(w) PROVE ReasonInv'
    BY <1>16 DEF Answer, Token, At, Ends, Idle
  <1>17. ASSUME NEW t \in tokens, Revoke(t) PROVE ReasonInv'
    BY <1>17 DEF Revoke, Known
  <1>18. ASSUME Disconnect PROVE ReasonInv'
    BY <1>18 DEF Disconnect
  <1>19. ASSUME SetCompany PROVE ReasonInv'
    BY <1>19 DEF SetCompany
  <1>20. ASSUME Lapse PROVE ReasonInv'
    BY <1>20, LapseDoes
  <1>21. ASSUME PurgeTokens PROVE ReasonInv'
    BY <1>21 DEF PurgeTokens
  <1>22. ASSUME PurgeClients PROVE ReasonInv'
    BY <1>22 DEF PurgeClients
  <1>23. ASSUME NEW w \in Workers, Fails(w) PROVE ReasonInv'
    BY <1>23 DEF Fails, At, Ends, Idle, InHand
  <1>24. ASSUME Crash PROVE ReasonInv'
    BY <1>24 DEF Crash, Idle, InHand
  <1>25. QED
    BY <1>1, <1>2, <1>3, <1>4, <1>5, <1>6, <1>7, <1>8, <1>9, <1>10, <1>11, <1>12, <1>13, <1>14,
       <1>15, <1>16, <1>17, <1>18, <1>19, <1>20, <1>21, <1>22, <1>23, <1>24
       DEF Next, SignsIn, Trades

-----------------------------------------------------------------------------
(* Theorems *)

LEMMA InvInit == Init => IInv
  <1> SUFFICES ASSUME Init PROVE IInv
    OBVIOUS
  <1>1. TypeOK
    BY TypeInit
  <1>2. QED
    BY <1>1, ConstantsAssumption
       DEF Init, Idle, IInv, OfAClient, NumInv, NameInv, OneInv, GrantIsOne, EndedIsOver, NoCodeOver,
           Taking, GoneHaveNothing, KnownInv, ClientInv, Trading, AnswerInv, ReasonInv

LEMMA InvStep == IInv /\ [Next]_vars => IInv'
  <1> SUFFICES ASSUME IInv, [Next]_vars PROVE IInv'
    OBVIOUS
  <1>1. CASE Next
    BY <1>1, TypeStep, ClientTypeStep, NumStep, NameStep, OneStep, GoneStep, ClientStep, AnswerStep,
       ReasonStep
       DEF IInv, KnownInv
  <1>2. CASE UNCHANGED vars
    BY <1>2
       DEF vars, valkey, people, marks, IInv, TypeOK, OfAClient, NumInv, NameInv, Same, OneInv,
           GrantIsOne, EndedIsOver, NoCodeOver, Taking, GoneHaveNothing, KnownInv, ClientInv, Trading,
           AnswerInv, Unanswered, Lost, ReasonInv, Reason, Stored, Handled, Over
  <1>3. QED
    BY <1>1, <1>2

LEMMA Invariant == Spec => []IInv
  BY InvInit, InvStep, PTL DEF Spec

\* Every variable of the provider keeps its type, however many requests, clients and flows.
THEOREM TypeCorrect == Spec => []TypeOK
  BY Invariant, PTL DEF IInv

\* A code and a refresh token work once (oauth.py: GETDEL and DELETE ... RETURNING), for any number
\* of requests that bring them at once.
THEOREM GrantStaysOne == Spec => []GrantIsOne
  BY Invariant, PTL DEF IInv, OneInv

\* What was revoked, or had lapsed when it was deleted, never has a successor.
THEOREM WhatEndedIsOver == Spec => []EndedIsOver
  BY Invariant, PTL DEF IInv, OneInv

\* Who was disconnected has no token and gets none, wherever their requests were.
THEOREM GoneAreGone == Spec => []GoneHaveNothing
  BY Invariant, PTL DEF IInv

\* A client is locked out only by a revocation, an expiry, a disconnect, a failure or a closed company
\* in the middle of a rotation, or a purge between two of its tokens.
THEOREM NobodyLockedOut == Spec => []LockedOutForAReason
  <1>1. IInv => LockedOutForAReason
    BY DEF IInv, KnownInv, ReasonInv, Reason, Stored, Handled, Over, LockedOutForAReason, InHand
  <1>2. QED
    BY <1>1, Invariant, PTL
================================================================================
