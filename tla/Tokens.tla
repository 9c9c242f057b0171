-------------------------------- MODULE Tokens --------------------------------
(***************************************************************************)
(* How an AI client comes by its tokens and loses them: the OAuth provider *)
(* (oauth.py) and the sign-in pages in the middle of its flow (web.py), as *)
(* one person goes through them, with the daily purge (db.py).             *)
(*                                                                         *)
(* A request is a worker of the one process; an await on Valkey, Postgres  *)
(* or YouGile is where another may run.  A secret (a flow, a code, a       *)
(* token) is a number; the grant of a token is the code it began with.     *)
(*                                                                         *)
(* What lives for a time (a flow, a password, a code, a refresh token) may *)
(* end at any moment.  SignIn.connect is one step here: module Accounts    *)
(* takes it apart.  Left out: PKCE and scopes, which the library checks;   *)
(* access tokens, which are signed and kept nowhere.                       *)
(***************************************************************************)
EXTENDS Naturals, FiniteSets

CONSTANTS
  Workers, \* requests under way at once
  Clients, \* AI clients
  Old,     \* those registered a month ago or longer
  Foreign, \* those whose callback is not, or no longer, in the list of allowed origins
  Nobody,  \* no client
  Budgets  \* bound: how many of each kind of step; a behaviour starts with one of them

Kinds == {"flows", "requests", "admin", "ends", "purges", "faults"}
ASSUME ConstantsAssumption ==
  /\ Old \subseteq Clients /\ Foreign \subseteq Clients /\ Nobody \notin Clients
  /\ Budgets \subseteq [Kinds -> Nat]

VARIABLES
  \* Postgres
  clients, \* oauth_clients
  tokens,  \* refresh_tokens: [n, grant, client, id, lapsed]
  user,    \* the id of the person in users, 0 when there is none
  issued,  \* the last id of users
  open,    \* may the company use the service
  \* Valkey
  flows,   \* authreq: [n, client]
  creds,   \* cred: the flows whose password is kept while a company is chosen
  codes,   \* code: [n, client, id]
  \* the app
  run,     \* the requests
  purge,   \* the purge: "idle", or which deletion is next
  made,    \* the last secret
  left,    \* what is left of the budget
  \* history
  held,    \* what the clients hold: the last token they were given of each grant
  ended,   \* grants whose token was revoked or had lapsed
  burnt,   \* grants whose token was taken for nothing
  gone,    \* ids of persons that were disconnected
  forgotten \* clients the purge deleted while a request of theirs was between two tokens

vars == <<clients, tokens, user, issued, open, flows, creds, codes, run, purge, made, left, held,
          ended, burnt, gone, forgotten>>
valkey == <<flows, creds, codes>>
people == <<user, issued, open, gone>>
marks == <<ended, burnt, forgotten>>

Idle == [pc |-> "idle", flow |-> 0, client |-> Nobody, id |-> 0, grant |-> 0, n |-> 0]

Spend(kind) == left[kind] > 0 /\ left' = [left EXCEPT ![kind] = @ - 1]
At(w, pc) == run[w].pc = pc
Goes(w, pc) == run' = [run EXCEPT ![w].pc = pc]
Begins(w, locals) == At(w, "idle") /\ run' = [run EXCEPT ![w] = locals]
Ends(w) == run' = [run EXCEPT ![w] = Idle]

-----------------------------------------------------------------------------
(* The flow: the client asks, the person signs in *)

\* Open registration, but only for callbacks that are known.
Register(c) ==
  /\ c \notin Old \cup clients \cup Foreign /\ Spend("flows")
  /\ clients' = clients \cup {c}
  /\ UNCHANGED <<tokens, people, valkey, run, purge, made, held, marks>>

\* A client registered before the list of origins changed is refused here.
Authorize(c) ==
  /\ c \in clients \ Foreign /\ Spend("flows")
  /\ made' = made + 1
  /\ flows' = flows \cup {[n |-> made', client |-> c]}
  /\ UNCHANGED <<clients, tokens, people, creds, codes, run, purge, held, marks>>

\* The form with login and password is sent: the flow is read, YouGile is asked.
Submit(w, f) ==
  /\ Spend("requests")
  /\ Begins(w, [Idle EXCEPT !.pc = "companies", !.flow = f.n, !.client = f.client])
  /\ UNCHANGED <<clients, tokens, people, valkey, purge, made, held, marks>>

\* YouGile's answer: no, or one company, or several to choose from.
Companies(w) ==
  /\ At(w, "companies")
  /\ \/ Ends(w) /\ UNCHANGED creds
     \/ Goes(w, "connect") /\ UNCHANGED creds
     \/ Ends(w) /\ creds' = creds \cup {run[w].flow}
  /\ UNCHANGED <<clients, tokens, people, flows, codes, purge, made, left, held, marks>>

Choose(w, f) ==
  /\ f.n \in creds /\ Spend("requests")
  /\ Begins(w, [Idle EXCEPT !.pc = "connect", !.flow = f.n, !.client = f.client])
  /\ UNCHANGED <<clients, tokens, people, valkey, purge, made, held, marks>>

\* The password is forgotten whatever comes of it.
Connect(w) ==
  /\ At(w, "connect")
  /\ creds' = creds \ {run[w].flow}
  /\ \/ Ends(w) /\ UNCHANGED <<user, issued>>
     \/ /\ open
        /\ issued' = IF user = 0 THEN issued + 1 ELSE issued
        /\ user' = IF user = 0 THEN issued' ELSE user
        /\ run' = [run EXCEPT ![w].pc = "code", ![w].id = user']
  /\ UNCHANGED <<clients, tokens, open, flows, codes, purge, made, left, held, marks, gone>>

\* Mutant of IssueCode: the flow is read again for the code, and may have lapsed.
IssueCodeReread(w) ==
  /\ At(w, "code") /\ Goes(w, "forget")
  /\ made' = made + 1
  /\ codes' = codes \cup {[n |-> made', id |-> run[w].id,
       client |-> IF \E f \in flows : f.n = run[w].flow THEN run[w].client ELSE Nobody]}
  /\ UNCHANGED <<clients, tokens, people, flows, creds, purge, left, held, marks>>

IssueCode(w) ==
  /\ At(w, "code") /\ Goes(w, "forget")
  /\ made' = made + 1
  /\ codes' = codes \cup {[n |-> made', client |-> run[w].client, id |-> run[w].id]}
  /\ UNCHANGED <<clients, tokens, people, flows, creds, purge, left, held, marks>>

\* The flow is over, and the browser takes the code to the client.
ForgetFlow(w) ==
  /\ At(w, "forget") /\ Ends(w)
  /\ flows' = {f \in flows : f.n # run[w].flow}
  /\ UNCHANGED <<clients, tokens, people, creds, codes, purge, made, left, held, marks>>

-----------------------------------------------------------------------------
(* Tokens *)

\* A registered client brings a code; only its own is looked at further.
LoadCode(w, c, x) ==
  /\ c \in clients /\ Spend("requests")
  /\ IF x.client = c
     THEN Begins(w, [Idle EXCEPT !.pc = "take", !.client = c, !.grant = x.n])
     ELSE UNCHANGED run
  /\ UNCHANGED <<clients, tokens, people, valkey, purge, made, held, marks>>

\* Mutant of TakeCode: the code is read, not taken.
ReadCode(w) ==
  /\ At(w, "take")
  /\ IF \E x \in codes : x.n = run[w].grant
     THEN LET x == CHOOSE x \in codes : x.n = run[w].grant
          IN run' = [run EXCEPT ![w].pc = "save", ![w].id = x.id]
     ELSE Ends(w)
  /\ UNCHANGED <<clients, tokens, people, valkey, purge, made, left, held, marks>>

\* GETDEL: of all that bring a code one has it.
TakeCode(w) ==
  /\ At(w, "take")
  /\ IF \E x \in codes : x.n = run[w].grant
     THEN \E x \in codes :
            /\ x.n = run[w].grant
            /\ codes' = codes \ {x}
            /\ run' = [run EXCEPT ![w].pc = "save", ![w].id = x.id]
     ELSE Ends(w) /\ UNCHANGED codes
  /\ UNCHANGED <<clients, tokens, people, flows, creds, purge, made, left, held, marks>>

\* Mutant of LoadRefresh: a token that another client brings is taken as a precaution.
LoadRefreshTakes(w, c, t) ==
  /\ c \in clients /\ Spend("requests")
  /\ IF t.client = c /\ ~ t.lapsed
     THEN /\ Begins(w, [Idle EXCEPT !.pc = "rotate", !.client = c, !.grant = t.grant, !.n = t.n,
                               !.id = t.id])
          /\ UNCHANGED <<tokens, ended>>
     ELSE tokens' = tokens \ {t} /\ UNCHANGED <<run, ended>>
  /\ UNCHANGED <<clients, people, valkey, purge, made, held, burnt, forgotten>>

\* A registered client brings a refresh token: nothing for a token that is not its own; one
\* that has lapsed is deleted.
LoadRefresh(w, c, t) ==
  /\ c \in clients /\ Spend("requests")
  /\ \/ t.client # c /\ UNCHANGED <<run, tokens, ended>>
     \/ /\ t.client = c /\ t.lapsed
        /\ tokens' = tokens \ {t} /\ ended' = ended \cup {t.grant} /\ UNCHANGED run
     \/ /\ t.client = c /\ ~ t.lapsed
        /\ Begins(w, [Idle EXCEPT !.pc = "rotate", !.client = c, !.grant = t.grant, !.n = t.n,
                               !.id = t.id])
        /\ UNCHANGED <<tokens, ended>>
  /\ UNCHANGED <<clients, people, valkey, purge, made, held, burnt, forgotten>>

\* Mutant of Rotate: it goes by the row that was loaded, whether or not it is still there.
RotateLoaded(w) ==
  /\ At(w, "rotate")
  /\ tokens' = {t \in tokens : t.n # run[w].n}
  /\ Goes(w, "user")
  /\ UNCHANGED <<clients, people, valkey, purge, made, left, held, marks>>

\* DELETE ... RETURNING: rotation takes the token before anything else is looked at.
Rotate(w) ==
  /\ At(w, "rotate")
  /\ IF \E t \in tokens : t.n = run[w].n
     THEN tokens' = {t \in tokens : t.n # run[w].n} /\ Goes(w, "user")
     ELSE Ends(w) /\ UNCHANGED tokens
  /\ UNCHANGED <<clients, people, valkey, purge, made, left, held, marks>>

\* The token is taken, and there will be no other.
Burns(w) == Ends(w) /\ burnt' = burnt \cup {run[w].grant}

\* The person and the company of their row; then access.
LookUpUser(w) ==
  /\ At(w, "user")
  /\ IF user = run[w].id THEN Goes(w, "company") /\ UNCHANGED burnt ELSE Burns(w)
  /\ UNCHANGED <<clients, tokens, people, valkey, purge, made, left, held, ended, forgotten>>

LookUpCompany(w) ==
  /\ At(w, "company")
  /\ IF open THEN Goes(w, "save") /\ UNCHANGED burnt ELSE Burns(w)
  /\ UNCHANGED <<clients, tokens, people, valkey, purge, made, left, held, ended, forgotten>>

Token(w, n) == [n |-> n, grant |-> run[w].grant, client |-> run[w].client, id |-> run[w].id,
                lapsed |-> FALSE]

\* Mutant of Save: the database does not mind that the person is gone.
SaveAnyway(w) ==
  /\ At(w, "save")
  /\ made' = made + 1 /\ tokens' = tokens \cup {Token(w, made')}
  /\ run' = [run EXCEPT ![w].pc = "answer", ![w].n = made']
  /\ UNCHANGED <<clients, people, valkey, purge, left, held, marks>>

\* The new token; its row refers to the person's, so it fails when they are gone by now.
Save(w) ==
  /\ At(w, "save")
  /\ IF user = run[w].id
     THEN /\ made' = made + 1 /\ tokens' = tokens \cup {Token(w, made')}
          /\ run' = [run EXCEPT ![w].pc = "answer", ![w].n = made']
          /\ UNCHANGED burnt
     ELSE Burns(w) /\ UNCHANGED <<made, tokens>>
  /\ UNCHANGED <<clients, people, valkey, purge, left, held, ended, forgotten>>

Answer(w) ==
  /\ At(w, "answer") /\ Ends(w)
  /\ held' = {h \in held : h.grant # run[w].grant} \cup {Token(w, run[w].n)}
  /\ UNCHANGED <<clients, tokens, people, valkey, purge, made, left, marks>>

Known(t) == t.n \in {h.n : h \in held}

Revoke(t) ==
  /\ Known(t) /\ Spend("requests")
  /\ tokens' = tokens \ {t} /\ ended' = ended \cup {t.grant}
  /\ UNCHANGED <<clients, people, valkey, run, purge, made, held, burnt, forgotten>>
-----------------------------------------------------------------------------
(* The admin, time, the purge and faults *)

\* A disconnect or a ban deletes the row, and the tokens that refer to it.
Disconnect ==
  /\ user # 0 /\ Spend("admin")
  /\ user' = 0 /\ gone' = gone \cup {user}
  /\ tokens' = {t \in tokens : t.id # user}
  /\ UNCHANGED <<clients, issued, open, valkey, run, purge, made, held, marks>>

SetCompany ==
  /\ Spend("admin") /\ open' = ~ open
  /\ UNCHANGED <<clients, tokens, user, issued, gone, valkey, run, purge, made, held, marks>>

\* What lives for a time comes to its end.
Lapse ==
  /\ Spend("ends")
  /\ \/ \E f \in flows : flows' = flows \ {f} /\ UNCHANGED <<creds, codes, tokens>>
     \/ \E f \in creds : creds' = creds \ {f} /\ UNCHANGED <<flows, codes, tokens>>
     \/ \E x \in codes : codes' = codes \ {x} /\ UNCHANGED <<flows, creds, tokens>>
     \/ \E t \in tokens : /\ ~ t.lapsed
                          /\ tokens' = (tokens \ {t}) \cup {[t EXCEPT !.lapsed = TRUE]}
                          /\ UNCHANGED valkey
  /\ UNCHANGED <<clients, people, run, purge, made, held, marks>>

PurgeTokens ==
  /\ purge = "idle" /\ Spend("purges") /\ purge' = "clients"
  /\ tokens' = {t \in tokens : ~ t.lapsed}
  /\ ended' = ended \cup {t.grant : t \in tokens \ tokens'}
  /\ UNCHANGED <<clients, people, valkey, run, made, held, burnt, forgotten>>

Trading(w) == run[w].pc \in {"take", "rotate", "user", "company", "save"}

\* Clients of a month ago that no token refers to.
PurgeClients ==
  /\ purge = "clients" /\ purge' = "idle"
  /\ clients' = {c \in clients : c \in Old => \E t \in tokens : t.client = c}
  /\ forgotten' = forgotten \cup
       {c \in clients \ clients' : \E w \in Workers : Trading(w) /\ run[w].client = c}
  /\ UNCHANGED <<tokens, people, valkey, run, made, left, held, ended, burnt>>

\* The grants whose token a request has in hand.
InHand(w) ==
  IF run[w].pc \in {"user", "company", "save", "answer"} THEN {run[w].grant} ELSE {}

\* Valkey, Postgres or YouGile fails, or an answer is lost: nothing is undone, but for the password.
Fails(w) ==
  /\ ~ At(w, "idle") /\ Spend("faults") /\ Ends(w)
  /\ creds' = IF At(w, "connect") THEN creds \ {run[w].flow} ELSE creds
  /\ burnt' = burnt \cup InHand(w)
  /\ UNCHANGED <<clients, tokens, people, flows, codes, purge, made, held, ended, forgotten>>

Crash ==
  /\ Spend("faults")
  /\ run' = [w \in Workers |-> Idle] /\ purge' = "idle"
  /\ burnt' = burnt \cup UNION {InHand(w) : w \in Workers}
  /\ UNCHANGED <<clients, tokens, people, valkey, made, held, ended, forgotten>>

Init ==
  /\ clients = Old /\ tokens = {} /\ user = 0 /\ issued = 0 /\ open = TRUE
  /\ flows = {} /\ creds = {} /\ codes = {}
  /\ run = [w \in Workers |-> Idle] /\ purge = "idle" /\ made = 0
  /\ held = {} /\ ended = {} /\ burnt = {} /\ gone = {} /\ forgotten = {}
  /\ left \in Budgets

SignsIn(w) == Companies(w) \/ Connect(w) \/ IssueCode(w) \/ ForgetFlow(w)
              \/ \E f \in flows : Submit(w, f) \/ Choose(w, f)
Trades(w) == TakeCode(w) \/ Rotate(w) \/ LookUpUser(w) \/ LookUpCompany(w) \/ Save(w) \/ Answer(w)
             \/ \E c \in Clients : \/ \E x \in codes : LoadCode(w, c, x)
                                   \/ \E t \in tokens : Known(t) /\ LoadRefresh(w, c, t)
Next == \/ \E c \in Clients : Register(c) \/ Authorize(c)
        \/ \E w \in Workers : SignsIn(w) \/ Trades(w) \/ Fails(w)
        \/ \E t \in tokens : Revoke(t)
        \/ Disconnect \/ SetCompany \/ Lapse \/ PurgeTokens \/ PurgeClients \/ Crash
Spec == Init /\ [][Next]_vars

-----------------------------------------------------------------------------
(* Properties *)

Phases == {"idle", "companies", "connect", "code", "forget", "take", "save", "rotate", "user",
           "company", "answer"}
Secrets == [n : Nat, grant : Nat, client : Clients, id : Nat, lapsed : BOOLEAN]

\* Every variable keeps its type.
TypeOK ==
  /\ clients \subseteq Clients
  /\ tokens \subseteq Secrets /\ held \subseteq Secrets
  /\ user \in Nat /\ issued \in Nat /\ open \in BOOLEAN /\ made \in Nat
  /\ flows \subseteq [n : Nat, client : Clients] /\ creds \subseteq Nat
  /\ codes \subseteq [n : Nat, client : Clients, id : Nat]
  /\ run \in [Workers -> [pc : Phases, flow : Nat, client : Clients \cup {Nobody}, id : Nat,
                          grant : Nat, n : Nat]]
  /\ purge \in {"idle", "clients"}
  /\ left \in [Kinds -> Nat]
  /\ ended \subseteq Nat /\ burnt \subseteq Nat /\ gone \subseteq Nat
  /\ forgotten \subseteq Clients

\* A request that has taken a code or a token and not yet stored the one that follows it.
Taking(w) == run[w].pc \in {"user", "company", "save"}

\* A grant never forks: there is its code, or one token of it, or one request that has taken either.
\* So a code and a refresh token work once, however many bring them at once.
GrantIsOne ==
  /\ \A s, t \in tokens : s.grant = t.grant => s = t
  /\ \A v, w \in Workers : Taking(v) /\ Taking(w) /\ run[v].grant = run[w].grant => v = w
  /\ \A t \in tokens, w \in Workers : Taking(w) => run[w].grant # t.grant
  /\ \A x \in codes : /\ \A t \in tokens : t.grant # x.n
                      /\ \A w \in Workers : Taking(w) => run[w].grant # x.n

\* What a revocation found, or what had lapsed, has no successor: not even from a rotation that
\* had loaded the token before.
EndedIsOver ==
  /\ \A t \in tokens : t.grant \notin ended
  /\ \A w \in Workers : Taking(w) => run[w].grant \notin ended

\* A person who was disconnected has no token, and gets none for the codes and the tokens of before,
\* wherever the requests were when it happened.
GoneHaveNothing == \A t \in tokens : t.id \notin gone

\* A client that holds a token has it in the database and is known itself, unless the token was
\* revoked, lapsed or its person disconnected, a failure or a closed company came in the middle of
\* a rotation, or the purge, which deletes clients "registered and never used for a month" (db.py),
\* took a client that was just then between two tokens: not by another client that brings the
\* token, nor by bringing it twice at once.
LockedOutForAReason ==
  \A h \in held :
    \/ h.n \in {t.n : t \in tokens} /\ h.client \in clients
    \/ \E w \in Workers : h.grant \in InHand(w)
    \/ h.grant \in ended \cup burnt \/ h.id \in gone \/ h.client \in forgotten

-----------------------------------------------------------------------------
(* What the documentation says and the code does not keep. *)

\* "Clients registered and never used for a month" are purged: a client in whose name there is a
\* token is still known, for without that it cannot bring the token.
UsedAreKnown == \A t \in tokens : t.client \in clients
=============================================================================
