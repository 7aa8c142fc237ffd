-------------------------- MODULE ClientPartsProofs --------------------------
(***************************************************************************)
(* What holds of the web client's stores for every value of the constants. *)
(***************************************************************************)
EXTENDS ClientParts, FiniteSetTheorems, TLAPS

-----------------------------------------------------------------------------
(* AuthStore.                                                              *)

Tokens == A!Token \cup {A!None}
OpRec == [kind : A!Kind, at : A!At, gen : Nat, scope : Scope \cup {NoScope},
          token : Tokens, got : Tokens]

\* Where the methods of each kind wait.
StagesOf(kind) ==
  CASE kind = "activate" -> {"load"}
    [] kind = "bootstrap" -> {"me", "me2", "sent", "found", "answered", "refused", "gaveup",
                              "renamed", "save", "clear"}
    [] kind = "login" -> {"sent", "answered", "refused", "save"}
    [] kind = "rename" -> {"sent", "renamed", "refused", "save"}
    [] kind = "refresh" -> {"sent", "found", "answered", "refused", "save", "clear"}
    [] kind = "logout" -> {"sent", "revoking", "answered", "clear"}
    [] OTHER -> {"idle"}

\* A token is of the server x.
OfServer(t, x) == t # A!None => home[t[1]] = x

\* The server and the store are typed.
AuthTypes ==
  /\ home \in [A!SessionId -> Scope \cup {NoScope}]
  /\ revoked \subseteq A!SessionId
  /\ issued \in [A!SessionId -> 0..MaxTokens]
  /\ spent \subseteq A!Token
  /\ scope \in Scope /\ pending \in Scope \cup {NoScope}
  /\ switches \in 0..MaxSwitches
  /\ generation \in Nat
  /\ memory \in Tokens
  /\ stored \in [Scope -> Tokens]
  /\ booting \in BOOLEAN /\ loading \in BOOLEAN
  /\ ops \in [Method -> OpRec]

\* Each switch raises the generation at most twice.
GenerationBound == generation + (IF pending # NoScope THEN 1 ELSE 0) <= 1 + 2 * switches

\* What a method in flight holds: tokens of the server it began with; the scope
\* has not changed while it is current.
Sound(r) ==
  /\ r.gen <= generation
  /\ r.at \in StagesOf(r.kind)
  /\ r.kind # "none" => r.scope \in Scope
  /\ OfServer(r.token, r.scope) /\ OfServer(r.got, r.scope)
  /\ r.at = "found" => r.token # A!None
  /\ r.kind # "none" /\ r.gen = generation => r.scope = scope /\ pending = NoScope
  /\ r.kind = "none" => r.token = A!None /\ r.got = A!None

\* A method of one of the kinds is in flight and current.
InFlight(kinds) == \E o \in Method : ops[o].kind \in kinds /\ ops[o].gen = generation

AuthInv ==
  /\ AuthTypes
  /\ GenerationBound
  /\ \A o \in Method : Sound(ops[o])
  /\ OfServer(memory, scope)
  /\ memory # A!None => pending = NoScope
  /\ \A x \in Scope : OfServer(stored[x], x)
  /\ booting => InFlight({"activate", "bootstrap"})
  /\ loading => InFlight({"login", "rename"})

\* The instance counts as this module does.
LEMMA SameCount == ASSUME NEW T PROVE A!Cardinality(T) = Cardinality(T)
BY DEF A!Cardinality, Cardinality

\* What a token is.
LEMMA TokenFacts ==
  ASSUME AuthAssumption
  PROVE  /\ A!None = <<0, 0>> /\ A!None \notin A!Token
         /\ \A t \in A!Token : t[1] \in A!SessionId /\ t[2] \in 1..MaxTokens /\ t = <<t[1], t[2]>>
         /\ \A s \in A!SessionId, n \in 1..MaxTokens : <<s, n>> \in A!Token
         /\ A!Idle \in OpRec /\ A!Idle.kind = "none" /\ A!Idle.at = "idle"
BY DEF AuthAssumption, A!None, A!Token, A!SessionId, A!Idle, OpRec, A!Kind, A!At, Tokens

\* A session that may issue a token has room for it: as many tokens exist as
\* were issued, and one session alone may issue them all.
LEMMA RoomForToken ==
  ASSUME AuthAssumption, AuthTypes, A!MayIssue, NEW s \in A!SessionId
  PROVE  issued[s] + 1 \in 1..MaxTokens
<1> DEFINE Made == {t \in A!Token : t[2] <= issued[t[1]]}
           Own == {<<s, n>> : n \in 1..MaxTokens}
<1>1. issued[s] \in 0..MaxTokens /\ MaxTokens \in Nat
  BY DEF AuthTypes, AuthAssumption
<1>2. SUFFICES ASSUME issued[s] = MaxTokens PROVE FALSE
  BY <1>1
<1>3. Own \subseteq Made
  BY <1>1, <1>2 DEF A!Token
<1>4. IsFiniteSet(Made)
  <2>1. IsFiniteSet(A!SessionId) /\ IsFiniteSet(1..MaxTokens)
    BY FS_Interval DEF AuthAssumption, A!SessionId
  <2>2. IsFiniteSet(A!SessionId \X (1..MaxTokens))
    BY <2>1, FS_Product
  <2> QED BY <2>2, FS_Subset DEF A!Token
<1>5. Cardinality(Own) = MaxTokens
  <2> DEFINE f == [n \in 1..MaxTokens |-> <<s, n>>]
  <2>1. f \in Bijection(1..MaxTokens, Own)
    BY DEF Bijection, Injection, Surjection, IsInjective
  <2>2. IsFiniteSet(1..MaxTokens) /\ Cardinality(1..MaxTokens) = MaxTokens
    BY <1>1, FS_Interval
  <2>3. ExistsBijection(1..MaxTokens, Own)
    BY <2>1 DEF ExistsBijection
  <2> QED BY <2>2, <2>3, FS_Bijection
<1>6. Cardinality(Own) <= Cardinality(Made)
  BY <1>3, <1>4, FS_Subset
<1>7. Cardinality(Made) < MaxTokens
  BY SameCount DEF A!MayIssue
<1>8. Cardinality(Made) \in Nat
  BY <1>4, FS_CardinalityType
<1> QED BY <1>1, <1>5, <1>6, <1>7, <1>8

-----------------------------------------------------------------------------

\* A method in flight is one of the kinds in K, and current.
Serves(r, K) == r.kind \in K /\ r.gen = generation
Booters == {"activate", "bootstrap"}
Loaders == {"login", "rename"}

\* The step of one method: what it leaves of itself is sound, what it puts into the
\* store is of the right server, and a spinner it leaves on has a method left.
LEMMA MethodStep ==
  ASSUME AuthAssumption, AuthInv, NEW o \in Method, NEW r \in OpRec, Sound(r)',
         ops' = [ops EXCEPT ![o] = r], UNCHANGED <<scope, generation, pending, switches>>,
         AuthTypes',
         \A s \in A!SessionId : home[s] # NoScope => home'[s] = home[s],
         OfServer(memory, scope)',
         memory' # A!None => pending = NoScope,
         \A x \in Scope : OfServer(stored[x], x)',
         booting' => Serves(r, Booters) \/ (booting /\ ~Serves(ops[o], Booters)),
         loading' => Serves(r, Loaders) \/ (loading /\ ~Serves(ops[o], Loaders))
  PROVE  AuthInv'
<1>1. ops \in [Method -> OpRec] /\ ops' \in [Method -> OpRec]
  BY DEF AuthInv, AuthTypes
<1>2. ASSUME NEW t \in Tokens, NEW x \in Scope, OfServer(t, x)
      PROVE  OfServer(t, x)'
  BY <1>2, TokenFacts DEF OfServer, Tokens, AuthAssumption
<1>3. ASSUME NEW p \in Method PROVE Sound(ops[p])'
  <2>1. CASE p = o
    BY <1>1, <2>1 DEF Sound, OfServer
  <2>2. CASE p # o
    <3>1. PICK q \in OpRec : q = ops[p]
      BY <1>1
    <3>2. ops'[p] = q
      BY <1>1, <2>2, <3>1
    <3>3. Sound(q)
      BY <3>1 DEF AuthInv
    <3>4. q.token \in Tokens /\ q.got \in Tokens
      BY DEF OpRec
    <3>5. CASE q.kind = "none"
      BY <3>3, <3>5, <3>2 DEF Sound, OfServer
    <3>6. CASE q.kind # "none"
      BY <3>3, <3>6, <1>2, <3>4, <3>2 DEF Sound, OfServer
    <3> QED BY <3>5, <3>6
  <2> QED BY <2>1, <2>2
<1>4. ASSUME NEW K, NEW b, b => Serves(r, K) \/ (InFlight(K) /\ ~Serves(ops[o], K)), b
      PROVE  InFlight(K)'
  <2>1. CASE Serves(r, K)
    BY <1>1, <2>1 DEF Serves, InFlight
  <2>2. CASE InFlight(K) /\ ~Serves(ops[o], K)
    <3>1. PICK p \in Method : ops[p].kind \in K /\ ops[p].gen = generation
      BY <2>2 DEF InFlight
    <3>2. p # o /\ ops'[p] = ops[p]
      BY <1>1, <2>2, <3>1 DEF Serves
    <3> QED BY <3>1, <3>2 DEF InFlight
  <2> QED BY <1>4, <2>1, <2>2
<1>5. (booting => InFlight(Booters)) /\ (loading => InFlight(Loaders))
  BY DEF AuthInv, Booters, Loaders
<1>6. ASSUME booting' PROVE InFlight(Booters)'
  BY <1>4, <1>5, <1>6
<1>7. ASSUME loading' PROVE InFlight(Loaders)'
  BY <1>4, <1>5, <1>7
<1> QED BY <1>3, <1>6, <1>7 DEF AuthInv, GenerationBound, Booters, Loaders, InFlight

\* A method that only waits somewhere else.
LEMMA Moved ==
  ASSUME AuthInv, NEW o \in Method, NEW at \in A!At, at \in StagesOf(ops[o].kind),
         at = "found" => ops[o].token # A!None
  PROVE  \E r \in OpRec : /\ r = [ops[o] EXCEPT !.at = at] /\ Sound(r)
                          /\ r.kind = ops[o].kind /\ r.gen = ops[o].gen /\ r.got = ops[o].got
                          /\ r.scope = ops[o].scope /\ r.token = ops[o].token
<1>1. PICK q \in OpRec : q = ops[o]
  BY DEF AuthInv, AuthTypes
<1>2. Sound(q)
  BY <1>1 DEF AuthInv
<1>3. PICK r \in OpRec : /\ r = [q EXCEPT !.at = at]
                         /\ r.kind = q.kind /\ r.gen = q.gen /\ r.got = q.got /\ r.at = at
                         /\ r.scope = q.scope /\ r.token = q.token
  <2> DEFINE r == [q EXCEPT !.at = at]
  <2>1. /\ r \in OpRec
        /\ r.kind = q.kind /\ r.gen = q.gen /\ r.got = q.got /\ r.at = at
        /\ r.scope = q.scope /\ r.token = q.token
    BY DEF OpRec
  <2> QED BY <2>1
<1>4. Sound(r)
  BY <1>1, <1>2, <1>3 DEF Sound
<1> QED BY <1>1, <1>3, <1>4

-----------------------------------------------------------------------------

LEMMA AuthInitially == AuthAssumption /\ A!Init => AuthInv
<1> SUFFICES ASSUME AuthAssumption, A!Init PROVE AuthInv
  OBVIOUS
<1>1. scope \in Scope
  BY DEF AuthAssumption, A!Init
<1>2. \A o \in Method : ops[o] = A!Idle
  BY DEF A!Init
<1>3. AuthTypes
  <2>1. /\ home \in [A!SessionId -> Scope \cup {NoScope}] /\ stored \in [Scope -> Tokens]
        /\ issued \in [A!SessionId -> 0..MaxTokens] /\ 0 \in 0..MaxSwitches
    BY DEF A!Init, AuthAssumption, Tokens
  <2>2. ops \in [Method -> OpRec]
    BY TokenFacts DEF A!Init
  <2> QED BY <1>1, <2>1, <2>2 DEF A!Init, AuthTypes, Tokens
<1>4. Sound(A!Idle)
  BY TokenFacts DEF A!Init, Sound, OfServer, StagesOf, A!Idle
<1> QED BY <1>1, <1>2, <1>3, <1>4 DEF A!Init, AuthInv, GenerationBound, OfServer, AuthAssumption

\* The steps of the server.
LEMMA NewSessionKeeps ==
  ASSUME AuthAssumption, AuthInv, NEW o \in Method, A!NewSession(o) PROVE AuthInv'
<1>1. PICK s \in A!SessionId : /\ home[s] = NoScope
                               /\ home' = [home EXCEPT ![s] = ops[o].scope]
                               /\ issued' = [issued EXCEPT ![s] = 1]
                               /\ A!Answer(o, <<s, 1>>)
  BY DEF A!NewSession
<1>2. PICK q \in OpRec : q = ops[o]
  BY DEF AuthInv, AuthTypes
<1>3. 1 \in 0..MaxTokens /\ <<s, 1>> \in A!Token
  BY RoomForToken, TokenFacts DEF AuthInv, AuthTypes, A!NewSession, AuthAssumption
<1> DEFINE e == [q EXCEPT !.at = "answered", !.got = <<s, 1>>]
<1>4. PICK r \in OpRec : /\ r = e /\ r.kind = q.kind /\ r.gen = q.gen /\ r.at = "answered"
                         /\ r.scope = q.scope /\ r.token = q.token /\ r.got = <<s, 1>>
  <2>1. /\ e \in OpRec /\ e.kind = q.kind /\ e.gen = q.gen /\ e.at = "answered"
        /\ e.scope = q.scope /\ e.token = q.token /\ e.got = <<s, 1>>
    BY <1>3 DEF OpRec, Tokens, A!At
  <2> QED BY <2>1
<1>5. Sound(q) /\ q.kind = "login"
  BY <1>2 DEF AuthInv, A!NewSession
<1>6. /\ home \in [A!SessionId -> Scope \cup {NoScope}] /\ q.scope \in Scope
      /\ UNCHANGED <<revoked, spent, scope, generation, memory, stored, booting, loading,
                     pending, switches>>
  BY <1>5 DEF Sound, AuthInv, AuthTypes, A!NewSession, A!client
<1>7. home' \in [A!SessionId -> Scope \cup {NoScope}] /\ home'[s] = q.scope
  BY <1>1, <1>2, <1>6
<1>8. \A x \in A!SessionId : home[x] # NoScope => home'[x] = home[x]
  BY <1>1, <1>6
<1>9. ASSUME NEW t \in Tokens, NEW x \in Scope, OfServer(t, x) PROVE OfServer(t, x)'
  BY <1>8, <1>9, TokenFacts DEF OfServer, Tokens, AuthAssumption
<1>10. Sound(r)'
  BY <1>5, <1>6, <1>9, <1>4, <1>7 DEF Sound, OpRec, OfServer, StagesOf
<1>11. ops' = [ops EXCEPT ![o] = r]
  BY <1>1, <1>2, <1>4 DEF A!Answer
<1>12. AuthTypes'
  BY <1>11, <1>1, <1>3, <1>6, <1>7 DEF AuthInv, AuthTypes
<1>13. OfServer(memory, scope)' /\ \A x \in Scope : OfServer(stored[x], x)'
  BY <1>6, <1>9 DEF AuthInv, AuthTypes
<1>14. Serves(r, Booters) = Serves(ops[o], Booters) /\ Serves(r, Loaders) = Serves(ops[o], Loaders)
  BY <1>2, <1>4 DEF Serves
<1> QED BY <1>6, <1>8, <1>10, <1>11, <1>12, <1>13, <1>14, MethodStep DEF AuthInv
\* MethodStep for a step that makes no session.
LEMMA OrdinaryStep ==
  ASSUME AuthAssumption, AuthInv, NEW o \in Method, NEW r \in OpRec, Sound(r),
         ops' = [ops EXCEPT ![o] = r], UNCHANGED <<home, scope, generation, pending, switches>>,
         revoked' \subseteq A!SessionId, issued' \in [A!SessionId -> 0..MaxTokens],
         spent' \subseteq A!Token,
         memory' \in Tokens, OfServer(memory', scope), memory' # A!None => pending = NoScope,
         stored' \in [Scope -> Tokens], \A x \in Scope : OfServer(stored'[x], x),
         booting' \in BOOLEAN, loading' \in BOOLEAN,
         booting' => Serves(r, Booters) \/ (booting /\ ~Serves(ops[o], Booters)),
         loading' => Serves(r, Loaders) \/ (loading /\ ~Serves(ops[o], Loaders))
  PROVE  AuthInv'
<1>1. Sound(r)'
  BY DEF Sound, OfServer
<1>2. ops' \in [Method -> OpRec]
  BY DEF AuthInv, AuthTypes
<1>3. AuthTypes'
  BY <1>2 DEF AuthInv, AuthTypes
<1>4. OfServer(memory, scope)' /\ \A x \in Scope : OfServer(stored[x], x)'
  BY DEF OfServer
<1> QED BY <1>1, <1>3, <1>4, MethodStep

\* A step of the server on a session that exists.
LEMMA ServerStep ==
  ASSUME AuthAssumption, AuthInv, NEW o \in Method, NEW r \in OpRec, Sound(r),
         ops' = [ops EXCEPT ![o] = r], r.kind = ops[o].kind, r.gen = ops[o].gen,
         UNCHANGED home, UNCHANGED A!client,
         revoked' \subseteq A!SessionId, issued' \in [A!SessionId -> 0..MaxTokens],
         spent' \subseteq A!Token
  PROVE  AuthInv'
<1>1. /\ UNCHANGED <<scope, generation, memory, stored, booting, loading, pending, switches>>
      /\ AuthTypes
  BY DEF A!client, AuthInv
<1>2. /\ memory' \in Tokens /\ OfServer(memory', scope) /\ (memory' # A!None => pending = NoScope)
      /\ stored' \in [Scope -> Tokens] /\ \A x \in Scope : OfServer(stored'[x], x)
  BY <1>1 DEF AuthInv, AuthTypes
<1>3. booting' \in BOOLEAN /\ loading' \in BOOLEAN
  BY <1>1 DEF AuthTypes
<1>4. Serves(r, Booters) = Serves(ops[o], Booters) /\ Serves(r, Loaders) = Serves(ops[o], Loaders)
  BY DEF Serves
<1> QED BY <1>1, <1>2, <1>3, <1>4, OrdinaryStep

\* A method moves, and nothing else does.
LEMMA MoveKeeps ==
  ASSUME AuthAssumption, AuthInv, NEW o \in Method, NEW at \in A!At,
         at \in StagesOf(ops[o].kind), at = "found" => ops[o].token # A!None,
         A!Move(o, at), UNCHANGED A!client, UNCHANGED home,
         revoked' \subseteq A!SessionId, issued' \in [A!SessionId -> 0..MaxTokens],
         spent' \subseteq A!Token
  PROVE  AuthInv'
<1>1. PICK r \in OpRec : /\ r = [ops[o] EXCEPT !.at = at] /\ Sound(r)
                         /\ r.kind = ops[o].kind /\ r.gen = ops[o].gen
  BY Moved
<1>2. ops' = [ops EXCEPT ![o] = r]
  BY <1>1 DEF A!Move
<1> QED BY <1>1, <1>2, ServerStep

\* What stages a kind has, where the proofs need it.
LEMMA Stages ==
  ASSUME AuthInv, NEW o \in Method
  PROVE  /\ ops[o].kind \in A!Kind /\ ops[o].at \in A!At
         /\ ops[o].at \in StagesOf(ops[o].kind)
         /\ ops[o].at = "load" => ops[o].kind = "activate"
         /\ ops[o].at \in {"me", "me2", "gaveup"} => ops[o].kind = "bootstrap"
         /\ ops[o].at = "renamed" => ops[o].kind \in {"bootstrap", "rename"}
         /\ ops[o].at = "found" => ops[o].kind \in {"bootstrap", "refresh"}
         /\ ops[o].at = "revoking" => ops[o].kind = "logout"
         /\ ops[o].at = "clear" => ops[o].kind \in {"bootstrap", "refresh", "logout"}
         /\ ops[o].at # "idle" => ops[o].kind # "none"
BY DEF AuthInv, AuthTypes, OpRec, Sound, StagesOf, A!Kind

LEMMA ServerKeeps ==
  ASSUME AuthAssumption, AuthInv, NEW o \in Method,
         \/ A!FindToken(o) \/ A!Exchange(o) \/ A!RevokeSession(o) \/ A!RevokeTokens(o)
         \/ A!Me(o) \/ A!Fails(o)
  PROVE  AuthInv'
<1> USE Stages
<1>0. /\ AuthTypes /\ revoked \subseteq A!SessionId /\ issued \in [A!SessionId -> 0..MaxTokens]
      /\ spent \subseteq A!Token
  BY DEF AuthInv, AuthTypes
<1>1. CASE A!FindToken(o)
  <2>1. PICK at \in {"found", "refused"} : A!Move(o, at) /\ (at = "found" => ops[o].token # A!None)
    BY <1>1 DEF A!FindToken, A!Active
  <2>2. at \in A!At /\ at \in StagesOf(ops[o].kind)
    BY <1>1 DEF A!FindToken, A!At, StagesOf
  <2> QED BY <1>0, <1>1, <2>1, <2>2, MoveKeeps DEF A!FindToken, A!server
<1>2. CASE A!Exchange(o)
  <2> DEFINE s == ops[o].token[1]
             t == <<s, issued[s] + 1>>
  <2>1. PICK q \in OpRec : q = ops[o]
    BY DEF AuthInv, AuthTypes
  <2>2. Sound(q) /\ q.at = "found" /\ q.kind \in {"bootstrap", "refresh"}
    BY <1>2, <2>1 DEF AuthInv, A!Exchange, A!Running
  <2>3. q.token \in A!Token /\ s \in A!SessionId
    BY <2>1, <2>2, TokenFacts DEF Sound, OpRec, Tokens
  <2>4. issued[s] + 1 \in 1..MaxTokens /\ t \in A!Token /\ t # A!None
    BY <1>0, <1>2, <2>3, RoomForToken, TokenFacts DEF A!Exchange
  <2>5. PICK r \in OpRec : /\ r = [q EXCEPT !.at = "answered", !.got = t]
                           /\ r.kind = q.kind /\ r.gen = q.gen /\ r.at = "answered"
                           /\ r.scope = q.scope /\ r.token = q.token /\ r.got = t
    <3> HIDE DEF t
    <3> DEFINE e == [q EXCEPT !.at = "answered", !.got = t]
    <3>1. /\ e \in OpRec /\ e.kind = q.kind /\ e.gen = q.gen /\ e.at = "answered"
          /\ e.scope = q.scope /\ e.token = q.token /\ e.got = t
      BY <2>4 DEF OpRec, Tokens, A!At
    <3> QED BY <3>1
  <2>6. OfServer(t, q.scope)
    BY <2>1, <2>2 DEF Sound, OfServer
  <2>7. Sound(r)
    BY <2>2, <2>5, <2>6 DEF Sound, StagesOf
  <2>8. ops' = [ops EXCEPT ![o] = r]
    BY <1>2, <2>1, <2>5 DEF A!Exchange, A!Answer
  <2>9. spent' \subseteq A!Token /\ issued' \in [A!SessionId -> 0..MaxTokens]
    BY <1>0, <1>2, <2>1, <2>3, <2>4 DEF A!Exchange
  <2> QED BY <1>0, <1>2, <2>1, <2>5, <2>7, <2>8, <2>9, ServerStep DEF A!Exchange
<1>3. CASE A!RevokeSession(o)
  <2>1. PICK q \in OpRec : q = ops[o]
    BY DEF AuthInv, AuthTypes
  <2>2. PICK at \in {"revoking", "answered"} : A!Move(o, at)
    BY <1>3 DEF A!RevokeSession
  <2>3. at \in A!At /\ at \in StagesOf(ops[o].kind)
    BY <1>3 DEF A!RevokeSession, A!At, StagesOf
  <2>4. revoked' \subseteq A!SessionId
    BY TokenFacts, <1>0, <1>3, <2>1 DEF OpRec, Tokens, A!Live, A!None, A!RevokeSession
  <2> QED BY <1>0, <1>3, <2>2, <2>3, <2>4, MoveKeeps DEF A!RevokeSession
<1>4. CASE A!RevokeTokens(o)
  BY <1>4, <1>0, MoveKeeps DEF A!RevokeTokens, A!Running, A!At, StagesOf
<1>5. CASE A!Me(o)
  BY <1>5, <1>0, MoveKeeps DEF A!Me, A!Running, A!At, StagesOf, A!server
<1>6. CASE A!Fails(o)
  <2>1. PICK at \in {"answered", "gaveup", "refused"} :
          A!Move(o, at) /\ at = (CASE ops[o].kind = "logout" -> "answered"
                                   [] A!Running(o, "me") -> "gaveup"
                                   [] OTHER -> "refused")
    BY <1>6 DEF A!Fails
  <2>2. at \in A!At
    BY DEF A!At
  <2>3. at \in StagesOf(ops[o].kind)
    BY <1>6, <2>1 DEF A!Fails, A!Running, StagesOf, A!Kind
  <2> QED BY <1>0, <1>6, <2>1, <2>2, <2>3, MoveKeeps DEF A!Fails, A!server
<1> QED BY <1>1, <1>2, <1>3, <1>4, <1>5, <1>6

\* The switch and the effect that follows it: every method in flight is stale.
LEMMA SwitchKeeps ==
  ASSUME AuthAssumption, AuthInv, NEW x \in Scope, A!SwitchServer(x) PROVE AuthInv'
<1>1. /\ AuthTypes /\ UNCHANGED <<home, revoked, issued, spent, scope, stored, ops>>
      /\ switches' = switches + 1 /\ switches < MaxSwitches /\ generation' = generation + 1
      /\ memory' = A!None /\ booting' = FALSE /\ loading' = FALSE
      /\ pending = NoScope /\ pending' = x
  BY DEF AuthInv, A!SwitchServer, A!SetMemory, A!server
<1>2. AuthTypes'
  <2>1. booting' \in BOOLEAN /\ loading' \in BOOLEAN
    BY <1>1
  <2>2. switches' \in 0..MaxSwitches /\ generation' \in Nat /\ memory' \in Tokens
    BY <1>1 DEF AuthTypes, AuthAssumption, Tokens
  <2> QED BY <1>1, <2>1, <2>2 DEF AuthTypes
<1>3. GenerationBound'
  BY <1>1 DEF AuthInv, AuthTypes, GenerationBound, AuthAssumption
<1>4. ASSUME NEW p \in Method PROVE Sound(ops[p])'
  <2>1. PICK q \in OpRec : q = ops[p] /\ q = ops'[p]
    BY <1>1 DEF AuthTypes
  <2>2. Sound(q) /\ q.gen \in Nat /\ generation \in Nat
    BY <1>1, <2>1 DEF AuthInv, OpRec, AuthTypes
  <2>3. Sound(q)'
    BY <1>1, <2>2 DEF Sound, OfServer
  <2> QED BY <2>1, <2>3 DEF Sound, OfServer
<1> QED BY <1>1, <1>2, <1>3, <1>4 DEF AuthInv, OfServer, InFlight

LEMMA ActivateKeeps ==
  ASSUME AuthAssumption, AuthInv, A!Activate PROVE AuthInv'
<1>1. PICK o \in Method : o = CHOOSE p \in A!Free : TRUE
  BY DEF A!Activate, A!Free
<1> DEFINE e == [A!Idle EXCEPT !.kind = "activate", !.at = "load", !.gen = generation + 1,
                               !.scope = pending]
<1>2. /\ AuthTypes /\ UNCHANGED <<home, revoked, issued, spent, stored, switches>>
      /\ generation' = generation + 1 /\ generation \in Nat
      /\ memory' = A!None /\ booting' = TRUE /\ loading' = FALSE
      /\ pending # NoScope /\ pending' = NoScope /\ scope' = pending /\ pending \in Scope
      /\ ops' = [ops EXCEPT ![o] = e]
  BY <1>1 DEF AuthInv, AuthTypes, A!Activate, A!SetMemory, A!server
<1>3. PICK r \in OpRec : /\ r = e /\ r.kind = "activate" /\ r.at = "load" /\ r.scope = pending
                         /\ r.gen = generation + 1 /\ r.token = A!None /\ r.got = A!None
  <2>1. /\ e \in OpRec /\ e.kind = "activate" /\ e.at = "load" /\ e.scope = pending
        /\ e.gen = generation + 1 /\ e.token = A!None /\ e.got = A!None
    <3>1. PICK i \in OpRec : i = A!Idle /\ i.token = A!None /\ i.got = A!None
      BY TokenFacts DEF A!Idle
    <3>2. e = [i EXCEPT !.kind = "activate", !.at = "load", !.gen = generation + 1,
                        !.scope = pending]
      BY <3>1
    <3>3. pending \in Scope \cup {NoScope} /\ generation + 1 \in Nat
      BY <1>2
    <3> HIDE DEF e
    <3> QED BY <3>1, <3>2, <3>3 DEF OpRec, A!Kind, A!At
  <2> QED BY <2>1
<1> HIDE DEF e
<1>4. ops \in [Method -> OpRec] /\ ops' \in [Method -> OpRec] /\ ops'[o] = r
  BY <1>2, <1>3 DEF AuthTypes
<1>5. AuthTypes'
  <2>1. booting' \in BOOLEAN /\ loading' \in BOOLEAN
    BY <1>2
  <2>2. generation' \in Nat /\ memory' \in Tokens
    BY <1>2 DEF Tokens
  <2> QED BY <1>2, <1>4, <2>1, <2>2 DEF AuthTypes
<1>6. GenerationBound'
  BY <1>2 DEF AuthInv, AuthTypes, GenerationBound, AuthAssumption
<1>7. ASSUME NEW p \in Method PROVE Sound(ops[p])'
  <2>1. CASE p = o
    BY <1>2, <1>3, <1>4, <2>1 DEF Sound, OfServer, StagesOf
  <2>2. CASE p # o
    <3>1. PICK q \in OpRec : q = ops[p] /\ q = ops'[p]
      BY <1>2, <1>4, <2>2
    <3>2. Sound(q) /\ q.gen \in Nat
      BY <3>1 DEF AuthInv, OpRec
    <3>3. Sound(q)'
      BY <1>2, <3>2 DEF Sound, OfServer
    <3> QED BY <3>1, <3>3 DEF Sound, OfServer
  <2> QED BY <2>1, <2>2
<1>8. InFlight({"activate", "bootstrap"})'
  BY <1>2, <1>3, <1>4 DEF InFlight
<1> QED BY <1>2, <1>5, <1>6, <1>7, <1>8 DEF AuthInv, OfServer

\* A method of the user's begins: what it takes along is the store's.
LEMMA StartKeeps ==
  ASSUME AuthAssumption, AuthInv, NEW kind \in A!Kind, NEW at \in A!At, NEW token \in Tokens,
         kind # "none", at \in StagesOf(kind), at # "found", token \in {A!None, memory},
         pending = NoScope, A!Start(kind, at, token),
         UNCHANGED <<home, revoked, issued, spent, scope, generation, memory, stored, booting,
                     pending, switches>>,
         loading' \in BOOLEAN, loading' => loading \/ kind \in Loaders
  PROVE  AuthInv'
<1>1. PICK o \in Method : o = (CHOOSE p \in A!Free : TRUE) /\ ops[o] = A!Idle
  BY DEF A!Start, A!Free
<1> DEFINE e == [kind |-> kind, at |-> at, gen |-> generation, scope |-> scope,
                 token |-> token, got |-> A!None]
<1>2. /\ AuthTypes /\ e \in OpRec
      /\ e.kind = kind /\ e.at = at /\ e.gen = generation /\ e.scope = scope
      /\ e.token = token /\ e.got = A!None /\ ops' = [ops EXCEPT ![o] = e]
  BY <1>1 DEF AuthInv, AuthTypes, A!Start, OpRec, Tokens
<1> HIDE DEF e
<1>3. Sound(e)
  BY <1>2 DEF Sound, AuthInv, AuthTypes, OfServer
<1>4. ~Serves(ops[o], Booters) /\ ~Serves(ops[o], Loaders)
  BY <1>1, TokenFacts DEF Serves, Booters, Loaders
<1>5. loading' => Serves(e, Loaders) \/ loading
  BY <1>2 DEF Serves
<1>6. /\ memory \in Tokens /\ OfServer(memory, scope) /\ stored \in [Scope -> Tokens]
      /\ \A x \in Scope : OfServer(stored[x], x)
      /\ booting \in BOOLEAN
  BY <1>2 DEF AuthInv, AuthTypes
<1>7. /\ memory' \in Tokens /\ OfServer(memory', scope) /\ (memory' # A!None => pending = NoScope)
      /\ stored' \in [Scope -> Tokens] /\ (\A x \in Scope : OfServer(stored'[x], x))
      /\ booting' \in BOOLEAN /\ booting' = booting
  BY <1>6
<1>8. /\ revoked' \subseteq A!SessionId /\ issued' \in [A!SessionId -> 0..MaxTokens]
      /\ spent' \subseteq A!Token
  BY <1>2 DEF AuthTypes
<1>9. booting' => Serves(e, Booters) \/ (booting /\ ~Serves(ops[o], Booters))
  BY <1>4, <1>7
<1>10. loading' => Serves(e, Loaders) \/ (loading /\ ~Serves(ops[o], Loaders))
  BY <1>4, <1>5
<1>11. UNCHANGED <<home, scope, generation, pending, switches>>
  OBVIOUS
<1> QED BY <1>2, <1>3, <1>7, <1>8, <1>9, <1>10, <1>11, OrdinaryStep

LEMMA UserKeeps ==
  ASSUME AuthAssumption, AuthInv,
         A!Login \/ A!UpdateUsername \/ A!RefreshTokens \/ A!Logout
  PROVE  AuthInv'
<1>0. /\ AuthTypes /\ memory \in Tokens /\ A!None \in Tokens /\ loading \in BOOLEAN
      /\ memory # A!None => pending = NoScope
  BY DEF AuthInv, AuthTypes, Tokens
<1>1. CASE A!Login
  BY <1>0, <1>1, StartKeeps DEF A!Kind, A!At, StagesOf, Loaders, A!Login, A!server
<1>2. CASE A!UpdateUsername
  BY <1>0, <1>2, StartKeeps DEF A!Kind, A!At, StagesOf, Loaders, A!UpdateUsername, A!server
<1>3. CASE A!RefreshTokens
  BY <1>0, <1>3, StartKeeps DEF A!Kind, A!At, StagesOf, A!RefreshTokens, A!server, A!client
<1>4. CASE A!Logout
  <2>1. PICK at \in {"sent", "answered"} : A!Start("logout", at, memory)
    BY <1>4 DEF A!Logout
  <2>2. "logout" \in A!Kind /\ at \in A!At /\ at \in StagesOf("logout") /\ at # "found"
    BY DEF A!Kind, A!At, StagesOf
  <2> QED BY <1>0, <1>4, <2>1, <2>2, StartKeeps DEF A!Logout, A!server, A!client
<1> QED BY <1>1, <1>2, <1>3, <1>4

\* A step of one method that leaves the server alone and, of the store, changes what
\* the last four variables say.
LEMMA StoreStep ==
  ASSUME AuthAssumption, AuthInv, NEW o \in Method, NEW r \in OpRec, Sound(r),
         ops' = [ops EXCEPT ![o] = r],
         UNCHANGED <<home, revoked, issued, spent, scope, generation, pending, switches>>,
         memory' \in Tokens, OfServer(memory', scope), memory' # A!None => pending = NoScope,
         stored' \in [Scope -> Tokens], \A x \in Scope : OfServer(stored'[x], x),
         booting' \in BOOLEAN, loading' \in BOOLEAN,
         booting' => Serves(r, Booters) \/ (booting /\ ~Serves(ops[o], Booters)),
         loading' => Serves(r, Loaders) \/ (loading /\ ~Serves(ops[o], Loaders))
  PROVE  AuthInv'
<1>1. /\ revoked' \subseteq A!SessionId /\ issued' \in [A!SessionId -> 0..MaxTokens]
      /\ spent' \subseteq A!Token
  BY DEF AuthInv, AuthTypes
<1> QED BY <1>1, OrdinaryStep

\* What is in the store, for such steps.
LEMMA StoreFacts ==
  ASSUME AuthAssumption, AuthInv
  PROVE  /\ memory \in Tokens /\ OfServer(memory, scope) /\ (memory # A!None => pending = NoScope)
         /\ stored \in [Scope -> Tokens] /\ \A x \in Scope : OfServer(stored[x], x)
         /\ booting \in BOOLEAN /\ loading \in BOOLEAN /\ scope \in Scope
         /\ A!None \in Tokens /\ \A x \in Scope : OfServer(A!None, x)
         /\ Sound(A!Idle) /\ A!Idle \in OpRec
         /\ \A K : Serves(A!Idle, K) => "none" \in K
BY TokenFacts DEF AuthInv, AuthTypes, Sound, OfServer, StagesOf, A!Idle, Tokens, Serves

\* What a current method holds is of the scope's server.
LEMMA CurrentFacts ==
  ASSUME AuthAssumption, AuthInv, NEW o \in Method, ops[o].gen = generation, ops[o].at # "idle"
  PROVE  \E q \in OpRec : /\ q = ops[o] /\ Sound(q)
                          /\ q.scope = scope /\ pending = NoScope /\ q.kind # "none"
                          /\ q.token \in Tokens /\ q.got \in Tokens
                          /\ OfServer(q.token, scope) /\ OfServer(q.got, scope)
<1>1. PICK q \in OpRec : q = ops[o]
  BY DEF AuthInv, AuthTypes
<1>2. Sound(q) /\ q.kind # "none"
  BY <1>1, Stages DEF AuthInv
<1> QED BY <1>1, <1>2 DEF Sound, OpRec

LEMMA LoadedKeeps ==
  ASSUME AuthAssumption, AuthInv, NEW o \in Method, A!Loaded(o) PROVE AuthInv'
<1>1. PICK q \in OpRec : q = ops[o]
  BY DEF AuthInv, AuthTypes
<1>2. /\ q.at = "load" /\ q.kind = "activate" /\ Sound(q) /\ q.scope \in Scope
      /\ UNCHANGED <<home, revoked, issued, spent, scope, generation, stored, loading, pending,
                     switches>>
  BY <1>1, Stages DEF AuthInv, A!Loaded, A!Running, A!server, Sound
<1>3. CASE ~A!Current(o)
  BY <1>3, <1>2, StoreFacts, StoreStep DEF A!Loaded, A!End, Serves, A!Current
<1>4. CASE A!Current(o)
  <2> DEFINE t == stored[q.scope]
  <2>1. q.scope = scope /\ pending = NoScope /\ q.gen = generation
    BY <1>1, <1>2, <1>4 DEF Sound, A!Current
  <2>2. t \in Tokens /\ OfServer(t, scope)
    BY <1>2, <2>1, StoreFacts
  <2>3. memory' = t /\ booting' = (t # A!None)
    BY <1>1, <1>4 DEF A!Loaded, A!SetMemory
  <2>4. ~Serves(ops[o], Loaders)
    BY <1>1, <1>2 DEF Serves, Loaders
  <2>5. CASE t = A!None
    <3>1. ops' = [ops EXCEPT ![o] = A!Idle] /\ booting' = FALSE
      BY <1>1, <1>4, <2>3, <2>5 DEF A!Loaded
    <3> QED BY <1>2, <2>1, <2>2, <2>3, <2>4, <3>1, StoreFacts, StoreStep
  <2>6. CASE t # A!None
    <3> DEFINE e == [q EXCEPT !.kind = "bootstrap", !.at = "me", !.token = t]
    <3>1. /\ e \in OpRec /\ e.kind = "bootstrap" /\ e.at = "me" /\ e.token = t
          /\ e.gen = q.gen /\ e.scope = q.scope /\ e.got = q.got
      <4> HIDE DEF t
      <4> QED BY <2>2 DEF OpRec, A!Kind, A!At
    <3>2. ops' = [ops EXCEPT ![o] = e]
      BY <1>1, <1>4, <2>6 DEF A!Loaded
    <3> HIDE DEF e, t
    <3>3. Sound(e)
      BY <1>2, <2>1, <2>2, <3>1 DEF Sound, StagesOf
    <3>4. Serves(e, Booters)
      BY <2>1, <3>1 DEF Serves, Booters
    <3>5. booting' \in BOOLEAN
      BY <2>3
    <3> QED BY <1>2, <2>1, <2>2, <2>3, <2>4, <3>1, <3>2, <3>3, <3>4, <3>5, StoreFacts, StoreStep
  <2> QED BY <2>5, <2>6
<1> QED BY <1>3, <1>4

LEMMA UnauthorizedKeeps ==
  ASSUME AuthAssumption, AuthInv, NEW o \in Method, A!Unauthorized(o) PROVE AuthInv'
<1>1. PICK q \in OpRec : q = ops[o]
  BY DEF AuthInv, AuthTypes
<1>2. q.at = "me" /\ q.kind = "bootstrap" /\ Sound(q) /\ UNCHANGED <<A!client, A!server>>
  BY <1>1, Stages DEF AuthInv, A!Unauthorized, A!Running
<1>3. /\ UNCHANGED home /\ UNCHANGED A!client /\ revoked' \subseteq A!SessionId
      /\ issued' \in [A!SessionId -> 0..MaxTokens] /\ spent' \subseteq A!Token
  BY <1>2 DEF A!server, AuthInv, AuthTypes
<1>4. CASE A!Current(o) /\ memory # A!None
  <2> DEFINE e == [q EXCEPT !.at = "sent", !.token = memory]
  <2>1. /\ e \in OpRec /\ e.kind = q.kind /\ e.at = "sent" /\ e.token = memory
        /\ e.gen = q.gen /\ e.scope = q.scope /\ e.got = q.got
    BY StoreFacts DEF OpRec, A!At
  <2>2. ops' = [ops EXCEPT ![o] = e]
    BY <1>1, <1>4 DEF A!Unauthorized
  <2> HIDE DEF e
  <2>3. q.scope = scope
    BY <1>1, <1>2, <1>4 DEF Sound, A!Current
  <2>4. Sound(e)
    BY <1>2, <2>1, <2>3, StoreFacts DEF Sound, StagesOf
  <2> QED BY <1>1, <1>3, <2>1, <2>2, <2>4, ServerStep
<1>5. CASE ~(A!Current(o) /\ memory # A!None)
  BY <1>1, <1>2, <1>5, <1>3, MoveKeeps DEF A!Unauthorized, A!At, StagesOf
<1> QED BY <1>4, <1>5

LEMMA SupersededKeeps ==
  ASSUME AuthAssumption, AuthInv, NEW o \in Method, A!Superseded(o) PROVE AuthInv'
<1>1. ops' = [ops EXCEPT ![o] = A!Idle] /\ UNCHANGED <<A!server, A!client>>
  BY DEF A!Superseded, A!End
<1>2. ~Serves(ops[o], Booters) /\ ~Serves(ops[o], Loaders)
  BY DEF A!Superseded, A!Current, Serves
<1>3. UNCHANGED <<home, revoked, issued, spent, scope, generation, pending, switches, memory,
                  stored, booting, loading>>
  BY <1>1 DEF A!server, A!client
<1> QED BY <1>1, <1>2, <1>3, StoreFacts, StoreStep

\* A method that stores a session of the scope and waits for the write.
LEMMA StoredKeeps ==
  ASSUME AuthAssumption, AuthInv, NEW o \in Method, NEW r \in OpRec, Sound(r),
         r.kind = ops[o].kind, r.gen = ops[o].gen,
         ops' = [ops EXCEPT ![o] = r],
         NEW x \in Scope, NEW t \in Tokens, OfServer(t, x),
         stored' \in {stored, [stored EXCEPT ![x] = t]},
         UNCHANGED <<A!server, scope, generation, memory, booting, loading, pending, switches>>
  PROVE  AuthInv'
<1>1. /\ stored' \in [Scope -> Tokens]
      /\ \A y \in Scope : stored'[y] = stored[y] \/ (y = x /\ stored'[y] = t)
  BY StoreFacts
<1>2. \A y \in Scope : OfServer(stored'[y], y)
  BY <1>1, StoreFacts
<1>3. Serves(r, Booters) = Serves(ops[o], Booters) /\ Serves(r, Loaders) = Serves(ops[o], Loaders)
  BY DEF Serves
<1>4. UNCHANGED <<home, revoked, issued, spent>>
  BY DEF A!server
<1> QED BY <1>1, <1>2, <1>3, <1>4, StoreFacts, StoreStep

LEMMA SaveKeeps ==
  ASSUME AuthAssumption, AuthInv, NEW o \in Method, A!Save(o) PROVE AuthInv'
<1>1. ops[o].gen = generation /\ ops[o].at # "idle"
  BY DEF A!Save, A!Current, A!Running
<1>2. PICK q \in OpRec : /\ q = ops[o] /\ Sound(q) /\ q.scope = scope /\ q.kind # "none"
                         /\ q.token \in Tokens /\ q.got \in Tokens
                         /\ OfServer(q.token, scope) /\ OfServer(q.got, scope)
  BY <1>1, CurrentFacts
<1>3. "save" \in StagesOf(q.kind) /\ "save" \in A!At
  BY <1>2 DEF A!Save, A!Running, Sound, OpRec, StagesOf, A!Kind, A!At
<1>4. CASE A!Running(o, "answered")
  <2>1. A!Store(ops[o].got) /\ A!Move(o, "save")
    BY <1>4 DEF A!Save, A!Running
  <2>2. PICK r \in OpRec : /\ r = [ops[o] EXCEPT !.at = "save"] /\ Sound(r)
                           /\ r.kind = ops[o].kind /\ r.gen = ops[o].gen
    BY <1>2, <1>3, Moved
  <2>3. ops' = [ops EXCEPT ![o] = r] /\ stored' = [stored EXCEPT ![scope] = q.got]
    BY <1>2, <2>1, <2>2 DEF A!Store, A!Move
  <2> QED BY <1>2, <2>2, <2>3, StoredKeeps, StoreFacts DEF A!Save
<1>5. CASE ~A!Running(o, "answered")
  <2> DEFINE e == [q EXCEPT !.at = "save", !.got = A!None]
  <2>1. /\ e \in OpRec /\ e.kind = q.kind /\ e.at = "save" /\ e.got = A!None
        /\ e.gen = q.gen /\ e.scope = q.scope /\ e.token = q.token
    BY <1>3, StoreFacts DEF OpRec
  <2>2. ops' = [ops EXCEPT ![o] = e]
    BY <1>2, <1>5 DEF A!Save
  <2> HIDE DEF e
  <2>3. Sound(e)
    BY <1>2, <1>3, <2>1 DEF Sound, OfServer
  <2>4. PICK t \in {q.token, memory} : stored' \in {stored, [stored EXCEPT ![scope] = t]}
    BY <1>2, <1>5 DEF A!Save, A!Store
  <2>5. t \in Tokens /\ OfServer(t, scope)
    BY <1>2, StoreFacts
  <2> QED BY <1>2, <2>1, <2>2, <2>3, <2>4, <2>5, StoredKeeps, StoreFacts DEF A!Save
<1> QED BY <1>4, <1>5

LEMMA ClearingKeeps ==
  ASSUME AuthAssumption, AuthInv, NEW o \in Method, A!Refused(o) \/ A!LogoutClears(o)
  PROVE  AuthInv'
<1>1. PICK x \in Scope : stored' = [stored EXCEPT ![x] = A!None]
  <2>1. CASE A!Refused(o)
    BY <2>1, StoreFacts DEF A!Refused, A!Store
  <2>2. CASE A!LogoutClears(o)
    <3>1. PICK q \in OpRec : q = ops[o] /\ Sound(q)
      BY DEF AuthInv, AuthTypes
    <3>2. q.scope \in Scope
      BY <2>2, <3>1 DEF Sound, A!LogoutClears
    <3> QED BY <2>2, <3>1, <3>2 DEF A!LogoutClears
  <2> QED BY <2>1, <2>2
<1>2. /\ A!Move(o, "clear")
      /\ UNCHANGED <<A!server, scope, generation, memory, booting, loading, pending, switches>>
  BY DEF A!Refused, A!LogoutClears
<1>3. "clear" \in StagesOf(ops[o].kind) /\ "clear" \in A!At
  BY DEF A!Refused, A!LogoutClears, StagesOf, A!At
<1>4. PICK r \in OpRec : /\ r = [ops[o] EXCEPT !.at = "clear"] /\ Sound(r)
                         /\ r.kind = ops[o].kind /\ r.gen = ops[o].gen
  BY <1>3, Moved
<1>5. ops' = [ops EXCEPT ![o] = r]
  BY <1>2, <1>4 DEF A!Move
<1> QED BY <1>1, <1>2, <1>4, <1>5, StoredKeeps, StoreFacts

LEMMA CommitKeeps ==
  ASSUME AuthAssumption, AuthInv, NEW o \in Method, A!Commit(o) PROVE AuthInv'
<1>1. ops[o].gen = generation /\ ops[o].at # "idle"
  BY DEF A!Commit, A!Current, A!Running
<1>2. PICK q \in OpRec : /\ q = ops[o] /\ Sound(q) /\ q.scope = scope /\ pending = NoScope
                         /\ q.kind # "none" /\ q.got \in Tokens /\ OfServer(q.got, scope)
  BY <1>1, CurrentFacts
<1>3. q.kind \in {"bootstrap", "login", "rename", "refresh"}
  BY <1>2 DEF Sound, OpRec, A!Commit, A!Running, StagesOf, A!Kind
<1>4. memory' \in Tokens /\ OfServer(memory', scope)
  BY <1>2, StoreFacts DEF A!Commit, A!SetMemory
<1> DEFINE again == q.kind = "bootstrap" /\ q.got # A!None
<1>5. /\ booting' = (booting /\ (again \/ q.kind \notin {"bootstrap", "login"}))
      /\ loading' = (loading /\ q.kind \notin {"login", "rename"})
      /\ UNCHANGED <<home, revoked, issued, spent, scope, generation, stored, pending, switches>>
  BY <1>2 DEF A!Commit, A!server
<1>6. booting' \in BOOLEAN /\ loading' \in BOOLEAN
  BY <1>5
<1>7. CASE again
  <2>1. A!Move(o, "me2") /\ "me2" \in A!At /\ "me2" \in StagesOf(ops[o].kind)
    BY <1>2, <1>7 DEF A!Commit, A!At, StagesOf
  <2>2. PICK r \in OpRec : /\ r = [ops[o] EXCEPT !.at = "me2"] /\ Sound(r)
                           /\ r.kind = ops[o].kind /\ r.gen = ops[o].gen
    BY <2>1, Moved
  <2>3. ops' = [ops EXCEPT ![o] = r]
    BY <2>1, <2>2 DEF A!Move
  <2>4. Serves(r, Booters) /\ ~Serves(ops[o], Loaders)
    BY <1>1, <1>2, <1>7, <2>2 DEF Serves, Booters, Loaders
  <2>5. loading' => loading
    BY <1>5
  <2> QED BY <1>2, <1>4, <1>5, <1>6, <2>2, <2>3, <2>4, <2>5, StoreFacts, StoreStep
<1>8. CASE ~again
  <2>1. ops' = [ops EXCEPT ![o] = A!Idle]
    BY <1>2, <1>8 DEF A!Commit, A!End
  <2>2. booting' => booting /\ ~Serves(ops[o], Booters)
    BY <1>2, <1>3, <1>5, <1>8 DEF Serves, Booters
  <2>3. loading' => loading /\ ~Serves(ops[o], Loaders)
    BY <1>2, <1>5 DEF Serves, Loaders
  <2> QED BY <1>2, <1>4, <1>5, <1>6, <2>1, <2>2, <2>3, StoreFacts, StoreStep
<1> QED BY <1>7, <1>8

LEMMA EndingKeeps ==
  ASSUME AuthAssumption, AuthInv, NEW o \in Method, A!Reported(o) \/ A!Cleared(o)
  PROVE  AuthInv'
<1>1. ops[o].gen = generation /\ ops[o].at # "idle"
  BY DEF A!Reported, A!Cleared, A!Current, A!Running
<1>2. PICK q \in OpRec : q = ops[o] /\ Sound(q) /\ q.kind # "none"
  BY <1>1, CurrentFacts
<1>3. q.at \in StagesOf(q.kind) /\ q.kind \in A!Kind
  BY <1>2 DEF Sound, OpRec
<1>4. /\ ops' = [ops EXCEPT ![o] = A!Idle]
      /\ UNCHANGED <<home, revoked, issued, spent, scope, generation, stored, pending, switches>>
  BY DEF A!Reported, A!Cleared, A!End, A!server
<1>5. CASE A!Reported(o)
  <2>1. /\ booting' = (booting /\ q.kind # "bootstrap")
        /\ loading' = (loading /\ q.kind \notin {"login", "rename"}) /\ UNCHANGED memory
    BY <1>2, <1>5 DEF A!Reported
  <2>2. q.kind # "activate"
    BY <1>2, <1>3, <1>5 DEF A!Reported, A!Running, StagesOf
  <2>3. booting' \in BOOLEAN /\ loading' \in BOOLEAN
    BY <2>1
  <2>4. booting' => booting /\ ~Serves(ops[o], Booters)
    BY <1>2, <2>1, <2>2 DEF Serves, Booters
  <2>5. loading' => loading /\ ~Serves(ops[o], Loaders)
    BY <1>2, <2>1 DEF Serves, Loaders
  <2> QED BY <1>4, <2>1, <2>3, <2>4, <2>5, StoreFacts, StoreStep
<1>6. CASE A!Cleared(o)
  <2>1. /\ booting' = (IF q.kind \in {"logout", "bootstrap"} THEN FALSE ELSE booting)
        /\ UNCHANGED loading /\ memory' = A!None
    BY <1>2, <1>6 DEF A!Cleared, A!SetMemory
  <2>2. q.kind \in {"logout", "bootstrap", "refresh"}
    BY <1>2, <1>6, Stages DEF A!Cleared, A!Running
  <2>3. booting' \in BOOLEAN /\ (booting' => booting /\ ~Serves(ops[o], Booters))
    BY <1>2, <2>1, <2>2, StoreFacts DEF Serves, Booters
  <2>4. ~Serves(ops[o], Loaders)
    BY <1>2, <2>2 DEF Serves, Loaders
  <2> QED BY <1>4, <2>1, <2>3, <2>4, StoreFacts, StoreStep
<1> QED BY <1>5, <1>6

-----------------------------------------------------------------------------

LEMMA AuthStutters ==
  ASSUME AuthInv, UNCHANGED A!vars PROVE AuthInv'
BY DEF A!vars, AuthInv, AuthTypes, GenerationBound, Sound, OfServer, InFlight

LEMMA AuthInductive ==
  ASSUME AuthAssumption, AuthInv, [A!Next]_A!vars PROVE AuthInv'
BY AuthStutters, ActivateKeeps, UserKeeps, SwitchKeeps, NewSessionKeeps, ServerKeeps,
   UnauthorizedKeeps, LoadedKeeps, SupersededKeeps, SaveKeeps, CommitKeeps, EndingKeeps,
   ClearingKeeps DEF A!Next

LEMMA AuthInvariant == ASSUME AuthAssumption PROVE A!Spec => []AuthInv
<1>1. A!Init => AuthInv
  BY AuthInitially
<1>2. AuthInv /\ [A!Next]_A!vars => AuthInv'
  BY AuthInductive
<1> QED BY <1>1, <1>2, PTL DEF A!Spec

\* The store, the servers' sessions and every method in flight are typed, however
\* often the server is switched (auth-store.ts, apps/api routes/auth.ts).
THEOREM AuthTypeCorrect == A!Spec => []A!TypeOK
<1>1. AuthInv => A!TypeOK
  <2> SUFFICES ASSUME AuthInv PROVE A!TypeOK
    OBVIOUS
  <2>1. generation \in 0..(1 + 2 * MaxSwitches)
    BY ClientAssumption DEF AuthInv, AuthTypes, GenerationBound, AuthAssumption
  <2>2. ASSUME NEW o \in Method
        PROVE  /\ ops[o].kind \in A!Kind /\ ops[o].at \in A!At
               /\ ops[o].gen \in 0..generation
               /\ ops[o].scope \in Scope \cup {NoScope}
               /\ {ops[o].token, ops[o].got} \subseteq Tokens
    BY DEF AuthInv, AuthTypes, Sound, OpRec
  <2> QED BY <2>1, <2>2 DEF A!TypeOK, AuthInv, AuthTypes, Tokens
<1>2. A!Spec => []AuthInv
  BY ClientAssumption, AuthInvariant
<1> QED BY <1>1, <1>2, PTL

\* A server never sees, and its stored session never holds, a token another server
\* issued: every await of the auth store is followed by a comparison of the
\* generation, and logout clears the persistence it began with.
THEOREM ScopeIsolationTheorem == A!Spec => []ScopeIsolation
<1>1. AuthInv => A!ScopeIsolation
  BY DEF AuthInv, A!ScopeIsolation, OfServer
<1>2. A!Spec => []AuthInv
  BY ClientAssumption, AuthInvariant
<1> QED BY <1>1, <1>2, PTL DEF ScopeIsolation

\* When no method is in flight no spinner is on: whichever of two methods loses the
\* race, the one that is current clears what it set (isBootstrapping, isLoading).
THEOREM QuietIsReadyTheorem == A!Spec => []QuietIsReady
<1>1. AuthInv => A!QuietIsReady
  BY ClientAssumption, TokenFacts DEF AuthInv, A!QuietIsReady, InFlight
<1>2. A!Spec => []AuthInv
  BY ClientAssumption, AuthInvariant
<1> QED BY <1>1, <1>2, PTL DEF QuietIsReady

-----------------------------------------------------------------------------
(* VoiceSession.                                                           *)

Early == {"mic", "init", "remic"}      \* a join before its command
Noise == V!Inputs \ Early              \* a change of the noise mode

VoiceShape ==
  {v \in V!VoiceRec :
     /\ \A f \in StoreFlow :
          /\ v.flows[f].at = "none" => ~v.flows[f].own /\ v.flows[f].rec = NoVoice
          /\ v.flows[f].at \notin {"none"} \cup Noise => v.flows[f].ch \in VoiceChannel
     /\ v.status = "active" => v.channel # NoVoice}

\* One function at most runs a recovery, as the recovery says.
Reports(v) ==
  /\ \A c \in VoiceChannel : v.recovery[c].attempt = "none" <=> v.recovery[c].phase = "none"
  /\ \A f \in StoreFlow : v.flows[f].rec # NoVoice => v.recovery[v.flows[f].rec].phase = "running"
  /\ \A f, g \in StoreFlow : v.flows[f].rec # NoVoice /\ v.flows[g].rec = v.flows[f].rec => f = g

\* A function that still may touch the microphone.
Touches(w) == w.at \in V!Inputs /\ w.fresh

Untouched(v) == \A f \in StoreFlow : ~Touches(v.flows[f])

\* Nothing is left of a session.
Bare(v) == ~v.saved /\ v.mic = "none" /\ ~v.busy /\ Untouched(v)

\* Who changes the microphone: one function of each kind at a time.
Handles(v, w) ==
  /\ w.at \in Early => ~v.saved /\ v.status \in {"requesting_mic", "reconnecting"}
  /\ w.at = "mic" => v.mic = "none"
  /\ w.at \in Noise => v.busy /\ v.mic # "none"
  /\ w.at = "prepare" /\ v.saved => v.mic = "live"

Microphone(v) ==
  /\ ~v.leaked
  /\ v.status \in {"idle", "error", "leaving"} => Bare(v)
  /\ v.saved => v.mic # "none" /\ (v.mic = "live" \/ v.busy)
  /\ v.status = "requesting_mic" => ~v.saved /\ ~v.busy
  /\ \A f \in StoreFlow : Touches(v.flows[f]) => Handles(v, v.flows[f])
  /\ \A f, g \in StoreFlow :
       /\ Touches(v.flows[f]) /\ Touches(v.flows[g])
       /\ v.flows[f].at \in Early <=> v.flows[g].at \in Early
       => f = g

\* A recovery that its session still has.
Wants(r) == r.attempt # "none" /\ ~r.left

NoRetry(v) == \A c \in VoiceChannel : ~Wants(v.recovery[c])

Sent == {"rejoin", "reconnect"} \cup V!Setups

\* What the function that set the status last counts on.
Counts(v, w) ==
  /\ w.at = "preleave" => v.status = "idle"
  /\ w.at \in Early => v.status = "requesting_mic" /\ w.fresh
  /\ w.at = "init" => v.mic = "live"
  /\ w.at \in {"join", "setup"} => v.status = "joining" /\ v.mic = "live" /\ NoRetry(v) /\ Untouched(v)
  /\ w.at = "undo" => v.status = "joining" /\ Bare(v) /\ NoRetry(v)
  /\ w.at = "leave" => v.status = "leaving"
  /\ w.at \in {"rejoin", "resetup"} =>
       /\ v.status = "joining"
       /\ \A c \in VoiceChannel : Wants(v.recovery[c]) => w.rec = c
  /\ w.at \in {"reconnect", "mediasetup"} => v.status = "reconnecting" /\ w.rec = w.ch
  /\ w.at \in Early \cup {"join"} \cup Sent => v.channel = w.ch
  /\ w.at \in Sent => v.link /\ v.saved
  /\ w.at \in {"join", "rejoin", "reconnect"} /\ w.ok => v.joined = w.ch
  /\ w.at \in V!Setups => v.peers /\ v.joined = w.ch
  /\ w.at \notin Noise

Owners(v) ==
  /\ \A f \in StoreFlow : v.flows[f].own => Counts(v, v.flows[f])
  /\ \A f, g \in StoreFlow : v.flows[f].own /\ v.flows[g].own => f = g

\* A recovery is of the session shown, and of a connected one.
Retries(v) ==
  \A c \in VoiceChannel : Wants(v.recovery[c]) =>
    v.link /\ v.status \in {"reconnecting", "joining"} /\ v.channel = c

Served(v) ==
  v.status = "active" => v.link /\ v.saved /\ v.peers /\ v.joined = v.channel

Well(v) == Microphone(v) /\ Owners(v) /\ Retries(v) /\ Served(v)

VoiceInv(v) == v \in VoiceShape /\ Reports(v) /\ (~v.crossed => Well(v))

-----------------------------------------------------------------------------
(* What the shared functions do, field by field.                           *)

Rooms == VoiceChannel \cup {NoVoice}

SameMic(v, u) == u.saved = v.saved /\ u.mic = v.mic /\ u.busy = v.busy /\ u.leaked = v.leaked
SameShown(v, u) == u.status = v.status /\ u.channel = v.channel
SameRoom(v, u) == u.link = v.link /\ u.joined = v.joined /\ u.sfu = v.sfu

\* What is left of a function that others outdated, disowned or cancelled.
Fades(w, x) ==
  /\ x.at = w.at /\ x.ch = w.ch /\ x.ok = w.ok /\ x.sfu = w.sfu
  /\ x.fresh => w.fresh
  /\ x.own => w.own
  /\ x.rec \in {w.rec, NoVoice}

LEMMA InputKinds == V!Inputs = Early \cup Noise /\ Early \cap Noise = {}
                    /\ Noise = {"prepare", "swap", "restore"}
BY DEF V!Inputs, Early, Noise

LEMMA ShowFacts ==
  ASSUME NEW v \in VoiceShape, NEW s \in V!Status, NEW c \in Rooms, s = "active" => c # NoVoice,
         NEW u, u = V!Show(v, s, c)
  PROVE  /\ u \in VoiceShape /\ u.status = s /\ u.channel = c
         /\ SameMic(v, u) /\ SameRoom(v, u) /\ u.peers = v.peers /\ u.recovery = v.recovery
         /\ u.crossed = v.crossed
         /\ \A g \in StoreFlow : /\ Fades(v.flows[g], u.flows[g]) /\ ~u.flows[g].own
                                 /\ u.flows[g].fresh = v.flows[g].fresh
                                 /\ u.flows[g].rec = v.flows[g].rec
<1> DEFINE fl == [g \in StoreFlow |-> [v.flows[g] EXCEPT !.own = FALSE]]
<1>1. v \in V!VoiceRec /\ v.flows \in [StoreFlow -> V!FlowRec]
  BY DEF VoiceShape, V!VoiceRec
<1>2. /\ fl \in [StoreFlow -> V!FlowRec]
      /\ \A g \in StoreFlow : /\ Fades(v.flows[g], fl[g]) /\ ~fl[g].own
                              /\ fl[g].fresh = v.flows[g].fresh /\ fl[g].rec = v.flows[g].rec
  BY <1>1, ZenonT(30) DEF V!FlowRec, Fades
<1>3. u = [v EXCEPT !.status = s, !.channel = c, !.flows = fl]
  BY DEF V!Show
<1> HIDE DEF fl
<1>4. /\ u \in V!VoiceRec /\ u.status = s /\ u.channel = c /\ u.flows = fl
      /\ u.saved = v.saved /\ u.mic = v.mic /\ u.busy = v.busy /\ u.leaked = v.leaked
      /\ u.link = v.link /\ u.joined = v.joined /\ u.sfu = v.sfu
      /\ u.peers = v.peers /\ u.recovery = v.recovery /\ u.crossed = v.crossed
  BY <1>1, <1>2, <1>3 DEF V!VoiceRec, Rooms
<1>5. u \in VoiceShape
  BY <1>2, <1>4 DEF VoiceShape, Fades
<1> QED BY <1>2, <1>4, <1>5 DEF SameMic, SameRoom

LEMMA TeardownFacts ==
  ASSUME NEW v \in VoiceShape, NEW u, u = V!Teardown(v)
  PROVE  /\ u \in VoiceShape /\ Bare(u) /\ ~u.peers /\ u.leaked = v.leaked
         /\ SameShown(v, u) /\ SameRoom(v, u) /\ u.recovery = v.recovery /\ u.crossed = v.crossed
         /\ \A g \in StoreFlow : /\ Fades(v.flows[g], u.flows[g]) /\ ~u.flows[g].fresh
                                 /\ u.flows[g].own = v.flows[g].own
                                 /\ u.flows[g].rec = v.flows[g].rec
<1> DEFINE fl == [g \in StoreFlow |-> [v.flows[g] EXCEPT !.fresh = FALSE]]
<1>1. v \in V!VoiceRec /\ v.flows \in [StoreFlow -> V!FlowRec]
  BY DEF VoiceShape, V!VoiceRec
<1>2. /\ fl \in [StoreFlow -> V!FlowRec]
      /\ \A g \in StoreFlow : /\ Fades(v.flows[g], fl[g]) /\ ~fl[g].fresh
                              /\ fl[g].own = v.flows[g].own /\ fl[g].rec = v.flows[g].rec
  BY <1>1, ZenonT(30) DEF V!FlowRec, Fades
<1>3. u = [[v EXCEPT !.flows = fl] EXCEPT !.saved = FALSE, !.mic = "none", !.peers = FALSE, !.busy = FALSE]
  BY DEF V!Teardown, V!Outdate
<1> HIDE DEF fl
<1>4. /\ u \in V!VoiceRec /\ u.status = v.status /\ u.channel = v.channel /\ u.flows = fl
      /\ ~u.saved /\ u.mic = "none" /\ ~u.busy /\ u.leaked = v.leaked /\ ~u.peers
      /\ u.link = v.link /\ u.joined = v.joined /\ u.sfu = v.sfu
      /\ u.recovery = v.recovery /\ u.crossed = v.crossed
  BY <1>1, <1>2, <1>3 DEF V!VoiceRec
<1>5. u \in VoiceShape
  BY <1>2, <1>4 DEF VoiceShape, Fades
<1> QED BY <1>2, <1>4, <1>5 DEF SameShown, SameRoom, Bare, Untouched, Touches

LEMMA OutdateFacts ==
  ASSUME NEW v \in VoiceShape, NEW u, u = V!Outdate(v)
  PROVE  /\ u \in VoiceShape /\ SameMic(v, u) /\ u.peers = v.peers /\ Untouched(u)
         /\ SameShown(v, u) /\ SameRoom(v, u) /\ u.recovery = v.recovery /\ u.crossed = v.crossed
         /\ \A g \in StoreFlow : /\ Fades(v.flows[g], u.flows[g]) /\ ~u.flows[g].fresh
                                 /\ u.flows[g].own = v.flows[g].own
                                 /\ u.flows[g].rec = v.flows[g].rec
<1> DEFINE fl == [g \in StoreFlow |-> [v.flows[g] EXCEPT !.fresh = FALSE]]
<1>1. v \in V!VoiceRec /\ v.flows \in [StoreFlow -> V!FlowRec]
  BY DEF VoiceShape, V!VoiceRec
<1>2. /\ fl \in [StoreFlow -> V!FlowRec]
      /\ \A g \in StoreFlow : /\ Fades(v.flows[g], fl[g]) /\ ~fl[g].fresh
                              /\ fl[g].own = v.flows[g].own /\ fl[g].rec = v.flows[g].rec
  BY <1>1 DEF V!FlowRec, Fades
<1>3. u = [v EXCEPT !.flows = fl]
  BY DEF V!Outdate
<1> HIDE DEF fl
<1>4. /\ u \in V!VoiceRec /\ u.status = v.status /\ u.channel = v.channel /\ u.flows = fl
      /\ u.saved = v.saved /\ u.mic = v.mic /\ u.busy = v.busy /\ u.leaked = v.leaked
      /\ u.link = v.link /\ u.joined = v.joined /\ u.sfu = v.sfu
      /\ u.peers = v.peers /\ u.recovery = v.recovery /\ u.crossed = v.crossed
  BY <1>1, <1>2, <1>3 DEF V!VoiceRec
<1>5. u \in VoiceShape
  BY <1>2, <1>4 DEF VoiceShape, Fades
<1> QED BY <1>2, <1>4, <1>5 DEF SameShown, SameMic, SameRoom, Untouched, Touches

\* A function's place and what it holds, as it begins or goes on.
Placed(w) ==
  /\ w \in V!FlowRec
  /\ w.at = "none" => ~w.own /\ w.rec = NoVoice
  /\ w.at \notin {"none"} \cup Noise => w.ch \in VoiceChannel

LEMMA PutFacts ==
  ASSUME NEW v \in VoiceShape, NEW f \in StoreFlow, NEW w, Placed(w), NEW u, u = V!Put(v, f, w)
  PROVE  /\ u \in VoiceShape /\ u.flows[f] = w
         /\ \A g \in StoreFlow \ {f} : u.flows[g] = v.flows[g]
         /\ SameShown(v, u) /\ SameMic(v, u) /\ SameRoom(v, u)
         /\ u.peers = v.peers /\ u.recovery = v.recovery /\ u.crossed = v.crossed
<1> DEFINE fl == [v.flows EXCEPT ![f] = w]
<1>1. v \in V!VoiceRec /\ v.flows \in [StoreFlow -> V!FlowRec]
  BY DEF VoiceShape, V!VoiceRec
<1>2. fl \in [StoreFlow -> V!FlowRec] /\ fl[f] = w /\ \A g \in StoreFlow \ {f} : fl[g] = v.flows[g]
  BY <1>1 DEF Placed
<1>3. u = [v EXCEPT !.flows = fl]
  BY DEF V!Put
<1> HIDE DEF fl
<1>4. /\ u \in V!VoiceRec /\ u.status = v.status /\ u.channel = v.channel /\ u.flows = fl
      /\ u.saved = v.saved /\ u.mic = v.mic /\ u.busy = v.busy /\ u.leaked = v.leaked
      /\ u.link = v.link /\ u.joined = v.joined /\ u.sfu = v.sfu
      /\ u.peers = v.peers /\ u.recovery = v.recovery /\ u.crossed = v.crossed
  BY <1>1, <1>2, <1>3 DEF V!VoiceRec
<1>5. u \in VoiceShape
  BY <1>2, <1>4 DEF VoiceShape, Placed
<1> QED BY <1>2, <1>4, <1>5 DEF SameShown, SameMic, SameRoom

LEMMA NoFlowFacts ==
  Placed(V!NoFlow) /\ V!NoFlow.at = "none" /\ ~V!NoFlow.own /\ ~V!NoFlow.fresh /\ V!NoFlow.rec = NoVoice
BY DEF V!NoFlow, Placed, V!FlowRec

LEMMA FreeFacts ==
  ASSUME NEW v \in VoiceShape, NEW f \in StoreFlow, NEW u, u = V!Free(v, f)
  PROVE  /\ u \in VoiceShape /\ u.flows[f] = V!NoFlow
         /\ \A g \in StoreFlow \ {f} : u.flows[g] = v.flows[g]
         /\ SameShown(v, u) /\ SameMic(v, u) /\ SameRoom(v, u)
         /\ u.peers = v.peers /\ u.recovery = v.recovery /\ u.crossed = v.crossed
BY NoFlowFacts, PutFacts DEF V!Free

LEMMA CrossFacts ==
  ASSUME NEW v \in VoiceShape, NEW f \in StoreFlow, NEW u, u = V!Cross(v, f)
  PROVE  /\ u \in VoiceShape /\ u.flows = v.flows
         /\ SameShown(v, u) /\ SameMic(v, u) /\ SameRoom(v, u)
         /\ u.peers = v.peers /\ u.recovery = v.recovery
         /\ ~u.crossed => ~v.crossed /\ v.flows[f].own
<1> DEFINE x == v.crossed \/ ~v.flows[f].own
<1>1. v \in V!VoiceRec /\ v.flows \in [StoreFlow -> V!FlowRec] /\ v.crossed \in BOOLEAN
  BY DEF VoiceShape, V!VoiceRec
<1>2. x \in BOOLEAN /\ (~x => ~v.crossed /\ v.flows[f].own)
  OBVIOUS
<1>3. u = [v EXCEPT !.crossed = x]
  BY <1>1 DEF V!Cross, V!VoiceRec
<1> HIDE DEF x
<1>4. /\ u \in V!VoiceRec /\ u.status = v.status /\ u.channel = v.channel /\ u.flows = v.flows
      /\ u.saved = v.saved /\ u.mic = v.mic /\ u.busy = v.busy /\ u.leaked = v.leaked
      /\ u.link = v.link /\ u.joined = v.joined /\ u.sfu = v.sfu
      /\ u.peers = v.peers /\ u.recovery = v.recovery /\ u.crossed = x
  BY <1>1, <1>2, <1>3 DEF V!VoiceRec
<1>5. u \in VoiceShape
  BY <1>4 DEF VoiceShape
<1> QED BY <1>2, <1>4, <1>5 DEF SameShown, SameMic, SameRoom

LEMMA TeardownPeersFacts ==
  ASSUME NEW v \in VoiceShape, NEW u, u = V!TeardownPeers(v)
  PROVE  /\ u \in VoiceShape /\ u.flows = v.flows /\ ~u.peers
         /\ SameShown(v, u) /\ SameMic(v, u) /\ SameRoom(v, u)
         /\ u.recovery = v.recovery /\ u.crossed = v.crossed
<1>1. v \in V!VoiceRec /\ u = [v EXCEPT !.peers = FALSE]
  BY DEF VoiceShape, V!TeardownPeers
<1>2. /\ u \in V!VoiceRec /\ u.status = v.status /\ u.channel = v.channel /\ u.flows = v.flows
      /\ u.saved = v.saved /\ u.mic = v.mic /\ u.busy = v.busy /\ u.leaked = v.leaked
      /\ u.link = v.link /\ u.joined = v.joined /\ u.sfu = v.sfu
      /\ ~u.peers /\ u.recovery = v.recovery /\ u.crossed = v.crossed
  BY <1>1 DEF V!VoiceRec
<1>3. u \in VoiceShape
  BY <1>2 DEF VoiceShape
<1> QED BY <1>2, <1>3 DEF SameShown, SameMic, SameRoom

\* The recovery of c becomes r.
SetRecovery(v, c, r) == [v EXCEPT !.recovery = [v.recovery EXCEPT ![c] = r]]

LEMMA RecoveryFacts ==
  ASSUME NEW v \in VoiceShape, NEW c \in VoiceChannel, NEW r \in V!RecoveryRec,
         NEW u, u = SetRecovery(v, c, r)
  PROVE  /\ u \in VoiceShape /\ u.flows = v.flows /\ u.peers = v.peers
         /\ SameShown(v, u) /\ SameMic(v, u) /\ SameRoom(v, u) /\ u.crossed = v.crossed
         /\ u.recovery[c] = r /\ \A d \in VoiceChannel \ {c} : u.recovery[d] = v.recovery[d]
<1> DEFINE rs == [v.recovery EXCEPT ![c] = r]
<1>1. v \in V!VoiceRec /\ v.recovery \in [VoiceChannel -> V!RecoveryRec]
  BY DEF VoiceShape, V!VoiceRec
<1>2. /\ rs \in [VoiceChannel -> V!RecoveryRec] /\ rs[c] = r
      /\ \A d \in VoiceChannel \ {c} : rs[d] = v.recovery[d]
  BY <1>1
<1> HIDE DEF rs
<1>3. /\ u \in V!VoiceRec /\ u.status = v.status /\ u.channel = v.channel /\ u.flows = v.flows
      /\ u.saved = v.saved /\ u.mic = v.mic /\ u.busy = v.busy /\ u.leaked = v.leaked
      /\ u.link = v.link /\ u.joined = v.joined /\ u.sfu = v.sfu
      /\ u.peers = v.peers /\ u.recovery = rs /\ u.crossed = v.crossed
  BY <1>1, <1>2 DEF V!VoiceRec, rs, SetRecovery
<1>4. u \in VoiceShape
  BY <1>3 DEF VoiceShape
<1> QED BY <1>2, <1>3, <1>4 DEF SameShown, SameMic, SameRoom

LEMMA ResolveFacts ==
  ASSUME NEW v \in VoiceShape, NEW c \in VoiceChannel, NEW u, u = V!ResolveRecovery(v, c)
  PROVE  /\ u \in VoiceShape /\ u.peers = v.peers
         /\ SameShown(v, u) /\ SameMic(v, u) /\ SameRoom(v, u) /\ u.crossed = v.crossed
         /\ u.recovery[c] = V!NoRecovery
         /\ \A d \in VoiceChannel \ {c} : u.recovery[d] = v.recovery[d]
         /\ \A g \in StoreFlow : /\ Fades(v.flows[g], u.flows[g])
                                 /\ u.flows[g].fresh = v.flows[g].fresh
                                 /\ u.flows[g].own = v.flows[g].own
                                 /\ u.flows[g].rec # c
<1> DEFINE fl == [g \in StoreFlow |-> IF v.flows[g].rec = c THEN [v.flows[g] EXCEPT !.rec = NoVoice]
                                     ELSE v.flows[g]]
           rs == [v.recovery EXCEPT ![c] = V!NoRecovery]
<1>1. /\ v \in V!VoiceRec /\ v.flows \in [StoreFlow -> V!FlowRec]
      /\ v.recovery \in [VoiceChannel -> V!RecoveryRec] /\ NoVoice \notin VoiceChannel
  BY ClientAssumption DEF VoiceShape, V!VoiceRec, VoiceAssumption
<1>2. /\ fl \in [StoreFlow -> V!FlowRec]
      /\ \A g \in StoreFlow : /\ Fades(v.flows[g], fl[g])
                              /\ fl[g].fresh = v.flows[g].fresh
                              /\ fl[g].own = v.flows[g].own
                              /\ fl[g].rec # c
  BY <1>1 DEF V!FlowRec, Fades
<1>3. /\ rs \in [VoiceChannel -> V!RecoveryRec] /\ rs[c] = V!NoRecovery
      /\ \A d \in VoiceChannel \ {c} : rs[d] = v.recovery[d]
  BY <1>1 DEF V!NoRecovery, V!RecoveryRec
<1>4. u = [v EXCEPT !.recovery = rs, !.flows = fl]
  BY DEF V!ResolveRecovery
<1> HIDE DEF fl, rs
<1>5. /\ u \in V!VoiceRec /\ u.status = v.status /\ u.channel = v.channel /\ u.flows = fl
      /\ u.saved = v.saved /\ u.mic = v.mic /\ u.busy = v.busy /\ u.leaked = v.leaked
      /\ u.link = v.link /\ u.joined = v.joined /\ u.sfu = v.sfu
      /\ u.peers = v.peers /\ u.recovery = rs /\ u.crossed = v.crossed
  BY <1>1, <1>2, <1>3, <1>4 DEF V!VoiceRec
<1>6. u \in VoiceShape
  BY <1>2, <1>5 DEF VoiceShape, Fades
<1> QED BY <1>2, <1>3, <1>5, <1>6 DEF SameShown, SameMic, SameRoom

\* A command is sent, and decided.
LEMMA SendFacts ==
  ASSUME NEW v \in VoiceShape, NEW f \in StoreFlow, NEW w, Placed(w), w.at \in V!Commands,
         NEW u, u = V!Send(v, f, w)
  PROVE  /\ u \in VoiceShape
         /\ \A g \in StoreFlow \ {f} : u.flows[g] = v.flows[g]
         /\ SameShown(v, u) /\ SameMic(v, u) /\ u.link = v.link /\ u.sfu = v.sfu
         /\ u.peers = v.peers /\ u.recovery = v.recovery /\ u.crossed = v.crossed
         /\ LET x == u.flows[f]
            IN /\ x.at = w.at /\ x.ch = w.ch /\ x.fresh = w.fresh /\ x.own = w.own /\ x.rec = w.rec
               /\ x.ok /\ w.at \in {"join", "rejoin", "reconnect"} => u.joined = w.ch
         /\ w.at = "reconnect" => u.joined = v.joined
<1> DEFINE accepted == CASE w.at \in {"join", "rejoin"} -> v.joined # w.ch
                         [] w.at = "reconnect" -> v.joined = w.ch
                         [] w.at \in {"preleave", "undo", "leave"} -> TRUE
           room == CASE w.at \in {"join", "rejoin"} -> w.ch
                     [] w.at = "reconnect" -> v.joined
                     [] w.at \in {"preleave", "undo", "leave"} -> NoVoice
           j == IF v.link THEN room ELSE v.joined
           ok == accepted /\ v.link
           x == [w EXCEPT !.ok = ok]
           p == [v EXCEPT !.joined = j]
<1>1. v \in V!VoiceRec /\ w \in V!FlowRec /\ w.ch \in Rooms /\ v.joined \in Rooms
  BY DEF VoiceShape, V!VoiceRec, Placed, V!FlowRec, Rooms
<1>2. /\ accepted \in BOOLEAN /\ room \in Rooms
      /\ ok /\ w.at \in {"join", "rejoin", "reconnect"} => j = w.ch
      /\ w.at = "reconnect" => j = v.joined
  BY <1>1 DEF V!Commands, Rooms
<1> HIDE DEF accepted, room
<1>3. ok \in BOOLEAN /\ j \in Rooms
  BY <1>1, <1>2 DEF V!VoiceRec
<1>4. u = V!Put(p, f, x)
  BY DEF V!Send, accepted, room
<1> HIDE DEF ok, j
<1>5. /\ x \in V!FlowRec /\ x.ok = ok
      /\ x.at = w.at /\ x.ch = w.ch /\ x.fresh = w.fresh /\ x.own = w.own /\ x.rec = w.rec
  BY <1>1, <1>3 DEF V!FlowRec
<1>6. Placed(x)
  BY <1>5 DEF Placed
<1>7. /\ p \in V!VoiceRec /\ p.status = v.status /\ p.channel = v.channel /\ p.flows = v.flows
      /\ p.saved = v.saved /\ p.mic = v.mic /\ p.busy = v.busy /\ p.leaked = v.leaked
      /\ p.link = v.link /\ p.joined = j /\ p.sfu = v.sfu
      /\ p.peers = v.peers /\ p.recovery = v.recovery /\ p.crossed = v.crossed
  BY <1>1, <1>3 DEF V!VoiceRec, Rooms
<1>8. p \in VoiceShape
  BY <1>7 DEF VoiceShape
<1> HIDE DEF p, x
<1>9. /\ u \in VoiceShape /\ u.flows[f] = x
      /\ \A g \in StoreFlow \ {f} : u.flows[g] = p.flows[g]
      /\ SameShown(p, u) /\ SameMic(p, u) /\ SameRoom(p, u)
      /\ u.peers = p.peers /\ u.recovery = p.recovery /\ u.crossed = p.crossed
  BY <1>4, <1>6, <1>8, PutFacts, SMTT(30)
<1> QED BY <1>2, <1>5, <1>7, <1>9 DEF SameShown, SameMic, SameRoom

-----------------------------------------------------------------------------
(* What keeps the parts of the invariant.                                  *)

LEMMA BareMicrophone == ASSUME NEW u, Bare(u), ~u.leaked PROVE Microphone(u)
BY DEF Microphone, Bare, Untouched

\* The functions in F stop touching the microphone, which stays as it is.
LEMMA MicrophoneKept ==
  ASSUME NEW v, NEW u, NEW F, Microphone(v), SameMic(v, u),
         \A g \in F \cap StoreFlow : ~Touches(u.flows[g]),
         \A g \in StoreFlow \ F : Fades(v.flows[g], u.flows[g]),
         \/ u.status = v.status
         \/ u.status = "reconnecting"
         \/ u.status \in {"joining", "active"} /\ v.status \notin {"requesting_mic", "reconnecting"}
         \/ u.status \in {"joining", "active"} /\ v.saved
         \/ Bare(v)
  PROVE  Microphone(u)
BY DEF Microphone, Touches, Fades, Bare, Untouched, SameMic, Handles

LEMMA MicrophoneFades ==
  ASSUME NEW v, NEW u, Microphone(v), SameMic(v, u),
         \A g \in StoreFlow : Fades(v.flows[g], u.flows[g]),
         \/ u.status = v.status
         \/ u.status = "reconnecting"
         \/ u.status \in {"joining", "active"} /\ v.status \notin {"requesting_mic", "reconnecting"}
         \/ u.status \in {"joining", "active"} /\ v.saved
         \/ Bare(v)
  PROVE  Microphone(u)
<1> DEFINE F == {}
<1>1. /\ \A g \in F \cap StoreFlow : ~Touches(u.flows[g])
      /\ \A g \in StoreFlow \ F : Fades(v.flows[g], u.flows[g])
  OBVIOUS
<1> HIDE DEF F
<1> QED BY <1>1, MicrophoneKept

\* Function f stops touching the microphone.
LEMMA MicrophoneStep ==
  ASSUME NEW v, NEW u, NEW f \in StoreFlow, Microphone(v), SameMic(v, u), ~Touches(u.flows[f]),
         \A g \in StoreFlow \ {f} : Fades(v.flows[g], u.flows[g]),
         \/ u.status = v.status
         \/ u.status = "reconnecting"
         \/ u.status \in {"joining", "active"} /\ v.status \notin {"requesting_mic", "reconnecting"}
         \/ u.status \in {"joining", "active"} /\ v.saved
         \/ Bare(v)
  PROVE  Microphone(u)
<1> DEFINE F == {f}
<1>1. /\ \A g \in F \cap StoreFlow : ~Touches(u.flows[g])
      /\ \A g \in StoreFlow \ F : Fades(v.flows[g], u.flows[g])
  OBVIOUS
<1> HIDE DEF F
<1> QED BY <1>1, MicrophoneKept

LEMMA OwnersNone == ASSUME NEW u, \A g \in StoreFlow : ~u.flows[g].own PROVE Owners(u)
BY DEF Owners

LEMMA OwnersOne ==
  ASSUME NEW u, NEW f \in StoreFlow, \A g \in StoreFlow \ {f} : ~u.flows[g].own,
         u.flows[f].own => Counts(u, u.flows[f])
  PROVE  Owners(u)
BY DEF Owners

LEMMA ReportsKept ==
  ASSUME NEW v \in VoiceShape, NEW u, Reports(v),
         \A g \in StoreFlow : u.flows[g].rec \in {v.flows[g].rec, NoVoice},
         \A d \in VoiceChannel :
           \/ u.recovery[d] = v.recovery[d]
           \/ /\ u.recovery[d].attempt = "none" <=> u.recovery[d].phase = "none"
              /\ \A g \in StoreFlow : u.flows[g].rec # d
  PROVE  Reports(u)
BY DEF VoiceShape, V!VoiceRec, V!FlowRec, Reports

\* f begins to run the recovery of c.
LEMMA ReportsBegin ==
  ASSUME NEW v \in VoiceShape, NEW u, Reports(v), NEW f \in StoreFlow, NEW c \in VoiceChannel,
         u.flows[f].rec = c, u.recovery[c].phase = "running", u.recovery[c].attempt # "none",
         \A g \in StoreFlow \ {f} : u.flows[g].rec \in {v.flows[g].rec, NoVoice},
         \A g \in StoreFlow \ {f} : u.flows[g].rec # c,
         \A d \in VoiceChannel \ {c} : u.recovery[d] = v.recovery[d]
  PROVE  Reports(u)
<1>1. \A g \in StoreFlow : v.flows[g].rec \in VoiceChannel \cup {NoVoice}
  BY DEF VoiceShape, V!VoiceRec, V!FlowRec
<1>2. \A d \in VoiceChannel : u.recovery[d].attempt = "none" <=> u.recovery[d].phase = "none"
  BY DEF Reports
<1>3. \A g \in StoreFlow : g # f /\ u.flows[g].rec # NoVoice =>
        u.flows[g].rec = v.flows[g].rec /\ u.recovery[u.flows[g].rec].phase = "running"
  BY <1>1 DEF Reports
<1> QED BY <1>2, <1>3 DEF Reports

LEMMA IdleOwners ==
  ASSUME NEW v \in VoiceShape, Owners(v), v.status \in {"idle", "error"},
         NEW f \in StoreFlow, v.flows[f].own
  PROVE  v.flows[f].at = "preleave" /\ v.status = "idle"
BY DEF VoiceShape, V!VoiceRec, V!FlowRec, Owners, Counts, V!Commands, V!Setups, V!Inputs, Early,
   Noise, Bare

LEMMA PreleaveCounts == ASSUME NEW v, NEW w, w.at = "preleave", v.status = "idle" PROVE Counts(v, w)
BY InputKinds DEF Counts, Early, Sent, V!Setups

LEMMA NoRetryRetries == ASSUME NEW v, NoRetry(v) PROVE Retries(v)
BY DEF NoRetry, Retries

LEMMA NoRecoveryFacts ==
  V!NoRecovery \in V!RecoveryRec /\ V!NoRecovery.attempt = "none" /\ V!NoRecovery.phase = "none"
  /\ ~Wants(V!NoRecovery)
BY DEF V!NoRecovery, V!RecoveryRec, Wants

-----------------------------------------------------------------------------
(* The gateway goes away.                                                  *)

\* v is d but for its room.
Moves(d, v) == SameShown(d, v) /\ SameMic(d, v) /\ v.flows = d.flows /\ v.recovery = d.recovery
               /\ v.crossed = d.crossed

\* What is left then waits for the connection.
Paused(d, v, u) ==
  /\ VoiceInv(u) /\ u.crossed = d.crossed /\ u.link = v.link /\ u.sfu = v.sfu
  /\ ~u.crossed => NoRetry(u)
  /\ \A g \in StoreFlow : u.flows[g].at = d.flows[g].at

LEMMA WillReconnectWell ==
  ASSUME NEW d \in VoiceShape, VoiceInv(d), NEW v \in VoiceShape, Moves(d, v),
         NEW u, u = V!GatewayWillReconnect(v)
  PROVE  Paused(d, v, u)
<1>1. CASE v.status \in {"idle", "error"}
  BY <1>1, ReportsKept, MicrophoneFades, IdleOwners, PreleaveCounts, NoRetryRetries DEF
     V!GatewayWillReconnect, VoiceInv, Moves, SameShown, Fades, Well, NoRetry, Retries, Owners,
     Served, Paused
<1>2. CASE v.status \notin {"idle", "error"} /\ v.channel = NoVoice
  <2> DEFINE t == V!Teardown(v)
  <2>1. u = V!Show(t, "idle", NoVoice)
    BY <1>2 DEF V!GatewayWillReconnect
  <2>2. /\ t \in VoiceShape /\ Bare(t) /\ ~t.peers /\ t.leaked = v.leaked
        /\ SameShown(v, t) /\ SameRoom(v, t) /\ t.recovery = v.recovery /\ t.crossed = v.crossed
        /\ \A g \in StoreFlow : Fades(v.flows[g], t.flows[g]) /\ t.flows[g].rec = v.flows[g].rec
    BY TeardownFacts
  <2> HIDE DEF t
  <2>3. /\ u \in VoiceShape /\ u.status = "idle" /\ u.channel = NoVoice
        /\ SameMic(t, u) /\ SameRoom(t, u) /\ u.peers = t.peers /\ u.recovery = t.recovery
        /\ u.crossed = t.crossed
        /\ \A g \in StoreFlow : /\ Fades(t.flows[g], u.flows[g]) /\ ~u.flows[g].own
                                /\ u.flows[g].rec = t.flows[g].rec
    BY <2>1, <2>2, ShowFacts DEF V!Status, Rooms
  <2>4. Reports(u)
    BY <2>2, <2>3, ReportsKept DEF VoiceInv, Moves
  <2>5. ASSUME ~u.crossed PROVE Well(u) /\ NoRetry(u)
    BY <2>2, <2>3, <2>5, BareMicrophone, <1>2, ClientAssumption, OwnersNone, NoRetryRetries DEF
       VoiceInv, Moves, Well, Microphone, Bare, Untouched, Touches, SameMic, Fades, NoRetry,
       Retries, SameShown, VoiceAssumption, Served
  <2> QED BY <2>2, <2>3, <2>4, <2>5 DEF VoiceInv, Moves, SameRoom, Fades, Paused
<1>3. CASE v.status \notin {"idle", "error"} /\ v.channel # NoVoice
  <2> DEFINE c == v.channel
             r == V!ResolveRecovery(v, c)
             t == V!TeardownPeers(r)
  <2>1. u = V!Show(t, "reconnecting", c)
    BY <1>3 DEF V!GatewayWillReconnect
  <2>2. c \in VoiceChannel
    BY <1>3 DEF VoiceShape, V!VoiceRec
  <2>0. c = v.channel
    OBVIOUS
  <2> HIDE DEF c
  <2>3. /\ r \in VoiceShape /\ SameMic(v, r) /\ SameRoom(v, r) /\ r.crossed = v.crossed
        /\ r.recovery[c] = V!NoRecovery
        /\ \A e \in VoiceChannel \ {c} : r.recovery[e] = v.recovery[e]
        /\ \A g \in StoreFlow : Fades(v.flows[g], r.flows[g]) /\ r.flows[g].rec # c
    BY <2>2, ResolveFacts
  <2> HIDE DEF r
  <2>4. /\ t \in VoiceShape /\ t.flows = r.flows /\ SameMic(r, t) /\ SameRoom(r, t)
        /\ t.recovery = r.recovery /\ t.crossed = r.crossed
    BY <2>3, TeardownPeersFacts
  <2> HIDE DEF t
  <2>5. /\ u \in VoiceShape /\ u.status = "reconnecting" /\ u.channel = c
        /\ SameMic(t, u) /\ SameRoom(t, u) /\ u.recovery = t.recovery /\ u.crossed = t.crossed
        /\ \A g \in StoreFlow : /\ Fades(t.flows[g], u.flows[g]) /\ ~u.flows[g].own
                                /\ u.flows[g].rec = t.flows[g].rec
    <3>1. c \in Rooms /\ "reconnecting" \in V!Status /\ t \in VoiceShape
      BY <2>2, <2>4 DEF V!Status, Rooms
    <3> QED BY <2>1, <3>1, ShowFacts
  <2>6. \A g \in StoreFlow : Fades(d.flows[g], u.flows[g])
    BY <2>3, <2>4, <2>5 DEF Fades, Moves
  <2>7. Reports(u)
    BY <2>2, <2>3, <2>4, <2>5, <2>6, NoRecoveryFacts, ReportsKept DEF VoiceInv, Moves, Fades
  <2>8. ASSUME ~u.crossed PROVE Well(u) /\ NoRetry(u)
    BY <2>3, <2>4, <2>5, <2>8, <2>6, MicrophoneFades, <2>2, <2>0, NoRecoveryFacts, OwnersNone,
       NoRetryRetries DEF VoiceInv, Moves, SameMic, Well, NoRetry, Retries, SameShown, Served
  <2> QED BY <2>3, <2>4, <2>5, <2>6, <2>7, <2>8 DEF VoiceInv, Moves, SameRoom, Fades, Paused
<1> QED BY <1>1, <1>2, <1>3

LEMMA DisconnectedWell ==
  ASSUME NEW d \in VoiceShape, VoiceInv(d), NEW v \in VoiceShape, Moves(d, v),
         NEW u, u = V!GatewayDisconnected(v)
  PROVE  /\ VoiceInv(u) /\ u.crossed = d.crossed
         /\ ~u.crossed => NoRetry(u)
<1> DEFINE c == v.channel
           r == IF c = NoVoice THEN v ELSE V!ResolveRecovery(v, c)
<1>1. /\ r \in VoiceShape /\ SameShown(v, r) /\ SameMic(v, r) /\ r.crossed = v.crossed
      /\ Reports(r)
      /\ \A e \in VoiceChannel : \/ r.recovery[e] = v.recovery[e]
                                 \/ e = v.channel /\ r.recovery[e] = V!NoRecovery
      /\ v.channel # NoVoice => r.recovery[v.channel] = V!NoRecovery
      /\ \A g \in StoreFlow : Fades(v.flows[g], r.flows[g]) /\ r.flows[g].own = v.flows[g].own
  <2>1. CASE v.channel = NoVoice
    BY <2>1, ReportsKept DEF Fades, VoiceInv, Moves, SameShown, SameMic
  <2>2. CASE v.channel # NoVoice
    <3>1. c \in VoiceChannel /\ r = V!ResolveRecovery(v, c) /\ c = v.channel
      BY <2>2 DEF VoiceShape, V!VoiceRec
    <3> HIDE DEF r, c
    <3>2. /\ r \in VoiceShape /\ SameShown(v, r) /\ SameMic(v, r) /\ r.crossed = v.crossed
          /\ r.recovery[c] = V!NoRecovery
          /\ \A e \in VoiceChannel \ {c} : r.recovery[e] = v.recovery[e]
          /\ \A g \in StoreFlow : /\ Fades(v.flows[g], r.flows[g]) /\ r.flows[g].rec # c
                                  /\ r.flows[g].own = v.flows[g].own
      BY <3>1, ResolveFacts
    <3>3. Reports(r)
      BY <3>1, <3>2, NoRecoveryFacts, ReportsKept DEF VoiceInv, Moves, Fades
    <3> QED BY <3>1, <3>2, <3>3, NoRecoveryFacts
  <2> QED BY <2>1, <2>2
<1>2. ~v.crossed => NoRetry(r)
  <2> HIDE DEF r, c
  <2> QED BY <1>1, ClientAssumption, NoRecoveryFacts
             DEF NoRetry, VoiceInv, Well, Retries, Moves, SameShown, VoiceAssumption
<1>3. \A g \in StoreFlow : Fades(d.flows[g], r.flows[g])
  BY <1>1 DEF Moves
<1>4. u = IF v.status = "idle" THEN r ELSE V!Show(V!Teardown(r), "idle", NoVoice)
  BY DEF V!GatewayDisconnected
<1> HIDE DEF r, c
<1>5. CASE v.status = "idle"
  <2>1. ASSUME ~r.crossed PROVE Well(r)
    <3>1. Well(d) /\ d.status = v.status /\ r.status = "idle" /\ SameMic(d, r)
      BY <1>1, <1>5, <2>1 DEF VoiceInv, Moves, SameShown, SameMic
    <3>2. Microphone(r)
      BY <1>3, <1>5, <3>1, MicrophoneFades DEF Well
    <3>3. Owners(r)
      BY <1>3, <1>5, <3>1, IdleOwners, PreleaveCounts DEF Fades, Well, Owners
    <3> QED BY <1>1, <1>2, <2>1, <3>1, <3>2, <3>3, NoRetryRetries DEF Well, Served
  <2> QED BY <1>1, <1>2, <1>4, <1>5, <2>1 DEF VoiceInv, Moves
<1>6. CASE v.status # "idle"
  <2> DEFINE t == V!Teardown(r)
  <2>1. u = V!Show(t, "idle", NoVoice)
    BY <1>4, <1>6
  <2>2. /\ t \in VoiceShape /\ Bare(t) /\ t.leaked = r.leaked
        /\ t.recovery = r.recovery /\ t.crossed = r.crossed
        /\ \A g \in StoreFlow : Fades(r.flows[g], t.flows[g])
    BY <1>1, TeardownFacts
  <2> HIDE DEF t
  <2>3. /\ u \in VoiceShape /\ u.status = "idle" /\ u.channel = NoVoice
        /\ SameMic(t, u) /\ u.recovery = t.recovery /\ u.crossed = t.crossed
        /\ \A g \in StoreFlow : Fades(t.flows[g], u.flows[g]) /\ ~u.flows[g].own
    BY <2>1, <2>2, ShowFacts DEF V!Status, Rooms
  <2>4. Reports(u)
    BY <1>1, <2>2, <2>3, ReportsKept DEF Fades
  <2>5. ASSUME ~u.crossed PROVE Well(u) /\ NoRetry(u)
    <3>1. ~u.leaked
      BY <1>1, <2>2, <2>3, <2>5 DEF VoiceInv, Moves, Well, Microphone, SameMic
    <3>2. Bare(u)
      BY <2>2, <2>3 DEF Bare, Untouched, Touches, SameMic, Fades
    <3>3. NoRetry(u)
      BY <1>1, <1>2, <2>2, <2>3, <2>5 DEF NoRetry
    <3> QED BY <2>3, <3>1, <3>2, <3>3, BareMicrophone, OwnersNone, NoRetryRetries DEF Well, Served
  <2> QED BY <1>1, <2>2, <2>3, <2>4, <2>5 DEF VoiceInv, Moves
<1> QED BY <1>5, <1>6

-----------------------------------------------------------------------------
(* Rejoins and recoveries.                                                 *)

LEMMA CountsKept ==
  ASSUME NEW v, NEW u, NEW w, NEW x, Counts(v, w), SameShown(v, u), SameMic(v, u),
         u.link = v.link, u.joined = v.joined, u.peers = v.peers,
         Untouched(v) => Untouched(u), NoRetry(v) => NoRetry(u),
         \A c \in VoiceChannel : Wants(u.recovery[c]) => Wants(v.recovery[c]),
         x.at = w.at, x.ch = w.ch, x.ok => w.ok, x.fresh = w.fresh, x.rec = w.rec
  PROVE  Counts(u, x)
BY DEF Bare, SameMic, Counts, SameShown

\* Only recoveries change, and none begins.
LEMMA WellRecovery ==
  ASSUME NEW v, NEW u, Well(v), SameShown(v, u), SameMic(v, u), SameRoom(v, u),
         u.peers = v.peers, u.flows = v.flows,
         \A c \in VoiceChannel : Wants(u.recovery[c]) => Wants(v.recovery[c])
  PROVE  Well(u)
BY MicrophoneFades, CountsKept DEF Fades, SameShown, Well, Owners, Untouched, NoRetry, SameRoom,
   Retries, Served, SameMic

LEMMA BeginRejoinWell ==
  ASSUME NEW v \in VoiceShape, Reports(v), NEW f \in StoreFlow, v.flows[f].at = "none",
         NEW rec \in Rooms,
         ~v.crossed => Well(v),
         ~v.crossed /\ (rec = NoVoice \/ ~v.recovery[rec].left) =>
           v.link /\ \A c \in VoiceChannel : Wants(v.recovery[c]) => c = rec,
         rec # NoVoice => /\ v.recovery[rec].phase = "running" /\ v.recovery[rec].attempt # "none"
                          /\ \A g \in StoreFlow : v.flows[g].rec # rec,
         NEW u, u = V!BeginRejoin(v, f, rec)
  PROVE  /\ VoiceInv(u) /\ u.crossed = v.crossed /\ u.recovery = v.recovery
         /\ \A g \in StoreFlow : u.flows[g].rec \in {v.flows[g].rec, rec}
         /\ \/ u.flows[f].at = "rejoin"
            \/ \A g \in StoreFlow : u.flows[g].rec = v.flows[g].rec
<1>1. CASE v.status # "reconnecting" \/ v.channel = NoVoice \/ ~v.saved
  BY <1>1 DEF V!BeginRejoin, VoiceInv
<1>2. CASE /\ ~(v.status # "reconnecting" \/ v.channel = NoVoice \/ ~v.saved)
           /\ v.mic = "none"
  <2>1. u = V!Show(v, "error", NoVoice)
    BY <1>2 DEF V!BeginRejoin
  <2>2. /\ u \in VoiceShape /\ u.crossed = v.crossed /\ u.recovery = v.recovery
        /\ \A g \in StoreFlow : u.flows[g].rec = v.flows[g].rec
    BY <2>1, ShowFacts DEF V!Status, Rooms
  <2>3. v.crossed
    BY <1>2 DEF Well, Microphone
  <2>4. Reports(u)
    BY <2>2, ReportsKept
  <2> QED BY <2>2, <2>3, <2>4 DEF VoiceInv
<1>3. CASE /\ ~(v.status # "reconnecting" \/ v.channel = NoVoice \/ ~v.saved)
           /\ v.mic # "none"
  <2> DEFINE own == rec = NoVoice \/ ~v.recovery[rec].left
             w == [V!NoFlow EXCEPT !.at = "rejoin", !.ch = v.channel, !.rec = rec, !.own = own]
             s == V!Show(v, "joining", v.channel)
  <2>1. u = V!Send(s, f, w)
    BY <1>3 DEF V!BeginRejoin
  <2>7. own \in BOOLEAN /\ (~v.crossed /\ own =>
          v.link /\ \A c \in VoiceChannel : Wants(v.recovery[c]) => c = rec)
    OBVIOUS
  <2> HIDE DEF own
  <2>2. /\ Placed(w) /\ w.at = "rejoin" /\ w.ch = v.channel /\ w.own = own /\ w.rec = rec /\ ~w.fresh
        /\ w.at \in V!Commands
    <3>1. v.channel \in VoiceChannel /\ v.channel \in Rooms
      BY <1>3 DEF VoiceShape, V!VoiceRec, Rooms
    <3> QED BY <2>7, <3>1 DEF V!NoFlow, Placed, V!FlowRec, V!Commands, Rooms
  <2>3. /\ s \in VoiceShape /\ s.status = "joining" /\ s.channel = v.channel
        /\ SameMic(v, s) /\ SameRoom(v, s) /\ s.recovery = v.recovery /\ s.crossed = v.crossed
        /\ \A g \in StoreFlow : /\ Fades(v.flows[g], s.flows[g]) /\ ~s.flows[g].own
                                /\ s.flows[g].rec = v.flows[g].rec
    BY ShowFacts DEF V!Status, Rooms, VoiceShape, V!VoiceRec
  <2> HIDE DEF s, w
  <2>4. /\ u \in VoiceShape
        /\ \A g \in StoreFlow \ {f} : u.flows[g] = s.flows[g]
        /\ SameShown(s, u) /\ SameMic(s, u) /\ u.link = s.link
        /\ u.recovery = s.recovery /\ u.crossed = s.crossed
        /\ u.flows[f].at = "rejoin" /\ u.flows[f].ch = v.channel /\ u.flows[f].rec = rec
        /\ u.flows[f].own = own
        /\ ~u.flows[f].fresh /\ (u.flows[f].ok => u.joined = v.channel)
    BY <2>1, <2>2, <2>3, SendFacts
  <2>5. Reports(u)
    <3>1. v.flows[f].rec = NoVoice
      BY DEF VoiceShape
    <3>2. CASE rec = NoVoice
      BY <2>3, <2>4, <3>1, <3>2, ReportsKept
    <3>3. CASE rec # NoVoice
      <4>1. rec \in VoiceChannel
        BY <3>3 DEF Rooms
      <4>2. /\ u.flows[f].rec = rec /\ u.recovery = v.recovery
            /\ \A g \in StoreFlow \ {f} : u.flows[g].rec = v.flows[g].rec
        BY <2>3, <2>4
      <4>3. /\ u.recovery[rec].phase = "running" /\ u.recovery[rec].attempt # "none"
            /\ \A g \in StoreFlow \ {f} : u.flows[g].rec # rec
        BY <3>3, <4>2
      <4> QED BY <4>1, <4>2, <4>3, ReportsBegin
    <3> QED BY <3>2, <3>3
  <2>6. ASSUME ~u.crossed PROVE Well(u)
    BY <2>3, <2>4, <2>6, <2>7, <1>3, MicrophoneStep, InputKinds, OwnersOne DEF SameMic, SameShown,
       SameRoom, Touches, Well, Counts, Early, Sent, V!Setups, Retries, Served
  <2> QED BY <2>3, <2>4, <2>5, <2>6 DEF VoiceInv
<1> QED BY <1>1, <1>2, <1>3

\* x has a recovery of c under way that no function runs yet, and f has nothing to do.
Begun(x, c, f) ==
  /\ x \in VoiceShape /\ Reports(x) /\ (~x.crossed => Well(x))
  /\ x.flows[f].at = "none"
  /\ x.recovery[c].phase = "running" /\ x.recovery[c].attempt # "none"
  /\ \A g \in StoreFlow : x.flows[g].rec # c

LEMMA BegunWell ==
  ASSUME NEW x, NEW c \in VoiceChannel, NEW f \in StoreFlow, Begun(x, c, f), ~x.crossed
  PROVE  /\ Well(x)
         /\ ~x.recovery[c].left =>
              /\ x.link /\ x.status \in {"reconnecting", "joining"} /\ x.channel = c
              /\ \A d \in VoiceChannel : Wants(x.recovery[d]) => d = c
BY DEF Begun, Well, Retries, Wants

\* A recovery that no function reports to becomes r.
LEMMA AttemptWell ==
  ASSUME NEW j, VoiceInv(j), NEW c \in VoiceChannel, NEW r \in V!RecoveryRec,
         r.attempt = "none" <=> r.phase = "none",
         Wants(r) => Wants(j.recovery[c]),
         \A g \in StoreFlow : j.flows[g].rec # c,
         NEW u, u = SetRecovery(j, c, r)
  PROVE  /\ VoiceInv(u) /\ u.crossed = j.crossed /\ u.flows = j.flows
         /\ u.recovery[c] = r /\ \A d \in VoiceChannel \ {c} : u.recovery[d] = j.recovery[d]
<1>1. j \in VoiceShape
  BY DEF VoiceInv
<1>2. /\ u \in VoiceShape /\ u.flows = j.flows /\ u.peers = j.peers
      /\ SameShown(j, u) /\ SameMic(j, u) /\ SameRoom(j, u) /\ u.crossed = j.crossed
      /\ u.recovery[c] = r
      /\ \A d \in VoiceChannel \ {c} : u.recovery[d] = j.recovery[d]
  BY <1>1, RecoveryFacts
<1>3. Reports(u)
  BY <1>2, <1>1, ReportsKept DEF VoiceInv
<1>4. ASSUME ~u.crossed PROVE Well(u)
  BY <1>2, <1>4, WellRecovery DEF VoiceInv
<1> QED BY <1>2, <1>3, <1>4 DEF VoiceInv

\* The recovery of c has run its first steps.
Ran(x, c, u) ==
  /\ VoiceInv(u) /\ u.crossed = x.crossed
  /\ \A d \in VoiceChannel \ {c} : u.recovery[d] = x.recovery[d]
  /\ \A g \in StoreFlow : u.flows[g].rec \in {x.flows[g].rec, c}

Afterwards(j, f, c) ==
  IF j.flows[f].at = "rejoin" THEN j ELSE [j EXCEPT !.recovery[c] = V!NoRecovery]

LEMMA RunRejoinWell ==
  ASSUME NEW x, NEW c \in VoiceChannel, NEW f \in StoreFlow, Begun(x, c, f),
         NEW j, j = V!BeginRejoin(x, f, c),
         NEW u, u = Afterwards(j, f, c)
  PROVE  Ran(x, c, u)
<1>1. /\ VoiceInv(j) /\ j.crossed = x.crossed /\ j.recovery = x.recovery
      /\ \A g \in StoreFlow : j.flows[g].rec \in {x.flows[g].rec, c}
      /\ \/ j.flows[f].at = "rejoin"
         \/ \A g \in StoreFlow : j.flows[g].rec = x.flows[g].rec
  <2>1. c # NoVoice /\ c \in Rooms
    BY ClientAssumption DEF Rooms, VoiceAssumption
  <2>2. ~x.crossed /\ (c = NoVoice \/ ~x.recovery[c].left) =>
          x.link /\ \A d \in VoiceChannel : Wants(x.recovery[d]) => d = c
    BY BegunWell, <2>1
  <2> QED BY <2>1, <2>2, BeginRejoinWell DEF Begun
<1>2. CASE j.flows[f].at = "rejoin"
  BY <1>1, <1>2 DEF Afterwards, Ran
<1>3. CASE j.flows[f].at # "rejoin"
  <2> DEFINE r == V!NoRecovery
  <2>1. u = SetRecovery(j, c, r)
    BY <1>3 DEF Afterwards, SetRecovery
  <2>2. r \in V!RecoveryRec /\ r.attempt = "none" /\ r.phase = "none" /\ ~Wants(r)
    BY NoRecoveryFacts
  <2>3. \A g \in StoreFlow : j.flows[g].rec = x.flows[g].rec /\ j.flows[g].rec # c
    BY <1>1, <1>3 DEF Begun
  <2> HIDE DEF r
  <2>4. /\ VoiceInv(u) /\ u.crossed = j.crossed /\ u.flows = j.flows
        /\ \A d \in VoiceChannel \ {c} : u.recovery[d] = j.recovery[d]
    BY <1>1, <2>1, <2>2, <2>3, AttemptWell
  <2> QED BY <1>1, <2>3, <2>4 DEF Ran
<1> QED BY <1>2, <1>3

LEMMA RunMediaWell ==
  ASSUME NEW x, NEW c \in VoiceChannel, NEW f \in StoreFlow, Begun(x, c, f), x.saved,
         NEW w, Placed(w), w.at = "reconnect", w.rec = c, ~w.fresh,
         w.own <=> x.status = "reconnecting" /\ ~x.recovery[c].left, x.channel = c => w.ch = c,
         NEW u, u = V!Send(x, f, w)
  PROVE  Ran(x, c, u)
<1>1. x \in VoiceShape /\ Reports(x) /\ w.at \in V!Commands
  BY DEF Begun, V!Commands
<1>2. /\ u \in VoiceShape
      /\ \A g \in StoreFlow \ {f} : u.flows[g] = x.flows[g]
      /\ SameShown(x, u) /\ SameMic(x, u) /\ u.link = x.link
      /\ u.peers = x.peers /\ u.recovery = x.recovery /\ u.crossed = x.crossed
      /\ u.flows[f].at = "reconnect" /\ u.flows[f].ch = w.ch /\ u.flows[f].rec = c
      /\ ~u.flows[f].fresh /\ (u.flows[f].own => x.status = "reconnecting" /\ ~x.recovery[c].left)
      /\ (u.flows[f].ok => u.joined = w.ch) /\ u.joined = x.joined
  BY <1>1, SendFacts
<1>3. Reports(u)
  <2>1. /\ u.recovery[c].phase = "running" /\ u.recovery[c].attempt # "none"
        /\ \A d \in VoiceChannel \ {c} : u.recovery[d] = x.recovery[d]
        /\ \A g \in StoreFlow \ {f} : u.flows[g].rec = x.flows[g].rec /\ u.flows[g].rec # c
        /\ u.flows[f].rec = c
    BY <1>2 DEF Begun
  <2> QED BY <1>1, <2>1, ReportsBegin
<1>4. ASSUME ~u.crossed PROVE Well(u)
  <2>1. Well(x) /\ (u.flows[f].own => x.link /\ x.channel = c)
    BY <1>2, <1>4, BegunWell
  <2>2. ~Touches(u.flows[f]) /\ u.status = x.status
    BY <1>2 DEF SameShown, Touches
  <2>3. \A g \in StoreFlow \ {f} : Fades(x.flows[g], u.flows[g])
    BY <1>2 DEF Fades
  <2>4. Microphone(u)
    BY <1>2, <2>1, <2>2, <2>3, MicrophoneStep DEF Well
  <2>5. ASSUME NEW g \in StoreFlow \ {f}, u.flows[g].own PROVE Counts(u, u.flows[g])
    <3>1. Counts(x, x.flows[g]) /\ u.flows[g] = x.flows[g]
      BY <1>2, <2>1, <2>5 DEF Well, Owners
    <3>2. Untouched(x) => Untouched(u)
      BY <1>2, <2>2 DEF Untouched
    <3>3. NoRetry(x) => NoRetry(u)
      BY <1>2 DEF NoRetry
    <3> QED BY <1>2, <3>1, <3>2, <3>3, CountsKept
  <2>6. ASSUME u.flows[f].own, NEW g \in StoreFlow \ {f}, u.flows[g].own PROVE FALSE
    <3>1. /\ Counts(x, x.flows[g]) /\ x.status = "reconnecting" /\ x.channel = c
          /\ x.flows[g].rec # c
      BY <1>2, <2>1, <2>6 DEF Well, Owners, Begun
    <3>2. /\ x.flows[g].at # "none"
          /\ x.flows[g].at \in {"none"} \cup V!Commands \cup V!Setups \cup V!Inputs
      BY <1>1, <1>2, <2>6 DEF VoiceShape, V!VoiceRec, V!FlowRec
    <3> DEFINE y == x.flows[g]
    <3> HIDE DEF y
    <3>3. CASE y.at \in {"reconnect", "mediasetup"}
      BY <3>1, <3>3 DEF Counts, y, Sent, V!Setups
    <3>4. CASE y.at \in V!Inputs
      BY <3>1, <3>4, InputKinds DEF Counts, y
    <3>5. CASE y.at \in {"preleave", "join", "undo", "leave", "rejoin", "setup", "resetup"}
      BY <3>1, <3>5 DEF Counts, y
    <3> QED BY <3>2, <3>3, <3>4, <3>5 DEF y, V!Commands, V!Setups
  <2>7. u.flows[f].own => Counts(u, u.flows[f])
    BY <1>2, <2>1, InputKinds DEF SameShown, SameMic, Counts, Early, Sent, V!Setups
  <2>8. Owners(u)
    BY <2>5, <2>7, <1>2, <2>1, <2>6 DEF Well, Owners
  <2>9. Retries(u)
    BY <1>2, <2>1 DEF Well, Retries, SameShown
  <2>10. Served(u)
    BY <1>2, <2>1 DEF Well, Served, SameShown, SameMic
  <2> QED BY <2>4, <2>8, <2>9, <2>10 DEF Well
<1> QED BY <1>2, <1>3, <1>4 DEF VoiceInv, Ran

RecoveryRuns(v, c, x) == x = [v EXCEPT !.recovery[c].phase = "running"]

LEMMA RunWell ==
  ASSUME NEW v \in VoiceShape, NEW f \in StoreFlow, NEW c \in VoiceChannel,
         v.recovery[c].attempt # "none",
         NEW x, RecoveryRuns(v, c, x), Begun(x, c, f),
         NEW u, u = V!RunRecovery(v, c, f)
  PROVE  /\ VoiceInv(u) /\ u.crossed = v.crossed
         /\ \A d \in VoiceChannel \ {c} : u.recovery[d] = v.recovery[d]
         /\ \A g \in StoreFlow : u.flows[g].rec \in {v.flows[g].rec, c}
<1> DEFINE running == [v.recovery[c] EXCEPT !.phase = "running"]
           timer == [v.recovery[c] EXCEPT !.phase = "timer"]
           y == [v EXCEPT !.recovery[c].phase = "timer"]
           sent == [V!NoFlow EXCEPT !.at = "reconnect", !.rec = c,
                  !.own = v.status = "reconnecting" /\ ~v.recovery[c].left,
                  !.ch = IF v.channel = NoVoice THEN c ELSE v.channel]
           rejoined == V!BeginRejoin(x, f, c)
           Wanted == v.recovery[c].attempt
           Left == v.recovery[c].left
<1>1. v \in V!VoiceRec /\ v.recovery \in [VoiceChannel -> V!RecoveryRec]
  BY DEF VoiceShape, V!VoiceRec
<1>2. /\ running \in V!RecoveryRec /\ running.phase = "running" /\ running.attempt = Wanted
      /\ running.left = Left /\ timer.left = Left
      /\ timer \in V!RecoveryRec /\ timer.phase = "timer" /\ timer.attempt = Wanted
  BY <1>1 DEF V!RecoveryRec
<1>3. /\ x = SetRecovery(v, c, running)
      /\ y = SetRecovery(v, c, timer)
  BY <1>1 DEF RecoveryRuns, SetRecovery
<1>4. \/ u = Afterwards(rejoined, f, c)
      \/ v.saved /\ u = V!Send(x, f, sent)
      \/ u = y
  BY <1>1 DEF V!RecoveryRec, V!RunRecovery, RecoveryRuns, Afterwards
<1>5. /\ Placed(sent) /\ sent.at = "reconnect" /\ (sent.own <=> v.status = "reconnecting" /\ ~Left) /\ sent.rec = c
      /\ ~sent.fresh /\ (v.channel = c => sent.ch = c)
  <2>1. v.channel \in Rooms /\ c \in Rooms /\ NoVoice \notin VoiceChannel
    BY ClientAssumption DEF VoiceShape, V!VoiceRec, Rooms, VoiceAssumption
  <2> DEFINE own == v.status = "reconnecting" /\ ~v.recovery[c].left
             ch == IF v.channel = NoVoice THEN c ELSE v.channel
  <2>2. own \in BOOLEAN /\ ch \in VoiceChannel /\ (v.channel = c => ch = c)
    BY <2>1 DEF Rooms
  <2>3. sent = [V!NoFlow EXCEPT !.at = "reconnect", !.rec = c, !.own = own, !.ch = ch]
    OBVIOUS
  <2> HIDE DEF own, ch, sent
  <2>4. /\ sent \in V!FlowRec /\ sent.at = "reconnect" /\ sent.own = own /\ sent.rec = c /\ ~sent.fresh /\ sent.ch = ch
    BY <2>1, <2>2, <2>3 DEF V!NoFlow, V!FlowRec, V!Commands
  <2> QED BY <2>2, <2>4 DEF Placed, own
<1> HIDE DEF running, timer, y, sent, rejoined, Wanted, Left
<1>6. /\ x \in VoiceShape /\ x.flows = v.flows /\ x.peers = v.peers
      /\ SameShown(v, x) /\ SameMic(v, x) /\ SameRoom(v, x) /\ x.crossed = v.crossed
      /\ x.recovery[c] = running /\ \A d \in VoiceChannel \ {c} : x.recovery[d] = v.recovery[d]
  BY <1>2, <1>3, RecoveryFacts
<1>7. /\ y \in VoiceShape /\ y.flows = v.flows /\ y.peers = v.peers
      /\ SameShown(v, y) /\ SameMic(v, y) /\ SameRoom(v, y) /\ y.crossed = v.crossed
      /\ y.recovery[c] = timer /\ \A d \in VoiceChannel \ {c} : y.recovery[d] = v.recovery[d]
  BY <1>2, <1>3, RecoveryFacts
<1>8. CASE u = Afterwards(rejoined, f, c)
  <2>1. Ran(x, c, u)
    BY <1>8, RunRejoinWell DEF rejoined
  <2> QED BY <1>6, <2>1 DEF Ran
<1>9. CASE v.saved /\ u = V!Send(x, f, sent)
  <2>1. x.saved /\ (sent.own <=> x.status = "reconnecting" /\ ~x.recovery[c].left) /\ (x.channel = c => sent.ch = c)
    BY <1>2, <1>5, <1>6, <1>9 DEF SameShown, SameMic
  <2>2. Ran(x, c, u)
    BY <1>5, <1>9, <2>1, RunMediaWell
  <2> QED BY <1>6, <2>2 DEF Ran
<1>10. CASE u = y
  <2>1. Reports(y)
    BY <1>6, <1>7, <1>2, ReportsKept DEF Begun, Wanted
  <2>2. ASSUME ~y.crossed PROVE Well(y)
    BY <1>2, <1>6, <1>7, <2>2, WellRecovery DEF SameShown, SameMic, SameRoom, Begun, Wants
  <2> QED BY <1>7, <1>10, <2>1, <2>2 DEF VoiceInv
<1> QED BY <1>4, <1>8, <1>9, <1>10
-----------------------------------------------------------------------------
(* What ends a function.                                                   *)

\* Function f sets the status and is over.
Ended(v, f, u, s, c) ==
  /\ u \in VoiceShape /\ u.status = s /\ u.channel = c
  /\ SameMic(v, u) /\ SameRoom(v, u) /\ u.peers = v.peers /\ u.recovery = v.recovery
  /\ ~u.crossed => ~v.crossed /\ v.flows[f].own
  /\ u.flows[f].at = "none" /\ u.flows[f].rec = NoVoice /\ ~Touches(u.flows[f])
  /\ \A g \in StoreFlow : ~u.flows[g].own
  /\ \A g \in StoreFlow \ {f} : Fades(v.flows[g], u.flows[g]) /\ u.flows[g].rec = v.flows[g].rec

LEMMA EndFacts ==
  ASSUME NEW v \in VoiceShape, NEW f \in StoreFlow, NEW s \in V!Status, NEW c \in Rooms,
         s = "active" => c # NoVoice, NEW u, u = V!Show(V!Free(V!Cross(v, f), f), s, c)
  PROVE  Ended(v, f, u, s, c)
<1> DEFINE a == V!Cross(v, f)
           b == V!Free(a, f)
<1>1. u = V!Show(b, s, c)
  OBVIOUS
<1>2. /\ a \in VoiceShape /\ a.flows = v.flows /\ SameMic(v, a) /\ SameRoom(v, a)
      /\ a.peers = v.peers /\ a.recovery = v.recovery
      /\ ~a.crossed => ~v.crossed /\ v.flows[f].own
  BY CrossFacts
<1> HIDE DEF a
<1>3. /\ b \in VoiceShape /\ b.flows[f] = V!NoFlow
      /\ \A g \in StoreFlow \ {f} : b.flows[g] = a.flows[g]
      /\ SameMic(a, b) /\ SameRoom(a, b)
      /\ b.peers = a.peers /\ b.recovery = a.recovery /\ b.crossed = a.crossed
  BY <1>2, FreeFacts
<1> HIDE DEF b
<1>4. /\ u \in VoiceShape /\ u.status = s /\ u.channel = c
      /\ SameMic(b, u) /\ SameRoom(b, u) /\ u.peers = b.peers /\ u.recovery = b.recovery
      /\ u.crossed = b.crossed
      /\ \A g \in StoreFlow : /\ Fades(b.flows[g], u.flows[g]) /\ ~u.flows[g].own
                              /\ u.flows[g].rec = b.flows[g].rec
  BY <1>1, <1>3, ShowFacts
<1>5. SameMic(v, u) /\ SameRoom(v, u) /\ u.peers = v.peers /\ u.recovery = v.recovery
  BY <1>2, <1>3, <1>4 DEF SameMic, SameRoom
<1>6. u.flows[f].at = "none" /\ u.flows[f].rec = NoVoice /\ ~Touches(u.flows[f])
  BY <1>3, <1>4, NoFlowFacts DEF Fades, Touches
<1>7. \A g \in StoreFlow \ {f} : Fades(v.flows[g], u.flows[g]) /\ u.flows[g].rec = v.flows[g].rec
  BY <1>2, <1>3, <1>4
<1> QED BY <1>2, <1>3, <1>4, <1>5, <1>6, <1>7 DEF Ended

LEMMA EndReports ==
  ASSUME NEW v \in VoiceShape, Reports(v), NEW f \in StoreFlow, NEW s, NEW c, NEW u,
         Ended(v, f, u, s, c)
  PROVE  Reports(u)
BY ReportsKept DEF Ended

\* The function that set the status last.
LEMMA OwnerCounts ==
  ASSUME NEW v, VoiceInv(v), ~v.crossed, NEW f \in StoreFlow, v.flows[f].own
  PROVE  Well(v) /\ Counts(v, v.flows[f])
BY DEF VoiceInv, Well, Owners

LEMMA EndMicrophone ==
  ASSUME NEW v, NEW f \in StoreFlow, NEW s, NEW c, NEW u, Ended(v, f, u, s, c), Microphone(v),
         \/ s = "reconnecting"
         \/ s = "active" /\ v.saved
         \/ s = "active" /\ v.status \notin {"requesting_mic", "reconnecting"}
         \/ Bare(v)
  PROVE  Microphone(u)
BY MicrophoneStep DEF Ended

-----------------------------------------------------------------------------
(* A recovery begins, and its attempt ends.                                *)

LEMMA StartWell ==
  ASSUME NEW s, VoiceInv(s), NEW f \in StoreFlow, s.flows[f].at = "none", NEW c \in VoiceChannel,
         NEW attempt \in {"rejoin", "media"}, s.recovery[c].attempt = "none",
         ~s.crossed => s.link /\ s.status = "reconnecting" /\ s.channel = c,
         \A g \in StoreFlow : ~s.flows[g].own,
         NEW u, u = V!StartRecovery(s, c, attempt, f)
  PROVE  Ran(s, c, u)
<1> DEFINE v == [s EXCEPT !.recovery[c].attempt = attempt]
           first == [s.recovery[c] EXCEPT !.attempt = attempt]
           x == [v EXCEPT !.recovery[c].phase = "running"]
           second == [first EXCEPT !.phase = "running"]
<1>1. s \in VoiceShape /\ s \in V!VoiceRec /\ s.recovery \in [VoiceChannel -> V!RecoveryRec]
  BY DEF VoiceInv, VoiceShape, V!VoiceRec
<1>2. u = V!RunRecovery(v, c, f)
  BY DEF V!StartRecovery
<1>3. /\ first \in V!RecoveryRec /\ first.attempt = attempt
      /\ second \in V!RecoveryRec /\ second.attempt = attempt /\ second.phase = "running"
  BY <1>1 DEF V!RecoveryRec
<1>4. v = SetRecovery(s, c, first)
  BY <1>1 DEF SetRecovery
<1>5. RecoveryRuns(v, c, x)
  BY DEF RecoveryRuns
<1>0. s \in VoiceShape /\ first \in V!RecoveryRec
  BY <1>1, <1>3
<1> HIDE DEF v, first, x, second
<1>6. /\ v \in VoiceShape /\ v.flows = s.flows /\ v.peers = s.peers
      /\ SameShown(s, v) /\ SameMic(s, v) /\ SameRoom(s, v) /\ v.crossed = s.crossed
      /\ v.recovery[c] = first /\ \A d \in VoiceChannel \ {c} : v.recovery[d] = s.recovery[d]
  BY <1>0, <1>4, RecoveryFacts
<1>7. x = SetRecovery(v, c, second)
  BY <1>6 DEF SetRecovery, VoiceShape, V!VoiceRec, x, second
<1>8. /\ x \in VoiceShape /\ x.flows = v.flows /\ x.peers = v.peers
      /\ SameShown(v, x) /\ SameMic(v, x) /\ SameRoom(v, x) /\ x.crossed = v.crossed
      /\ x.recovery[c] = second /\ \A d \in VoiceChannel \ {c} : x.recovery[d] = v.recovery[d]
  BY <1>3, <1>6, <1>7, RecoveryFacts
<1>9. \A g \in StoreFlow : s.flows[g].rec # c
  BY ClientAssumption DEF VoiceInv, Reports, VoiceAssumption
<1>10. Reports(x)
  BY <1>6, <1>8, <1>3, <1>9, <1>1, ReportsKept DEF VoiceInv
<1>11. ASSUME ~x.crossed PROVE Well(x)
  BY <1>6, <1>8, <1>11, MicrophoneFades, OwnersNone DEF VoiceInv, SameShown, SameRoom, SameMic,
     Fades, Well, Retries, Served
<1>12. Begun(x, c, f)
  BY <1>3, <1>6, <1>8, <1>9, <1>10, <1>11 DEF Begun
<1>13. /\ VoiceInv(u) /\ u.crossed = v.crossed
       /\ \A d \in VoiceChannel \ {c} : u.recovery[d] = v.recovery[d]
       /\ \A g \in StoreFlow : u.flows[g].rec \in {v.flows[g].rec, c}
  BY <1>3, <1>6, <1>2, <1>5, <1>12, RunWell
<1> QED BY <1>6, <1>13 DEF Ran

\* The attempt of the function that was w ends.
LEMMA AttemptEndsWell ==
  ASSUME NEW v, VoiceInv(v), NEW w, w.rec \in Rooms, NEW ok \in BOOLEAN,
         w.rec # NoVoice => /\ \A g \in StoreFlow : v.flows[g].rec # w.rec
                            /\ v.recovery[w.rec].attempt # "none",
         NEW u, u = V!AttemptEnds(v, w, ok)
  PROVE  VoiceInv(u)
<1>1. CASE w.rec = NoVoice
  BY <1>1 DEF V!AttemptEnds
<1>2. CASE w.rec # NoVoice
  <2> DEFINE c == w.rec
             r == IF ok THEN V!NoRecovery ELSE [v.recovery[c] EXCEPT !.phase = "timer"]
  <2>1. /\ v.recovery \in [VoiceChannel -> V!RecoveryRec] /\ c \in VoiceChannel
        /\ v.recovery[c] \in V!RecoveryRec
    BY <1>2 DEF VoiceInv, VoiceShape, V!VoiceRec, Rooms
  <2>2. /\ r \in V!RecoveryRec /\ (r.attempt = "none" <=> r.phase = "none")
        /\ Wants(r) => Wants(v.recovery[c])
    BY <1>2, <2>1 DEF V!NoRecovery, V!RecoveryRec, Wants
  <2>3. u = SetRecovery(v, c, r)
    BY <1>2, <2>1 DEF V!AttemptEnds, SetRecovery
  <2>4. v.recovery[c].attempt # "none" /\ \A g \in StoreFlow : v.flows[g].rec # c
    BY <1>2
  <2> HIDE DEF c, r
  <2> QED BY <2>1, <2>2, <2>3, <2>4, AttemptWell
<1> QED BY <1>1, <1>2

LEMMA StartAnyWell ==
  ASSUME NEW s, VoiceInv(s), NEW f \in StoreFlow, s.flows[f].at = "none", NEW c \in VoiceChannel,
         NEW attempt \in {"rejoin", "media"},
         ~s.crossed => s.link /\ s.status = "reconnecting" /\ s.channel = c,
         \A g \in StoreFlow : ~s.flows[g].own,
         NEW u, u = V!StartRecovery(s, c, attempt, f)
  PROVE  Ran(s, c, u) /\ (s.recovery[c].attempt # "none" => u = s)
<1>1. CASE s.recovery[c].attempt = "none"
  BY <1>1, StartWell
<1>2. CASE s.recovery[c].attempt # "none"
  BY <1>2 DEF V!StartRecovery, Ran
<1> QED BY <1>1, <1>2

LEMMA MovesKeep ==
  ASSUME NEW d, VoiceInv(d), NEW v \in VoiceShape, Moves(d, v)
  PROVE  Reports(v) /\ (~v.crossed => Well(d) /\ Microphone(v))
BY ReportsKept, MicrophoneFades DEF VoiceInv, Moves, SameShown, Fades, Well

LEMMA RejoinFailsWell ==
  ASSUME NEW d, VoiceInv(d), NEW v \in VoiceShape, Moves(d, v), v.link = d.link,
         NEW f \in StoreFlow, d.flows[f].at \in {"rejoin", "resetup"},
         NEW attempt \in {"rejoin", "media"}, NEW u, u = V!RejoinFails(v, f, attempt)
  PROVE  VoiceInv(u)
<1> DEFINE w == v.flows[f]
           c == w.ch
           shown == V!Show(V!Free(V!Cross(v, f), f), "reconnecting", v.channel)
           t == V!StartRecovery(shown, c, attempt, f)
<1>1. u = V!AttemptEnds(t, w, FALSE)
  BY DEF V!RejoinFails
<1>2. Ended(v, f, shown, "reconnecting", v.channel)
  BY EndFacts DEF V!Status, Rooms, VoiceShape, V!VoiceRec
<1>3. /\ w = d.flows[f] /\ c = d.flows[f].ch /\ c \in VoiceChannel /\ w.rec \in Rooms
      /\ d \in VoiceShape
  BY InputKinds DEF Moves, VoiceInv, VoiceShape, V!VoiceRec, V!FlowRec, Noise, Early, Rooms
<1> HIDE DEF w, c, shown, t
<1>4. Reports(v) /\ (~v.crossed => Well(d) /\ Microphone(v))
  BY MovesKeep
<1>5. Reports(shown)
  BY <1>2, <1>4, EndReports
<1>6. ASSUME ~shown.crossed PROVE Well(shown) /\ shown.link /\ shown.channel = c
  <2>1. ~d.crossed /\ d.flows[f].own
    BY <1>2, <1>6 DEF Ended, Moves
  <2>2. Well(d) /\ Counts(d, d.flows[f])
    BY <2>1, OwnerCounts
  <2>3. d.link /\ d.saved /\ d.channel = c
    BY <1>3, <2>2 DEF Counts, Sent, V!Setups
  <2>4. shown.link /\ shown.channel = c /\ shown.status = "reconnecting" /\ shown.recovery = d.recovery
    BY <1>2, <2>3 DEF Ended, SameRoom, Moves, SameShown
  <2>5. Microphone(shown)
    BY <1>2, <1>4, <2>1, EndMicrophone DEF Moves
  <2>6. Owners(shown)
    BY <1>2, OwnersNone DEF Ended
  <2>7. Retries(shown)
    BY <2>2, <2>3, <2>4 DEF Well, Retries
  <2> QED BY <2>4, <2>5, <2>6, <2>7 DEF Well, Served
<1>7. /\ VoiceInv(shown) /\ shown.flows[f].at = "none" /\ \A g \in StoreFlow : ~shown.flows[g].own
      /\ ~shown.crossed => shown.link /\ shown.status = "reconnecting" /\ shown.channel = c
  BY <1>2, <1>5, <1>6 DEF VoiceInv, Ended
<1>8. Ran(shown, c, t) /\ (shown.recovery[c].attempt # "none" => t = shown)
  BY <1>3, <1>7, StartAnyWell DEF t
<1>9. ASSUME w.rec # NoVoice
      PROVE  /\ \A g \in StoreFlow : t.flows[g].rec # w.rec
             /\ t.recovery[w.rec].attempt # "none"
  <2>1. w.rec \in VoiceChannel /\ w = v.flows[f]
    BY <1>3, <1>9 DEF Rooms, w
  <2>2. shown.recovery[w.rec].attempt # "none"
    <3>1. v.recovery[w.rec].phase = "running"
      BY <1>4, <1>9, <2>1 DEF Reports
    <3>2. v.recovery[w.rec].attempt # "none"
      BY <1>4, <2>1, <3>1 DEF Reports
    <3> QED BY <1>2, <3>2 DEF Ended
  <2>3. \A g \in StoreFlow : shown.flows[g].rec # w.rec
    BY <1>2, <1>4, <1>9, <2>1 DEF Reports, Ended
  <2>4. CASE w.rec = c
    BY <1>8, <2>2, <2>3, <2>4
  <2>5. CASE w.rec # c
    BY <1>8, <2>1, <2>2, <2>3, <2>5 DEF Ran
  <2> QED BY <2>4, <2>5
<1>10. VoiceInv(t)
  BY <1>8 DEF Ran
<1> QED BY <1>1, <1>3, <1>9, <1>10, AttemptEndsWell

-----------------------------------------------------------------------------
(* Nothing is left of a session; a function is gone.                       *)

LEMMA BareWell ==
  ASSUME NEW u \in VoiceShape, Reports(u),
         ~u.crossed => /\ Bare(u) /\ ~u.leaked /\ NoRetry(u) /\ u.status # "active"
                       /\ \A g \in StoreFlow : ~u.flows[g].own
  PROVE  VoiceInv(u)
BY BareMicrophone, OwnersNone, NoRetryRetries DEF Well, Served, VoiceInv

\* A session that is not connected again is not retried.
LEMMA NotRetried ==
  ASSUME NEW v, Well(v), v.status \notin {"reconnecting", "joining"}
  PROVE  NoRetry(v)
BY DEF Well, Retries, NoRetry

LEMMA FreeWell ==
  ASSUME NEW v, VoiceInv(v), NEW f \in StoreFlow, NEW u, u = V!Free(v, f)
  PROVE  VoiceInv(u)
<1>1. v \in VoiceShape
  BY DEF VoiceInv
<1>2. /\ u \in VoiceShape /\ u.flows[f] = V!NoFlow
      /\ \A g \in StoreFlow \ {f} : u.flows[g] = v.flows[g]
      /\ SameShown(v, u) /\ SameMic(v, u) /\ SameRoom(v, u)
      /\ u.peers = v.peers /\ u.recovery = v.recovery /\ u.crossed = v.crossed
  BY <1>1, FreeFacts
<1>3. ~Touches(u.flows[f]) /\ ~u.flows[f].own /\ u.flows[f].rec = NoVoice
  BY <1>2, NoFlowFacts DEF Touches
<1>4. Reports(u)
  BY <1>2, <1>3, <1>1, ReportsKept DEF VoiceInv
<1>5. ASSUME ~u.crossed PROVE Well(u)
  BY <1>2, <1>5, <1>3, MicrophoneStep, CountsKept DEF VoiceInv, Fades, SameShown, Well, Owners,
     Untouched, NoRetry, SameRoom, Retries, Served, SameMic
<1> QED BY <1>2, <1>4, <1>5 DEF VoiceInv

-----------------------------------------------------------------------------
(* The peers are set up.                                                   *)

\* v is d but for its peers.
Peers(d, v) == Moves(d, v) /\ SameRoom(d, v)

SetupOf(at) == CASE at = "join" -> "setup" [] at = "rejoin" -> "resetup" [] at = "reconnect" -> "mediasetup"

SetUp(v, f, at, u) ==
  /\ u \in VoiceShape /\ u.saved /\ u.peers
  /\ u.mic = v.mic /\ u.busy = v.busy /\ u.leaked = v.leaked
  /\ SameShown(v, u) /\ SameRoom(v, u) /\ u.recovery = v.recovery
  /\ ~u.crossed => ~v.crossed /\ v.flows[f].own
  /\ u.flows[f].at = at /\ u.flows[f].ch = v.flows[f].ch /\ u.flows[f].own = v.flows[f].own
  /\ u.flows[f].rec = v.flows[f].rec /\ u.flows[f].ok = v.flows[f].ok
  /\ \A g \in StoreFlow \ {f} : u.flows[g] = v.flows[g]

LEMMA SetupFacts ==
  ASSUME NEW v \in VoiceShape, NEW f \in StoreFlow, v.flows[f].at \in V!Commands,
         NEW at \in V!Setups, NEW u, u = V!BeginSetup(v, f, at)
  PROVE  SetUp(v, f, at, u)
<1> DEFINE a == V!Cross(v, f)
           x == [v.flows[f] EXCEPT !.at = at, !.sfu = v.sfu]
           fl == [v.flows EXCEPT ![f] = x]
<1>1. /\ a \in VoiceShape /\ a.flows = v.flows
      /\ SameShown(v, a) /\ SameMic(v, a) /\ SameRoom(v, a) /\ a.recovery = v.recovery
      /\ ~a.crossed => ~v.crossed /\ v.flows[f].own
  BY CrossFacts
<1>2. u = [a EXCEPT !.saved = TRUE, !.peers = TRUE, !.flows[f].at = at, !.flows[f].sfu = v.sfu]
  BY DEF V!BeginSetup
<1> HIDE DEF a
<1>3. /\ v.flows \in [StoreFlow -> V!FlowRec] /\ v.flows[f] \in V!FlowRec /\ v.sfu \in BOOLEAN
      /\ v.flows[f].ch \in VoiceChannel /\ a \in V!VoiceRec
  BY <1>1 DEF VoiceShape, V!VoiceRec, V!Commands, Noise, V!Inputs, Early
<1>4. /\ x \in V!FlowRec /\ x.at = at /\ x.ch = v.flows[f].ch /\ x.own = v.flows[f].own
      /\ x.rec = v.flows[f].rec /\ x.ok = v.flows[f].ok
  BY <1>3 DEF V!FlowRec
<1>5. u = [[a EXCEPT !.saved = TRUE, !.peers = TRUE] EXCEPT !.flows = fl]
  <2> DEFINE b == [a EXCEPT !.saved = TRUE, !.peers = TRUE]
             sfu == v.sfu
             half == [v.flows EXCEPT ![f].at = at]
  <2>1. u = [b EXCEPT !.flows[f].at = at, !.flows[f].sfu = sfu]
    BY <1>2
  <2>2. b \in V!VoiceRec /\ b.flows = v.flows
    BY <1>1, <1>3 DEF V!VoiceRec
  <2> HIDE DEF b, sfu
  <2>3. u = [[b EXCEPT !.flows = half] EXCEPT !.flows[f].sfu = sfu]
    BY <2>1, <2>2
  <2>4. [b EXCEPT !.flows = half].flows = half
    BY <2>2 DEF V!VoiceRec
  <2>5. u = [b EXCEPT !.flows = [half EXCEPT ![f].sfu = sfu]]
    <3> HIDE DEF half
    <3> QED BY <2>2, <2>3, <2>4 DEF V!VoiceRec
  <2>6. fl = [half EXCEPT ![f].sfu = sfu]
    BY <1>3 DEF sfu
  <2> QED BY <2>5, <2>6 DEF b
<1> HIDE DEF x
<1>6. fl \in [StoreFlow -> V!FlowRec] /\ fl[f] = x /\ \A g \in StoreFlow \ {f} : fl[g] = v.flows[g]
  BY <1>3, <1>4
<1> HIDE DEF fl
<1>7. /\ u \in V!VoiceRec /\ u.status = a.status /\ u.channel = a.channel /\ u.flows = fl
      /\ u.saved /\ u.mic = a.mic /\ u.busy = a.busy /\ u.leaked = a.leaked
      /\ u.link = a.link /\ u.joined = a.joined /\ u.sfu = a.sfu
      /\ u.peers /\ u.recovery = a.recovery /\ u.crossed = a.crossed
  BY <1>3, <1>5, <1>6 DEF V!VoiceRec
<1>8. u \in VoiceShape
  BY <1>1, <1>3, <1>4, <1>6, <1>7 DEF VoiceShape, V!Setups
<1> QED BY <1>1, <1>4, <1>6, <1>7, <1>8 DEF SameShown, SameRoom, SameMic, SetUp

LEMMA SavedBoolean == ASSUME NEW v \in VoiceShape PROVE v.saved \in BOOLEAN
BY DEF VoiceShape, V!VoiceRec

LEMMA SetupWell ==
  ASSUME NEW d, VoiceInv(d), NEW v \in VoiceShape, Peers(d, v), NEW f \in StoreFlow,
         d.flows[f].at \in {"join", "rejoin", "reconnect"}, d.flows[f].ok, d.link,
         NEW at, at = SetupOf(d.flows[f].at), NEW u, u = V!BeginSetup(v, f, at)
  PROVE  VoiceInv(u)
<1> DEFINE w == d.flows[f]
           x == u.flows[f]
<1>1. v.flows = d.flows /\ d \in VoiceShape
  BY DEF Peers, Moves, VoiceInv
<1>2. at \in V!Setups /\ w.at \in V!Commands
  BY SMTT(30) DEF SetupOf, V!Setups, V!Commands
<1>3. /\ u \in VoiceShape /\ u.saved /\ u.peers
      /\ u.mic = v.mic /\ u.busy = v.busy /\ u.leaked = v.leaked
      /\ SameShown(v, u) /\ SameRoom(v, u) /\ u.recovery = v.recovery
      /\ ~u.crossed => ~v.crossed /\ w.own
      /\ x.at = at /\ x.ch = w.ch /\ x.own = w.own /\ x.rec = w.rec /\ x.ok = w.ok
      /\ \A g \in StoreFlow \ {f} : u.flows[g] = d.flows[g]
  <2>1. v.flows[f].at \in V!Commands
    BY <1>1, <1>2
  <2>2. SetUp(v, f, at, u)
    BY <1>2, <2>1, SetupFacts
  <2> QED BY <1>1, <2>2 DEF SetUp
<1>4. /\ SameShown(d, u) /\ SameRoom(d, u) /\ u.recovery = d.recovery /\ u.mic = d.mic
      /\ u.busy = d.busy /\ u.leaked = d.leaked /\ (~u.crossed => ~d.crossed)
  BY <1>3 DEF Peers, Moves, SameShown, SameRoom, SameMic
<1> HIDE DEF w, x
<1>5. Reports(u)
  <2>1. \A g \in StoreFlow : u.flows[g].rec \in {d.flows[g].rec, NoVoice}
    BY <1>3 DEF w, x
  <2>2. \A e \in VoiceChannel : u.recovery[e] = d.recovery[e]
    BY <1>4
  <2> QED BY <1>1, <2>1, <2>2, ReportsKept DEF VoiceInv
<1>6. ASSUME ~u.crossed PROVE Well(u)
  <2>1. Well(d) /\ Counts(d, w) /\ w.own
    BY <1>3, <1>4, <1>6, OwnerCounts DEF w
  <2>2. d.link /\ d.channel = w.ch /\ d.joined = w.ch /\ w.at \in {"join", "rejoin", "reconnect"}
    BY <2>1 DEF Counts, Sent, w
  <2>3. u.link /\ u.channel = w.ch /\ u.joined = w.ch /\ u.status = d.status
    BY <1>4, <2>2 DEF SameShown, SameRoom
  <2>4. ~Touches(x)
    BY <1>2, <1>3 DEF Touches, V!Setups, V!Inputs
  <2>5. Microphone(u)
    <3>1. CASE w.at = "join"
      <4>1. u.status = "joining" /\ u.mic = "live" /\ Untouched(d) /\ ~d.leaked
        BY <1>4, <2>1, <2>3, <3>1 DEF Counts, Well, Microphone
      <4>2. Untouched(u)
        BY <1>3, <2>4, <4>1 DEF Untouched, x
      <4> QED BY <1>4, <4>1, <4>2 DEF Microphone, Untouched
    <3>2. CASE w.at # "join"
      <4>1. d.saved
        BY <2>1, <2>2, <3>2, SMTT(30) DEF Counts, Sent
      <4>2. SameMic(d, u)
        <5>1. d.saved = u.saved
          BY <1>1, <1>3, <4>1, SavedBoolean
        <5> QED BY <1>4, <5>1 DEF SameMic
      <4>3. \A g \in StoreFlow \ {f} : Fades(d.flows[g], u.flows[g])
        BY <1>3 DEF Fades
      <4> QED BY <2>1, <2>3, <2>4, <4>2, <4>3, MicrophoneStep DEF Well, x
    <3> QED BY <3>1, <3>2
  <2>6. Counts(u, x)
    <3>1. x.at = at /\ x.ch = w.ch /\ x.rec = w.rec /\ u.saved /\ u.peers
      BY <1>3
    <3>2. CASE w.at = "join"
      BY <1>4, <2>1, <2>3, <3>2, <1>3, <2>4, <3>1 DEF Counts, SetupOf, w, Untouched, NoRetry, x,
         Sent, V!Setups, Early, Noise, V!Inputs
    <3>3. CASE w.at = "rejoin"
      BY <1>4, <2>1, <2>3, <3>1, <3>3 DEF Counts, SetupOf, w, Sent, V!Setups, Early, Noise, V!Inputs
    <3>4. CASE w.at = "reconnect"
      BY <1>4, <2>1, <2>3, <3>1, <3>4 DEF Counts, SetupOf, w, Sent, V!Setups, Early, Noise, V!Inputs
    <3> QED BY <2>2, <3>2, <3>3, <3>4
  <2>7. Owners(u)
    <3>1. \A g \in StoreFlow \ {f} : ~u.flows[g].own
      BY <1>3, <2>1 DEF Well, Owners, w
    <3> QED BY <2>6, <3>1, OwnersOne DEF x
  <2>8. Retries(u)
    BY <1>4, <2>1 DEF Well, Retries, SameShown, SameRoom
  <2>9. u.status # "active"
    BY <2>1, <2>2, <2>3 DEF Counts
  <2> QED BY <2>5, <2>7, <2>8, <2>9 DEF Well, Served
<1> QED BY <1>3, <1>5, <1>6 DEF VoiceInv

-----------------------------------------------------------------------------
(* The session is active.                                                  *)

LEMMA ActiveWell ==
  ASSUME NEW d, VoiceInv(d), ~d.crossed, NEW f \in StoreFlow, d.flows[f].at \in V!Setups,
         d.flows[f].own, NEW z, Ended(d, f, z, "active", d.flows[f].ch),
         NEW u, SameShown(z, u), SameMic(z, u), SameRoom(z, u), u.peers = z.peers,
         u.flows = z.flows, NoRetry(u)
  PROVE  Well(u)
<1>1. Well(d) /\ Counts(d, d.flows[f])
  BY OwnerCounts
<1>2. d.link /\ d.saved /\ d.peers /\ d.joined = d.flows[f].ch
  BY <1>1 DEF Counts, Sent
<1>3. Microphone(z)
  BY <1>1, <1>2, EndMicrophone DEF Well
<1>4. Microphone(u)
  BY <1>3, MicrophoneFades DEF Fades, SameShown
<1>5. Owners(u)
  BY OwnersNone DEF Ended
<1>6. Served(u)
  BY <1>2 DEF Served, Ended, SameShown, SameMic, SameRoom
<1> QED BY <1>4, <1>5, <1>6, NoRetryRetries DEF Well

-----------------------------------------------------------------------------
(* A join, from its first status to its command.                           *)

\* v is d but for what crossed.
Crosses(d, v) ==
  /\ v.flows = d.flows /\ SameShown(d, v) /\ SameMic(d, v) /\ SameRoom(d, v)
  /\ v.peers = d.peers /\ v.recovery = d.recovery
  /\ ~v.crossed => ~d.crossed

LEMMA AskMicWell ==
  ASSUME NEW d, VoiceInv(d), NEW v \in VoiceShape, Crosses(d, v),
         ~v.crossed => d.status \in {"idle", "error", "leaving"},
         NEW f \in StoreFlow, NEW c \in VoiceChannel, NEW u, u = V!AskMic(v, f, c)
  PROVE  VoiceInv(u)
<1> DEFINE a == V!Show(v, "requesting_mic", c)
           b == V!Outdate(a)
           w == [V!NoFlow EXCEPT !.at = "mic", !.ch = c, !.fresh = TRUE, !.own = TRUE]
<1>1. u = V!Put(b, f, w)
  BY DEF V!AskMic
<1>2. /\ a \in VoiceShape /\ a.status = "requesting_mic" /\ a.channel = c
      /\ SameMic(v, a) /\ SameRoom(v, a) /\ a.recovery = v.recovery /\ a.crossed = v.crossed
      /\ \A g \in StoreFlow : ~a.flows[g].own /\ a.flows[g].rec = v.flows[g].rec
  BY ShowFacts DEF V!Status, Rooms
<1> HIDE DEF a
<1>3. /\ b \in VoiceShape /\ SameMic(a, b) /\ Untouched(b) /\ SameShown(a, b)
      /\ b.recovery = a.recovery /\ b.crossed = a.crossed
      /\ \A g \in StoreFlow : b.flows[g].own = a.flows[g].own /\ b.flows[g].rec = a.flows[g].rec
  BY <1>2, OutdateFacts
<1> HIDE DEF b
<1>4. /\ Placed(w) /\ w.at = "mic" /\ w.ch = c /\ w.fresh /\ w.own /\ w.rec = NoVoice
  BY DEF V!NoFlow, V!FlowRec, Placed, V!Inputs
<1> HIDE DEF w
<1>5. /\ u \in VoiceShape /\ u.flows[f] = w
      /\ \A g \in StoreFlow \ {f} : u.flows[g] = b.flows[g]
      /\ SameShown(b, u) /\ SameMic(b, u) /\ u.recovery = b.recovery /\ u.crossed = b.crossed
  BY <1>1, <1>3, <1>4, PutFacts
<1>6. Reports(u)
  <2>1. \A g \in StoreFlow : u.flows[g].rec \in {d.flows[g].rec, NoVoice}
    BY <1>2, <1>3, <1>4, <1>5 DEF Crosses
  <2>2. \A e \in VoiceChannel : u.recovery[e] = d.recovery[e]
    BY <1>2, <1>3, <1>5 DEF Crosses
  <2>3. d \in VoiceShape /\ Reports(d)
    BY DEF VoiceInv
  <2> QED BY <2>1, <2>2, <2>3, ReportsKept
<1>7. ASSUME ~u.crossed PROVE Well(u)
  <2>1. /\ Well(d) /\ d.status \in {"idle", "error", "leaving"}
    BY <1>2, <1>3, <1>5, <1>7 DEF Crosses, VoiceInv
  <2>2. Bare(d) /\ ~d.leaked /\ NoRetry(d)
    BY <2>1, NotRetried DEF Well, Microphone
  <2>3. SameMic(d, u) /\ u.status = "requesting_mic" /\ u.channel = c
    BY <1>2, <1>3, <1>5 DEF Crosses, SameMic, SameShown
  <2>4. ~u.saved /\ u.mic = "none" /\ ~u.busy /\ ~u.leaked
    BY <2>2, <2>3 DEF Bare, SameMic
  <2>5. \A g \in StoreFlow \ {f} : ~Touches(u.flows[g]) /\ ~u.flows[g].own
    BY <1>2, <1>3, <1>5 DEF Untouched
  <2>6. Handles(u, u.flows[f])
    BY <1>4, <1>5, <2>3, <2>4, InputKinds DEF Handles, Early
  <2>7. Microphone(u)
    BY <2>3, <2>4, <2>5, <2>6 DEF Microphone
  <2>8. Counts(u, u.flows[f])
    BY <1>4, <1>5, <2>3, InputKinds DEF Counts, Early, Sent, V!Setups
  <2>9. Owners(u)
    BY <2>5, <2>8, OwnersOne
  <2>10. Retries(u)
    BY <1>2, <1>3, <1>5, <2>2, NoRetryRetries DEF Crosses, NoRetry
  <2> QED BY <2>3, <2>7, <2>9, <2>10 DEF Well, Served
<1> QED BY <1>5, <1>6, <1>7 DEF VoiceInv

\* The function that asks for the microphone is alone.
LEMMA EarlyAlone ==
  ASSUME NEW v, Well(v), NEW f \in StoreFlow, Touches(v.flows[f]), v.flows[f].at \in Early,
         NEW g \in StoreFlow, g # f, v \in VoiceShape
  PROVE  /\ ~v.flows[g].own
         /\ Touches(v.flows[g]) => v.flows[g].at \in Noise /\ v.busy
         /\ ~v.saved /\ v.status \in {"requesting_mic", "reconnecting"}
BY InputKinds DEF Well, Microphone, Handles, Touches, Owners, VoiceShape, V!VoiceRec, V!FlowRec,
   Untouched, Bare, Counts, Sent, V!Commands, V!Setups

\* Before a join has its microphone, and as it gets it.
LEMMA EarlyWell ==
  ASSUME NEW d, VoiceInv(d), NEW f \in StoreFlow, d.flows[f].at \in Early, d.flows[f].fresh,
         NEW u \in VoiceShape, SameShown(d, u), SameRoom(d, u), u.recovery = d.recovery,
         u.peers = d.peers, u.crossed = d.crossed, u.saved = d.saved, u.busy = d.busy,
         ~d.crossed => ~u.leaked,
         \A g \in StoreFlow \ {f} : u.flows[g] = d.flows[g],
         u.flows[f].ch = d.flows[f].ch, u.flows[f].own = d.flows[f].own, u.flows[f].fresh,
         u.flows[f].rec = d.flows[f].rec,
         \/ u.flows[f].at = "init" /\ u.mic = "live"
         \/ u.flows[f].at = "remic" /\ u.mic = "stopped"
  PROVE  VoiceInv(u)
<1>1. Reports(u)
  BY ReportsKept DEF VoiceInv
<1>2. ASSUME ~u.crossed PROVE Well(u)
  <2>1. Well(d) /\ ~u.leaked /\ d \in VoiceShape /\ Touches(d.flows[f]) /\ u.status = d.status
        /\ u.channel = d.channel
    BY <1>2, InputKinds DEF VoiceInv, Touches, SameShown
  <2>2. ~d.saved /\ d.status \in {"requesting_mic", "reconnecting"} /\ ~Bare(d)
    BY <2>1 DEF Well, Microphone, Handles, Bare, Untouched
  <2>3. \A g \in StoreFlow \ {f} : /\ ~u.flows[g].own
                                   /\ Touches(u.flows[g]) => u.flows[g].at \in Noise /\ u.busy
    BY <2>1, EarlyAlone
  <2>4. Touches(u.flows[f]) /\ u.flows[f].at \in Early /\ u.flows[f].at # "mic" /\ u.mic # "none"
    BY InputKinds DEF Touches, Early
  <2>5. \A g \in StoreFlow : Touches(u.flows[g]) => Handles(u, u.flows[g])
    BY <2>1, <2>2, <2>3, <2>4, InputKinds DEF Handles
  <2>6. ASSUME NEW g \in StoreFlow, NEW h \in StoreFlow, Touches(u.flows[g]), Touches(u.flows[h]),
               u.flows[g].at \in Early <=> u.flows[h].at \in Early
        PROVE  g = h
    BY <2>3, <2>4, <2>6, InputKinds, <2>1 DEF Well, Microphone
  <2>7. Microphone(u)
    BY <2>1, <2>2, <2>5, <2>6 DEF Microphone, Well
  <2>8. ASSUME u.flows[f].own PROVE Counts(u, u.flows[f])
    <3>1. Counts(d, d.flows[f])
      BY <2>1, <2>8 DEF Well, Owners
    <3>2. u.status = "requesting_mic" /\ u.channel = u.flows[f].ch
      BY <2>1, <3>1 DEF Counts
    <3> QED BY <2>4, <3>2, InputKinds DEF Counts, Early, Sent, V!Setups
  <2>9. Owners(u)
    BY <2>3, <2>8, OwnersOne
  <2>10. Retries(u)
    BY <2>1 DEF Well, Retries, SameShown, SameRoom
  <2> QED BY <2>1, <2>2, <2>7, <2>9, <2>10 DEF Well, Served
<1> QED BY <1>1, <1>2 DEF VoiceInv

\* v is d with its microphone live.
LEMMA SendJoinWell ==
  ASSUME NEW d, VoiceInv(d), NEW f \in StoreFlow, d.flows[f].at \in Early, d.flows[f].fresh,
         NEW v \in VoiceShape, v.flows = d.flows, SameShown(d, v), SameRoom(d, v),
         v.recovery = d.recovery, v.crossed = d.crossed, v.leaked = d.leaked, v.saved = d.saved,
         v.busy = d.busy, ~v.crossed /\ v.flows[f].own => v.mic = "live",
         NEW u, u = V!SendJoin(v, f)
  PROVE  VoiceInv(u)
<1> DEFINE a == V!Cross(v, f)
           b == V!Show(a, "joining", v.channel)
           w == [v.flows[f] EXCEPT !.at = "join", !.own = TRUE]
<1>1. u = V!Send(b, f, w)
  BY DEF V!SendJoin
<1>2. /\ a \in VoiceShape /\ a.flows = v.flows /\ SameMic(v, a) /\ SameRoom(v, a)
      /\ a.recovery = v.recovery /\ (~a.crossed => ~v.crossed /\ v.flows[f].own)
  BY CrossFacts
<1> HIDE DEF a
<1>3. /\ b \in VoiceShape /\ b.status = "joining" /\ b.channel = v.channel
      /\ SameMic(a, b) /\ SameRoom(a, b) /\ b.recovery = a.recovery /\ b.crossed = a.crossed
      /\ \A g \in StoreFlow : /\ Fades(a.flows[g], b.flows[g]) /\ ~b.flows[g].own
                              /\ b.flows[g].rec = a.flows[g].rec
  BY <1>2, ShowFacts DEF V!Status, Rooms, VoiceShape, V!VoiceRec
<1> HIDE DEF b
<1>4. /\ Placed(w) /\ w.at = "join" /\ w.ch = d.flows[f].ch /\ w.own /\ w.rec = d.flows[f].rec
      /\ w.at \in V!Commands
  <2>1. v.flows[f] \in V!FlowRec /\ v.flows[f].ch \in VoiceChannel
    BY InputKinds DEF VoiceShape, V!VoiceRec, Early
  <2> QED BY <2>1 DEF Placed, V!FlowRec, V!Commands
<1> HIDE DEF w
<1>5. /\ u \in VoiceShape
      /\ \A g \in StoreFlow \ {f} : u.flows[g] = b.flows[g]
      /\ SameShown(b, u) /\ SameMic(b, u) /\ u.recovery = b.recovery /\ u.crossed = b.crossed
      /\ u.flows[f].at = "join" /\ u.flows[f].ch = w.ch /\ u.flows[f].rec = w.rec
      /\ (u.flows[f].ok => u.joined = w.ch)
  BY <1>1, <1>3, <1>4, SendFacts
<1>6. d \in VoiceShape /\ Reports(d)
  BY DEF VoiceInv
<1>7. Reports(u)
  <2>1. \A g \in StoreFlow : u.flows[g].rec \in {d.flows[g].rec, NoVoice}
    BY <1>2, <1>3, <1>4, <1>5
  <2>2. \A e \in VoiceChannel : u.recovery[e] = d.recovery[e]
    BY <1>2, <1>3, <1>5
  <2> QED BY <1>6, <2>1, <2>2, ReportsKept
<1>8. ASSUME ~u.crossed PROVE Well(u)
  <2>1. ~d.crossed /\ d.flows[f].own /\ v.mic = "live"
    BY <1>2, <1>3, <1>5, <1>8
  <2>2. Well(d) /\ Counts(d, d.flows[f]) /\ Touches(d.flows[f])
    BY <2>1, OwnerCounts, InputKinds DEF Touches
  <2>3. d.status = "requesting_mic" /\ d.channel = d.flows[f].ch
    BY <2>2 DEF Counts
  <2>4. ~d.saved /\ ~d.busy /\ ~d.leaked
    BY <2>2, <2>3 DEF Well, Microphone
  <2>5. /\ u.mic = "live" /\ ~u.saved /\ ~u.busy /\ ~u.leaked /\ u.status = "joining"
        /\ u.channel = d.flows[f].ch
    BY <1>2, <1>3, <1>5, <2>1, <2>3, <2>4 DEF SameMic, SameShown
  <2>6. Untouched(u)
    BY <1>6, <2>2, <2>4, EarlyAlone, <1>2, <1>3, <1>5 DEF Fades, Touches, V!Inputs, Untouched
  <2>7. Microphone(u)
    BY <2>5, <2>6 DEF Microphone, Untouched
  <2>8. NoRetry(u)
    BY <2>2, <2>3, NotRetried, <1>2, <1>3, <1>5 DEF NoRetry
  <2>9. Counts(u, u.flows[f])
    BY <1>4, <1>5, <2>5, <2>6, <2>8, InputKinds DEF Counts, Early, Sent, V!Setups
  <2>10. Owners(u)
    BY <1>3, <1>5, <2>9, OwnersOne
  <2> QED BY <2>5, <2>7, <2>8, <2>10, NoRetryRetries DEF Well, Served
<1> QED BY <1>5, <1>7, <1>8 DEF VoiceInv

\* A join is given up: what the function f has done is undone.
LEMMA JoinErrorFacts ==
  ASSUME NEW d, VoiceInv(d), NEW f \in StoreFlow, d.flows[f].at \in {"remic", "join"},
         NEW u, u = V!Show(V!Free(V!Teardown(V!Cross(d, f)), f), "error", NoVoice)
  PROVE  /\ u \in VoiceShape /\ Reports(u) /\ u.status = "error"
         /\ \A g \in StoreFlow : ~u.flows[g].own
         /\ ~u.crossed => Bare(u) /\ ~u.leaked /\ NoRetry(u)
<1> DEFINE a == V!Cross(d, f)
           b == V!Teardown(a)
           c == V!Free(b, f)
<1>1. u = V!Show(c, "error", NoVoice) /\ d \in VoiceShape
  BY DEF VoiceInv
<1>2. /\ a \in VoiceShape /\ a.flows = d.flows /\ SameMic(d, a)
      /\ a.recovery = d.recovery /\ (~a.crossed => ~d.crossed /\ d.flows[f].own)
  BY <1>1, CrossFacts
<1> HIDE DEF a
<1>3. /\ b \in VoiceShape /\ Bare(b) /\ b.leaked = a.leaked /\ b.recovery = a.recovery
      /\ b.crossed = a.crossed
      /\ \A g \in StoreFlow : b.flows[g].rec = a.flows[g].rec
  BY <1>2, TeardownFacts
<1> HIDE DEF b
<1>4. /\ c \in VoiceShape /\ c.flows[f] = V!NoFlow
      /\ \A g \in StoreFlow \ {f} : c.flows[g] = b.flows[g]
      /\ SameMic(b, c) /\ c.recovery = b.recovery /\ c.crossed = b.crossed
  BY <1>3, FreeFacts
<1> HIDE DEF c
<1>5. /\ u \in VoiceShape /\ u.status = "error" /\ SameMic(c, u) /\ u.recovery = c.recovery
      /\ u.crossed = c.crossed
      /\ \A g \in StoreFlow : /\ Fades(c.flows[g], u.flows[g]) /\ ~u.flows[g].own
                              /\ u.flows[g].rec = c.flows[g].rec
  BY <1>1, <1>4, ShowFacts DEF V!Status, Rooms
<1>6. Reports(u)
  <2>1. \A g \in StoreFlow : u.flows[g].rec \in {d.flows[g].rec, NoVoice}
    BY <1>2, <1>3, <1>4, <1>5, NoFlowFacts
  <2>2. \A e \in VoiceChannel : u.recovery[e] = d.recovery[e]
    BY <1>2, <1>3, <1>4, <1>5
  <2> QED BY <1>1, <2>1, <2>2, ReportsKept DEF VoiceInv
<1>7. ASSUME ~u.crossed PROVE Bare(u) /\ ~u.leaked /\ NoRetry(u)
  BY <1>2, <1>3, <1>4, <1>5, <1>7, OwnerCounts, NotRetried, NoFlowFacts DEF Counts, Early, NoRetry,
     Well, Microphone, SameMic, Bare, Untouched, Touches, Fades
<1> QED BY <1>5, <1>6, <1>7

-----------------------------------------------------------------------------
(* A change of the noise mode goes on, or is over.                         *)

NoiseAt(d, u, f) ==
  \/ /\ u.flows[f].at \in {"swap", "restore"} /\ u.flows[f].own = d.flows[f].own
     /\ u.flows[f].rec = d.flows[f].rec /\ u.flows[f].fresh
     /\ u.busy
  \/ /\ u.flows[f] = V!NoFlow
     /\ ~u.busy /\ (~d.crossed /\ u.saved => u.mic = "live")

LEMMA NoiseAlone ==
  ASSUME NEW v, Well(v), NEW f \in StoreFlow, Touches(v.flows[f]), v.flows[f].at \in Noise,
         NEW g \in StoreFlow, g # f, v \in VoiceShape
  PROVE  /\ Touches(v.flows[g]) => v.flows[g].at \in Early /\ v.flows[g].at # "mic"
         /\ v.flows[g].own => v.flows[g].at \in {"rejoin", "reconnect", "resetup", "mediasetup"}
         /\ v.busy /\ v.mic # "none" /\ ~Bare(v)
BY InputKinds DEF Well, Microphone, Handles, Untouched, Bare, Touches, Owners, VoiceShape,
   V!VoiceRec, V!FlowRec, Counts, V!Commands, V!Setups

LEMMA NoiseWell ==
  ASSUME NEW d, VoiceInv(d), NEW f \in StoreFlow, d.flows[f].at \in Noise, d.flows[f].fresh,
         NEW u \in VoiceShape, SameShown(d, u), SameRoom(d, u), u.recovery = d.recovery,
         u.peers = d.peers, u.crossed = d.crossed, u.leaked = d.leaked, u.saved = d.saved,
         \A g \in StoreFlow \ {f} : u.flows[g] = d.flows[g],
         ~d.crossed => u.mic # "none", NoiseAt(d, u, f)
  PROVE  VoiceInv(u)
<1>1. u.flows[f].rec \in {d.flows[f].rec, NoVoice} /\ (u.flows[f].own => d.flows[f].own /\ u.flows[f].at \in {"swap", "restore"})
  BY NoFlowFacts DEF NoiseAt
<1>2. d \in VoiceShape /\ Reports(d)
  BY DEF VoiceInv
<1>3. Reports(u)
  BY <1>1, <1>2, ReportsKept
<1>4. ASSUME ~u.crossed PROVE Well(u)
  <2>1. Well(d) /\ Touches(d.flows[f]) /\ u.mic # "none"
    BY <1>4, InputKinds DEF VoiceInv, Touches
  <2>2. /\ d.busy /\ d.mic # "none" /\ u.status = d.status
        /\ d.status \notin {"idle", "error", "leaving", "requesting_mic"}
    BY <2>1 DEF Well, Microphone, Handles, Bare, Untouched, SameShown
  <2>3. \A g \in StoreFlow \ {f} :
          /\ Touches(u.flows[g]) => u.flows[g].at \in Early /\ u.flows[g].at # "mic"
          /\ u.flows[g].own => u.flows[g].at \in {"rejoin", "reconnect", "resetup", "mediasetup"}
    BY <1>2, <2>1, NoiseAlone
  <2>4. Touches(u.flows[f]) => u.flows[f].at \in {"swap", "restore"} /\ u.busy
    BY NoFlowFacts DEF NoiseAt, Touches
  <2>5. u.saved => u.mic = "live" \/ u.busy
    BY <1>4 DEF NoiseAt
  <2>6. ASSUME NEW g \in StoreFlow, Touches(u.flows[g]) PROVE Handles(u, u.flows[g])
    BY <2>1, <2>4, <2>6, InputKinds, <2>3, <2>2 DEF Handles, Early, Well, Microphone
  <2>7. ASSUME NEW g \in StoreFlow, NEW h \in StoreFlow, Touches(u.flows[g]), Touches(u.flows[h]),
               u.flows[g].at \in Early <=> u.flows[h].at \in Early
        PROVE  g = h
    BY <2>3, <2>4, <2>7, InputKinds, <2>1 DEF Well, Microphone
  <2>8. Microphone(u)
    BY <2>1, <2>2, <2>5, <2>6, <2>7 DEF Microphone, Well
  <2>9. ASSUME NEW g \in StoreFlow, u.flows[g].own PROVE d.flows[g].own /\ Counts(u, u.flows[g])
    BY <1>1, <2>1, <2>9, NoFlowFacts, <2>2, InputKinds, <2>3 DEF Well, Owners, NoiseAt, Counts,
       Early, Sent, V!Setups, SameShown, SameRoom
  <2>10. Owners(u)
    BY <2>1, <2>9 DEF Owners, Well
  <2>11. Retries(u)
    BY <2>1 DEF Well, Retries, SameShown, SameRoom
  <2>12. Served(u)
    BY <2>1 DEF Well, Served, SameShown, SameRoom
  <2> QED BY <2>8, <2>10, <2>11, <2>12 DEF Well
<1> QED BY <1>3, <1>4 DEF VoiceInv

-----------------------------------------------------------------------------
(* Every action of the module keeps the invariant.                         *)

LEMMA SlotFacts == V!HasSlot => V!Slot \in StoreFlow /\ voice.flows[V!Slot].at = "none"
BY DEF V!HasSlot, V!Slot, V!At

LEMMA CrossCrosses ==
  ASSUME NEW d, VoiceInv(d), NEW f \in StoreFlow, NEW v, v = V!Cross(d, f)
  PROVE  v \in VoiceShape /\ Crosses(d, v) /\ (~v.crossed => ~d.crossed /\ d.flows[f].own)
BY CrossFacts DEF VoiceInv, Crosses

\* v is d with another room.
LEMMA RoomFacts ==
  ASSUME NEW d \in VoiceShape, NEW room \in Rooms, NEW v, v = [d EXCEPT !.joined = room]
  PROVE  /\ v \in VoiceShape /\ v.flows = d.flows /\ SameShown(d, v) /\ SameMic(d, v)
         /\ v.link = d.link /\ v.sfu = d.sfu /\ v.joined = room
         /\ v.peers = d.peers /\ v.recovery = d.recovery /\ v.crossed = d.crossed
BY DEF VoiceShape, V!VoiceRec, Rooms, SameShown, SameMic

LEMMA JoinStep ==
  ASSUME VoiceInv(voice), NEW c \in VoiceChannel, V!Join(c)
  PROVE  VoiceInv(voice')
<1> DEFINE f == V!Slot
<1>1. f \in StoreFlow /\ voice.flows[f].at = "none" /\ voice \in VoiceShape /\ Reports(voice)
  BY SlotFacts DEF V!Join, VoiceInv
<1>2. /\ voice.status \notin {"requesting_mic", "joining", "reconnecting"}
      /\ voice.status \in V!Status
      /\ voice' = IF ~voice.link THEN V!Show(voice, "error", NoVoice)
                  ELSE IF voice.status = "active"
                  THEN V!Send(V!Show(V!Teardown(voice), "idle", NoVoice), f,
                              [V!NoFlow EXCEPT !.at = "preleave", !.ch = c, !.own = TRUE])
                  ELSE V!AskMic(voice, f, c)
  BY <1>1 DEF V!Join, VoiceShape, V!VoiceRec
<1> HIDE DEF f
<1>3. CASE ~voice.link
  <2>1. voice' = V!Show(voice, "error", NoVoice)
    BY <1>2, <1>3
  <2>2. /\ voice' \in VoiceShape /\ voice'.status = "error" /\ SameMic(voice, voice')
        /\ voice'.recovery = voice.recovery /\ voice'.crossed = voice.crossed
        /\ \A g \in StoreFlow : /\ Fades(voice.flows[g], voice'.flows[g]) /\ ~voice'.flows[g].own
                                /\ voice'.flows[g].rec = voice.flows[g].rec
    <3>1. "error" \in V!Status /\ NoVoice \in Rooms
      BY DEF V!Status, Rooms
    <3> QED BY <1>1, <2>1, <3>1, ShowFacts
  <2>3. Reports(voice')
    BY <2>2, <1>1, ReportsKept
  <2>4. ASSUME ~voice'.crossed PROVE Bare(voice') /\ ~voice'.leaked /\ NoRetry(voice')
    BY <2>2, <2>4, <1>2, <1>3, NotRetried DEF VoiceInv, Well, Served, Microphone, V!Status, NoRetry,
       Bare, SameMic, Untouched, Touches, Fades
  <2> QED BY <2>2, <2>3, <2>4, BareWell
<1>4. CASE voice.link /\ voice.status = "active"
  <2> DEFINE a == V!Teardown(voice)
             b == V!Show(a, "idle", NoVoice)
             w == [V!NoFlow EXCEPT !.at = "preleave", !.ch = c, !.own = TRUE]
  <2>1. voice' = V!Send(b, f, w)
    BY <1>2, <1>4
  <2>2. /\ a \in VoiceShape /\ Bare(a) /\ a.leaked = voice.leaked
        /\ a.recovery = voice.recovery /\ a.crossed = voice.crossed
        /\ \A g \in StoreFlow : a.flows[g].rec = voice.flows[g].rec
    BY <1>1, TeardownFacts
  <2> HIDE DEF a
  <2>3. /\ b \in VoiceShape /\ b.status = "idle" /\ SameMic(a, b) /\ b.recovery = a.recovery
        /\ b.crossed = a.crossed
        /\ \A g \in StoreFlow : /\ Fades(a.flows[g], b.flows[g]) /\ ~b.flows[g].own
                                /\ b.flows[g].rec = a.flows[g].rec
    <3>1. "idle" \in V!Status /\ NoVoice \in Rooms
      BY DEF V!Status, Rooms
    <3> QED BY <2>2, <3>1, ShowFacts
  <2> HIDE DEF b
  <2>4. Placed(w) /\ w.at = "preleave" /\ w.rec = NoVoice /\ ~w.fresh /\ w.at \in V!Commands
    BY DEF V!NoFlow, V!FlowRec, Placed, V!Commands
  <2> HIDE DEF w
  <2>5. /\ voice' \in VoiceShape
        /\ \A g \in StoreFlow \ {f} : voice'.flows[g] = b.flows[g]
        /\ SameShown(b, voice') /\ SameMic(b, voice') /\ voice'.recovery = b.recovery
        /\ voice'.crossed = b.crossed
        /\ voice'.flows[f].at = "preleave" /\ voice'.flows[f].rec = NoVoice /\ ~voice'.flows[f].fresh
    BY <1>1, <2>1, <2>3, <2>4, SendFacts
  <2>6. Reports(voice')
    <3>1. \A g \in StoreFlow : voice'.flows[g].rec \in {voice.flows[g].rec, NoVoice}
      BY <2>2, <2>3, <2>5
    <3>2. \A e \in VoiceChannel : voice'.recovery[e] = voice.recovery[e]
      BY <2>2, <2>3, <2>5
    <3> QED BY <1>1, <3>1, <3>2, ReportsKept
  <2>7. ASSUME ~voice'.crossed PROVE Well(voice')
    <3>1. Well(voice)
      BY <2>2, <2>3, <2>5, <2>7 DEF VoiceInv
    <3>2. Bare(voice') /\ ~voice'.leaked
      BY <2>2, <2>3, <2>5, <3>1 DEF Bare, Untouched, Touches, Fades, SameMic, Well, Microphone
    <3>3. NoRetry(voice')
      BY <1>2, <3>1, NotRetried, <2>2, <2>3, <2>5 DEF NoRetry
    <3>4. voice'.status = "idle"
      BY <2>3, <2>5 DEF SameShown
    <3>5. Owners(voice')
      BY <2>3, <2>5, <3>4, PreleaveCounts, <1>1, OwnersOne
    <3> QED BY <3>2, <3>3, <3>4, <3>5, BareMicrophone, NoRetryRetries DEF Well, Served
  <2> QED BY <2>5, <2>6, <2>7 DEF VoiceInv
<1>5. CASE voice.link /\ voice.status # "active"
  BY <1>2, <1>5, <1>1, AskMicWell DEF Crosses, SameShown, SameMic, SameRoom, V!Status
<1> QED BY <1>3, <1>4, <1>5

LEMMA PreleftStep ==
  ASSUME VoiceInv(voice), NEW f \in StoreFlow, V!Preleft(f)
  PROVE  VoiceInv(voice')
<1> DEFINE v == V!Cross(voice, f)
           c == voice.flows[f].ch
<1>1. voice.flows[f].at = "preleave" /\ voice' = V!AskMic(v, f, c)
  BY DEF V!Preleft, V!Runs, V!At, V!Ch
<1>2. v \in VoiceShape /\ Crosses(voice, v) /\ (~v.crossed => ~voice.crossed /\ voice.flows[f].own)
  BY CrossCrosses
<1>3. c \in VoiceChannel
  BY <1>1, InputKinds DEF VoiceInv, VoiceShape
<1> HIDE DEF v, c
<1>4. ~v.crossed => voice.status \in {"idle", "error", "leaving"}
  BY <1>1, <1>2, OwnerCounts DEF Counts
<1> QED BY <1>1, <1>2, <1>3, <1>4, AskMicWell

\* The session a function set the status of ends with it.
LEMMA EndBareWell ==
  ASSUME NEW d, VoiceInv(d), NEW f \in StoreFlow, NEW s \in {"idle", "error"}, NEW u,
         u = V!Show(V!Free(V!Cross(d, f), f), s, NoVoice),
         ~d.crossed /\ d.flows[f].own =>
           /\ ~d.saved /\ d.mic = "none" /\ ~d.busy /\ NoRetry(d)
           /\ \A g \in StoreFlow \ {f} : ~Touches(d.flows[g])
  PROVE  VoiceInv(u)
<1>1. d \in VoiceShape /\ Reports(d)
  BY DEF VoiceInv
<1>2. Ended(d, f, u, s, NoVoice)
  BY <1>1, EndFacts DEF V!Status, Rooms
<1>3. Reports(u)
  BY <1>1, <1>2, EndReports
<1>4. ASSUME ~u.crossed PROVE Bare(u) /\ ~u.leaked /\ NoRetry(u)
  BY <1>2, <1>4 DEF Ended, VoiceInv, Well, Microphone, SameMic, NoRetry, Untouched, Touches, Fades,
     Bare
<1>5. u \in VoiceShape /\ u.status # "active" /\ \A g \in StoreFlow : ~u.flows[g].own
  BY <1>2 DEF Ended
<1> QED BY <1>3, <1>4, <1>5, BareWell

LEMMA MicGrantedStep ==
  ASSUME VoiceInv(voice), NEW f \in StoreFlow, V!MicGranted(f)
  PROVE  VoiceInv(voice')
<1>1. voice.flows[f].at = "mic" /\ voice \in VoiceShape /\ voice \in V!VoiceRec
  BY DEF V!MicGranted, V!At, VoiceInv, VoiceShape
<1>2. CASE ~voice.flows[f].fresh
  BY <1>2, FreeWell DEF V!MicGranted, V!Fresh
<1>3. CASE voice.flows[f].fresh
  <2> DEFINE lost == voice.leaked \/ voice.mic = "live"
             x == [voice.flows[f] EXCEPT !.at = "init"]
             fl == [voice.flows EXCEPT ![f] = x]
  <2>1. voice' = [voice EXCEPT !.leaked = lost, !.mic = "live", !.flows[f].at = "init"]
    BY <1>3 DEF V!MicGranted, V!Fresh
  <2>2. lost \in BOOLEAN /\ voice.flows \in [StoreFlow -> V!FlowRec]
    BY <1>1 DEF V!VoiceRec
  <2>3. /\ x \in V!FlowRec /\ x.at = "init" /\ x.ch = voice.flows[f].ch /\ x.own = voice.flows[f].own
        /\ x.fresh /\ x.rec = voice.flows[f].rec
    BY <1>3, <2>2 DEF V!FlowRec, V!Inputs
  <2>4. ~voice.crossed => ~lost
    BY <1>1, <1>3, InputKinds DEF VoiceInv, Well, Microphone, Handles, Touches, Early
  <2> HIDE DEF lost
  <2>5. voice' = [[voice EXCEPT !.leaked = lost, !.mic = "live"] EXCEPT !.flows = fl]
    BY <1>1, <2>1, <2>2 DEF V!VoiceRec
  <2> HIDE DEF x
  <2>6. fl \in [StoreFlow -> V!FlowRec] /\ fl[f] = x /\ \A g \in StoreFlow \ {f} : fl[g] = voice.flows[g]
    BY <2>2, <2>3
  <2> HIDE DEF fl
  <2>7. LET u == voice' IN
        /\ u \in V!VoiceRec /\ u.status = voice.status /\ u.channel = voice.channel /\ u.flows = fl
        /\ u.saved = voice.saved /\ u.mic = "live" /\ u.busy = voice.busy /\ u.leaked = lost
        /\ u.link = voice.link /\ u.joined = voice.joined /\ u.sfu = voice.sfu
        /\ u.peers = voice.peers /\ u.recovery = voice.recovery /\ u.crossed = voice.crossed
    BY <1>1, <2>2, <2>5, <2>6 DEF V!VoiceRec
  <2>8. voice' \in VoiceShape
    BY <1>1, <2>3, <2>6, <2>7, InputKinds DEF VoiceShape, Early
  <2> QED BY <1>1, <1>3, <2>3, <2>4, <2>6, <2>7, <2>8, EarlyWell DEF SameShown, SameRoom, Early
<1> QED BY <1>2, <1>3

LEMMA MicDeniedStep ==
  ASSUME VoiceInv(voice), NEW f \in StoreFlow, V!MicDenied(f)
  PROVE  VoiceInv(voice')
<1>1. voice.flows[f].at = "mic" /\ voice \in VoiceShape
  BY DEF V!MicDenied, V!At, VoiceInv
<1>2. CASE ~voice.flows[f].fresh
  BY <1>2, FreeWell DEF V!MicDenied, V!Fresh
<1>3. CASE voice.flows[f].fresh
  BY <1>3, OwnerCounts, <1>1, InputKinds, EarlyAlone, NotRetried, EndBareWell DEF V!MicDenied,
     V!Fresh, Counts, Early, Touches, Well, Microphone, Handles
<1> QED BY <1>2, <1>3

LEMMA MicReadyStep ==
  ASSUME VoiceInv(voice), NEW f \in StoreFlow, V!MicReady(f)
  PROVE  VoiceInv(voice')
<1>1. voice.flows[f].at = "init" /\ voice \in VoiceShape /\ voice \in V!VoiceRec
  BY DEF V!MicReady, V!At, VoiceInv, VoiceShape
<1>2. CASE ~voice.flows[f].fresh
  BY <1>2, FreeWell DEF V!MicReady, V!Fresh
<1>3. CASE voice.flows[f].fresh /\ voice' = V!SendJoin(voice, f)
  BY <1>1, OwnerCounts, <1>3, SendJoinWell DEF Counts, SameShown, SameRoom, Early
<1>4. CASE voice.flows[f].fresh /\ voice' = [V!Goto(voice, f, "remic") EXCEPT !.mic = "stopped"]
  <2> DEFINE x == [voice.flows[f] EXCEPT !.at = "remic"]
             fl == [voice.flows EXCEPT ![f] = x]
  <2>2. voice.flows \in [StoreFlow -> V!FlowRec]
    BY <1>1 DEF V!VoiceRec
  <2>3. /\ x \in V!FlowRec /\ x.at = "remic" /\ x.ch = voice.flows[f].ch /\ x.own = voice.flows[f].own
        /\ x.fresh /\ x.rec = voice.flows[f].rec
    BY <1>4, <2>2 DEF V!FlowRec, V!Inputs
  <2>5. voice' = [[voice EXCEPT !.flows = fl] EXCEPT !.mic = "stopped"]
    BY <1>4, <2>2 DEF V!Goto
  <2> HIDE DEF x
  <2>6. fl \in [StoreFlow -> V!FlowRec] /\ fl[f] = x /\ \A g \in StoreFlow \ {f} : fl[g] = voice.flows[g]
    BY <2>2, <2>3
  <2> HIDE DEF fl
  <2>7. LET u == voice' IN
        /\ u \in V!VoiceRec /\ u.status = voice.status /\ u.channel = voice.channel /\ u.flows = fl
        /\ u.saved = voice.saved /\ u.mic = "stopped" /\ u.busy = voice.busy /\ u.leaked = voice.leaked
        /\ u.link = voice.link /\ u.joined = voice.joined /\ u.sfu = voice.sfu
        /\ u.peers = voice.peers /\ u.recovery = voice.recovery /\ u.crossed = voice.crossed
    BY <1>1, <2>5, <2>6 DEF V!VoiceRec
  <2>8. voice' \in VoiceShape
    BY <1>1, <2>3, <2>6, <2>7, InputKinds DEF VoiceShape, Early
  <2>9. ~voice.crossed => ~voice.leaked
    BY DEF VoiceInv, Well, Microphone
  <2>10. /\ SameShown(voice, voice') /\ SameRoom(voice, voice') /\ voice'.recovery = voice.recovery
         /\ voice'.peers = voice.peers /\ voice'.crossed = voice.crossed
         /\ voice'.saved = voice.saved /\ voice'.busy = voice.busy
         /\ ~voice.crossed => ~voice'.leaked
    BY <2>7, <2>9 DEF SameShown, SameRoom
  <2>11. /\ \A g \in StoreFlow \ {f} : voice'.flows[g] = voice.flows[g]
         /\ voice'.flows[f].ch = voice.flows[f].ch /\ voice'.flows[f].own = voice.flows[f].own
         /\ voice'.flows[f].fresh /\ voice'.flows[f].rec = voice.flows[f].rec
         /\ voice'.flows[f].at = "remic" /\ voice'.mic = "stopped"
    BY <2>3, <2>6, <2>7
  <2>12. voice.flows[f].at \in Early
    BY <1>1 DEF Early
  <2>13. voice.flows[f].fresh
    BY <1>4
  <2> QED BY <2>8, <2>10, <2>11, <2>12, <2>13, EarlyWell
<1> QED BY <1>2, <1>3, <1>4 DEF V!MicReady, V!Fresh

LEMMA MicReplacedStep ==
  ASSUME VoiceInv(voice), NEW f \in StoreFlow, V!MicReplaced(f)
  PROVE  VoiceInv(voice')
<1>1. voice.flows[f].at = "remic" /\ voice \in VoiceShape /\ voice \in V!VoiceRec
  BY DEF V!MicReplaced, V!At, VoiceInv, VoiceShape
<1>2. CASE ~voice.flows[f].fresh
  BY <1>2, FreeWell DEF V!MicReplaced, V!Fresh
<1>3. CASE voice.flows[f].fresh /\ voice' = V!SendJoin([voice EXCEPT !.mic = "live"], f)
  <2> DEFINE v == [voice EXCEPT !.mic = "live"]
  <2>1. /\ v \in V!VoiceRec /\ v.status = voice.status /\ v.channel = voice.channel
        /\ v.flows = voice.flows /\ v.saved = voice.saved /\ v.mic = "live"
        /\ v.busy = voice.busy /\ v.leaked = voice.leaked
        /\ v.link = voice.link /\ v.joined = voice.joined /\ v.sfu = voice.sfu
        /\ v.peers = voice.peers /\ v.recovery = voice.recovery /\ v.crossed = voice.crossed
    BY <1>1 DEF V!VoiceRec
  <2>2. v \in VoiceShape
    BY <1>1, <2>1 DEF VoiceShape
  <2>3. voice' = V!SendJoin(v, f)
    BY <1>3
  <2> HIDE DEF v
  <2> QED BY <1>1, <1>3, <2>1, <2>2, <2>3, SendJoinWell DEF SameShown, SameRoom, Early
<1>4. CASE voice.flows[f].fresh /\ voice' = V!JoinError(f)
  BY <1>4, <1>1, JoinErrorFacts, BareWell DEF V!JoinError
<1> QED BY <1>2, <1>3, <1>4 DEF V!MicReplaced, V!Fresh

LEMMA KeptRooms == ASSUME voice \in VoiceShape, NEW f PROVE V!Kept(f) \subseteq Rooms
BY DEF V!Kept, Rooms, VoiceShape, V!VoiceRec

LEMMA PeersSelf == ASSUME NEW v PROVE Peers(v, v) /\ Moves(v, v)
BY DEF Peers, Moves, SameShown, SameMic, SameRoom

LEMMA JoinedStep ==
  ASSUME VoiceInv(voice), NEW f \in StoreFlow, V!Joined(f)
  PROVE  VoiceInv(voice')
<1>1. voice.flows[f].at = "join" /\ voice \in VoiceShape
  BY DEF V!Joined, V!Runs, V!At, VoiceInv
<1>2. CASE V!Accepted(f) /\ voice' = V!BeginSetup(voice, f, "setup")
  BY <1>1, <1>2, PeersSelf, SetupWell DEF V!Accepted, SetupOf
<1>3. ASSUME NEW room \in V!Kept(f), voice' = [V!JoinError(f) EXCEPT !.joined = room]
      PROVE  VoiceInv(voice')
  <2> DEFINE e == V!JoinError(f)
  <2>1. e = V!Show(V!Free(V!Teardown(V!Cross(voice, f)), f), "error", NoVoice)
    BY DEF V!JoinError
  <2>2. voice' = [e EXCEPT !.joined = room] /\ room \in Rooms
    BY <1>1, <1>3, KeptRooms
  <2> HIDE DEF e
  <2>3. /\ e \in VoiceShape /\ Reports(e) /\ e.status = "error"
        /\ \A g \in StoreFlow : ~e.flows[g].own
        /\ ~e.crossed => Bare(e) /\ ~e.leaked /\ NoRetry(e)
    BY <1>1, <2>1, JoinErrorFacts
  <2>4. /\ voice' \in VoiceShape /\ voice'.flows = e.flows /\ SameShown(e, voice') /\ SameMic(e, voice')
        /\ voice'.recovery = e.recovery /\ voice'.crossed = e.crossed
    BY <2>2, <2>3, RoomFacts
  <2>5. Reports(voice')
    BY <2>4, <2>3, ReportsKept
  <2>6. ~voice'.crossed => Bare(voice') /\ ~voice'.leaked /\ NoRetry(voice')
    BY <2>3, <2>4 DEF Bare, Untouched, SameMic, NoRetry
  <2> QED BY <2>3, <2>4, <2>5, <2>6, BareWell DEF SameShown
<1> QED BY <1>2, <1>3 DEF V!Joined

\* A setup ends well: the session is active, and its recovery done.
LEMMA ActivateWell ==
  ASSUME VoiceInv(voice), NEW f \in StoreFlow, voice.flows[f].at \in V!Setups,
         NEW z, z = V!Activate(voice, f),
         NEW u, \/ u = z /\ voice.flows[f].at = "setup"
                \/ /\ u = V!AttemptEnds(z, voice.flows[f], TRUE)
                   /\ voice.flows[f].at \in {"resetup", "mediasetup"}
  PROVE  VoiceInv(u)
<1> DEFINE w == voice.flows[f]
           c == w.ch
           rec == w.rec
<1>1. voice \in VoiceShape /\ Reports(voice)
  BY DEF VoiceInv
<1>2. /\ c \in VoiceChannel /\ c # NoVoice /\ rec \in Rooms /\ c \in Rooms
  BY <1>1, ClientAssumption, InputKinds
     DEF VoiceShape, V!VoiceRec, V!FlowRec, V!Setups, Early, Noise, Rooms, VoiceAssumption
<1>3. Ended(voice, f, z, "active", c)
  <2>1. z = V!Show(V!Free(V!Cross(voice, f), f), "active", c)
    BY DEF V!Activate
  <2>2. "active" \in V!Status
    BY DEF V!Status
  <2> HIDE DEF c
  <2> QED BY <1>1, <1>2, <2>1, <2>2, EndFacts
<1>4. Reports(z) /\ z \in VoiceShape
  BY <1>1, <1>3, EndReports DEF Ended
<1>5. CASE u = z /\ w.at = "setup"
  BY <1>3, OwnerCounts, <1>5, ActiveWell, <1>4 DEF Ended, Counts, NoRetry, SameShown, SameMic,
     SameRoom, VoiceInv
<1>6. CASE u = V!AttemptEnds(z, w, TRUE) /\ w.at \in {"resetup", "mediasetup"}
  <2>1. ASSUME ~z.crossed
        PROVE  /\ ~voice.crossed /\ w.own
               /\ \A d \in VoiceChannel : Wants(z.recovery[d]) => d = rec
    BY <1>3, <2>1, OwnerCounts, <1>6 DEF Ended, Counts, Sent, V!Setups, Well, Retries
  <2>2. CASE rec = NoVoice
    BY <1>6, <2>2, <2>1, ClientAssumption, <1>3, ActiveWell, <1>4 DEF V!AttemptEnds, NoRetry,
       VoiceAssumption, SameShown, SameMic, SameRoom, VoiceInv
  <2>3. CASE rec # NoVoice
    <3> DEFINE r == V!NoRecovery
    <3>1. rec \in VoiceChannel
      BY <1>2, <2>3 DEF Rooms
    <3>2. u = SetRecovery(z, rec, r)
      BY <1>6, <2>3 DEF V!AttemptEnds, SetRecovery
    <3>3. r \in V!RecoveryRec /\ r.attempt = "none" /\ r.phase = "none" /\ ~Wants(r)
      BY NoRecoveryFacts
    <3>4. \A g \in StoreFlow : z.flows[g].rec # rec
      BY <1>1, <1>3, <2>3 DEF Reports, Ended
    <3> HIDE DEF r, rec, c, w
    <3>5. /\ u \in VoiceShape /\ u.flows = z.flows /\ u.peers = z.peers
          /\ SameShown(z, u) /\ SameMic(z, u) /\ SameRoom(z, u) /\ u.crossed = z.crossed
          /\ u.recovery[rec] = r /\ \A d \in VoiceChannel \ {rec} : u.recovery[d] = z.recovery[d]
      BY <1>4, <3>1, <3>2, <3>3, RecoveryFacts
    <3>6. Reports(u)
      BY <3>5, <3>3, <3>4, <1>4, ReportsKept
    <3>7. ASSUME ~u.crossed PROVE Well(u)
      BY <2>1, <3>3, <3>5, <3>7, <1>3, ActiveWell DEF NoRetry, w, c
    <3> QED BY <3>5, <3>6, <3>7 DEF VoiceInv
  <2> QED BY <2>2, <2>3
<1> QED BY <1>5, <1>6

LEMMA ConnectedStep ==
  ASSUME VoiceInv(voice), NEW f \in StoreFlow, V!Connected(f)
  PROVE  VoiceInv(voice')
<1>1. voice.flows[f].at = "setup" /\ voice \in VoiceShape /\ Reports(voice)
  BY DEF V!Connected, V!SetupDone, V!SetupFails, V!Runs, V!At, VoiceInv
<1>2. CASE voice' = V!Activate(voice, f)
  <2>1. voice.flows[f].at \in V!Setups
    BY <1>1 DEF V!Setups
  <2> QED BY <1>1, <1>2, <2>1, ActivateWell
<1>3. CASE voice' = V!Send(V!Teardown(V!Cross(voice, f)), f,
                           [voice.flows[f] EXCEPT !.at = "undo", !.fresh = FALSE])
  <2> DEFINE a == V!Cross(voice, f)
             b == V!Teardown(a)
             w == [voice.flows[f] EXCEPT !.at = "undo", !.fresh = FALSE]
  <2>1. voice' = V!Send(b, f, w)
    BY <1>3
  <2>2. /\ a \in VoiceShape /\ a.flows = voice.flows /\ SameMic(voice, a) /\ SameShown(voice, a)
        /\ a.recovery = voice.recovery /\ (~a.crossed => ~voice.crossed /\ voice.flows[f].own)
    BY <1>1, CrossFacts
  <2> HIDE DEF a
  <2>3. /\ b \in VoiceShape /\ Bare(b) /\ b.leaked = a.leaked /\ SameShown(a, b)
        /\ b.recovery = a.recovery /\ b.crossed = a.crossed
        /\ \A g \in StoreFlow : b.flows[g].rec = a.flows[g].rec /\ b.flows[g].own = a.flows[g].own
    BY <2>2, TeardownFacts
  <2> HIDE DEF b
  <2>4. /\ Placed(w) /\ w.at = "undo" /\ ~w.fresh /\ w.rec = voice.flows[f].rec /\ w.at \in V!Commands
    <3>1. voice.flows[f] \in V!FlowRec /\ voice.flows[f].ch \in VoiceChannel
      BY <1>1, InputKinds DEF VoiceShape, V!VoiceRec, Early, Noise
    <3> QED BY <3>1 DEF Placed, V!FlowRec, V!Commands
  <2> HIDE DEF w
  <2>5. /\ voice' \in VoiceShape
        /\ \A g \in StoreFlow \ {f} : voice'.flows[g] = b.flows[g]
        /\ SameShown(b, voice') /\ SameMic(b, voice') /\ voice'.recovery = b.recovery
        /\ voice'.crossed = b.crossed
        /\ voice'.flows[f].at = "undo" /\ voice'.flows[f].rec = w.rec /\ ~voice'.flows[f].fresh
    BY <2>1, <2>3, <2>4, SendFacts
  <2>6. Reports(voice')
    BY <2>2, <2>3, <2>4, <2>5, <1>1, ReportsKept
  <2>7. ASSUME ~voice'.crossed PROVE Well(voice')
    <3>1. ~voice.crossed /\ voice.flows[f].own
      BY <2>2, <2>3, <2>5, <2>7
    <3>2. Well(voice) /\ Counts(voice, voice.flows[f])
      BY <3>1, OwnerCounts
    <3>3. voice'.status = "joining" /\ NoRetry(voice')
      BY <1>1, <2>2, <2>3, <2>5, <3>2 DEF Counts, SameShown, NoRetry
    <3>4. Bare(voice') /\ ~voice'.leaked
      BY <2>3, <2>5, <2>2, <3>2 DEF Bare, Untouched, Touches, SameMic, Well, Microphone
    <3>5. Counts(voice', voice'.flows[f])
      BY <2>5, <3>3, <3>4, InputKinds DEF Counts, Early, Sent, V!Setups
    <3>6. \A g \in StoreFlow \ {f} : ~voice'.flows[g].own
      BY <2>2, <2>3, <2>5, <3>1, <3>2 DEF Well, Owners
    <3>7. Owners(voice')
      BY <3>5, <3>6, OwnersOne
    <3> QED BY <3>3, <3>4, <3>7, BareMicrophone, NoRetryRetries DEF Well, Served
  <2> QED BY <2>5, <2>6, <2>7 DEF VoiceInv
<1> QED BY <1>2, <1>3 DEF V!Connected

LEMMA UndoneStep ==
  ASSUME VoiceInv(voice), NEW f \in StoreFlow, V!Undone(f)
  PROVE  VoiceInv(voice')
BY OwnerCounts, EndBareWell DEF V!Undone, V!Runs, V!At, Counts, Bare, Untouched

LEMMA LeftStep ==
  ASSUME VoiceInv(voice), NEW f \in StoreFlow, V!Left(f)
  PROVE  VoiceInv(voice')
BY OwnerCounts, NotRetried, EndBareWell DEF V!Left, V!Runs, V!At, Counts, Well, Microphone, Bare,
   Untouched

LEMMA LeaveStep ==
  ASSUME VoiceInv(voice), V!Leave
  PROVE  VoiceInv(voice')
<1> DEFINE f == V!Slot
           c == voice.channel
           a == V!Show(voice, "leaving", c)
           r == V!ResolveRecovery(a, c)
           t == V!Teardown(r)
           w == [V!NoFlow EXCEPT !.at = "leave", !.ch = c, !.own = TRUE]
<1>1. /\ f \in StoreFlow /\ voice \in VoiceShape /\ Reports(voice) /\ c \in VoiceChannel /\ c \in Rooms
      /\ voice.status \in {"active", "reconnecting"} /\ c = voice.channel
  BY SlotFacts DEF V!Leave, VoiceInv, VoiceShape, V!VoiceRec, Rooms
<1>2. voice' = V!Send(t, f, w)
  BY DEF V!Leave
<1>3. /\ Placed(w) /\ w.at = "leave" /\ w.rec = NoVoice /\ ~w.fresh /\ w.at \in V!Commands
  <2> HIDE DEF c
  <2> QED BY <1>1 DEF V!NoFlow, V!FlowRec, Placed, V!Commands
<1> HIDE DEF f, c, w
<1>4. /\ a \in VoiceShape /\ a.status = "leaving" /\ SameMic(voice, a) /\ a.recovery = voice.recovery
      /\ a.crossed = voice.crossed
      /\ \A g \in StoreFlow : ~a.flows[g].own /\ a.flows[g].rec = voice.flows[g].rec
  <2>1. "leaving" \in V!Status
    BY DEF V!Status
  <2> QED BY <1>1, <2>1, ShowFacts
<1> HIDE DEF a
<1>5. /\ r \in VoiceShape /\ SameShown(a, r) /\ SameMic(a, r) /\ r.crossed = a.crossed
      /\ r.recovery[c] = V!NoRecovery
      /\ \A d \in VoiceChannel \ {c} : r.recovery[d] = a.recovery[d]
      /\ \A g \in StoreFlow : /\ Fades(a.flows[g], r.flows[g]) /\ r.flows[g].own = a.flows[g].own
                              /\ r.flows[g].rec # c
  <2>1. a \in VoiceShape /\ c \in VoiceChannel
    BY <1>1, <1>4
  <2>2. r = V!ResolveRecovery(a, c)
    OBVIOUS
  <2> HIDE DEF r
  <2> QED BY ONLY <2>1, <2>2, ResolveFacts
<1> HIDE DEF r
<1>6. /\ t \in VoiceShape /\ Bare(t) /\ t.leaked = r.leaked /\ SameShown(r, t)
      /\ t.recovery = r.recovery /\ t.crossed = r.crossed
      /\ \A g \in StoreFlow : t.flows[g].rec = r.flows[g].rec /\ t.flows[g].own = r.flows[g].own
  BY <1>5, TeardownFacts
<1> HIDE DEF t
<1>7. /\ voice' \in VoiceShape
      /\ \A g \in StoreFlow \ {f} : voice'.flows[g] = t.flows[g]
      /\ SameShown(t, voice') /\ SameMic(t, voice') /\ voice'.recovery = t.recovery
      /\ voice'.crossed = t.crossed
      /\ voice'.flows[f].at = "leave" /\ voice'.flows[f].rec = NoVoice /\ ~voice'.flows[f].fresh
  BY <1>1, <1>2, <1>3, <1>6, SendFacts
<1>8. Reports(voice')
  <2>1. \A g \in StoreFlow : voice'.flows[g].rec \in {voice.flows[g].rec, NoVoice} /\ voice'.flows[g].rec # c
    <3>1. ASSUME NEW g \in StoreFlow \ {f}
          PROVE  voice'.flows[g].rec \in {voice.flows[g].rec, NoVoice} /\ voice'.flows[g].rec # c
      <4>1. voice'.flows[g].rec = r.flows[g].rec
        BY <1>6, <1>7, <3>1
      <4>2. r.flows[g].rec \in {voice.flows[g].rec, NoVoice} /\ r.flows[g].rec # c
        BY <1>4, <1>5, <3>1 DEF Fades
      <4> QED BY <4>1, <4>2
    <3>2. voice'.flows[f].rec = NoVoice /\ NoVoice # c
      BY <1>1, <1>7, ClientAssumption DEF VoiceAssumption
    <3> QED BY <3>1, <3>2
  <2>2. \A e \in VoiceChannel :
         \/ voice'.recovery[e] = voice.recovery[e]
         \/ /\ voice'.recovery[e].attempt = "none" <=> voice'.recovery[e].phase = "none"
            /\ \A g \in StoreFlow : voice'.flows[g].rec # e
    BY <1>4, <1>5, <1>6, <1>7, <2>1, NoRecoveryFacts
  <2> QED BY <1>1, <2>1, <2>2, ReportsKept
<1>9. ASSUME ~voice'.crossed PROVE Well(voice')
  <2>1. Well(voice)
    BY <1>4, <1>5, <1>6, <1>7, <1>9 DEF VoiceInv
  <2>2. voice'.status = "leaving"
    BY <1>4, <1>5, <1>6, <1>7 DEF SameShown
  <2>3. NoRetry(voice')
    BY <1>1, <2>1, <1>4, <1>5, <1>6, <1>7, NoRecoveryFacts DEF Well, Retries, NoRetry
  <2>4. Bare(voice') /\ ~voice'.leaked
    BY <1>6, <1>7, <1>4, <1>5, <2>1 DEF Bare, Untouched, Touches, SameMic, Well, Microphone
  <2>5. Counts(voice', voice'.flows[f])
    BY <1>7, <2>2, InputKinds DEF Counts, Early, Sent, V!Setups
  <2>6. \A g \in StoreFlow \ {f} : ~voice'.flows[g].own
    BY <1>4, <1>5, <1>6, <1>7
  <2>7. Owners(voice')
    BY <1>1, <2>5, <2>6, OwnersOne
  <2> QED BY <2>2, <2>3, <2>4, <2>7, BareMicrophone, NoRetryRetries DEF Well, Served
<1> QED BY <1>7, <1>8, <1>9 DEF VoiceInv

\* The connection changes: its link, its room and its media mode.
Linked(d, l, room, sfu) == [d EXCEPT !.link = l, !.joined = room, !.sfu = sfu]

SamePeers(d, v, room) == v.joined = room /\ v.peers = d.peers

LEMMA LinkFacts ==
  ASSUME NEW d \in VoiceShape, NEW v, NEW l \in BOOLEAN, NEW room \in Rooms, NEW sfu \in BOOLEAN,
         v = Linked(d, l, room, sfu)
  PROVE  v \in VoiceShape /\ Moves(d, v) /\ v.link = l /\ SamePeers(d, v, room)
<1>1. d \in V!VoiceRec
  BY DEF VoiceShape
<1>2. /\ v \in V!VoiceRec /\ v.status = d.status /\ v.channel = d.channel /\ v.flows = d.flows
      /\ v.saved = d.saved /\ v.mic = d.mic /\ v.busy = d.busy /\ v.leaked = d.leaked
      /\ v.link = l /\ v.joined = room /\ v.sfu = sfu
      /\ v.peers = d.peers /\ v.recovery = d.recovery /\ v.crossed = d.crossed
  BY <1>1 DEF V!VoiceRec, Rooms, Linked
<1>3. v \in VoiceShape
  BY <1>2 DEF VoiceShape
<1> QED BY <1>2, <1>3 DEF Moves, SameShown, SameMic, SamePeers

LEMMA LostFacts ==
  ASSUME VoiceInv(voice), NEW v, v = V!Lost(voice)
  PROVE  v \in VoiceShape /\ Moves(voice, v)
<1> DEFINE sfu == voice.sfu
<1>1. voice \in VoiceShape /\ sfu \in BOOLEAN /\ NoVoice \in Rooms
  BY DEF VoiceInv, VoiceShape, V!VoiceRec, Rooms
<1>2. v = Linked(voice, FALSE, NoVoice, sfu)
  BY <1>1 DEF V!Lost, VoiceShape, V!VoiceRec, Linked
<1> HIDE DEF sfu
<1> QED BY <1>1, <1>2, LinkFacts

LEMMA DropStep == ASSUME VoiceInv(voice), V!Drop PROVE VoiceInv(voice')
<1> DEFINE v == V!Lost(voice)
<1>1. voice' = V!GatewayWillReconnect(v) /\ voice \in VoiceShape
  BY DEF V!Drop, VoiceInv
<1>2. v \in VoiceShape /\ Moves(voice, v)
  BY LostFacts
<1> HIDE DEF v
<1>3. Paused(voice, v, voice')
  BY <1>1, <1>2, WillReconnectWell
<1> QED BY <1>3 DEF Paused

LEMMA DisconnectedStep == ASSUME VoiceInv(voice), V!Disconnected PROVE VoiceInv(voice')
<1> DEFINE v == V!Lost(voice)
<1>1. voice' = V!GatewayDisconnected(v) /\ voice \in VoiceShape
  BY DEF V!Disconnected, VoiceInv
<1>2. v \in VoiceShape /\ Moves(voice, v)
  BY LostFacts
<1> HIDE DEF v
<1> QED BY <1>1, <1>2, DisconnectedWell

LEMMA ReconnectedStep == ASSUME VoiceInv(voice), V!Reconnected PROVE VoiceInv(voice')
<1> DEFINE v == [voice EXCEPT !.link = TRUE]
           f == V!Slot
           joined == voice.joined
           sfu == voice.sfu
<1>1. voice' = V!BeginRejoin(v, f, NoVoice) /\ voice \in VoiceShape /\ ~voice.link
  BY DEF V!Reconnected, VoiceInv
<1>2. f \in StoreFlow /\ voice.flows[f].at = "none" /\ NoVoice \in Rooms
  BY SlotFacts DEF V!Reconnected, Rooms
<1>3. v = Linked(voice, TRUE, joined, sfu) /\ sfu \in BOOLEAN /\ joined \in Rooms /\ TRUE \in BOOLEAN
  BY <1>1 DEF VoiceShape, V!VoiceRec, Rooms, Linked
<1> HIDE DEF v, f, joined, sfu
<1>4. v \in VoiceShape /\ Moves(voice, v) /\ v.link = TRUE /\ v.joined = joined /\ v.peers = voice.peers
  <2>1. voice \in VoiceShape
    BY <1>1
  <2>2. v \in VoiceShape /\ Moves(voice, v) /\ v.link = TRUE /\ SamePeers(voice, v, joined)
    BY <1>3, <2>1, LinkFacts
  <2> QED BY <2>2 DEF SamePeers
<1>5. Reports(v) /\ (~v.crossed => Well(voice) /\ Microphone(v))
  BY <1>4, MovesKeep
<1>6. ASSUME ~v.crossed PROVE Well(v) /\ NoRetry(v)
  BY <1>5, <1>6, <1>1, <1>4, NoRetryRetries DEF Well, Retries, NoRetry, Moves, Owners, joined,
     Counts, Untouched, Bare, SameMic, SameShown, Sent, Served
<1>7. ~v.crossed => /\ Well(v) /\ v.link
                    /\ \A c \in VoiceChannel : Wants(v.recovery[c]) => c = NoVoice
  BY <1>4, <1>6 DEF NoRetry
<1>8. v.flows[f].at = "none"
  BY <1>2, <1>4 DEF Moves
<1> QED BY <1>1, <1>2, <1>4, <1>5, <1>7, <1>8, BeginRejoinWell

LEMMA ModeUpdatedStep == ASSUME VoiceInv(voice), V!ModeUpdated PROVE VoiceInv(voice')
<1> DEFINE sfu == ~voice.sfu
           v == [voice EXCEPT !.sfu = sfu, !.joined = NoVoice]
           r == V!GatewayWillReconnect(v)
           f == V!Slot
<1>1. voice' = V!BeginRejoin(r, f, NoVoice) /\ voice \in VoiceShape /\ voice.link /\ sfu \in BOOLEAN
  BY DEF V!ModeUpdated, VoiceInv
<1>2. f \in StoreFlow /\ voice.flows[f].at = "none" /\ NoVoice \in Rooms
  BY SlotFacts DEF V!ModeUpdated, Rooms
<1> HIDE DEF sfu
<1>3. v = Linked(voice, TRUE, NoVoice, sfu) /\ TRUE \in BOOLEAN
  BY <1>1 DEF VoiceShape, V!VoiceRec, Linked
<1> HIDE DEF v, f
<1>4. v \in VoiceShape /\ Moves(voice, v) /\ v.link
  BY <1>1, <1>2, <1>3, LinkFacts
<1>9. r = V!GatewayWillReconnect(v)
  OBVIOUS
<1> HIDE DEF r
<1>5. /\ VoiceInv(r) /\ r.crossed = voice.crossed /\ r.link = v.link
      /\ ~r.crossed => NoRetry(r)
      /\ \A g \in StoreFlow : r.flows[g].at = voice.flows[g].at
  <2>1. voice \in VoiceShape
    BY <1>1
  <2>2. Paused(voice, v, r)
    BY <1>4, <1>9, <2>1, WillReconnectWell
  <2> QED BY <2>2 DEF Paused
<1>6. r \in VoiceShape /\ Reports(r)
  BY <1>5 DEF VoiceInv
<1>7. ~r.crossed => /\ Well(r) /\ r.link
                    /\ \A c \in VoiceChannel : Wants(r.recovery[c]) => c = NoVoice
  BY <1>4, <1>5 DEF NoRetry, VoiceInv
<1>8. r.flows[f].at = "none"
  BY <1>2, <1>5
<1> QED BY <1>1, <1>2, <1>6, <1>7, <1>8, BeginRejoinWell

LEMMA EvictedStep == ASSUME VoiceInv(voice), V!Evicted PROVE VoiceInv(voice')
<1> DEFINE v == [voice EXCEPT !.joined = NoVoice]
           t == V!Teardown(v)
<1>1. voice \in VoiceShape /\ Reports(voice) /\ NoVoice \in Rooms /\ voice.status \in V!Status
      /\ voice.channel \in Rooms
  BY DEF VoiceInv, VoiceShape, V!VoiceRec, Rooms
<1>2. \/ /\ v.status = "active" /\ voice' = V!Show(t, "idle", NoVoice)
      \/ /\ ~(v.status = "active" /\ v.channel = voice.joined)
         /\ voice' = V!Show(v, v.status, v.channel)
  BY DEF V!Evicted
<1>3. /\ v \in VoiceShape /\ v.flows = voice.flows /\ SameShown(voice, v) /\ SameMic(voice, v)
      /\ v.link = voice.link /\ v.recovery = voice.recovery /\ v.crossed = voice.crossed
  BY <1>1, RoomFacts
<1> HIDE DEF v
<1>4. CASE v.status = "active" /\ voice' = V!Show(t, "idle", NoVoice)
  <2>1. /\ t \in VoiceShape /\ Bare(t) /\ t.leaked = v.leaked
        /\ t.recovery = v.recovery /\ t.crossed = v.crossed
        /\ \A g \in StoreFlow : t.flows[g].rec = v.flows[g].rec
    BY <1>3, TeardownFacts
  <2>2. voice' = V!Show(t, "idle", NoVoice) /\ "idle" \in V!Status
    BY <1>4 DEF V!Status
  <2> HIDE DEF t
  <2>3. /\ voice' \in VoiceShape /\ voice'.status = "idle" /\ SameMic(t, voice')
        /\ voice'.recovery = t.recovery /\ voice'.crossed = t.crossed
        /\ \A g \in StoreFlow : /\ Fades(t.flows[g], voice'.flows[g]) /\ ~voice'.flows[g].own
                                /\ voice'.flows[g].rec = t.flows[g].rec
    BY <1>1, <2>1, <2>2, ShowFacts
  <2>4. Reports(voice')
    BY <1>3, <2>1, <2>3, <1>1, ReportsKept
  <2>5. ASSUME ~voice'.crossed PROVE Bare(voice') /\ ~voice'.leaked /\ NoRetry(voice')
    <3>1. Well(voice) /\ voice.status = "active"
      BY <1>3, <1>4, <2>1, <2>3, <2>5 DEF VoiceInv, SameShown
    <3>2. NoRetry(voice) /\ ~voice.leaked
      BY <3>1, NotRetried DEF Well, Microphone
    <3>3. NoRetry(voice')
      BY <1>3, <2>1, <2>3, <3>2 DEF NoRetry
    <3>4. ~voice'.leaked
      BY <1>3, <2>1, <2>3, <3>2 DEF SameMic
    <3> QED BY <2>1, <2>3, <3>3, <3>4 DEF Bare, SameMic, Untouched, Touches, Fades
  <2> QED BY <2>3, <2>4, <2>5, BareWell
<1>5. CASE ~(v.status = "active" /\ v.channel = voice.joined) /\ voice' = V!Show(v, v.status, v.channel)
  <2>1. /\ voice' \in VoiceShape /\ voice'.status = v.status /\ voice'.channel = v.channel
        /\ SameMic(v, voice') /\ SameRoom(v, voice') /\ voice'.recovery = v.recovery
        /\ voice'.crossed = v.crossed
        /\ \A g \in StoreFlow : /\ Fades(v.flows[g], voice'.flows[g]) /\ ~voice'.flows[g].own
                                /\ voice'.flows[g].rec = v.flows[g].rec
    <3>1. v.status \in V!Status /\ v.channel \in Rooms /\ (v.status = "active" => v.channel # NoVoice)
      BY <1>1, <1>3 DEF SameShown, VoiceShape
    <3>2. voice' = V!Show(v, v.status, v.channel)
      BY <1>5
    <3> QED BY <1>3, <3>1, <3>2, ShowFacts
  <2>2. Reports(voice')
    <3>1. \A g \in StoreFlow : voice'.flows[g].rec \in {voice.flows[g].rec, NoVoice}
      BY <1>3, <2>1
    <3>2. \A e \in VoiceChannel : voice'.recovery[e] = voice.recovery[e]
      BY <1>3, <2>1
    <3> QED BY <1>1, <3>1, <3>2, ReportsKept
  <2>3. ASSUME ~voice'.crossed PROVE Well(voice')
    <3>1. Well(voice)
      BY <1>3, <2>1, <2>3 DEF VoiceInv
    <3>2. SameMic(voice, voice') /\ voice'.status = voice.status /\ voice'.channel = voice.channel
          /\ voice'.link = voice.link /\ voice'.recovery = voice.recovery
      BY <1>3, <2>1 DEF SameMic, SameShown, SameRoom
    <3>3. \A g \in StoreFlow : Fades(voice.flows[g], voice'.flows[g])
      BY <1>3, <2>1
    <3>4. Microphone(voice')
      BY <3>1, <3>2, <3>3, MicrophoneFades DEF Well
    <3>5. Owners(voice')
      BY <2>1, OwnersNone
    <3>6. Retries(voice')
      BY <3>1, <3>2 DEF Well, Retries
    <3>7. voice'.status # "active"
      BY <1>3, <1>5, <3>1, <3>2 DEF Well, Served, SameShown
    <3> QED BY <3>4, <3>5, <3>6, <3>7 DEF Well, Served
  <2> QED BY <2>1, <2>2, <2>3 DEF VoiceInv
<1> QED BY <1>2, <1>4, <1>5

LEMMA RejoinedStep ==
  ASSUME VoiceInv(voice), NEW f \in StoreFlow, V!Rejoined(f)
  PROVE  VoiceInv(voice')
<1>1. voice.flows[f].at = "rejoin" /\ voice \in VoiceShape
  BY DEF V!Rejoined, V!Runs, V!At, VoiceInv
<1>2. CASE V!Accepted(f) /\ voice' = V!BeginSetup(voice, f, "resetup")
  BY <1>1, <1>2, PeersSelf, SetupWell DEF V!Accepted, SetupOf
<1>3. ASSUME NEW room \in V!Kept(f),
             voice' = V!RejoinFails([voice EXCEPT !.joined = room], f, "rejoin")
      PROVE  VoiceInv(voice')
  <2> DEFINE v == [voice EXCEPT !.joined = room]
  <2>1. room \in Rooms
    BY <1>1, <1>3, KeptRooms
  <2>2. voice' = V!RejoinFails(v, f, "rejoin")
    BY <1>3
  <2>3. v \in VoiceShape /\ Moves(voice, v) /\ v.link = voice.link
    BY <1>1, <2>1, RoomFacts DEF Moves
  <2> HIDE DEF v
  <2> QED BY <1>1, <2>2, <2>3, RejoinFailsWell
<1> QED BY <1>2, <1>3 DEF V!Rejoined

LEMMA ReestablishedStep ==
  ASSUME VoiceInv(voice), NEW f \in StoreFlow, V!Reestablished(f)
  PROVE  VoiceInv(voice')
<1>1. voice.flows[f].at = "resetup" /\ voice \in VoiceShape
  BY DEF V!Reestablished, V!SetupDone, V!SetupFails, V!Runs, V!At, VoiceInv
<1>2. CASE voice' = V!AttemptEnds(V!Activate(voice, f), voice.flows[f], TRUE)
  BY <1>1, <1>2, ActivateWell DEF V!Setups
<1>3. CASE voice' = V!RejoinFails(voice, f, "media")
  BY <1>1, <1>3, PeersSelf, RejoinFailsWell
<1> QED BY <1>2, <1>3 DEF V!Reestablished

LEMMA ConnectionFailsStep == ASSUME VoiceInv(voice), V!ConnectionFails PROVE VoiceInv(voice')
<1> DEFINE f == V!Slot
           c == voice.channel
           p == V!TeardownPeers(voice)
           s == V!Show(p, "reconnecting", c)
<1>1. /\ f \in StoreFlow /\ voice.flows[f].at = "none" /\ voice \in VoiceShape /\ Reports(voice)
      /\ voice.status = "active" /\ c \in VoiceChannel /\ c \in Rooms /\ c = voice.channel
  BY SlotFacts DEF V!ConnectionFails, VoiceInv, VoiceShape, V!VoiceRec, Rooms
<1>2. voice' = V!StartRecovery(s, c, "media", f)
  BY DEF V!ConnectionFails
<1> HIDE DEF f, c
<1>3. /\ p \in VoiceShape /\ p.flows = voice.flows /\ SameMic(voice, p) /\ SameRoom(voice, p)
      /\ p.recovery = voice.recovery /\ p.crossed = voice.crossed
  BY <1>1, TeardownPeersFacts
<1> HIDE DEF p
<1>4. /\ s \in VoiceShape /\ s.status = "reconnecting" /\ s.channel = c
      /\ SameMic(p, s) /\ SameRoom(p, s) /\ s.recovery = p.recovery /\ s.crossed = p.crossed
      /\ \A g \in StoreFlow : /\ Fades(p.flows[g], s.flows[g]) /\ ~s.flows[g].own
                              /\ s.flows[g].rec = p.flows[g].rec
  <2>1. "reconnecting" \in V!Status
    BY DEF V!Status
  <2> QED BY <1>1, <1>3, <2>1, ShowFacts
<1> HIDE DEF s
<1>5. Reports(s)
  BY <1>3, <1>4, <1>1, ReportsKept
<1>6. ASSUME ~s.crossed PROVE Well(s) /\ s.link
  BY <1>3, <1>4, <1>6, MicrophoneFades, OwnersNone, <1>1 DEF VoiceInv, SameMic, SameRoom, Well,
     Retries, Served
<1>7. /\ VoiceInv(s) /\ s.flows[f].at = "none"
      /\ ~s.crossed => s.link /\ s.status = "reconnecting" /\ s.channel = c
      /\ \A g \in StoreFlow : ~s.flows[g].own
  BY <1>1, <1>3, <1>4, <1>5, <1>6 DEF VoiceInv, Fades
<1>8. Ran(s, c, voice')
  BY <1>1, <1>2, <1>7, StartAnyWell
<1> QED BY <1>8 DEF Ran

\* The attempt of f failed: nothing but its timer is left of it.
LEMMA AttemptFailsWell ==
  ASSUME VoiceInv(voice), NEW f \in StoreFlow, NEW u,
         u = V!AttemptEnds(V!Free(voice, f), voice.flows[f], FALSE)
  PROVE  VoiceInv(u)
<1> DEFINE v == V!Free(voice, f)
           w == voice.flows[f]
<1>1. voice \in VoiceShape /\ Reports(voice) /\ w.rec \in Rooms
  BY DEF VoiceInv, VoiceShape, V!VoiceRec, V!FlowRec, Rooms
<1>2. VoiceInv(v)
  BY FreeWell
<1>3. /\ v.flows[f].rec = NoVoice /\ v.recovery = voice.recovery
      /\ \A g \in StoreFlow \ {f} : v.flows[g] = voice.flows[g]
  BY <1>1, FreeFacts, NoFlowFacts
<1>4. u = V!AttemptEnds(v, w, FALSE)
  OBVIOUS
<1>5. ASSUME w.rec # NoVoice
      PROVE  (\A g \in StoreFlow : v.flows[g].rec # w.rec) /\ v.recovery[w.rec].attempt # "none"
  <2> HIDE DEF v
  <2>1. w.rec \in VoiceChannel
    BY <1>1, <1>5 DEF Rooms
  <2>2. voice.recovery[w.rec].phase = "running"
    BY <1>1, <1>5 DEF Reports
  <2>3. voice.recovery[w.rec].attempt # "none"
    BY <1>1, <2>1, <2>2 DEF Reports
  <2>4. \A g \in StoreFlow : v.flows[g].rec # w.rec
    BY <1>1, <1>3, <1>5 DEF Reports
  <2> QED BY <1>3, <2>3, <2>4
<1> HIDE DEF v, w
<1> QED BY <1>1, <1>2, <1>4, <1>5, AttemptEndsWell

LEMMA MediaAnsweredStep ==
  ASSUME VoiceInv(voice), NEW f \in StoreFlow, V!MediaAnswered(f)
  PROVE  VoiceInv(voice')
<1>1. voice.flows[f].at = "reconnect" /\ voice \in VoiceShape
  BY DEF V!MediaAnswered, V!Runs, V!At, VoiceInv
<1>2. CASE V!Accepted(f) /\ voice' = V!BeginSetup(V!TeardownPeers(voice), f, "mediasetup")
  <2> DEFINE p == V!TeardownPeers(voice)
             at == "mediasetup"
  <2>1. voice.link /\ voice.flows[f].ok /\ at = SetupOf(voice.flows[f].at)
    BY <1>1, <1>2 DEF V!Accepted, SetupOf
  <2>2. p \in VoiceShape /\ Peers(voice, p)
    BY <1>1, TeardownPeersFacts DEF Peers, Moves
  <2>3. voice' = V!BeginSetup(p, f, at)
    BY <1>2
  <2> HIDE DEF p, at
  <2> QED BY <1>1, <2>1, <2>2, <2>3, SetupWell
<1>3. CASE voice' = V!AttemptEnds(V!Free(voice, f), voice.flows[f], FALSE)
  BY <1>3, AttemptFailsWell
<1> QED BY <1>2, <1>3 DEF V!MediaAnswered

LEMMA MediaRebuiltStep ==
  ASSUME VoiceInv(voice), NEW f \in StoreFlow, V!MediaRebuilt(f)
  PROVE  VoiceInv(voice')
<1>1. voice.flows[f].at = "mediasetup"
  BY DEF V!MediaRebuilt, V!SetupDone, V!SetupFails, V!Runs, V!At
<1>2. CASE voice' = V!AttemptEnds(V!Activate(voice, f), voice.flows[f], TRUE)
  BY <1>1, <1>2, ActivateWell DEF V!Setups
<1>3. CASE voice' = V!AttemptEnds(V!Free(voice, f), voice.flows[f], FALSE)
  BY <1>3, AttemptFailsWell
<1> QED BY <1>2, <1>3 DEF V!MediaRebuilt

LEMMA RetryStep ==
  ASSUME VoiceInv(voice), NEW c \in VoiceChannel, V!Retry(c)
  PROVE  VoiceInv(voice')
<1> DEFINE f == V!Slot
           r == [voice.recovery[c] EXCEPT !.phase = "running"]
           x == SetRecovery(voice, c, r)
<1>1. /\ f \in StoreFlow /\ voice.flows[f].at = "none" /\ voice \in VoiceShape /\ Reports(voice)
      /\ voice.recovery[c].phase = "timer" /\ voice.recovery[c].attempt # "none"
      /\ voice.recovery[c] \in V!RecoveryRec
  BY SlotFacts DEF V!Retry, VoiceInv, VoiceShape, V!VoiceRec, Reports
<1>2. voice' = V!RunRecovery(voice, c, f)
  BY DEF V!Retry
<1> HIDE DEF f
<1>3. /\ r \in V!RecoveryRec /\ r.phase = "running" /\ r.attempt = voice.recovery[c].attempt
      /\ r.left = voice.recovery[c].left
  BY <1>1 DEF V!RecoveryRec
<1>4. RecoveryRuns(voice, c, x)
  BY DEF RecoveryRuns, SetRecovery
<1> HIDE DEF r
<1>5. /\ x \in VoiceShape /\ x.flows = voice.flows /\ x.peers = voice.peers
      /\ SameShown(voice, x) /\ SameMic(voice, x) /\ SameRoom(voice, x) /\ x.crossed = voice.crossed
      /\ x.recovery[c] = r /\ \A d \in VoiceChannel \ {c} : x.recovery[d] = voice.recovery[d]
  BY <1>1, <1>3, RecoveryFacts
<1> HIDE DEF x
<1>6. \A g \in StoreFlow : x.flows[g].rec # c
  BY <1>1, <1>5, ClientAssumption DEF Reports, VoiceAssumption
<1>7. Reports(x)
  BY <1>5, <1>1, <1>3, <1>6, ReportsKept
<1>8. ~x.crossed => Well(x)
  BY <1>1, <1>3, <1>5, WellRecovery DEF VoiceInv, Wants
<1>9. Begun(x, c, f)
  BY <1>1, <1>3, <1>5, <1>6, <1>7, <1>8 DEF Begun
<1> QED BY <1>1, <1>2, <1>4, <1>9, RunWell

\* Every recovery is abandoned.
Abandoned(v) ==
  [v EXCEPT !.recovery = [c \in VoiceChannel |-> V!NoRecovery],
            !.flows = [f \in StoreFlow |-> [v.flows[f] EXCEPT !.rec = NoVoice]]]

LEMMA AbandonedFacts ==
  ASSUME NEW v \in VoiceShape, NEW u, u = Abandoned(v)
  PROVE  /\ u \in VoiceShape /\ Reports(u) /\ NoRetry(u)
         /\ SameShown(v, u) /\ SameMic(v, u) /\ SameRoom(v, u) /\ u.crossed = v.crossed
         /\ u.peers = v.peers
         /\ \A g \in StoreFlow : Fades(v.flows[g], u.flows[g])
<1> DEFINE fl == [g \in StoreFlow |-> [v.flows[g] EXCEPT !.rec = NoVoice]]
           rs == [c \in VoiceChannel |-> V!NoRecovery]
<1>1. v \in V!VoiceRec /\ v.flows \in [StoreFlow -> V!FlowRec]
  BY DEF VoiceShape, V!VoiceRec
<1>2. /\ fl \in [StoreFlow -> V!FlowRec]
      /\ \A g \in StoreFlow : Fades(v.flows[g], fl[g]) /\ fl[g].rec = NoVoice
  BY <1>1 DEF V!FlowRec, Fades
<1>3. /\ rs \in [VoiceChannel -> V!RecoveryRec]
      /\ \A c \in VoiceChannel : rs[c].attempt = "none" /\ rs[c].phase = "none" /\ ~Wants(rs[c])
  BY NoRecoveryFacts
<1>4. u = [v EXCEPT !.recovery = rs, !.flows = fl]
  BY DEF Abandoned
<1> HIDE DEF fl, rs
<1>5. /\ u \in V!VoiceRec /\ u.status = v.status /\ u.channel = v.channel /\ u.flows = fl
      /\ u.saved = v.saved /\ u.mic = v.mic /\ u.busy = v.busy /\ u.leaked = v.leaked
      /\ u.link = v.link /\ u.joined = v.joined /\ u.sfu = v.sfu
      /\ u.peers = v.peers /\ u.recovery = rs /\ u.crossed = v.crossed
  BY <1>1, <1>2, <1>3, <1>4 DEF V!VoiceRec
<1>6. u \in VoiceShape
  BY <1>2, <1>5 DEF VoiceShape, Fades
<1>7. Reports(u) /\ NoRetry(u)
  BY <1>2, <1>3, <1>5 DEF Reports, NoRetry
<1> QED BY <1>2, <1>5, <1>6, <1>7 DEF SameShown, SameMic, SameRoom

LEMMA DisconnectedIdle ==
  ASSUME NEW v \in VoiceShape, NEW u, u = V!GatewayDisconnected(v)
  PROVE  u \in VoiceShape /\ u.status = "idle"
<1> DEFINE r == IF v.channel = NoVoice THEN v ELSE V!ResolveRecovery(v, v.channel)
           t == V!Teardown(r)
<1>1. r \in VoiceShape /\ r.status = v.status
  BY ResolveFacts DEF VoiceShape, V!VoiceRec, SameShown
<1>2. u = IF v.status = "idle" THEN r ELSE V!Show(t, "idle", NoVoice)
  BY DEF V!GatewayDisconnected
<1> HIDE DEF r
<1>3. t \in VoiceShape
  BY <1>1, TeardownFacts
<1> HIDE DEF t
<1>4. "idle" \in V!Status /\ NoVoice \in Rooms
  BY DEF V!Status, Rooms
<1> QED BY <1>1, <1>2, <1>3, <1>4, ShowFacts

LEMMA AbandonStep == ASSUME VoiceInv(voice), V!Abandon PROVE VoiceInv(voice')
<1> DEFINE v == V!GatewayDisconnected(voice)
<1>1. voice' = Abandoned(v)
  BY DEF V!Abandon, Abandoned
<1>2. voice \in VoiceShape /\ Moves(voice, voice)
  BY PeersSelf DEF VoiceInv
<1>3. VoiceInv(v) /\ v \in VoiceShape /\ v.status = "idle"
  BY <1>2, DisconnectedWell, DisconnectedIdle
<1> HIDE DEF v
<1>4. /\ voice' \in VoiceShape /\ Reports(voice') /\ NoRetry(voice')
      /\ SameShown(v, voice') /\ SameMic(v, voice') /\ SameRoom(v, voice')
      /\ voice'.crossed = v.crossed /\ voice'.peers = v.peers
      /\ \A g \in StoreFlow : Fades(v.flows[g], voice'.flows[g])
  BY <1>1, <1>3, AbandonedFacts
<1>5. voice'.status = "idle"
  BY <1>3, <1>4 DEF SameShown
<1>6. ASSUME ~voice'.crossed PROVE Well(voice')
  BY <1>3, <1>4, <1>6, <1>5, MicrophoneFades, IdleOwners, PreleaveCounts, NoRetryRetries DEF
     VoiceInv, Well, Fades, Owners, Served
<1> QED BY <1>4, <1>6 DEF VoiceInv

\* Function f goes on to another place.
Goes(v, f, at, m, u) ==
  \/ u = [V!Goto(v, f, at) EXCEPT !.mic = m]
  \/ u = V!Goto(v, f, at) /\ m = v.mic

\* u is v but for function f and the microphone.
Keeps(v, f, u) ==
  /\ u \in VoiceShape /\ SameShown(v, u) /\ SameRoom(v, u) /\ u.recovery = v.recovery
  /\ u.peers = v.peers /\ u.crossed = v.crossed /\ u.leaked = v.leaked /\ u.saved = v.saved
  /\ \A g \in StoreFlow \ {f} : u.flows[g] = v.flows[g]

Gone(v, f, at, m, u) ==
  /\ Keeps(v, f, u) /\ u.busy = v.busy /\ u.mic = m
  /\ u.flows[f].at = at /\ u.flows[f].own = v.flows[f].own
  /\ u.flows[f].rec = v.flows[f].rec /\ u.flows[f].fresh = v.flows[f].fresh

LEMMA GoesFacts ==
  ASSUME NEW v \in VoiceShape, NEW f \in StoreFlow, v.flows[f].at \in Noise,
         NEW at \in {"swap", "restore"}, NEW m \in {"none", "live", "stopped"},
         NEW u, Goes(v, f, at, m, u)
  PROVE  Gone(v, f, at, m, u)
<1> DEFINE w == [v.flows[f] EXCEPT !.at = at]
           fl == [v.flows EXCEPT ![f] = w]
<1>1. v \in V!VoiceRec /\ v.flows \in [StoreFlow -> V!FlowRec] /\ v.flows[f] \in V!FlowRec
  BY DEF VoiceShape, V!VoiceRec
<1>2. /\ w \in V!FlowRec /\ w.at = at /\ w.own = v.flows[f].own /\ w.rec = v.flows[f].rec
      /\ w.fresh = v.flows[f].fresh
  BY <1>1 DEF V!FlowRec, V!Inputs
<1>3. fl \in [StoreFlow -> V!FlowRec] /\ fl[f] = w /\ \A g \in StoreFlow \ {f} : fl[g] = v.flows[g]
  BY <1>1, <1>2
<1>4. V!Goto(v, f, at) = [v EXCEPT !.flows = fl]
  BY DEF V!Goto
<1> HIDE DEF fl, w
<1>5. /\ u \in V!VoiceRec /\ u.status = v.status /\ u.channel = v.channel /\ u.flows = fl
      /\ u.saved = v.saved /\ u.mic = m /\ u.busy = v.busy /\ u.leaked = v.leaked
      /\ u.link = v.link /\ u.joined = v.joined /\ u.sfu = v.sfu
      /\ u.peers = v.peers /\ u.recovery = v.recovery /\ u.crossed = v.crossed
  <2>1. CASE u = [V!Goto(v, f, at) EXCEPT !.mic = m]
    BY <1>1, <1>3, <1>4, <2>1 DEF V!VoiceRec
  <2>2. CASE u = V!Goto(v, f, at) /\ m = v.mic
    BY <1>1, <1>3, <1>4, <2>2 DEF V!VoiceRec
  <2> QED BY <2>1, <2>2 DEF Goes
<1>6. u \in VoiceShape
  BY <1>2, <1>3, <1>5, InputKinds DEF VoiceShape
<1> QED BY <1>2, <1>3, <1>5, <1>6 DEF SameShown, SameRoom, Keeps, Gone

\* Function f is done with the microphone.
Done(v, f, m, u) == u = [V!Free(v, f) EXCEPT !.busy = FALSE, !.mic = m]

LEMMA DoneFacts ==
  ASSUME NEW v \in VoiceShape, NEW f \in StoreFlow, NEW m \in {"none", "live", "stopped"},
         NEW u, Done(v, f, m, u)
  PROVE  Keeps(v, f, u) /\ ~u.busy /\ u.mic = m /\ u.flows[f] = V!NoFlow
<1> DEFINE z == V!Free(v, f)
<1>1. /\ z \in VoiceShape /\ z.flows[f] = V!NoFlow
      /\ \A g \in StoreFlow \ {f} : z.flows[g] = v.flows[g]
      /\ SameShown(v, z) /\ SameMic(v, z) /\ SameRoom(v, z)
      /\ z.peers = v.peers /\ z.recovery = v.recovery /\ z.crossed = v.crossed
  BY FreeFacts
<1>2. u = [z EXCEPT !.busy = FALSE, !.mic = m]
  BY DEF Done
<1> HIDE DEF z
<1>3. z \in V!VoiceRec
  BY <1>1 DEF VoiceShape
<1>4. /\ u \in V!VoiceRec /\ u.status = z.status /\ u.channel = z.channel /\ u.flows = z.flows
      /\ u.saved = z.saved /\ u.mic = m /\ ~u.busy /\ u.leaked = z.leaked
      /\ u.link = z.link /\ u.joined = z.joined /\ u.sfu = z.sfu
      /\ u.peers = z.peers /\ u.recovery = z.recovery /\ u.crossed = z.crossed
  BY <1>2, <1>3 DEF V!VoiceRec
<1>5. u \in VoiceShape
  BY <1>1, <1>4 DEF VoiceShape
<1> QED BY <1>1, <1>4, <1>5 DEF SameShown, SameRoom, SameMic, Keeps

LEMMA KeepsWell ==
  ASSUME NEW d, VoiceInv(d), NEW f \in StoreFlow, d.flows[f].at \in Noise, d.flows[f].fresh,
         NEW u, Keeps(d, f, u), ~d.crossed => u.mic # "none" /\ NoiseAt(d, u, f),
         u.flows[f].rec \in {d.flows[f].rec, NoVoice}
  PROVE  VoiceInv(u)
<1>1. CASE ~d.crossed
  BY <1>1, NoiseWell DEF Keeps
<1>2. CASE d.crossed
  <2>1. \A g \in StoreFlow : u.flows[g].rec \in {d.flows[g].rec, NoVoice}
    BY DEF Keeps
  <2>2. Reports(u)
    BY <2>1, ReportsKept DEF VoiceInv, Keeps
  <2> QED BY <1>2, <2>2 DEF VoiceInv, Keeps
<1> QED BY <1>1, <1>2

LEMMA GoesWell ==
  ASSUME NEW d, VoiceInv(d), NEW f \in StoreFlow, d.flows[f].at \in Noise, d.flows[f].fresh,
         NEW at \in {"swap", "restore"}, NEW m, m \in {"live", "stopped"} \/ m = d.mic,
         NEW u, Goes(d, f, at, m, u)
  PROVE  VoiceInv(u)
BY InputKinds, GoesFacts, KeepsWell DEF VoiceInv, VoiceShape, V!VoiceRec, Well, Microphone, Touches,
   Handles, NoiseAt, Gone

LEMMA DoneWell ==
  ASSUME NEW d, VoiceInv(d), NEW f \in StoreFlow, d.flows[f].at \in Noise, d.flows[f].fresh,
         NEW m, m = "live" \/ (m = d.mic /\ d.flows[f].at = "prepare"),
         NEW u, Done(d, f, m, u)
  PROVE  VoiceInv(u)
<1>1. d \in VoiceShape /\ m \in {"none", "live", "stopped"}
  BY DEF VoiceInv, VoiceShape, V!VoiceRec
<1>2. ~d.crossed => d.mic # "none" /\ (d.flows[f].at = "prepare" /\ d.saved => d.mic = "live")
  BY InputKinds DEF VoiceInv, Well, Microphone, Touches, Handles
<1>3. Keeps(d, f, u) /\ ~u.busy /\ u.mic = m /\ u.flows[f] = V!NoFlow
  BY <1>1, DoneFacts
<1>4. ~d.crossed => u.mic # "none" /\ NoiseAt(d, u, f)
  BY <1>2, <1>3 DEF NoiseAt, Keeps
<1> QED BY <1>3, <1>4, KeepsWell, NoFlowFacts

LEMMA NoisePreparedStep ==
  ASSUME VoiceInv(voice), NEW f \in StoreFlow, V!NoisePrepared(f)
  PROVE  VoiceInv(voice')
<1>1. voice.flows[f].at = "prepare" /\ voice.flows[f].at \in Noise
  BY InputKinds DEF V!NoisePrepared, V!InputStep, V!At
<1>2. CASE ~voice.flows[f].fresh
  BY <1>2, FreeWell DEF V!NoisePrepared, V!Input, V!Fresh
<1>3. CASE voice.flows[f].fresh
  <2>1. CASE voice' = [V!Goto(voice, f, "swap") EXCEPT !.mic = "stopped"]
    BY <2>1, <1>1, <1>3, GoesWell DEF Goes
  <2>2. CASE voice' = V!InputDone(f, voice.mic)
    <3>1. Done(voice, f, voice.mic, voice')
      BY <2>2 DEF V!InputDone, Done
    <3> QED BY <1>1, <1>3, <3>1, DoneWell
  <2> QED BY <1>3, <2>1, <2>2 DEF V!NoisePrepared, V!Input, V!Fresh
<1> QED BY <1>2, <1>3 DEF VoiceInv

LEMMA LiveAgain ==
  ASSUME VoiceInv(voice), NEW f \in StoreFlow, voice.flows[f].at \in Noise, voice.flows[f].fresh,
         voice' = V!InputDone(f, "live")
  PROVE  VoiceInv(voice')
<1>1. Done(voice, f, "live", voice')
  BY DEF V!InputDone, Done
<1> QED BY <1>1, DoneWell

LEMMA NoiseSwappedStep ==
  ASSUME VoiceInv(voice), NEW f \in StoreFlow, V!NoiseSwapped(f)
  PROVE  VoiceInv(voice')
<1>1. voice.flows[f].at \in Noise
  BY InputKinds DEF V!NoiseSwapped, V!InputStep, V!At
<1>2. CASE ~voice.flows[f].fresh
  BY <1>2, FreeWell DEF V!NoiseSwapped, V!Input, V!Fresh
<1>3. CASE voice.flows[f].fresh
  <2>1. CASE voice' = V!InputDone(f, "live")
    BY <1>1, <1>3, <2>1, LiveAgain
  <2>2. CASE voice' = V!Goto(voice, f, "restore")
    <3>1. Goes(voice, f, "restore", voice.mic, voice')
      BY <2>2 DEF Goes
    <3> QED BY <1>1, <1>3, <3>1, GoesWell
  <2> QED BY <1>3, <2>1, <2>2 DEF V!NoiseSwapped, V!Input, V!Fresh
<1> QED BY <1>2, <1>3 DEF VoiceInv

\* The session ends and its recovery does not.
LEMMA LeftBehindFacts ==
  ASSUME NEW v, VoiceInv(v), NEW u, u = V!LeftBehind(v)
  PROVE  /\ u \in VoiceShape /\ Reports(u) /\ u.flows = v.flows /\ SameMic(v, u)
         /\ u.crossed = v.crossed
         /\ \A c \in VoiceChannel :
              Wants(u.recovery[c]) => Wants(v.recovery[c]) /\ c # v.channel
<1> DEFINE rs == [c \in VoiceChannel |-> [v.recovery[c] EXCEPT
                   !.left = @ \/ (c = v.channel /\ v.recovery[c].attempt # "none")]]
<1>1. v \in VoiceShape /\ v \in V!VoiceRec /\ v.recovery \in [VoiceChannel -> V!RecoveryRec] /\ Reports(v)
  BY DEF VoiceInv, VoiceShape, V!VoiceRec
<1>2. /\ rs \in [VoiceChannel -> V!RecoveryRec]
      /\ \A c \in VoiceChannel :
           /\ rs[c].attempt = v.recovery[c].attempt /\ rs[c].phase = v.recovery[c].phase
           /\ Wants(rs[c]) => Wants(v.recovery[c]) /\ c # v.channel
  BY <1>1 DEF V!RecoveryRec, Wants
<1>3. u = [v EXCEPT !.recovery = rs]
  BY DEF V!LeftBehind
<1> HIDE DEF rs
<1>4. /\ u \in V!VoiceRec /\ u.status = v.status /\ u.channel = v.channel /\ u.flows = v.flows
      /\ u.saved = v.saved /\ u.mic = v.mic /\ u.busy = v.busy /\ u.leaked = v.leaked
      /\ u.recovery = rs /\ u.crossed = v.crossed
  BY <1>1, <1>2, <1>3 DEF V!VoiceRec
<1>5. u \in VoiceShape
  BY <1>1, <1>4 DEF VoiceShape
<1>6. Reports(u)
  BY <1>1, <1>2, <1>4 DEF Reports, VoiceShape, V!VoiceRec, V!FlowRec
<1> QED BY <1>2, <1>4, <1>5, <1>6 DEF SameMic

\* The session whose capture cannot be had again is torn down.
LEMMA NoiseRestoredStep ==
  ASSUME VoiceInv(voice), NEW f \in StoreFlow, V!NoiseRestored(f)
  PROVE  VoiceInv(voice')
<1>1. voice.flows[f].at \in Noise /\ voice \in VoiceShape /\ Reports(voice)
  BY InputKinds DEF V!NoiseRestored, V!InputStep, V!At, VoiceInv
<1>2. CASE ~voice.flows[f].fresh
  BY <1>2, FreeWell DEF V!NoiseRestored, V!Input, V!Fresh
<1>3. CASE voice.flows[f].fresh /\ voice' = V!InputDone(f, "live")
  BY <1>1, <1>3, LiveAgain
<1>4. CASE voice.flows[f].fresh /\ voice' # V!InputDone(f, "live")
  <2> DEFINE x == V!LeftBehind(voice)
             z == V!Free(x, f)
             room == IF voice.saved /\ z.joined = voice.channel THEN NoVoice ELSE z.joined
             q == [z EXCEPT !.joined = room]
             t == V!Teardown(q)
  <2>1. voice' = V!Show(t, "error", NoVoice)
    BY <1>4 DEF V!NoiseRestored, V!Input, V!Fresh
  <2>2. /\ x \in VoiceShape /\ Reports(x) /\ x.flows = voice.flows /\ SameMic(voice, x)
        /\ x.crossed = voice.crossed
        /\ \A c \in VoiceChannel :
             Wants(x.recovery[c]) => Wants(voice.recovery[c]) /\ c # voice.channel
    BY LeftBehindFacts
  <2> HIDE DEF x
  <2>3. /\ z \in VoiceShape /\ z.flows[f] = V!NoFlow /\ SameMic(x, z) /\ z.recovery = x.recovery
        /\ z.crossed = x.crossed
        /\ \A g \in StoreFlow \ {f} : z.flows[g] = x.flows[g]
    BY <2>2, FreeFacts
  <2> HIDE DEF z
  <2>4. room \in Rooms
    BY <2>3 DEF VoiceShape, V!VoiceRec, Rooms
  <2> HIDE DEF room
  <2>5. /\ q \in VoiceShape /\ q.flows = z.flows /\ SameMic(z, q) /\ q.recovery = z.recovery
        /\ q.crossed = z.crossed
    BY <2>3, <2>4, RoomFacts
  <2> HIDE DEF q
  <2>6. /\ t \in VoiceShape /\ Bare(t) /\ t.leaked = q.leaked /\ t.recovery = q.recovery
        /\ t.crossed = q.crossed
        /\ \A g \in StoreFlow : Fades(q.flows[g], t.flows[g]) /\ t.flows[g].rec = q.flows[g].rec
    BY <2>5, TeardownFacts
  <2> HIDE DEF t
  <2>7. /\ voice' \in VoiceShape /\ voice'.status = "error" /\ SameMic(t, voice')
        /\ voice'.recovery = t.recovery /\ voice'.crossed = t.crossed
        /\ \A g \in StoreFlow : /\ Fades(t.flows[g], voice'.flows[g]) /\ ~voice'.flows[g].own
                                /\ voice'.flows[g].rec = t.flows[g].rec
    BY <2>1, <2>6, ShowFacts DEF V!Status, Rooms
  <2>8. Reports(voice')
    <3>1. \A g \in StoreFlow : voice'.flows[g].rec \in {x.flows[g].rec, NoVoice}
      BY <2>3, <2>5, <2>6, <2>7, NoFlowFacts
    <3>2. voice'.recovery = x.recovery
      BY <2>3, <2>5, <2>6, <2>7
    <3> QED BY <2>2, <3>1, <3>2, ReportsKept
  <2>9. ASSUME ~voice'.crossed PROVE Bare(voice') /\ ~voice'.leaked /\ NoRetry(voice')
    <3>1. Well(voice)
      BY <2>2, <2>3, <2>5, <2>6, <2>7, <2>9 DEF VoiceInv
    <3>2. NoRetry(voice')
      BY <3>1, <2>2, <2>3, <2>5, <2>6, <2>7 DEF NoRetry, Well, Retries
    <3> QED BY <3>1, <3>2, <2>2, <2>3, <2>5, <2>6, <2>7 DEF SameMic, Bare, Untouched, Touches, Fades,
               Well, Microphone
  <2> QED BY <2>7, <2>8, <2>9, BareWell
<1> QED BY <1>2, <1>3, <1>4 DEF VoiceInv

LEMMA ClearErrorStep == ASSUME VoiceInv(voice), V!ClearError PROVE VoiceInv(voice')
<1>1. /\ voice \in VoiceShape /\ Reports(voice) /\ voice.status = "error"
      /\ voice' = V!Show(voice, "idle", NoVoice)
  BY DEF V!ClearError, VoiceInv
<1>2. /\ voice' \in VoiceShape /\ voice'.status = "idle" /\ SameMic(voice, voice')
      /\ voice'.recovery = voice.recovery /\ voice'.crossed = voice.crossed
      /\ \A g \in StoreFlow : /\ Fades(voice.flows[g], voice'.flows[g]) /\ ~voice'.flows[g].own
                              /\ voice'.flows[g].rec = voice.flows[g].rec
  BY <1>1, ShowFacts DEF V!Status, Rooms
<1>3. Reports(voice')
  BY <1>2, <1>1, ReportsKept
<1>4. ASSUME ~voice'.crossed PROVE Bare(voice') /\ ~voice'.leaked /\ NoRetry(voice')
  BY <1>2, <1>4, <1>1, NotRetried DEF VoiceInv, Well, Microphone, NoRetry, Bare, SameMic, Untouched,
     Touches, Fades
<1> QED BY <1>2, <1>3, <1>4, BareWell

LEMMA SetNoiseModeStep == ASSUME VoiceInv(voice), V!SetNoiseMode PROVE VoiceInv(voice')
<1> DEFINE f == V!Slot
           w == [V!NoFlow EXCEPT !.at = "prepare", !.ch = voice.channel, !.fresh = TRUE]
           b == [voice EXCEPT !.busy = TRUE]
<1>1. /\ f \in StoreFlow /\ voice.flows[f].at = "none" /\ voice \in VoiceShape /\ Reports(voice)
      /\ ~voice.busy /\ voice.mic # "none"
      /\ voice.status \notin {"requesting_mic", "joining", "leaving"}
  BY SlotFacts DEF V!SetNoiseMode, VoiceInv
<1>2. voice' = V!Put(b, f, w)
  BY DEF V!SetNoiseMode
<1> HIDE DEF f
<1>3. /\ w.at = "prepare" /\ w.fresh /\ ~w.own /\ w.rec = NoVoice
      /\ Placed(w)
  <2>1. voice.channel \in VoiceChannel \cup {NoVoice}
    BY <1>1 DEF VoiceShape, V!VoiceRec
  <2> QED BY <2>1, InputKinds DEF V!NoFlow, Placed, V!FlowRec
<1> HIDE DEF w
<1>4. /\ b \in VoiceShape /\ b.flows = voice.flows /\ b.status = voice.status
      /\ b.channel = voice.channel /\ SameRoom(voice, b) /\ b.recovery = voice.recovery
      /\ b.peers = voice.peers /\ b.crossed = voice.crossed
      /\ b.saved = voice.saved /\ b.mic = voice.mic /\ b.leaked = voice.leaked /\ b.busy
  BY <1>1 DEF VoiceShape, V!VoiceRec, SameRoom
<1> HIDE DEF b
<1>5. /\ voice' \in VoiceShape /\ voice'.flows[f] = w
      /\ \A g \in StoreFlow \ {f} : voice'.flows[g] = voice.flows[g]
      /\ SameShown(voice, voice') /\ SameRoom(voice, voice') /\ voice'.recovery = voice.recovery
      /\ voice'.peers = voice.peers /\ voice'.crossed = voice.crossed
      /\ voice'.saved = voice.saved /\ voice'.mic = voice.mic /\ voice'.leaked = voice.leaked
      /\ voice'.busy
  BY <1>1, <1>2, <1>3, <1>4, PutFacts DEF SameShown, SameMic, SameRoom
<1>6. Reports(voice')
  BY <1>3, <1>5, <1>1, ReportsKept
<1>7. ASSUME ~voice'.crossed PROVE Well(voice')
  <2>1. Well(voice)
    BY <1>5, <1>7 DEF VoiceInv
  <2>2. voice.status \in {"active", "reconnecting"}
    BY <1>1, <2>1 DEF VoiceShape, V!VoiceRec, Bare, V!Status, Well, Microphone
  <2>3. \A g \in StoreFlow : Touches(voice.flows[g]) =>
          voice.flows[g].at \in Early /\ Handles(voice, voice.flows[g])
    BY <1>1, <2>1, InputKinds DEF Well, Microphone, Handles, Touches
  <2>4. ASSUME NEW g \in StoreFlow, Touches(voice'.flows[g]) PROVE Handles(voice', voice'.flows[g])
    BY <1>1, <2>1, <1>3, <1>5, <2>3, <2>4, InputKinds DEF Well, Microphone, Handles, Early,
       SameShown
  <2>5. ASSUME NEW g \in StoreFlow, NEW h \in StoreFlow, Touches(voice'.flows[g]), Touches(voice'.flows[h]),
               voice'.flows[g].at \in Early <=> voice'.flows[h].at \in Early
        PROVE  g = h
    BY <1>3, <1>5, <2>3, <2>5, <2>1 DEF Early, Well, Microphone
  <2>6. Microphone(voice')
    BY <1>1, <1>5, <2>1, <2>2, <2>4, <2>5 DEF Microphone, Well, SameShown
  <2>7. ASSUME NEW g \in StoreFlow, voice'.flows[g].own PROVE Counts(voice', voice'.flows[g])
    <3>1. voice.flows[g].own /\ Counts(voice, voice.flows[g]) /\ voice'.flows[g] = voice.flows[g]
      BY <1>3, <1>5, <2>1, <2>7 DEF Well, Owners
    <3> QED BY <1>1, <1>5, <2>2, <3>1 DEF Counts, Early, SameShown, SameRoom, NoRetry, Bare, Untouched
  <2>8. Owners(voice')
    BY <1>3, <1>5, <2>1, <2>7 DEF Well, Owners
  <2>9. Retries(voice')
    BY <1>5, <2>1 DEF Well, Retries, SameShown, SameRoom
  <2>10. Served(voice')
    BY <1>5, <2>1 DEF Well, Served, SameShown, SameRoom
  <2> QED BY <2>6, <2>8, <2>9, <2>10 DEF Well
<1> QED BY <1>5, <1>6, <1>7 DEF VoiceInv

LEMMA VoiceStarts == V!Init => VoiceInv(voice)
<1> SUFFICES ASSUME V!Init PROVE VoiceInv(voice)
  OBVIOUS
<1>1. /\ voice.status = "idle" /\ voice.channel = NoVoice /\ ~voice.saved /\ voice.mic = "none"
      /\ ~voice.busy /\ ~voice.leaked /\ voice.peers \in BOOLEAN /\ voice.crossed \in BOOLEAN
      /\ voice.flows = [f \in StoreFlow |-> V!NoFlow]
      /\ voice.recovery = [c \in VoiceChannel |-> V!NoRecovery]
  BY DEF V!Init
<1>2. voice \in V!VoiceRec
  <2> DEFINE fl == [f \in StoreFlow |-> V!NoFlow]
             rs == [c \in VoiceChannel |-> V!NoRecovery]
  <2>1. fl \in [StoreFlow -> V!FlowRec] /\ rs \in [VoiceChannel -> V!RecoveryRec]
    BY NoFlowFacts, NoRecoveryFacts DEF Placed
  <2>2. voice \in [status: {"idle"}, channel: {NoVoice}, saved: {FALSE}, mic: {"none"},
                  peers: {FALSE}, busy: {FALSE}, flows: {fl}, recovery: {rs},
                  link: {TRUE}, joined: {NoVoice}, sfu: BOOLEAN, leaked: {FALSE}, crossed: {FALSE}]
    BY DEF V!Init
  <2> HIDE DEF fl, rs
  <2> QED BY <2>1, <2>2 DEF V!VoiceRec, V!Status
<1>3. voice \in VoiceShape
  BY <1>1, <1>2, NoFlowFacts DEF VoiceShape
<1>4. Reports(voice)
  BY <1>1, NoFlowFacts, NoRecoveryFacts DEF Reports
<1>5. Bare(voice) /\ NoRetry(voice) /\ \A g \in StoreFlow : ~voice.flows[g].own
  BY <1>1, NoFlowFacts, NoRecoveryFacts DEF Bare, Untouched, Touches, NoRetry
<1> QED BY <1>1, <1>3, <1>4, <1>5, BareWell

LEMMA VoiceStep == VoiceInv(voice) /\ [V!Next]_(V!voiceVars) => VoiceInv(voice')
<1> SUFFICES ASSUME VoiceInv(voice), [V!Next]_(V!voiceVars) PROVE VoiceInv(voice')
  OBVIOUS
<1>1. ASSUME NEW f \in StoreFlow, V!Step(f) PROVE VoiceInv(voice')
  BY <1>1, PreleftStep, MicGrantedStep, MicDeniedStep, MicReadyStep, MicReplacedStep, JoinedStep,
     ConnectedStep, UndoneStep, LeftStep, RejoinedStep, ReestablishedStep, MediaAnsweredStep,
     MediaRebuiltStep, NoisePreparedStep, NoiseSwappedStep, NoiseRestoredStep DEF V!Step
<1>2. ASSUME NEW c \in VoiceChannel, V!Join(c) \/ V!Retry(c) PROVE VoiceInv(voice')
  BY <1>2, JoinStep, RetryStep
<1>3. CASE V!Leave \/ V!Drop \/ V!Reconnected \/ V!Disconnected \/ V!ModeUpdated \/ V!Evicted
  BY <1>3, LeaveStep, DropStep, ReconnectedStep, DisconnectedStep, ModeUpdatedStep, EvictedStep
<1>4. CASE V!ConnectionFails \/ V!Abandon \/ V!SetNoiseMode \/ V!ClearError
  BY <1>4, ConnectionFailsStep, AbandonStep, SetNoiseModeStep, ClearErrorStep
<1>5. CASE UNCHANGED V!voiceVars
  BY <1>5 DEF V!voiceVars
<1> QED BY <1>1, <1>2, <1>3, <1>4, <1>5 DEF V!Next

VoiceHolding == VoiceInv(voice)

LEMMA VoiceHolds == V!Spec => []VoiceHolding
<1>1. V!Init => VoiceHolding
  BY VoiceStarts DEF VoiceHolding
<1>2. VoiceHolding /\ [V!Next]_(V!voiceVars) => VoiceHolding'
  BY VoiceStep DEF VoiceHolding
<1> QED BY <1>1, <1>2, PTL DEF V!Spec

LEMMA VoicePromises == VoiceHolding => MicReleased /\ ActiveIsServed /\ RecoveryIsWanted
<1> SUFFICES ASSUME VoiceInv(voice) PROVE MicReleased /\ ActiveIsServed /\ RecoveryIsWanted
  BY DEF VoiceHolding
<1>1. MicReleased
  BY DEF MicReleased, V!MicReleased, VoiceInv, Well, Microphone, Bare
<1>2. ActiveIsServed
  BY DEF ActiveIsServed, V!ActiveIsServed, VoiceInv, Well, Served, Microphone
<1>3. RecoveryIsWanted
  BY DEF RecoveryIsWanted, V!RecoveryIsWanted, VoiceInv, Well, Retries, Wants
<1> QED BY <1>1, <1>2, <1>3

\* The microphone of a voice session is released with it: however the functions of
\* voice-store.ts interleave, with drops, refusals, timeouts and failed setups between any two
\* of their awaits, an idle or failed session holds no capture and none was forgotten, until
\* an outcome of one function has landed on another's session (crossed).
THEOREM MicReleasedTheorem == V!Spec => []MicReleased
BY VoiceHolds, VoicePromises, PTL

\* A session shown as active is in the room shown, has peers and has a microphone, until an
\* outcome of one function has landed on another's session (crossed).
THEOREM ActiveIsServedTheorem == V!Spec => []ActiveIsServed
BY VoiceHolds, VoicePromises, PTL

\* The recovery store retries only the session that is being connected again, but for the
\* recovery that a change of the noise mode left behind (left), and until an outcome of one
\* function has landed on another's session (crossed).
THEOREM RecoveryIsWantedTheorem == V!Spec => []RecoveryIsWanted
BY VoiceHolds, VoicePromises, PTL
=============================================================================
