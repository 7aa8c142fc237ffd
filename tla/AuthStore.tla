----------------------------- MODULE AuthStore -----------------------------
(***************************************************************************)
(* Signing in: the client's packages/client/src/features/auth/auth-store.ts*)
(* with the effect of AppRoot.tsx and the server switch of DesktopApp.tsx  *)
(* that drive it, against the /v1/auth routes of apps/api (routes/auth.ts) *)
(* of every server the desktop client knows.                               *)
(*                                                                         *)
(* A scope is a server: the store remembers one session per scope, and the *)
(* switch changes the scope under the requests in flight.  A session is a  *)
(* row of auth_sessions with its chain of refresh tokens; the access token *)
(* is the session, and a request with it may find it expired (401).  An Op *)
(* is one async method of the store.  Saving and clearing the stored       *)
(* session take effect when they are called and are awaited; that they may *)
(* fail is left out, and so are passwords, names and the chat cache.       *)
(***************************************************************************)
EXTENDS Naturals, FiniteSets

CONSTANTS
  Scope,        \* servers
  Op,           \* methods in flight at once
  MaxSessions,  \* bound: rows of auth_sessions
  MaxTokens,    \* bound: refresh tokens made, of all sessions
  MaxSwitches,  \* bound: server switches
  NoScope

VARIABLES
  home,        \* session -> the server that has it, NoScope while unused
  revoked,     \* sessions with revokedAt set
  issued,      \* session -> refresh tokens made
  spent,       \* refresh tokens with revokedAt set
  scope,       \* activeSessionScope, and the scope of activeSessionPersistence
  generation,  \* activeSessionGeneration
  memory,      \* the store's accessToken and refreshToken
  stored,      \* Scope -> what the persistence of the scope holds
  booting,     \* isBootstrapping
  loading,     \* isLoading
  pending,     \* the AppRoot effect of a switch is still to run
  ops, switches

vars == <<home, revoked, issued, spent, scope, generation, memory, stored,
          booting, loading, pending, ops, switches>>
server == <<home, revoked, issued, spent>>
client == <<scope, generation, memory, stored, booting, loading, pending, switches>>

SessionId == 1..MaxSessions
Token == SessionId \X (1..MaxTokens)
None == <<0, 0>>
Idle == [kind |-> "none", at |-> "idle", gen |-> 0, scope |-> NoScope, token |-> None, got |-> None]
Kind == {"none", "activate", "bootstrap", "login", "rename", "logout", "refresh"}
At == {"idle", "load", "me", "me2", "sent", "found", "revoking", "answered", "refused",
       "gaveup", "renamed", "save", "clear"}

TypeOK ==
  /\ home \in [SessionId -> Scope \cup {NoScope}]
  /\ revoked \subseteq SessionId
  /\ issued \in [SessionId -> 0..MaxTokens]
  /\ spent \subseteq Token
  /\ scope \in Scope /\ pending \in Scope \cup {NoScope}
  /\ generation \in 0..(1 + 2 * MaxSwitches) /\ switches \in 0..MaxSwitches
  /\ memory \in Token \cup {None}
  /\ stored \in [Scope -> Token \cup {None}]
  /\ booting \in BOOLEAN /\ loading \in BOOLEAN
  /\ \A o \in Op : /\ ops[o].kind \in Kind /\ ops[o].at \in At
                   /\ ops[o].gen \in 0..generation
                   /\ ops[o].scope \in Scope \cup {NoScope}
                   /\ {ops[o].token, ops[o].got} \subseteq Token \cup {None}

Init ==
  /\ home = [s \in SessionId |-> NoScope]
  /\ revoked = {}
  /\ issued = [s \in SessionId |-> 0]
  /\ spent = {}
  /\ scope = CHOOSE x \in Scope : TRUE
  /\ generation = 0
  /\ memory = None
  /\ stored = [x \in Scope |-> None]
  /\ booting = FALSE
  /\ loading = FALSE
  /\ pending = scope
  /\ ops = [o \in Op |-> Idle]
  /\ switches = 0

-----------------------------------------------------------------------------

MayIssue == Cardinality({t \in Token : t[2] <= issued[t[1]]}) < MaxTokens
Active(t) == t # None /\ t[2] <= issued[t[1]] /\ t \notin spent
Live(s) == s # 0 /\ s \notin revoked

Free == {o \in Op : ops[o] = Idle}
Start(kind, at, token) ==
  /\ Free # {}
  /\ ops' = [ops EXCEPT ![CHOOSE o \in Free : TRUE] =
       [kind |-> kind, at |-> at, gen |-> generation, scope |-> scope, token |-> token, got |-> None]]
Move(o, at) == ops' = [ops EXCEPT ![o].at = at]
Answer(o, t) == ops' = [ops EXCEPT ![o].at = "answered", ![o].got = t]
End(o) == ops' = [ops EXCEPT ![o] = Idle]
Running(o, at) == ops[o].at = at
Current(o) == ops[o].gen = generation

SetMemory(t) == memory' = t

-----------------------------------------------------------------------------
(* The server.                                                             *)

\* /v1/auth/login and /v1/auth/register: a new session with its first token.
NewSession(o) ==
  /\ Running(o, "sent") /\ ops[o].kind = "login"
  /\ MayIssue
  /\ \E s \in SessionId : /\ home[s] = NoScope
                          /\ \A r \in 1..(s - 1) : home[r] # NoScope
                          /\ home' = [home EXCEPT ![s] = ops[o].scope]
                          /\ issued' = [issued EXCEPT ![s] = 1]
                          /\ Answer(o, <<s, 1>>)
  /\ UNCHANGED <<revoked, spent, client>>

\* /v1/auth/refresh looks the token and its session up ...
FindToken(o) ==
  LET t == ops[o].token
  IN /\ Running(o, "sent") /\ ops[o].kind \in {"refresh", "bootstrap"}
     /\ Move(o, IF Active(t) /\ Live(t[1]) THEN "found" ELSE "refused")
     /\ UNCHANGED <<server, client>>

\* ... then revokes it, touches the session and issues the next one, without
\* looking again.
Exchange(o) ==
  LET t == ops[o].token  s == t[1]
  IN /\ Running(o, "found")
     /\ MayIssue
     /\ spent' = spent \cup {t}
     /\ issued' = [issued EXCEPT ![s] = @ + 1]
     /\ Answer(o, <<s, issued[s] + 1>>)
     /\ UNCHANGED <<home, revoked, client>>

\* /v1/auth/logout: the session, then its refresh tokens.
RevokeSession(o) ==
  LET s == ops[o].token[1]
  IN /\ Running(o, "sent") /\ ops[o].kind = "logout"
     /\ IF Live(s) THEN revoked' = revoked \cup {s} /\ Move(o, "revoking")
                   ELSE UNCHANGED revoked /\ Move(o, "answered")
     /\ UNCHANGED <<home, issued, spent, client>>

RevokeTokens(o) ==
  LET s == ops[o].token[1]
  IN /\ Running(o, "revoking")
     /\ spent' = spent \cup {t \in Token : t[1] = s /\ t[2] <= issued[s]}
     /\ Move(o, "answered")
     /\ UNCHANGED <<home, revoked, issued, client>>

\* GET and PATCH /v1/auth/me, for an access token that has not expired.
Me(o) ==
  /\ \/ ops[o].at \in {"me", "me2"} /\ Move(o, "renamed")
     \/ Running(o, "sent") /\ ops[o].kind = "rename" /\ Move(o, "renamed")
  /\ Live(ops[o].token[1])
  /\ UNCHANGED <<server, client>>

\* A 401 on the first /me makes bootstrapSession call refreshTokens.
Unauthorized(o) ==
  /\ Running(o, "me")
  /\ IF Current(o) /\ memory # None
     THEN ops' = [ops EXCEPT ![o].at = "sent", ![o].token = memory]
     ELSE Move(o, "gaveup")
  /\ UNCHANGED <<server, client>>

\* Any request may fail, also after the server has done its part.
Fails(o) ==
  /\ \/ ops[o].at \in {"me", "me2", "sent", "found", "revoking"}
     \/ Running(o, "answered") /\ ops[o].kind # "logout"
  /\ Move(o, CASE ops[o].kind = "logout" -> "answered"
               [] Running(o, "me") -> "gaveup"
               [] OTHER -> "refused")
  /\ UNCHANGED <<server, client>>

-----------------------------------------------------------------------------
(* The client: switching the server.                                       *)

\* Mutant of SwitchServer: the generations start over.
SwitchServerFromZero(x) ==
  /\ switches < MaxSwitches
  /\ pending = NoScope
  /\ switches' = switches + 1
  /\ generation' = 0
  /\ SetMemory(None)
  /\ booting' = FALSE /\ loading' = FALSE
  /\ pending' = x
  /\ UNCHANGED <<server, scope, stored, ops>>

\* commitActiveServer and the removal of the active server.
SwitchServer(x) ==
  /\ switches < MaxSwitches
  /\ pending = NoScope
  /\ switches' = switches + 1
  /\ generation' = generation + 1
  /\ SetMemory(None)
  /\ booting' = FALSE /\ loading' = FALSE
  /\ pending' = x
  /\ UNCHANGED <<server, scope, stored, ops>>

\* activateSessionPersistence, called by the effect of AppRoot.
Activate ==
  /\ pending # NoScope
  /\ Free # {}
  /\ pending' = NoScope
  /\ scope' = pending
  /\ generation' = generation + 1
  /\ SetMemory(None)
  /\ booting' = TRUE /\ loading' = FALSE
  /\ ops' = [ops EXCEPT ![CHOOSE o \in Free : TRUE] =
       [Idle EXCEPT !.kind = "activate", !.at = "load", !.gen = generation', !.scope = pending]]
  /\ UNCHANGED <<server, stored, switches>>

\* The stored session is put into the store, and bootstrapSession begins.
Loaded(o) ==
  LET t == stored[ops[o].scope]
  IN /\ Running(o, "load")
     /\ IF Current(o)
        THEN /\ SetMemory(t)
             /\ booting' = (t # None)
             /\ ops' = [ops EXCEPT ![o] = IF t = None THEN Idle
                  ELSE [@ EXCEPT !.kind = "bootstrap", !.at = "me", !.token = t]]
        ELSE End(o) /\ UNCHANGED <<memory, booting>>
     /\ UNCHANGED <<server, scope, generation, stored, loading, pending, switches>>

-----------------------------------------------------------------------------
(* The client: the user's methods.                                         *)

\* login and register, from the view shown without an access token.
Login ==
  /\ memory = None /\ pending = NoScope /\ ~booting /\ ~loading
  /\ Start("login", "sent", None)
  /\ loading' = TRUE
  /\ UNCHANGED <<server, scope, generation, memory, stored, booting, pending, switches>>

UpdateUsername ==
  /\ memory # None /\ ~booting /\ ~loading
  /\ Start("rename", "sent", memory)
  /\ loading' = TRUE
  /\ UNCHANGED <<server, scope, generation, memory, stored, booting, pending, switches>>

\* refreshTokens, from the gateway's TOKEN_EXPIRED.
RefreshTokens ==
  /\ memory # None /\ ~booting
  /\ \A o \in Op : ops[o].kind # "refresh"
  /\ Start("refresh", "sent", memory)
  /\ UNCHANGED <<server, client>>

\* logout, with the api (the user) or without it (the gateway's TOKEN_INVALID).
Logout ==
  /\ memory # None /\ ~booting
  /\ Start("logout", "sent", memory) \/ Start("logout", "answered", memory)
  /\ UNCHANGED <<server, client>>

-----------------------------------------------------------------------------
(* The client: what follows an answer.  Each await is followed by a        *)
(* comparison of the generation, except before logout clears.              *)

\* A stale method leaves everything alone.
Superseded(o) ==
  /\ ops[o].at \in {"answered", "renamed", "refused", "gaveup", "save", "clear"}
  /\ ops[o].kind # "logout" \/ ops[o].at = "clear"
  /\ ~Current(o)
  /\ End(o)
  /\ UNCHANGED <<server, client>>

Store(t) == stored' = [stored EXCEPT ![scope] = t]

\* saveActiveSession: new tokens, or those the method began with, or, after
\* the second /me, the new access token with the refresh token of the store.
Save(o) ==
  /\ Current(o)
  /\ \/ /\ Running(o, "answered") /\ ops[o].kind # "logout"
        /\ Store(ops[o].got)
        /\ Move(o, "save")
     \/ /\ Running(o, "renamed")
        /\ IF ops[o].got = None THEN Store(ops[o].token)
           ELSE IF memory = None THEN UNCHANGED stored ELSE Store(memory)
        /\ ops' = [ops EXCEPT ![o].at = "save", ![o].got = None]
  /\ UNCHANGED <<server, scope, generation, memory, booting, loading, pending, switches>>

\* Mutant of Commit: the generation is not compared after the save.
CommitUnchecked(o) ==
  LET again == ops[o].kind = "bootstrap" /\ ops[o].got # None
  IN /\ Running(o, "save")
     /\ IF ops[o].got = None THEN UNCHANGED memory ELSE SetMemory(ops[o].got)
     /\ IF again THEN Move(o, "me2") ELSE End(o)
     /\ booting' = (booting /\ (again \/ ops[o].kind \notin {"bootstrap", "login"}))
     /\ loading' = (loading /\ ops[o].kind \notin {"login", "rename"})
     /\ UNCHANGED <<server, scope, generation, stored, pending, switches>>

\* After the save the tokens are put into the store; a bootstrap that had to
\* refresh asks for the user again, a rename changes the user only.
Commit(o) ==
  LET again == ops[o].kind = "bootstrap" /\ ops[o].got # None
  IN /\ Running(o, "save") /\ Current(o)
     /\ IF ops[o].got = None THEN UNCHANGED memory ELSE SetMemory(ops[o].got)
     /\ IF again THEN Move(o, "me2") ELSE End(o)
     /\ booting' = (booting /\ (again \/ ops[o].kind \notin {"bootstrap", "login"}))
     /\ loading' = (loading /\ ops[o].kind \notin {"login", "rename"})
     /\ UNCHANGED <<server, scope, generation, stored, pending, switches>>

\* Mutant of Reported: the bootstrap is not shown to have ended.
ReportedSilently(o) ==
  /\ Current(o)
  /\ Running(o, "gaveup") \/ (Running(o, "refused") /\ ops[o].kind \in {"login", "rename"})
  /\ End(o)
  /\ loading' = (loading /\ ops[o].kind \notin {"login", "rename"})
  /\ UNCHANGED <<server, scope, generation, memory, stored, booting, pending, switches>>

\* A failed first /me ends the bootstrap; a refused login or rename reports.
Reported(o) ==
  /\ Current(o)
  /\ Running(o, "gaveup") \/ (Running(o, "refused") /\ ops[o].kind \in {"login", "rename"})
  /\ End(o)
  /\ booting' = (booting /\ ops[o].kind # "bootstrap")
  /\ loading' = (loading /\ ops[o].kind \notin {"login", "rename"})
  /\ UNCHANGED <<server, scope, generation, memory, stored, pending, switches>>

\* A refused refresh, and a failed second /me, force a logout.
Refused(o) ==
  /\ Running(o, "refused") /\ Current(o)
  /\ ops[o].kind \in {"refresh", "bootstrap"}
  /\ Store(None)
  /\ Move(o, "clear")
  /\ UNCHANGED <<server, scope, generation, memory, booting, loading, pending, switches>>

\* logout clears the persistence it began with, whatever the scope is now.
LogoutClears(o) ==
  /\ Running(o, "answered") /\ ops[o].kind = "logout"
  /\ stored' = [stored EXCEPT ![ops[o].scope] = None]
  /\ Move(o, "clear")
  /\ UNCHANGED <<server, scope, generation, memory, booting, loading, pending, switches>>

Cleared(o) ==
  /\ Running(o, "clear") /\ Current(o)
  /\ SetMemory(None)
  /\ booting' = IF ops[o].kind \in {"logout", "bootstrap"} THEN FALSE ELSE booting
  /\ End(o)
  /\ UNCHANGED <<server, scope, generation, stored, loading, pending, switches>>

-----------------------------------------------------------------------------

Next ==
  \/ Activate \/ Login \/ UpdateUsername \/ RefreshTokens \/ Logout
  \/ \E x \in Scope : SwitchServer(x)
  \/ \E o \in Op :
       \/ NewSession(o) \/ FindToken(o) \/ Exchange(o) \/ RevokeSession(o) \/ RevokeTokens(o)
       \/ Me(o) \/ Unauthorized(o) \/ Fails(o) \/ Loaded(o) \/ Superseded(o) \/ Save(o)
       \/ Commit(o) \/ Reported(o) \/ Refused(o) \/ LogoutClears(o) \/ Cleared(o)

Spec == Init /\ [][Next]_vars

-----------------------------------------------------------------------------
(* Properties.                                                             *)

\* A server never sees, and its stored session never holds, a token another
\* server issued, whatever was in flight when the user switched servers.
ScopeIsolation ==
  /\ memory # None => home[memory[1]] = scope
  /\ \A x \in Scope : stored[x] # None => home[stored[x][1]] = x

\* When nothing is in flight the views are usable: no method that lost its
\* race left a spinner behind.
QuietIsReady ==
  (\A o \in Op : ops[o] = Idle) /\ pending = NoScope => ~booting /\ ~loading
=============================================================================
