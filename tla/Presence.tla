------------------------------ MODULE Presence ------------------------------
(***************************************************************************)
(* The online roster: apps/gateway/src/ws/presence-manager.ts, the part of *)
(* the authentication and close handlers that calls it, and what the       *)
(* client makes of presence.updated (gateway-store.ts).                    *)
(*                                                                         *)
(* Redis answers commands in the order they were sent (one connection), so *)
(* `redis' is a queue; each handler has one command of its own in it at a  *)
(* time.  An event reaches its client in the order the gateway sent it, so *)
(* it is applied to the client's map (`view') when it is sent.  A socket is*)
(* one connection from attach to close; user names are never null.         *)
(***************************************************************************)
EXTENDS Naturals, Sequences, FiniteSets

CONSTANTS
  Conn,         \* connections at once
  User,
  NoUser,
  MaxArrivals,  \* bound: connections made
  MaxErrors     \* bound: Redis commands that fail

VARIABLES
  open,      \* attached connections
  user,      \* Conn -> connection.userId
  snap,      \* Conn -> sendSnapshotTo in flight: the stage and the snapshot
  redis,     \* commands sent to Redis and not yet answered
  hash,      \* bakr:presence:connections, a field that is absent is 0
  names,     \* usernameCache
  view,      \* Conn -> User -> connectionCount in the client's presenceMap
  misled,    \* Conn -> users its snapshot was wrong about when it was sent, and
             \* of whom no count was broadcast since
  dirty,     \* users whose count was lost on its way to the hash, or overwritten
             \* by one that was wrong by then, and not written since
  arrivals, errors

vars == <<open, user, snap, redis, hash, names, view, misled, dirty, arrivals, errors>>

Counts == [User -> 0..Cardinality(Conn)]
Nobody == [u \in User |-> 0]
Resting == [at |-> "none", who |-> NoUser, roster |-> Nobody, todo |-> {}]

TypeOK ==
  /\ open \subseteq Conn
  /\ user \in [Conn -> User \cup {NoUser}]
  /\ \A c \in Conn : /\ snap[c].at \in {"none", "read", "write", "rosters"}
                     /\ snap[c].who \in User \cup {NoUser}
                     /\ snap[c].roster \in Counts
                     /\ snap[c].todo \subseteq User
  /\ \A i \in 1..Len(redis) : redis[i].op \in {"persist", "read", "write"}
  /\ hash \in Counts
  /\ names \subseteq User
  /\ view \in [Conn -> Counts]
  /\ misled \in [Conn -> SUBSET User]
  /\ dirty \subseteq User
  /\ arrivals \in 0..MaxArrivals /\ errors \in 0..MaxErrors

Init ==
  /\ open = {}
  /\ user = [c \in Conn |-> NoUser]
  /\ snap = [c \in Conn |-> Resting]
  /\ redis = <<>>
  /\ hash = Nobody
  /\ names = {}
  /\ view = [c \in Conn |-> Nobody]
  /\ misled = [c \in Conn |-> {}]
  /\ dirty = {}
  /\ arrivals = 0 /\ errors = 0

-----------------------------------------------------------------------------

\* getLocalConnectionCount, over the connections of one map.
CountIn(who, u) == Cardinality({c \in Conn : who[c] = u})

Persist(u, n) == [op |-> "persist", c |-> CHOOSE c \in Conn : TRUE, u |-> u, n |-> n]
Command(op, c, u, n) == [op |-> op, c |-> c, u |-> u, n |-> n]

Pending == {c \in Conn : snap[c].at # "none"}

\* ConnectionManager.attach and the ready event, on which the client empties
\* its map.
Attach ==
  LET free == {d \in Conn \ open : snap[d].at = "none"}
      c == CHOOSE d \in free : TRUE
  IN
  /\ free # {}
  /\ arrivals < MaxArrivals
  /\ arrivals' = arrivals + 1
  /\ open' = open \cup {c}
  /\ view' = [view EXCEPT ![c] = Nobody]
  /\ misled' = [misled EXCEPT ![c] = {}]
  /\ UNCHANGED <<user, snap, redis, hash, names, dirty, errors>>

\* handleAuthenticate from markAuthenticated on: the snapshot of the others
\* is taken at once, and reconciled with the hash before it is sent.
Authenticate(c, u) ==
  /\ c \in open /\ user[c] = NoUser /\ snap[c].at = "none"
  /\ user' = [user EXCEPT ![c] = u]
  /\ snap' = [snap EXCEPT ![c] =
       [at |-> "read", who |-> u, todo |-> {}, roster |-> [v \in User |-> CountIn(user, v)]]]
  /\ redis' = Append(redis, Command("read", c, u, 0))
  /\ UNCHANGED <<open, hash, names, view, misled, dirty, arrivals, errors>>

\* Mutant of Detach: the leaving connection is counted.
DetachCounted(c) ==
  /\ c \in open
  /\ open' = open \ {c}
  /\ user' = [user EXCEPT ![c] = NoUser]
  /\ IF user[c] = NoUser
     THEN UNCHANGED redis
     ELSE redis' = Append(redis, Persist(user[c], CountIn(user, user[c])))
  /\ UNCHANGED <<snap, hash, names, view, misled, dirty, arrivals, errors>>

\* The close handler: detach, then onDisconnect counts what is left.
Detach(c) ==
  /\ c \in open
  /\ open' = open \ {c}
  /\ user' = [user EXCEPT ![c] = NoUser]
  /\ IF user[c] = NoUser
     THEN UNCHANGED redis
     ELSE redis' = Append(redis, Persist(user[c], CountIn(user', user[c])))
  /\ UNCHANGED <<snap, hash, names, view, misled, dirty, arrivals, errors>>

\* Mutant of OnConnect: the connection, counted already, is added.
OnConnectAdded(c) ==
  /\ snap[c].at = "rosters"
  /\ names' = names \cup {snap[c].who}
  /\ redis' = Append(redis, Persist(snap[c].who, CountIn(user, snap[c].who) + 1))
  /\ snap' = [snap EXCEPT ![c] = Resting]
  /\ UNCHANGED <<open, user, hash, view, misled, dirty, arrivals, errors>>

\* onConnect, after the rosters of the voice channels were sent.
OnConnect(c) ==
  /\ snap[c].at = "rosters"
  /\ names' = names \cup {snap[c].who}
  /\ redis' = Append(redis, Persist(snap[c].who, CountIn(user, snap[c].who)))
  /\ snap' = [snap EXCEPT ![c] = Resting]
  /\ UNCHANGED <<open, user, hash, view, misled, dirty, arrivals, errors>>

-----------------------------------------------------------------------------
(* Redis answers the oldest command, or fails it.                          *)

Outcome(ok) ==
  /\ redis # <<>>
  /\ ok \/ errors < MaxErrors
  /\ errors' = IF ok THEN errors ELSE errors + 1

\* Mutants of Persisted: an empty count is not removed from the hash; a name
\* goes while a connection of the user remains.
PersistedNeverPrunes(ok) ==
  LET r == Head(redis)
  IN /\ Outcome(ok)
     /\ r.op = "persist"
     /\ hash' = IF ok /\ r.n > 0 THEN [hash EXCEPT ![r.u] = r.n] ELSE hash
     /\ dirty' = IF ok THEN dirty \ {r.u} ELSE dirty \cup {r.u}
     /\ view' = [c \in Conn |-> IF c \in open THEN [view[c] EXCEPT ![r.u] = r.n] ELSE view[c]]
     /\ misled' = [c \in Conn |-> misled[c] \ {r.u}]
     /\ names' = IF r.n = 0 THEN names \ {r.u} ELSE names
     /\ redis' = Tail(redis)
     /\ UNCHANGED <<open, user, snap, arrivals>>

\* broadcast, to every attached connection, whatever Redis said.
Persisted(ok) ==
  LET r == Head(redis)
  IN /\ Outcome(ok)
     /\ r.op = "persist"
     /\ hash' = IF ok THEN [hash EXCEPT ![r.u] = r.n] ELSE hash
     /\ dirty' = IF ok THEN dirty \ {r.u} ELSE dirty \cup {r.u}
     /\ view' = [c \in Conn |-> IF c \in open THEN [view[c] EXCEPT ![r.u] = r.n] ELSE view[c]]
     /\ misled' = [c \in Conn |-> misled[c] \ {r.u}]
     /\ names' = IF r.n = 0 THEN names \ {r.u} ELSE names
     /\ redis' = Tail(redis)
     /\ UNCHANGED <<open, user, snap, arrivals>>

\* The rest of sendSnapshotTo once nothing is left to reconcile: the online
\* users are sent, over what broadcasts may have said meanwhile.
Deliver(c, todo) ==
  LET roster == snap[c].roster
  IN IF todo = {}
     THEN /\ snap' = [snap EXCEPT ![c].at = "rosters", ![c].todo = {}]
          /\ view' = IF c \in open
                     THEN [view EXCEPT ![c] = [u \in User |-> IF roster[u] > 0 THEN roster[u] ELSE @[u]]]
                     ELSE view
          /\ misled' = [misled EXCEPT ![c] = {u \in User : roster[u] \notin {0, CountIn(user, u)}}]
          /\ redis' = Tail(redis)
     ELSE LET u == CHOOSE v \in todo : TRUE
          IN /\ snap' = [snap EXCEPT ![c].at = "write", ![c].todo = todo]
             /\ redis' = Append(Tail(redis), Command("write", c, u, roster[u]))
             /\ UNCHANGED <<view, misled>>

\* reconcileRedisSnapshot: the entries that differ are pruned or rewritten,
\* one command at a time; without the hash nothing is reconciled.
HashRead(ok) ==
  LET r == Head(redis)
      differ == {u \in User : hash[u] # snap[r.c].roster[u]}
  IN /\ Outcome(ok)
     /\ r.op = "read"
     /\ Deliver(r.c, IF ok THEN differ ELSE {})
     /\ UNCHANGED <<open, user, hash, names, dirty, arrivals>>

HashWritten(ok) ==
  LET r == Head(redis)
  IN /\ Outcome(ok)
     /\ r.op = "write"
     /\ hash' = IF ok THEN [hash EXCEPT ![r.u] = r.n] ELSE hash
     /\ dirty' = CASE ~ok -> dirty
                   [] ok /\ r.n = CountIn(user, r.u) -> dirty \ {r.u}
                   [] ok /\ r.n # CountIn(user, r.u) -> dirty \cup {r.u}
     /\ Deliver(r.c, snap[r.c].todo \ {r.u})
     /\ UNCHANGED <<open, user, names, arrivals>>

-----------------------------------------------------------------------------

Next ==
  \/ Attach
  \/ \E c \in Conn : Detach(c) \/ OnConnect(c) \/ \E u \in User : Authenticate(c, u)
  \/ \E ok \in BOOLEAN : Persisted(ok) \/ HashRead(ok) \/ HashWritten(ok)

Spec == Init /\ [][Next]_vars

-----------------------------------------------------------------------------
(* Properties.  Quiet: every handler has run to its end.                   *)

Quiet == redis = <<>> /\ Pending = {}

\* Once the handlers have ended, every signed-in client shows exactly the
\* users that are connected, with their number of connections: counts taken
\* before a Redis call are sent after it, in an order that keeps the last one
\* right, and Redis errors do not matter.  One thing can spoil an entry: the
\* client's own snapshot, taken before the awaits, which was wrong about the
\* user by the time it was sent, after the user's last broadcast (misled).
RosterExact ==
  Quiet => \A c \in open, u \in User :
             user[c] # NoUser /\ u \notin misled[c] => view[c][u] = CountIn(user, u)

\* The mirror in Redis then agrees with the connections, but for users whose
\* last count Redis refused, or whose entry was last written back from a
\* snapshot that was wrong about them by then (dirty).
MirrorExact == Quiet => \A u \in User \ dirty : hash[u] = CountIn(user, u)
=============================================================================
