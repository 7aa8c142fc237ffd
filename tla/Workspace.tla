------------------------------ MODULE Workspace ------------------------------
(***************************************************************************)
(* The shared workspace in the database: registration (POST                *)
(* /v1/auth/register and /v1/admin/users with lib/default-workspace.ts)    *)
(* and the channels of the admin panel (routes/system.ts), over the        *)
(* repositories of packages/db.                                            *)
(*                                                                         *)
(* PostgreSQL (external) runs the transactions at READ COMMITTED: each     *)
(* statement sees what was committed before it and its own transaction; an *)
(* insert of a unique key, and an update or delete of a row, wait for the  *)
(* transaction that has it; of two that wait for each other one is ended.  *)
(* A user is its email.  Passwords, names and sessions are left out.       *)
(***************************************************************************)
EXTENDS Naturals, FiniteSets

CONSTANTS
  Email,
  Channel,    \* channel ids
  Request,    \* requests in flight at once
  NoOne, NoChannel,
  MaxFaults   \* bound: transactions that fail

VARIABLES
  users, members,  \* committed rows of users and guild_members
  guild,           \* owner of the workspace, or NoOne
  founders,        \* the users whose transaction made default channels
  channels,        \* Channel -> [type, position], type "none" while absent
  requests,        \* Request -> RequestRec
  skewed,          \* types of which two channels passed the check for siblings at once
  faults

workspaceVars == <<users, members, guild, founders, channels, requests, skewed, faults>>

ChannelRec == [type: {"none", "gone", "text", "voice"}, position: 0..Cardinality(Channel)]
At == {"idle", "insert", "find", "found", "text", "voice", "reload", "join", "commit",
       "count", "check", "delete", "renumber"}
RequestRec == [at: At, email: Email \cup {NoOne},
               owner: BOOLEAN,                \* it inserted the workspace
               new: [Channel -> ChannelRec],  \* what it inserted or updated
               ch: Channel \cup {NoChannel}, position: 0..Cardinality(Channel),
               deleted: BOOLEAN]

Absent == [type |-> "none", position |-> 0]
Nothing == [c \in Channel |-> Absent]
Idle == [at |-> "idle", email |-> NoOne, owner |-> FALSE, new |-> Nothing,
         ch |-> NoChannel, position |-> 0, deleted |-> FALSE]

TypeOK ==
  /\ users \subseteq Email /\ members \subseteq Email /\ founders \subseteq Email
  /\ guild \in Email \cup {NoOne}
  /\ channels \in [Channel -> ChannelRec]
  /\ requests \in [Request -> RequestRec]
  /\ skewed \subseteq {"text", "voice"} /\ faults \in 0..MaxFaults

Init ==
  /\ users = {} /\ members = {} /\ founders = {}
  /\ guild = NoOne
  /\ channels = Nothing
  /\ requests = [r \in Request |-> Idle]
  /\ skewed = {} /\ faults = 0

-----------------------------------------------------------------------------

Is(r, at) == requests[r].at = at
Goto(r, at) == requests' = [requests EXCEPT ![r].at = at]
End(r) == requests' = [requests EXCEPT ![r] = Idle]
Others(r) == Request \ {r}
Database == <<users, members, guild, founders, channels>>
Counters == <<skewed, faults>>

Exists(c) == channels[c].type \in {"text", "voice"}
OfType(t) == {c \in Channel : channels[c].type = t}
\* Ids are drawn at random: one that nobody has had.
Unused == {c \in Channel : /\ channels[c].type = "none"
                           /\ \A r \in Request : requests[r].new[c] = Absent}
Fresh == CHOOSE c \in Unused : TRUE
Inserts(r, c, t, n, at) ==
  requests' = [requests EXCEPT ![r].new[c] = [type |-> t, position |-> n], ![r].at = at]

\* Who has uncommitted rows that a statement of r would touch.
HasEmail(q, e) == requests[q].email = e /\ requests[q].at \notin {"idle", "insert"}
Holds(q, c) == \/ requests[q].deleted /\ requests[q].ch = c
               \/ requests[q].new[c] # Absent
Renumbered(r) ==
  LET left == {c \in Channel : Exists(c) /\ ~(requests[r].deleted /\ requests[r].ch = c)}
      index(c) == Cardinality({d \in left : channels[d].position < channels[c].position})
  IN [c \in Channel |-> IF c \in left /\ channels[c].position # index(c)
                        THEN [channels[c] EXCEPT !.position = index(c)] ELSE Absent]
WaitsFor(r, q) ==
  CASE Is(r, "insert") -> HasEmail(q, requests[r].email)
    [] Is(r, "found") -> requests[q].owner
    [] Is(r, "delete") -> Holds(q, requests[r].ch)
    [] Is(r, "renumber") -> \E c \in Channel : Renumbered(r)[c] # Absent /\ Holds(q, c)
    [] OTHER -> FALSE
Goes(r) == \A q \in Others(r) : ~WaitsFor(r, q)

-----------------------------------------------------------------------------
(* Registration.                                                           *)

\* The email is looked up before the transaction begins.
Register(r, e) ==
  /\ Is(r, "idle")
  /\ e \notin users
  /\ requests' = [requests EXCEPT ![r].at = "insert", ![r].email = e]
  /\ UNCHANGED <<Database, Counters>>

InsertUser(r) ==
  /\ Is(r, "insert") /\ Goes(r)
  /\ IF requests[r].email \in users THEN End(r) ELSE Goto(r, "find")
  /\ UNCHANGED <<Database, Counters>>

FindWorkspace(r) ==
  /\ Is(r, "find")
  /\ Goto(r, IF guild = NoOne THEN "found" ELSE "join")
  /\ UNCHANGED <<Database, Counters>>

\* createIfAbsent: nothing is inserted when the slug is there already.
CreateIfAbsent(r) ==
  /\ Is(r, "found") /\ Goes(r)
  /\ IF guild = NoOne
     THEN requests' = [requests EXCEPT ![r].owner = TRUE, ![r].at = "text"]
     ELSE Goto(r, "reload")
  /\ UNCHANGED <<Database, Counters>>

CreateDefaultChannel(r) ==
  /\ Unused # {}
  /\ \/ Is(r, "text") /\ Inserts(r, Fresh, "text", 0, "voice")
     \/ Is(r, "voice") /\ Inserts(r, Fresh, "voice", 1, "join")
  /\ UNCHANGED <<Database, Counters>>

Reload(r) ==
  /\ Is(r, "reload")
  /\ IF guild = NoOne THEN End(r) ELSE Goto(r, "join")
  /\ UNCHANGED <<Database, Counters>>

AddMember(r) ==
  /\ Is(r, "join")
  /\ Goto(r, "commit")
  /\ UNCHANGED <<Database, Counters>>

-----------------------------------------------------------------------------
(* Channels.                                                               *)

\* POST /v1/admin/channels counts the channels, then inserts, outside of any
\* transaction.
CreateChannel(r) ==
  /\ Is(r, "idle")
  /\ guild # NoOne
  /\ requests' = [requests EXCEPT ![r].at = "count",
                                  ![r].position = Cardinality({c \in Channel : Exists(c)})]
  /\ UNCHANGED <<Database, Counters>>

InsertChannel(r) ==
  /\ Is(r, "count") /\ Unused # {}
  /\ \E t \in {"text", "voice"} :
       channels' = [channels EXCEPT ![Fresh] = [type |-> t, position |-> requests[r].position]]
  /\ End(r)
  /\ UNCHANGED <<users, members, guild, founders, Counters>>

\* DELETE /v1/admin/channels/:id, while no stream runs in the channel.
DeleteChannel(r, c) ==
  /\ Is(r, "idle")
  /\ Exists(c)
  /\ requests' = [requests EXCEPT ![r].at = "check", ![r].ch = c]
  /\ UNCHANGED <<Database, Counters>>

\* Another request has passed the check for another channel of c's type, and
\* has not ended yet.
Overlaps(r, c) ==
  \E q \in Others(r) : /\ requests[q].ch \notin {NoChannel, c} /\ ~Is(q, "check")
                        /\ channels[requests[q].ch].type = channels[c].type
Passes(r, c) ==
  /\ Goto(r, "delete")
  /\ skewed' = IF Overlaps(r, c) THEN skewed \cup {channels[c].type} ELSE skewed

\* Mutant of CheckSiblings: the channel counts as its own sibling.
CheckSelf(r) ==
  LET c == requests[r].ch
  IN /\ Is(r, "check")
     /\ IF Exists(c) /\ Cardinality(OfType(channels[c].type)) > 0
        THEN Passes(r, c) ELSE End(r) /\ UNCHANGED skewed
     /\ UNCHANGED <<Database, faults>>

\* The channels of its type are counted by a statement of their own.
CheckSiblings(r) ==
  LET c == requests[r].ch
  IN /\ Is(r, "check")
     /\ IF Exists(c) /\ Cardinality(OfType(channels[c].type)) > 1
        THEN Passes(r, c) ELSE End(r) /\ UNCHANGED skewed
     /\ UNCHANGED <<Database, faults>>

DeleteRow(r) ==
  /\ Is(r, "delete") /\ Goes(r)
  /\ IF Exists(requests[r].ch)
     THEN requests' = [requests EXCEPT ![r].deleted = TRUE, ![r].at = "renumber"]
     ELSE End(r)
  /\ UNCHANGED <<Database, Counters>>

Renumber(r) ==
  /\ Is(r, "renumber") /\ Goes(r)
  /\ requests' = [requests EXCEPT ![r].new = Renumbered(r), ![r].at = "commit"]
  /\ UNCHANGED <<Database, Counters>>

-----------------------------------------------------------------------------
(* The end of a transaction.                                               *)

Commit(r) ==
  LET q == requests[r]
  IN /\ Is(r, "commit")
     /\ users' = users \cup ({q.email} \ {NoOne})
     /\ members' = members \cup ({q.email} \ {NoOne})
     /\ guild' = IF q.owner THEN q.email ELSE guild
     /\ founders' = IF q.owner THEN founders \cup {q.email} ELSE founders
     /\ channels' = [c \in Channel |->
          CASE q.deleted /\ q.ch = c -> [type |-> "gone", position |-> 0]
            [] ~(q.deleted /\ q.ch = c) /\ q.new[c] # Absent -> q.new[c]
            [] ~(q.deleted /\ q.ch = c) /\ q.new[c] = Absent -> channels[c]]
     /\ End(r)
     /\ UNCHANGED Counters

\* Mutant of Abort: the user was inserted outside of the transaction.
AbortKeepsUser(r) ==
  /\ ~Is(r, "idle")
  /\ faults < MaxFaults /\ faults' = faults + 1
  /\ users' = users \cup ({requests[r].email} \ {NoOne})
  /\ End(r)
  /\ UNCHANGED <<members, guild, founders, channels, skewed>>

\* A statement fails, or the connection: everything is undone.
Abort(r) ==
  /\ ~Is(r, "idle")
  /\ \/ faults < MaxFaults /\ faults' = faults + 1
     \/ /\ \E q \in Others(r) : WaitsFor(r, q) /\ WaitsFor(q, r)
        /\ UNCHANGED faults
  /\ End(r)
  /\ UNCHANGED <<Database, skewed>>

Next ==
  \E r \in Request :
    \/ \E e \in Email : Register(r, e)
    \/ \E c \in Channel : DeleteChannel(r, c)
    \/ InsertUser(r) \/ FindWorkspace(r) \/ CreateIfAbsent(r) \/ CreateDefaultChannel(r)
    \/ Reload(r) \/ AddMember(r) \/ CreateChannel(r) \/ InsertChannel(r)
    \/ CheckSiblings(r) \/ DeleteRow(r) \/ Renumber(r) \/ Commit(r) \/ Abort(r)

Spec == Init /\ [][Next]_workspaceVars

-----------------------------------------------------------------------------
(* Properties.                                                             *)

\* However many first users register at once, one of them makes the workspace
\* with its default channels, and every user is a member of it ("Concurrent
\* first registrations are safe", default-workspace.ts:11).
WorkspaceIsShared ==
  /\ Cardinality(founders) <= 1
  /\ guild = NoOne => founders = {} /\ users = {}
  /\ members = users

\* A text and a voice channel remain ("At least one voice channel must
\* remain.", system.ts:914), whatever is registered, created, renumbered and
\* deleted at the same time: a deletion that waits for another's rows, or
\* that counts after the other has committed, finds the right number.  Only
\* two deletions of channels of one type that count before either commits
\* may each take the other's channel for the one that remains (skewed).
ChannelsRemain ==
  guild # NoOne => \A t \in {"text", "voice"} \ skewed : OfType(t) # {}
=============================================================================
