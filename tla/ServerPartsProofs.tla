-------------------------- MODULE ServerPartsProofs --------------------------
(***************************************************************************)
(* What holds of the parts of the server for every value of the constants: *)
(* the repair lock and the containers (Maintenance), the shared workspace  *)
(* (Workspace), the online roster (Presence), the verdicts of a repair     *)
(* (RuntimeRepair) and the administrator's page (AdminPanel).              *)
(***************************************************************************)
EXTENDS ServerParts, Integers, Sequences, FiniteSetTheorems, TLAPS

-----------------------------------------------------------------------------
(* Maintenance: the lock of the repairs.                                   *)

ActorRec == [at : {"idle", "lock", "stale", "health", "restart", "check", "helper", "release",
                   "answer", "refused"},
             todo : SUBSET M!Restartable, job : Job \cup {M!NoJob}]
LockRec == [holder : M!Actor \cup {M!Nobody}, taken : BOOLEAN, stale : BOOLEAN]
Guarded == {"health", "restart", "helper", "release"}

\* A repair between its lock and its release has the lock, unless a stale lock was
\* removed from under its new holder; a lock that turns stale has no holder, so
\* that who removes it takes nothing from anybody.
LockInv ==
  /\ actors \in [M!Actor -> ActorRec]
  /\ lock \in LockRec
  /\ ill \subseteq M!Restartable
  /\ stolen \in BOOLEAN
  /\ lock.stale => lock.holder = M!Nobody
  /\ ~stolen => \A a \in M!Repairer : actors[a].at \in Guarded => lock.taken /\ lock.holder = a

LEMMA ActorFacts ==
  /\ M!Resting \in ActorRec /\ M!Resting.at = "idle" /\ "idle" \notin Guarded
  /\ M!Repairer \subseteq M!Actor /\ "apply" \in M!Actor \ M!Repairer
  /\ M!Nobody \notin M!Actor
  /\ M!Free \in LockRec /\ ~M!Free.stale
BY DEF M!Resting, ActorRec, Guarded, M!Repairer, M!Actor, M!Nobody, M!Free, LockRec

\* What leaves the lock alone and moves no repair into its guarded part.
LEMMA NobodyEnters ==
  ASSUME LockInv, actors' \in [M!Actor -> ActorRec], ill' \subseteq M!Restartable,
         UNCHANGED <<lock, stolen>>,
         \A a \in M!Repairer : actors'[a].at \in Guarded => actors[a].at \in Guarded
  PROVE  LockInv'
BY DEF LockInv

\* One actor moves, outside of the guarded part or within it.
LEMMA ActorMoves ==
  ASSUME LockInv, NEW a \in M!Actor, NEW r \in ActorRec, actors' = [actors EXCEPT ![a] = r],
         r.at \in Guarded /\ a \in M!Repairer => actors[a].at \in Guarded,
         ill' \subseteq M!Restartable, UNCHANGED <<lock, stolen>>
  PROVE  LockInv'
BY ActorFacts, NobodyEnters DEF LockInv

LEMMA ActorGoes ==
  ASSUME LockInv, NEW a \in M!Actor,
         NEW at \in {"idle", "lock", "stale", "health", "restart", "check", "helper", "release",
                     "answer", "refused"}
  PROVE  \E r \in ActorRec : r = [actors[a] EXCEPT !.at = at] /\ r.at = at
<1>1. PICK q \in ActorRec : q = actors[a]
  BY DEF LockInv
<1>2. [q EXCEPT !.at = at] \in ActorRec /\ [q EXCEPT !.at = at].at = at
  BY DEF ActorRec
<1> QED BY <1>1, <1>2

\* Act(a, at), for a repair that has the lock already or does not get it.
LEMMA ActKeeps ==
  ASSUME LockInv, NEW a \in M!Actor,
         NEW at \in {"idle", "lock", "stale", "health", "restart", "check", "helper", "release",
                     "answer", "refused"},
         at \in Guarded /\ a \in M!Repairer => actors[a].at \in Guarded,
         M!Act(a, at), UNCHANGED <<lock, stolen, ill>>
  PROVE  LockInv'
<1>1. PICK r \in ActorRec : r = [actors[a] EXCEPT !.at = at] /\ r.at = at
  BY ActorGoes
<1>2. actors' = [actors EXCEPT ![a] = r]
  BY <1>1 DEF M!Act
<1>3. ill' \subseteq M!Restartable
  BY DEF LockInv
<1> QED BY <1>1, <1>2, <1>3, ActorMoves

\* Stopping the container ends every repair in it, and the lock is nobody's.
LEMMA StopBoxKeeps ==
  ASSUME LockInv, NEW b, M!StopBox(b), UNCHANGED <<ill, stolen>>
  PROVE  LockInv'
BY ActorFacts DEF M!StopBox, LockInv, LockRec

LEMMA HelperKeepsLock ==
  ASSUME LockInv, NEW j \in Job, M!HelperStep(j) PROVE LockInv'
BY StopBoxKeeps DEF LockInv, M!Stop, M!OutsideKept, M!Inside, M!StopFailed, M!Inspect,
   M!PullTargetImage, M!WaitForStopped, M!RenameOld, M!Create, M!Start, M!WaitForHealthy,
   M!Complete, M!DeletePrevious, M!CallFails, M!Rollback, M!RenameFailed, M!RestorePrevious,
   M!StartPrevious, M!DeleteFailed, M!ReportFailure, M!HelperDies, M!HelperStep

LEMMA ApplyKeepsLock ==
  ASSUME LockInv, M!Apply \/ M!ApplyStarts \/ M!ApplyAnswers PROVE LockInv'
<1> USE ActorFacts
<1>0. ill' \subseteq M!Restartable /\ UNCHANGED <<lock, stolen, ill>>
  BY DEF LockInv, M!Apply, M!ApplyStarts, M!ApplyAnswers
<1>1. CASE M!Apply
  BY <1>0, <1>1, ActKeeps DEF M!Apply
<1>2. CASE M!ApplyStarts
  BY <1>0, ActKeeps, ActorMoves, <1>2 DEF M!StartUpdateHelper, M!CanHelp, M!NewJob, ActorRec,
     M!ApplyStarts
<1>3. CASE M!ApplyAnswers
  BY <1>0, <1>3, ActorMoves DEF M!ApplyAnswers
<1> QED BY <1>1, <1>2, <1>3

LEMMA RepairKeepsLock ==
  ASSUME LockInv, NEW a \in M!Repairer,
         \/ M!Repair(a) \/ M!FindStale(a) \/ M!Health(a) \/ M!Check(a) \/ M!StartContainerRepair(a)
  PROVE  LockInv'
<1> USE ActorFacts
<1>1. CASE M!Repair(a)
  BY <1>1, ActKeeps DEF M!Repair, Guarded
<1>2. CASE M!FindStale(a)
  BY <1>2, ActKeeps DEF M!FindStale, Guarded
<1>3. CASE M!Health(a)
  <2>1. actors[a].at \in Guarded /\ UNCHANGED <<lock, ill, stolen>> /\ ill' \subseteq M!Restartable
    BY <1>3 DEF M!Health, M!Is, Guarded, LockInv
  <2>2. CASE M!Act(a, "release")
    BY <2>1, <2>2, ActKeeps
  <2>3. CASE actors' = [actors EXCEPT ![a].at = "restart", ![a].todo = ill]
    <3>1. PICK q \in ActorRec : q = actors[a]
      BY DEF LockInv
    <3>2. [q EXCEPT !.at = "restart", !.todo = ill] \in ActorRec
      BY DEF ActorRec, LockInv
    <3>3. actors' = [actors EXCEPT ![a] = [q EXCEPT !.at = "restart", !.todo = ill]]
      BY <2>3, <3>1
    <3> QED BY <2>1, <3>2, <3>3, ActorMoves
  <2> QED BY <1>3, <2>2, <2>3 DEF M!Health
<1>4. CASE M!Check(a)
  BY <1>4, ActKeeps DEF M!Check, M!Is, Guarded
<1>5. CASE M!StartContainerRepair(a)
  BY <1>5, ActKeeps DEF M!StartContainerRepair, M!Is, Guarded
<1> QED BY <1>1, <1>2, <1>3, <1>4, <1>5

LEMMA TakeLockKeeps ==
  ASSUME LockInv, NEW a \in M!Repairer, M!TakeLock(a) PROVE LockInv'
<1> USE ActorFacts
<1>1. CASE lock.taken
  BY <1>1, ActorMoves DEF M!TakeLock, LockInv
<1>2. CASE ~lock.taken
  <2>1. PICK r \in ActorRec : r = [actors[a] EXCEPT !.at = "health"] /\ r.at = "health"
    BY ActorGoes
  <2>2. /\ actors' = [actors EXCEPT ![a] = r] /\ UNCHANGED <<ill, stolen>>
        /\ lock' = [holder |-> a, taken |-> TRUE, stale |-> FALSE]
    BY <1>2, <2>1 DEF M!TakeLock, M!Act
  <2>3. lock' \in LockRec /\ lock'.taken /\ ~lock'.stale /\ lock'.holder = a
    BY <2>2 DEF LockRec
  <2>4. ASSUME ~stolen, NEW b \in M!Repairer, b # a PROVE actors'[b].at \notin Guarded
    BY <1>2, <2>2, <2>4 DEF LockInv
  <2> QED BY <2>2, <2>3, <2>4 DEF LockInv
<1> QED BY <1>1, <1>2

\* A lock that is removed is the remover's own, is nobody's, or the fact is on record.
LEMMA RemovalKeeps ==
  ASSUME LockInv, NEW a \in M!Repairer, M!RemoveStale(a) \/ M!Release(a) PROVE LockInv'
<1> USE ActorFacts
<1>1. CASE M!RemoveStale(a)
  <2>1. PICK r \in ActorRec : r = [actors[a] EXCEPT !.at = "lock"] /\ r.at = "lock"
    BY ActorGoes
  <2>2. /\ actors' = [actors EXCEPT ![a] = r] /\ lock' = M!Free /\ UNCHANGED ill
        /\ stolen' = (stolen \/ lock.holder # M!Nobody)
    BY <1>1, <2>1 DEF M!RemoveStale, M!Act
  <2>3. ASSUME ~stolen', NEW b \in M!Repairer PROVE actors'[b].at \notin Guarded
    BY <2>1, <2>2, <2>3 DEF LockInv, Guarded
  <2>4. actors' \in [M!Actor -> ActorRec] /\ stolen' \in BOOLEAN
    BY <2>2 DEF LockInv
  <2> QED BY <2>2, <2>3, <2>4 DEF LockInv
<1>2. CASE M!Release(a)
  BY <1>2 DEF M!Release, M!Is, Guarded, LockInv
<1> QED BY <1>1, <1>2

LEMMA RestartKeepsLock ==
  ASSUME LockInv, NEW a \in M!Repairer, M!RestartSupervisorService(a) PROVE LockInv'
<1> USE ActorFacts
<1>1. PICK p \in actors[a].todo :
        LET rest == [actors EXCEPT ![a].todo = @ \ {p}]
        IN /\ ill' \in {ill, ill \ {p}}
           /\ actors' = IF p = "api"
                        THEN [rest EXCEPT !["api"] = M!Resting, !["apply"] = M!Resting] ELSE rest
           /\ lock' = IF p = "api" /\ lock.holder = "api"
                      THEN [lock EXCEPT !.holder = M!Nobody] ELSE lock
  BY DEF M!RestartSupervisorService
<1>2. PICK q \in ActorRec : q = actors[a]
  BY DEF LockInv
<1>3. PICK r \in ActorRec : r = [q EXCEPT !.todo = @ \ {p}] /\ r.at = q.at
  <2>1. [q EXCEPT !.todo = @ \ {p}] \in ActorRec /\ [q EXCEPT !.todo = @ \ {p}].at = q.at
    BY DEF ActorRec
  <2> QED BY <2>1
<1>4. PICK rest \in [M!Actor -> ActorRec] : /\ rest = [actors EXCEPT ![a].todo = @ \ {p}]
                                            /\ \A b \in M!Actor : rest[b].at = actors[b].at
  <2>1. [actors EXCEPT ![a].todo = @ \ {p}] = [actors EXCEPT ![a] = r]
    BY <1>2, <1>3
  <2>2. [actors EXCEPT ![a] = r] \in [M!Actor -> ActorRec]
    BY DEF LockInv
  <2>3. \A b \in M!Actor : [actors EXCEPT ![a] = r][b].at = actors[b].at
    BY <1>2, <1>3 DEF LockInv
  <2> QED BY <2>1, <2>2, <2>3
<1>5. ill' \subseteq M!Restartable /\ UNCHANGED stolen
  BY <1>1 DEF LockInv, M!RestartSupervisorService
<1>6. CASE p = "api"
  <2>1. actors' = [rest EXCEPT !["api"] = M!Resting, !["apply"] = M!Resting]
    BY <1>1, <1>4, <1>6
  <2>2. /\ actors' \in [M!Actor -> ActorRec]
        /\ \A b \in M!Repairer : actors'[b].at \in Guarded
                                   => b # "api" /\ actors[b].at \in Guarded
    BY <1>4, <2>1 DEF M!Actor
  <2>3. CASE lock.holder = "api"
    <3>1. lock' = [lock EXCEPT !.holder = M!Nobody]
      BY <1>1, <1>6, <2>3
    <3>2. lock' \in LockRec /\ lock'.holder = M!Nobody
      BY <3>1 DEF LockInv, LockRec
    <3>3. ASSUME ~stolen, NEW b \in M!Repairer PROVE actors'[b].at \notin Guarded
      BY <2>2, <2>3, <3>3 DEF LockInv
    <3> QED BY <1>5, <2>2, <3>2, <3>3 DEF LockInv
  <2>4. CASE lock.holder # "api"
    BY <1>1, <1>5, <2>2, <2>4, NobodyEnters
  <2> QED BY <2>3, <2>4
<1>7. CASE p # "api"
  BY <1>1, <1>4, <1>5, <1>7, NobodyEnters
<1> QED BY <1>6, <1>7

LEMMA LockInvariant == M!Spec => []LockInv
<1>1. M!Init => LockInv
  BY ActorFacts DEF M!Init, LockInv, M!Actor, M!Repairer
<1>2. LockInv /\ [M!Next]_M!maintenanceVars => LockInv'
  <2> SUFFICES ASSUME LockInv, [M!Next]_M!maintenanceVars PROVE LockInv'
    OBVIOUS
  <2>1. CASE UNCHANGED M!maintenanceVars
    BY <2>1 DEF M!maintenanceVars, LockInv
  <2>2. ASSUME NEW j \in Job, M!HelperStep(j) PROVE LockInv'
    BY <2>2, HelperKeepsLock
  <2>3. CASE M!Apply \/ M!ApplyStarts \/ M!ApplyAnswers
    BY <2>3, ApplyKeepsLock
  <2>4. CASE M!LockAges
    <3>1. lock' = [lock EXCEPT !.stale = TRUE] /\ lock.holder = M!Nobody /\ UNCHANGED <<actors, ill, stolen>>
      BY <2>4 DEF M!LockAges
    <3>2. lock' \in LockRec /\ lock'.holder = lock.holder /\ lock'.taken = lock.taken
      BY <3>1 DEF LockInv, LockRec
    <3> QED BY <3>1, <3>2 DEF LockInv
  <2>5. ASSUME NEW p \in M!Restartable, M!FallsIll(p) PROVE LockInv'
    BY <2>5 DEF M!FallsIll, LockInv
  <2>6. ASSUME NEW a \in M!Repairer,
               \/ M!Repair(a) \/ M!TakeLock(a) \/ M!FindStale(a) \/ M!RemoveStale(a) \/ M!Health(a)
               \/ M!RestartSupervisorService(a) \/ M!Check(a) \/ M!StartContainerRepair(a)
               \/ M!Release(a)
        PROVE  LockInv'
    BY <2>6, RepairKeepsLock, TakeLockKeeps, RemovalKeeps, RestartKeepsLock
  <2> QED BY <2>1, <2>2, <2>3, <2>4, <2>5, <2>6 DEF M!Next
<1> QED BY <1>1, <1>2, PTL DEF M!Spec

\* The lock file of withRepairLock (lib/runtime-health.ts, runtime-watchdog.mjs): the
\* API and the watchdog never restart programs at once, however the container and the
\* API are stopped under them, unless both found the same stale lock.
THEOREM OneRepairTheorem == M!Spec => []OneRepair
<1>1. LockInv => M!OneRepair
  <2> SUFFICES ASSUME LockInv, ~stolen
               PROVE  M!Cardinality({a \in M!Repairer : actors[a].at \in Guarded}) <= 1
    BY DEF M!OneRepair, Guarded
  <2> DEFINE S == {a \in M!Repairer : actors[a].at \in Guarded}
  <2>1. \A a, b \in S : a = b
    BY DEF LockInv
  <2>2. S = {} \/ \E a : S = {a}
    BY <2>1
  <2>3. Cardinality(S) \in {0, 1}
    BY <2>2, FS_EmptySet, FS_Singleton
  <2>4. M!Cardinality(S) = Cardinality(S)
    BY DEF M!Cardinality, Cardinality
  <2> QED BY <2>3, <2>4
<1>2. M!Spec => []LockInv
  BY LockInvariant
<1> QED BY <1>1, <1>2, PTL DEF OneRepair

-----------------------------------------------------------------------------
(* Workspace.                                                              *)

\* What a request may hold where it is: only the one transaction that inserted the
\* workspace is without one; who deletes a channel registers nobody.
Registers(q) ==
  /\ q.owner => /\ guild = NoOne /\ q.email # NoOne /\ q.ch = NoChannel /\ ~q.deleted
                /\ q.at \in {"text", "voice", "join", "commit"}
  /\ q.at \in {"text", "voice"} => q.owner
  /\ q.at \in {"join", "commit"} /\ ~q.owner => guild # NoOne
  /\ q.at \in {"count", "check", "delete", "renumber"} \/ q.ch # NoChannel
       => guild # NoOne /\ ~q.owner
  /\ q.ch = NoChannel => ~q.deleted /\ q.at \notin {"check", "delete", "renumber"}
  /\ q.ch # NoChannel => q.at \in {"check", "delete", "renumber", "commit"}
  /\ q.at \in {"insert", "find", "found"} => q.email # NoOne
  /\ ~q.owner /\ q.ch = NoChannel => \A c \in ChannelId : q.new[c] = W!Absent

\* What the founder's transaction has inserted when it gets there.
Founds(q) ==
  /\ q.owner /\ q.at \in {"voice", "join", "commit"} => \E c \in ChannelId : q.new[c].type = "text"
  /\ q.owner /\ q.at \in {"join", "commit"} => \E c \in ChannelId : q.new[c].type = "voice"

\* A deletion that has passed the check: another channel of the type remains as long as
\* the type is not skewed.  What a deletion renumbers is there, and keeps its type.
Passed(q) == q.ch # NoChannel /\ q.at # "check"
Deletes(q) ==
  q.ch # NoChannel =>
    /\ channels[q.ch].type # "none"
    /\ Passed(q) /\ W!Exists(q.ch) /\ channels[q.ch].type \notin skewed =>
         \E d \in ChannelId \ {q.ch} : channels[d].type = channels[q.ch].type
    /\ \A c \in ChannelId :
         q.new[c] # W!Absent => W!Exists(c) /\ q.new[c].type = channels[c].type

\* Two requests: unless its type is in S, they do not both take a channel of one type; what
\* p has deleted q does not renumber.
Apart(p, q, S) ==
  /\ Passed(p) /\ Passed(q) /\ W!Exists(p.ch) /\ W!Exists(q.ch)
     /\ channels[p.ch].type = channels[q.ch].type /\ channels[p.ch].type \notin S => p.ch = q.ch
  /\ p.deleted /\ q.ch # NoChannel => q.new[p.ch] = W!Absent

WorkspaceInv ==
  /\ W!TypeOK
  /\ members = users
  /\ guild = NoOne => founders = {} /\ users = {} /\ \A c \in ChannelId : ~W!Exists(c)
  /\ founders \subseteq {guild}
  /\ \A r \in Request : Registers(requests[r]) /\ Founds(requests[r])
  /\ \A r, q \in Request : requests[r].owner /\ requests[q].owner => r = q
  /\ \A r \in Request : Deletes(requests[r])
  /\ \A r, q \in Request : r # q => Apart(requests[r], requests[q], skewed)
  /\ guild # NoOne =>
       \A t \in {"text", "voice"} \ skewed : \E c \in ChannelId : channels[c].type = t

LEMMA CountW == ASSUME NEW S PROVE W!Cardinality(S) = Cardinality(S)
BY DEF W!Cardinality, Cardinality

LEMMA ChannelCounts ==
  ASSUME WorkspaceAssumption, NEW S \in SUBSET ChannelId
  PROVE  W!Cardinality(S) \in 0..W!Cardinality(ChannelId)
BY FS_Subset, FS_CardinalityType, CountW DEF WorkspaceAssumption

LEMMA WorkspaceFacts ==
  ASSUME WorkspaceAssumption
  PROVE  /\ W!Absent \in W!ChannelRec /\ W!Absent.type = "none"
         /\ W!Idle \in W!RequestRec /\ W!Idle.at = "idle" /\ ~W!Idle.owner /\ ~W!Idle.deleted
         /\ W!Idle.ch = NoChannel /\ W!Idle.email = NoOne
         /\ \A c \in ChannelId : W!Idle.new[c] = W!Absent
BY ChannelCounts, CountW, FS_EmptySet DEF W!Absent, W!ChannelRec, W!Nothing, W!Idle, W!RequestRec,
   W!At

\* Who deletes nothing is in no deletion's way.
LEMMA NoDeletion ==
  ASSUME NEW q \in W!RequestRec, Registers(q), q.ch = NoChannel
  PROVE  Deletes(q) /\ \A p \in W!RequestRec : \A S : Apart(p, q, S) /\ Apart(q, p, S)
BY DEF Registers, Deletes, Apart, Passed

\* A step of one request that commits nothing.
LEMMA RequestMoves ==
  ASSUME WorkspaceAssumption, WorkspaceInv, NEW r \in Request, NEW q \in W!RequestRec,
         requests' = [requests EXCEPT ![r] = q], UNCHANGED W!Database,
         faults' \in 0..MaxFaults, skewed' \subseteq {"text", "voice"}, skewed \subseteq skewed',
         Registers(q), Founds(q),
         q.owner => \A p \in Request \ {r} : ~requests[p].owner,
         \/ q.ch = NoChannel
         \/ Deletes(q) /\ \A p \in Request \ {r} : /\ Apart(q, requests[p], skewed')
                                                  /\ Apart(requests[p], q, skewed')
  PROVE  WorkspaceInv'
<1>1. UNCHANGED <<users, members, guild, founders, channels>>
  BY DEF W!Database
<1>2. requests \in [Request -> W!RequestRec] /\ requests' \in [Request -> W!RequestRec]
  BY DEF WorkspaceInv, W!TypeOK
<1>3. W!TypeOK'
  BY <1>1, <1>2 DEF WorkspaceInv, W!TypeOK
<1>4. Deletes(q) /\ \A p \in Request \ {r} : /\ Apart(q, requests[p], skewed')
                                            /\ Apart(requests[p], q, skewed')
  BY <1>2, NoDeletion
<1>5. ASSUME NEW p \in Request PROVE (Registers(requests[p]) /\ Founds(requests[p]))'
  <2>1. PICK x \in W!RequestRec : x = requests'[p]
    BY <1>2
  <2>2. Registers(x) /\ Founds(x)
    BY <1>2, <2>1 DEF WorkspaceInv
  <2>3. Registers(x)' /\ Founds(x)'
    BY <1>1, <2>2 DEF Registers, Founds
  <2> QED BY <2>1, <2>3 DEF Registers, Founds
<1>6. ASSUME NEW p \in Request PROVE Deletes(requests[p])'
  <2>1. PICK x \in W!RequestRec : x = requests'[p]
    BY <1>2
  <2>2. Deletes(x)
    BY <1>2, <1>4, <2>1 DEF WorkspaceInv
  <2>3. Deletes(x)'
    BY <1>1, <2>2 DEF Deletes, W!Exists, Passed
  <2> QED BY <2>1, <2>3 DEF Deletes, W!Exists, Passed
<1>7. ASSUME NEW p \in Request, NEW x \in Request, requests'[p].owner, requests'[x].owner
      PROVE  p = x
  BY <1>2, <1>7 DEF WorkspaceInv
<1>8. ASSUME NEW p \in Request, NEW x \in Request, p # x
      PROVE  Apart(requests[p], requests[x], skewed)'
  <2>1. PICK y \in W!RequestRec, z \in W!RequestRec : y = requests'[p] /\ z = requests'[x]
    BY <1>2
  <2>2. Apart(y, z, skewed')
    <3>1. CASE p = r \/ x = r
      BY <1>2, <1>4, <1>8, <2>1, <3>1
    <3>2. CASE p # r /\ x # r
      <4>1. Apart(y, z, skewed)
        BY <1>2, <1>8, <2>1, <3>2 DEF WorkspaceInv
      <4> QED BY <4>1 DEF Apart
    <3> QED BY <3>1, <3>2
  <2>3. Apart(y, z, skewed)'
    BY <1>1, <2>2 DEF Apart, W!Exists, Passed, W!Absent
  <2> QED BY <2>1, <2>3 DEF Apart, W!Exists, Passed, W!Absent
<1>9. guild' # NoOne =>
        \A t \in {"text", "voice"} \ skewed' : \E c \in ChannelId : channels'[c].type = t
  BY <1>1 DEF WorkspaceInv
<1> QED BY <1>1, <1>3, <1>5, <1>6, <1>7, <1>8, <1>9 DEF WorkspaceInv, W!Exists

\* A request ends, or is undone.
LEMMA RequestEnds ==
  ASSUME WorkspaceAssumption, WorkspaceInv, NEW r \in Request, W!End(r),
         UNCHANGED <<W!Database, skewed>>, faults' \in 0..MaxFaults
  PROVE  WorkspaceInv'
<1>1. skewed' \subseteq {"text", "voice"} /\ skewed \subseteq skewed'
  BY DEF WorkspaceInv, W!TypeOK
<1>2. Registers(W!Idle) /\ Founds(W!Idle)
  BY WorkspaceFacts DEF Registers, Founds
<1> QED BY <1>1, <1>2, WorkspaceFacts, RequestMoves DEF W!End

\* A request that deletes nothing goes on to another place with all it holds.
LEMMA RequestGoes ==
  ASSUME WorkspaceAssumption, WorkspaceInv, NEW r \in Request, NEW at \in W!At,
         W!Goto(r, at), UNCHANGED <<W!Database, W!Counters>>, requests[r].ch = NoChannel,
         \A q \in W!RequestRec :
           /\ q.at = at /\ q.email = requests[r].email /\ q.owner = requests[r].owner
           /\ q.new = requests[r].new /\ q.ch = requests[r].ch /\ q.deleted = requests[r].deleted
           => Registers(q) /\ Founds(q)
  PROVE  WorkspaceInv'
<1>1. PICK o \in W!RequestRec : o = requests[r]
  BY DEF WorkspaceInv, W!TypeOK
<1>2. PICK q \in W!RequestRec : /\ q = [o EXCEPT !.at = at]
                                /\ q.at = at /\ q.email = o.email /\ q.owner = o.owner
                                /\ q.new = o.new /\ q.ch = o.ch /\ q.deleted = o.deleted
  <2> DEFINE q == [o EXCEPT !.at = at]
  <2>1. /\ q \in W!RequestRec
        /\ q.at = at /\ q.email = o.email /\ q.owner = o.owner
        /\ q.new = o.new /\ q.ch = o.ch /\ q.deleted = o.deleted
    BY DEF W!RequestRec
  <2> QED BY <2>1
<1>3. requests' = [requests EXCEPT ![r] = q]
  BY <1>1, <1>2 DEF W!Goto
<1>4. Registers(q) /\ Founds(q) /\ q.ch = NoChannel
  BY <1>1, <1>2
<1>5. /\ skewed' \subseteq {"text", "voice"} /\ skewed \subseteq skewed' /\ faults' \in 0..MaxFaults
      /\ UNCHANGED W!Database
  BY DEF WorkspaceInv, W!TypeOK, W!Counters
<1>6. q.owner => \A p \in Request \ {r} : ~requests[p].owner
  BY <1>1, <1>2 DEF WorkspaceInv
<1> QED BY <1>3, <1>4, <1>5, <1>6, RequestMoves

LEMMA RequestFacts ==
  ASSUME WorkspaceInv, NEW r \in Request
  PROVE  /\ requests[r] \in W!RequestRec
         /\ Registers(requests[r]) /\ Founds(requests[r]) /\ Deletes(requests[r])
         /\ skewed \subseteq {"text", "voice"} /\ faults \in 0..MaxFaults
BY DEF WorkspaceInv, W!TypeOK

LEMMA InsertUserKeeps ==
  ASSUME WorkspaceAssumption, WorkspaceInv, NEW r \in Request,
         W!InsertUser(r) \/ W!FindWorkspace(r) \/ W!Reload(r) \/ W!AddMember(r)
  PROVE  WorkspaceInv'
<1> USE RequestFacts
<1>0. UNCHANGED W!Database /\ UNCHANGED W!Counters /\ UNCHANGED <<W!Database, W!Counters>>
  BY DEF W!InsertUser, W!FindWorkspace, W!Reload, W!AddMember
<1>a. requests[r].ch = NoChannel
  BY DEF W!InsertUser, W!FindWorkspace, W!Reload, W!AddMember, W!Is, Registers
<1>1. CASE W!End(r)
  BY <1>0, <1>1, RequestEnds DEF W!Counters
<1>2. CASE W!Is(r, "insert") /\ W!Goto(r, "find")
  BY <1>0, <1>a, <1>2, RequestGoes DEF W!Is, W!At, Registers, Founds
<1>3. CASE W!Is(r, "find") /\ W!Goto(r, "found")
  BY <1>0, <1>a, <1>3, RequestGoes DEF W!Is, W!At, Registers, Founds
<1>4. CASE W!Is(r, "find") /\ guild # NoOne /\ W!Goto(r, "join")
  BY <1>0, <1>a, <1>4, RequestGoes DEF W!Is, W!At, Registers, Founds
<1>5. CASE W!Is(r, "reload") /\ guild # NoOne /\ W!Goto(r, "join")
  BY <1>0, <1>a, <1>5, RequestGoes DEF W!Is, W!At, Registers, Founds
<1>6. CASE W!Is(r, "join") /\ W!Goto(r, "commit")
  BY <1>0, <1>a, <1>6, RequestGoes DEF W!Is, W!At, Registers, Founds
<1>7. CASE W!InsertUser(r)
  BY <1>1, <1>2, <1>7 DEF W!InsertUser
<1>8. CASE W!FindWorkspace(r)
  BY <1>3, <1>8, <1>4 DEF W!FindWorkspace
<1>9. CASE W!Reload(r)
  BY <1>1, <1>5, <1>9 DEF W!Reload
<1>10. CASE W!AddMember(r)
  BY <1>6, <1>10 DEF W!AddMember
<1> QED BY <1>7, <1>8, <1>9, <1>10

LEMMA RegisterKeeps ==
  ASSUME WorkspaceAssumption, WorkspaceInv, NEW r \in Request,
         \/ \E e \in Email : W!Register(r, e)
         \/ W!CreateChannel(r)
  PROVE  WorkspaceInv'
<1> USE RequestFacts
<1>1. PICK o \in W!RequestRec : o = requests[r] /\ o.at = "idle"
  BY DEF W!Register, W!CreateChannel, W!Is
<1>2. UNCHANGED W!Database /\ skewed' \subseteq {"text", "voice"} /\ skewed' = skewed /\ faults' \in 0..MaxFaults
  BY DEF W!Register, W!CreateChannel, W!Counters
<1>3. CASE \E e \in Email : W!Register(r, e)
  <2>1. PICK e \in Email : W!Register(r, e)
    BY <1>3
  <2>2. PICK q \in W!RequestRec :
          /\ q = [o EXCEPT !.at = "insert", !.email = e] /\ q.at = "insert" /\ q.email = e
          /\ q.owner = o.owner /\ q.new = o.new /\ q.ch = o.ch /\ q.deleted = o.deleted
    <3> DEFINE q == [o EXCEPT !.at = "insert", !.email = e]
    <3>1. /\ q \in W!RequestRec /\ q.at = "insert" /\ q.email = e
          /\ q.owner = o.owner /\ q.new = o.new /\ q.ch = o.ch /\ q.deleted = o.deleted
      BY DEF W!RequestRec, W!At
    <3> QED BY <3>1
  <2>3. requests' = [requests EXCEPT ![r] = q]
    BY <1>1, <2>1, <2>2 DEF W!Register
  <2>4. Registers(q) /\ Founds(q) /\ ~q.owner /\ q.ch = NoChannel
    BY <1>1, <2>2 DEF Registers, Founds, WorkspaceAssumption
  <2> QED BY <1>2, <2>3, <2>4, RequestMoves
<1>4. CASE W!CreateChannel(r)
  <2> DEFINE n == W!Cardinality({c \in ChannelId : W!Exists(c)})
  <2>1. n \in 0..W!Cardinality(ChannelId)
    BY ChannelCounts
  <2> HIDE DEF n
  <2>2. PICK q \in W!RequestRec :
          /\ q = [o EXCEPT !.at = "count", !.position = n] /\ q.at = "count"
          /\ q.email = o.email
          /\ q.owner = o.owner /\ q.new = o.new /\ q.ch = o.ch /\ q.deleted = o.deleted
    <3> DEFINE q == [o EXCEPT !.at = "count", !.position = n]
    <3>1. /\ q \in W!RequestRec /\ q.at = "count" /\ q.email = o.email
          /\ q.owner = o.owner /\ q.new = o.new /\ q.ch = o.ch /\ q.deleted = o.deleted
      BY <2>1 DEF W!RequestRec, W!At
    <3> QED BY <3>1
  <2>3. requests' = [requests EXCEPT ![r] = q] /\ guild # NoOne
    BY <1>1, <1>4, <2>2 DEF W!CreateChannel, n
  <2>4. Registers(q) /\ Founds(q) /\ ~q.owner /\ q.ch = NoChannel
    BY <1>1, <2>2, <2>3 DEF Registers, Founds
  <2> QED BY <1>2, <2>3, <2>4, RequestMoves
<1> QED BY <1>3, <1>4

\* Only one transaction inserts the workspace: another waits until it has ended.
LEMMA CreateIfAbsentKeeps ==
  ASSUME WorkspaceAssumption, WorkspaceInv, NEW r \in Request, W!CreateIfAbsent(r)
  PROVE  WorkspaceInv'
<1> USE RequestFacts
<1>1. PICK o \in W!RequestRec : o = requests[r] /\ o.at = "found"
  BY DEF W!CreateIfAbsent, W!Is
<1>2. /\ UNCHANGED W!Database /\ skewed' \subseteq {"text", "voice"} /\ skewed' = skewed /\ faults' \in 0..MaxFaults
      /\ UNCHANGED <<W!Database, W!Counters>>
  BY DEF W!CreateIfAbsent, W!Counters
<1>3. \A p \in Request \ {r} : ~requests[p].owner
  <2> SUFFICES ASSUME NEW p \in Request \ {r} PROVE ~requests[p].owner
    OBVIOUS
  <2>1. W!Is(r, "found") /\ ~W!WaitsFor(r, p)
    BY DEF W!CreateIfAbsent, W!Goes, W!Others
  <2>2. ~W!Is(r, "insert")
    BY <2>1 DEF W!Is
  <2> QED BY <2>1, <2>2 DEF W!WaitsFor, W!Is
<1>4. CASE guild = NoOne
  <2>2. PICK q \in W!RequestRec :
          /\ q = [o EXCEPT !.owner = TRUE, !.at = "text"] /\ q.at = "text"
          /\ q.email = o.email /\ q.owner /\ q.new = o.new /\ q.ch = o.ch
          /\ q.deleted = o.deleted
    <3> DEFINE q == [o EXCEPT !.owner = TRUE, !.at = "text"]
    <3>1. /\ q \in W!RequestRec /\ q.at = "text" /\ q.email = o.email
          /\ q.owner /\ q.new = o.new /\ q.ch = o.ch /\ q.deleted = o.deleted
      BY DEF W!RequestRec, W!At
    <3> QED BY <3>1
  <2>3. requests' = [requests EXCEPT ![r] = q]
    BY <1>1, <1>4, <2>2 DEF W!CreateIfAbsent
  <2>4. Registers(q) /\ Founds(q) /\ q.ch = NoChannel
    BY <1>1, <1>4, <2>2 DEF Registers, Founds
  <2> QED BY <1>2, <1>3, <2>3, <2>4, RequestMoves
<1>5. CASE guild # NoOne
  BY <1>5, <1>1, <1>2, RequestGoes DEF W!CreateIfAbsent, W!At, Registers, Founds
<1> QED BY <1>4, <1>5

LEMMA DefaultChannelKeeps ==
  ASSUME WorkspaceAssumption, WorkspaceInv, NEW r \in Request, W!CreateDefaultChannel(r)
  PROVE  WorkspaceInv'
<1> USE RequestFacts
<1>1. PICK f \in W!Unused : f = W!Fresh
  BY DEF W!CreateDefaultChannel, W!Fresh
<1>2. PICK o \in W!RequestRec : o = requests[r]
  OBVIOUS
<1>3. f \in ChannelId /\ o.new[f] = W!Absent
  BY <1>1, <1>2 DEF W!Unused
<1>4. {0, 1} \subseteq 0..W!Cardinality(ChannelId)
  <2>1. W!Cardinality({f}) \in 0..W!Cardinality(ChannelId) /\ W!Cardinality({f}) = 1
    BY <1>3, ChannelCounts, CountW, FS_Singleton
  <2>2. W!Cardinality(ChannelId) \in Nat
    BY CountW, FS_CardinalityType DEF WorkspaceAssumption
  <2> QED BY <2>1, <2>2
<1>5. PICK t \in {"text", "voice"}, n \in {0, 1}, at \in {"voice", "join"} :
        /\ W!Inserts(r, f, t, n, at) /\ o.at = t
        /\ t = "text" => at = "voice"
        /\ t = "voice" => at = "join"
  BY <1>1, <1>2 DEF W!CreateDefaultChannel, W!Is
<1>6. /\ UNCHANGED W!Database /\ skewed' \subseteq {"text", "voice"} /\ skewed' = skewed /\ faults' \in 0..MaxFaults
  BY DEF W!CreateDefaultChannel, W!Counters
<1>7. PICK x \in W!ChannelRec : x = [type |-> t, position |-> n] /\ x.type = t
  <2>1. n \in 0..W!Cardinality(ChannelId)
    BY <1>4
  <2>2. [type |-> t, position |-> n] \in W!ChannelRec /\ [type |-> t, position |-> n].type = t
    BY <2>1 DEF W!ChannelRec
  <2> QED BY <2>2
<1>8. PICK q \in W!RequestRec :
        /\ q = [o EXCEPT !.new[f] = x, !.at = at] /\ q.at = at
        /\ q.email = o.email /\ q.owner = o.owner /\ q.ch = o.ch /\ q.deleted = o.deleted
        /\ q.new[f] = x /\ \A c \in ChannelId \ {f} : q.new[c] = o.new[c]
  <2> DEFINE q == [o EXCEPT !.new[f] = x, !.at = at]
  <2>1. o.new \in [ChannelId -> W!ChannelRec]
    BY DEF W!RequestRec
  <2>2. /\ q \in W!RequestRec /\ q.at = at
        /\ q.email = o.email /\ q.owner = o.owner /\ q.ch = o.ch /\ q.deleted = o.deleted
        /\ q.new = [o.new EXCEPT ![f] = x]
    BY <1>3, <2>1 DEF W!RequestRec, W!At
  <2>3. q.new[f] = x /\ \A c \in ChannelId \ {f} : q.new[c] = o.new[c]
    BY <1>3, <2>1, <2>2
  <2> QED BY <2>2, <2>3
<1>9. requests' = [requests EXCEPT ![r] = q]
  BY <1>2, <1>5, <1>7, <1>8 DEF W!Inserts
<1>10. o.owner /\ Registers(o) /\ Founds(o)
  BY <1>2, <1>5 DEF Registers
<1>11. Registers(q) /\ q.ch = NoChannel
  BY <1>5, <1>8, <1>10 DEF Registers
<1>12. Founds(q)
  <2>1. CASE t = "text"
    BY <1>3, <1>5, <1>7, <1>8, <2>1 DEF Founds
  <2>2. CASE t = "voice"
    <3>1. PICK c \in ChannelId : o.new[c].type = "text"
      BY <1>5, <1>10, <2>2 DEF Founds
    <3>2. c # f
      BY <1>3, <3>1, WorkspaceFacts
    <3> QED BY <1>3, <1>7, <1>8, <2>2, <3>1, <3>2 DEF Founds
  <2> QED BY <2>1, <2>2
<1>13. \A p \in Request \ {r} : ~requests[p].owner
  BY <1>2, <1>10 DEF WorkspaceInv
<1> QED BY <1>6, <1>9, <1>11, <1>12, <1>13, RequestMoves

LEMMA DeleteChannelKeeps ==
  ASSUME WorkspaceAssumption, WorkspaceInv, NEW r \in Request, NEW c \in ChannelId,
         W!DeleteChannel(r, c)
  PROVE  WorkspaceInv'
<1> USE RequestFacts
<1>1. PICK o \in W!RequestRec : o = requests[r] /\ o.at = "idle"
  BY DEF W!DeleteChannel, W!Is
<1>2. UNCHANGED W!Database /\ skewed' \subseteq {"text", "voice"} /\ skewed' = skewed /\ faults' \in 0..MaxFaults
  BY DEF W!DeleteChannel, W!Counters
<1>3. PICK q \in W!RequestRec :
        /\ q = [o EXCEPT !.at = "check", !.ch = c] /\ q.at = "check" /\ q.ch = c
        /\ q.email = o.email /\ q.owner = o.owner /\ q.new = o.new /\ q.deleted = o.deleted
  <2> DEFINE q == [o EXCEPT !.at = "check", !.ch = c]
  <2>1. /\ q \in W!RequestRec /\ q.at = "check" /\ q.ch = c
        /\ q.email = o.email /\ q.owner = o.owner /\ q.new = o.new /\ q.deleted = o.deleted
    BY DEF W!RequestRec, W!At
  <2> QED BY <2>1
<1>4. requests' = [requests EXCEPT ![r] = q] /\ W!Exists(c)
  BY <1>1, <1>3 DEF W!DeleteChannel
<1>5. Registers(o) /\ Founds(o) /\ guild # NoOne
  BY <1>1, <1>4 DEF WorkspaceInv
<1>6. Registers(q) /\ Founds(q) /\ ~q.owner
  BY <1>1, <1>3, <1>5 DEF Registers, Founds, WorkspaceAssumption
<1>7. ~q.deleted /\ ~Passed(q) /\ \A x \in ChannelId : q.new[x] = W!Absent
  BY <1>1, <1>3, <1>5 DEF Registers, Passed
<1>8. Deletes(q)
  BY <1>3, <1>4, <1>7 DEF Deletes, W!Exists
<1>9. ASSUME NEW p \in Request \ {r}
      PROVE  Apart(q, requests[p], skewed') /\ Apart(requests[p], q, skewed')
  <2>1. PICK x \in W!RequestRec : x = requests[p] /\ Registers(x)
    BY <1>9
  <2>2. x.deleted => x.ch \in ChannelId
    BY <2>1 DEF Registers, W!RequestRec
  <2>3. Apart(q, x, skewed') /\ Apart(x, q, skewed')
    BY <1>7, <2>2 DEF Apart
  <2> QED BY <2>1, <2>3
<1> QED BY <1>2, <1>4, <1>6, <1>8, <1>9, RequestMoves

\* A type with more than one channel has another one.
LEMMA SiblingCounted ==
  ASSUME WorkspaceAssumption, NEW c \in ChannelId, W!Cardinality(W!OfType(channels[c].type)) > 1
  PROVE  \E d \in ChannelId \ {c} : channels[d].type = channels[c].type
<1> DEFINE S == W!OfType(channels[c].type)
<1>1. CASE S \subseteq {c}
  <2>1. S = {} \/ S = {c}
    BY <1>1
  <2>2. Cardinality(S) \in {0, 1} /\ W!Cardinality(S) = Cardinality(S)
    BY <2>1, CountW, FS_EmptySet, FS_Singleton
  <2> QED BY <2>2
<1>2. CASE ~(S \subseteq {c})
  BY <1>2 DEF W!OfType
<1> QED BY <1>1, <1>2

LEMMA CheckSiblingsKeeps ==
  ASSUME WorkspaceAssumption, WorkspaceInv, NEW r \in Request, W!CheckSiblings(r)
  PROVE  WorkspaceInv'
<1> USE RequestFacts
<1>1. PICK o \in W!RequestRec : /\ o = requests[r] /\ o.at = "check" /\ o.ch \in ChannelId
                                /\ o.ch # NoChannel
  BY DEF W!CheckSiblings, W!Is, W!RequestRec, Registers, WorkspaceAssumption
<1>2. UNCHANGED W!Database /\ faults' \in 0..MaxFaults
  BY DEF W!CheckSiblings
<1>3. CASE W!End(r) /\ skewed' = skewed
  BY <1>2, <1>3, RequestEnds
<1>4. CASE /\ W!Exists(o.ch) /\ W!Cardinality(W!OfType(channels[o.ch].type)) > 1
           /\ W!Passes(r, o.ch)
  <2>1. PICK q \in W!RequestRec :
          /\ q = [o EXCEPT !.at = "delete"] /\ q.at = "delete" /\ q.email = o.email
          /\ q.owner = o.owner /\ q.new = o.new /\ q.ch = o.ch /\ q.deleted = o.deleted
    <3> DEFINE q == [o EXCEPT !.at = "delete"]
    <3>1. /\ q \in W!RequestRec /\ q.at = "delete" /\ q.email = o.email
          /\ q.owner = o.owner /\ q.new = o.new /\ q.ch = o.ch /\ q.deleted = o.deleted
      BY DEF W!RequestRec, W!At
    <3> QED BY <3>1
  <2>2. requests' = [requests EXCEPT ![r] = q]
    BY <1>1, <1>4, <2>1 DEF W!Passes, W!Goto
  <2>3. /\ skewed' \subseteq {"text", "voice"} /\ skewed \subseteq skewed'
        /\ W!Overlaps(r, o.ch) => channels[o.ch].type \in skewed'
    BY <1>4 DEF W!Passes, W!Exists
  <2>4. Registers(q) /\ Founds(q) /\ ~q.owner
    BY <1>1, <2>1 DEF Registers, Founds
  <2>5. Deletes(q)
    <3>1. \E d \in ChannelId \ {o.ch} : channels[d].type = channels[o.ch].type
      BY <1>1, <1>4, SiblingCounted
    <3> QED BY <1>1, <2>1, <3>1 DEF Deletes
  <2>6. ASSUME NEW p \in Request \ {r}
        PROVE  Apart(q, requests[p], skewed') /\ Apart(requests[p], q, skewed')
    <3>1. PICK x \in W!RequestRec : x = requests[p]
      BY <2>6
    <3>2. Passed(x) /\ x.ch # q.ch /\ channels[x.ch].type = channels[q.ch].type
            => channels[q.ch].type \in skewed'
      BY <2>1, <2>3, <2>6, <3>1 DEF W!Overlaps, W!Others, W!Is, Passed
    <3>3. Apart(o, x, skewed) /\ Apart(x, o, skewed)
      BY <1>1, <2>6, <3>1 DEF WorkspaceInv
    <3>4. Apart(q, x, skewed') /\ Apart(x, q, skewed')
      BY <2>1, <3>2, <3>3 DEF Apart
    <3> QED BY <3>1, <3>4
  <2> QED BY <1>2, <2>2, <2>3, <2>4, <2>5, <2>6, RequestMoves
<1>5. \/ W!End(r) /\ skewed' = skewed
      \/ /\ W!Exists(o.ch) /\ W!Cardinality(W!OfType(channels[o.ch].type)) > 1
         /\ W!Passes(r, o.ch)
  <2> DEFINE Check == W!Exists(o.ch) /\ W!Cardinality(W!OfType(channels[o.ch].type)) > 1
  <2>1. IF Check THEN W!Passes(r, o.ch) ELSE W!End(r) /\ UNCHANGED skewed
    BY <1>1 DEF W!CheckSiblings
  <2> QED BY <2>1
<1> QED BY <1>3, <1>4, <1>5

LEMMA DeleteRowKeeps ==
  ASSUME WorkspaceAssumption, WorkspaceInv, NEW r \in Request, W!DeleteRow(r)
  PROVE  WorkspaceInv'
<1> USE RequestFacts
<1>1. PICK o \in W!RequestRec : o = requests[r] /\ o.at = "delete" /\ o.ch # NoChannel
  BY DEF W!DeleteRow, W!Is, Registers
<1>2. /\ UNCHANGED W!Database /\ skewed' \subseteq {"text", "voice"} /\ skewed' = skewed
      /\ faults' \in 0..MaxFaults
  BY DEF W!DeleteRow, W!Counters
<1>3. CASE W!End(r)
  BY <1>2, <1>3, RequestEnds
<1>4. CASE requests' = [requests EXCEPT ![r].deleted = TRUE, ![r].at = "renumber"]
  <2>1. PICK q \in W!RequestRec :
          /\ q = [o EXCEPT !.deleted = TRUE, !.at = "renumber"] /\ q.at = "renumber"
          /\ q.ch = o.ch /\ q.email = o.email /\ q.owner = o.owner /\ q.new = o.new
    <3> DEFINE q == [o EXCEPT !.deleted = TRUE, !.at = "renumber"]
    <3>1. /\ q \in W!RequestRec /\ q.at = "renumber"
          /\ q.ch = o.ch /\ q.email = o.email /\ q.owner = o.owner /\ q.new = o.new
      BY DEF W!RequestRec, W!At
    <3> QED BY <3>1
  <2>2. requests' = [requests EXCEPT ![r] = q]
    BY <1>1, <1>4, <2>1
  <2>3. Registers(q) /\ Founds(q) /\ ~q.owner
    BY <1>1, <2>1 DEF Registers, Founds
  <2>4. Deletes(q)
    BY <1>1, <2>1 DEF Deletes, Passed
  \* Its row is deleted once no other request holds it.
  <2>5. ASSUME NEW p \in Request \ {r}
        PROVE  Apart(q, requests[p], skewed') /\ Apart(requests[p], q, skewed')
    <3>1. PICK x \in W!RequestRec : x = requests[p]
      BY <2>5
    <3>2. x.new[o.ch] = W!Absent
      <4>1. W!Is(r, "delete") /\ ~W!WaitsFor(r, p)
        BY <2>5 DEF W!DeleteRow, W!Goes, W!Others
      <4>2. ~W!Holds(p, o.ch)
        BY <1>1, <4>1 DEF W!WaitsFor, W!Is
      <4> QED BY <3>1, <4>2 DEF W!Holds
    <3>3. Apart(o, x, skewed) /\ Apart(x, o, skewed)
      BY <1>1, <2>5, <3>1 DEF WorkspaceInv
    <3>4. Apart(q, x, skewed') /\ Apart(x, q, skewed')
      BY <1>1, <1>2, <2>1, <3>2, <3>3 DEF Apart, Passed
    <3> QED BY <3>1, <3>4
  <2> QED BY <1>2, <2>2, <2>3, <2>4, <2>5, RequestMoves
<1> QED BY <1>3, <1>4 DEF W!DeleteRow

\* What is renumbered keeps its type.
LEMMA RenumberedFacts ==
  ASSUME WorkspaceAssumption, WorkspaceInv, NEW r \in Request
  PROVE  /\ W!Renumbered(r) \in [ChannelId -> W!ChannelRec]
         /\ \A c \in ChannelId : W!Renumbered(r)[c] # W!Absent
              => W!Exists(c) /\ W!Renumbered(r)[c].type = channels[c].type
<1> DEFINE left == {c \in ChannelId : /\ W!Exists(c)
                                      /\ ~(requests[r].deleted /\ requests[r].ch = c)}
           index(c) == W!Cardinality({d \in left : channels[d].position < channels[c].position})
<1>1. ASSUME NEW c \in ChannelId
      PROVE  /\ [channels[c] EXCEPT !.position = index(c)] \in W!ChannelRec
             /\ [channels[c] EXCEPT !.position = index(c)].type = channels[c].type
  <2>1. PICK x \in W!ChannelRec : x = channels[c]
    BY DEF WorkspaceInv, W!TypeOK
  <2>2. index(c) \in 0..W!Cardinality(ChannelId)
    BY ChannelCounts
  <2> HIDE DEF index
  <2>3. /\ [x EXCEPT !.position = index(c)] \in W!ChannelRec
        /\ [x EXCEPT !.position = index(c)].type = x.type
    BY <2>2 DEF W!ChannelRec
  <2> QED BY <2>1, <2>3
<1>2. W!Renumbered(r) = [c \in ChannelId |->
        IF c \in left /\ channels[c].position # index(c)
        THEN [channels[c] EXCEPT !.position = index(c)] ELSE W!Absent]
  BY DEF W!Renumbered
<1>3. \A c \in left : W!Exists(c)
  OBVIOUS
<1> HIDE DEF left, index
<1>4. \A c \in ChannelId : W!Renumbered(r)[c] # W!Absent
        => c \in left /\ W!Renumbered(r)[c] = [channels[c] EXCEPT !.position = index(c)]
  BY <1>2
<1>5. W!Renumbered(r) \in [ChannelId -> W!ChannelRec]
  BY <1>1, <1>2, WorkspaceFacts
<1> QED BY <1>1, <1>3, <1>4, <1>5

LEMMA RenumberKeeps ==
  ASSUME WorkspaceAssumption, WorkspaceInv, NEW r \in Request, W!Renumber(r)
  PROVE  WorkspaceInv'
<1> USE RequestFacts
<1>1. PICK o \in W!RequestRec : o = requests[r] /\ o.at = "renumber" /\ o.ch # NoChannel
  BY DEF W!Renumber, W!Is, Registers
<1>2. UNCHANGED W!Database /\ skewed' \subseteq {"text", "voice"} /\ skewed' = skewed /\ faults' \in 0..MaxFaults
  BY DEF W!Renumber, W!Counters
<1>3. PICK new \in [ChannelId -> W!ChannelRec] :
        /\ new = W!Renumbered(r)
        /\ \A c \in ChannelId : new[c] # W!Absent => W!Exists(c) /\ new[c].type = channels[c].type
  BY RenumberedFacts
<1>4. PICK q \in W!RequestRec :
        /\ q = [o EXCEPT !.new = new, !.at = "commit"] /\ q.at = "commit" /\ q.new = new
        /\ q.ch = o.ch /\ q.email = o.email /\ q.owner = o.owner /\ q.deleted = o.deleted
  <2> DEFINE q == [o EXCEPT !.new = new, !.at = "commit"]
  <2>1. /\ q \in W!RequestRec /\ q.at = "commit" /\ q.new = new
        /\ q.ch = o.ch /\ q.email = o.email /\ q.owner = o.owner /\ q.deleted = o.deleted
    BY DEF W!RequestRec, W!At
  <2> QED BY <2>1
<1>5. requests' = [requests EXCEPT ![r] = q]
  BY <1>1, <1>3, <1>4 DEF W!Renumber
<1>6. Registers(q) /\ Founds(q) /\ ~q.owner
  BY <1>1, <1>4 DEF Registers, Founds
<1>7. Deletes(q)
  BY <1>1, <1>3, <1>4 DEF Deletes, Passed
\* It renumbers once no other request holds a row it changes.
<1>8. ASSUME NEW p \in Request \ {r}
      PROVE  Apart(q, requests[p], skewed') /\ Apart(requests[p], q, skewed')
  <2>1. PICK x \in W!RequestRec : x = requests[p] /\ Registers(x)
    BY <1>8
  <2>2. ASSUME NEW c \in ChannelId, x.deleted, x.ch = c PROVE new[c] = W!Absent
    <3>1. W!Is(r, "renumber") /\ ~W!WaitsFor(r, p)
      BY <1>8 DEF W!Renumber, W!Goes, W!Others
    <3>2. W!Renumbered(r)[c] # W!Absent => ~W!Holds(p, c)
      BY <3>1 DEF W!WaitsFor, W!Is
    <3> QED BY <1>3, <2>1, <2>2, <3>2 DEF W!Holds
  <2>3. x.deleted => x.ch \in ChannelId
    BY <2>1 DEF Registers, W!RequestRec
  <2>4. Apart(o, x, skewed) /\ Apart(x, o, skewed)
    BY <1>1, <1>8, <2>1 DEF WorkspaceInv
  <2>5. Apart(q, x, skewed') /\ Apart(x, q, skewed')
    BY <1>1, <1>2, <1>4, <2>2, <2>3, <2>4 DEF Apart, Passed
  <2> QED BY <2>1, <2>5
<1> QED BY <1>2, <1>5, <1>6, <1>7, <1>8, RequestMoves

LEMMA AbortKeeps ==
  ASSUME WorkspaceAssumption, WorkspaceInv, NEW r \in Request, W!Abort(r)
  PROVE  WorkspaceInv'
BY RequestEnds DEF W!Abort, WorkspaceInv, W!TypeOK, WorkspaceAssumption

\* An id that nobody has had is in no deletion's way.
LEMMA InsertChannelKeeps ==
  ASSUME WorkspaceAssumption, WorkspaceInv, NEW r \in Request, W!InsertChannel(r)
  PROVE  WorkspaceInv'
<1> USE RequestFacts
<1>1. PICK f \in W!Unused : f = W!Fresh
  BY DEF W!InsertChannel, W!Fresh
<1>2. /\ f \in ChannelId /\ channels[f].type = "none"
      /\ \A p \in Request : requests[p].new[f] = W!Absent
  BY <1>1 DEF W!Unused
<1>3. PICK t \in {"text", "voice"} :
        channels' = [channels EXCEPT ![f] = [type |-> t, position |-> requests[r].position]]
  BY <1>1 DEF W!InsertChannel
<1>4. PICK x \in W!ChannelRec : x = [type |-> t, position |-> requests[r].position] /\ x.type = t
  <2>1. PICK n \in 0..W!Cardinality(ChannelId) : n = requests[r].position
    BY DEF W!RequestRec
  <2>2. [type |-> t, position |-> n] \in W!ChannelRec /\ [type |-> t, position |-> n].type = t
    BY DEF W!ChannelRec
  <2> QED BY <2>1, <2>2
<1>5. /\ channels \in [ChannelId -> W!ChannelRec] /\ channels' \in [ChannelId -> W!ChannelRec]
      /\ channels'[f].type \in {"text", "voice"}
      /\ \A c \in ChannelId \ {f} : channels'[c] = channels[c]
  BY <1>2, <1>3, <1>4 DEF WorkspaceInv, W!TypeOK
<1>6. /\ requests' = [requests EXCEPT ![r] = W!Idle]
      /\ UNCHANGED <<users, members, guild, founders, skewed, faults>>
      /\ guild # NoOne
  BY DEF W!InsertChannel, W!End, W!Is, W!Counters, Registers
<1>7. requests \in [Request -> W!RequestRec] /\ requests' \in [Request -> W!RequestRec]
  BY <1>6, WorkspaceFacts DEF WorkspaceInv, W!TypeOK
<1>8. W!TypeOK'
  BY <1>5, <1>6, <1>7 DEF WorkspaceInv, W!TypeOK
<1>9. Registers(W!Idle) /\ Founds(W!Idle) /\ Deletes(W!Idle)
  BY WorkspaceFacts DEF Registers, Founds, Deletes
<1>10. ASSUME NEW p \in Request PROVE (Registers(requests[p]) /\ Founds(requests[p]))'
  <2>1. PICK y \in W!RequestRec : y = requests'[p]
    BY <1>7
  <2>2. Registers(y) /\ Founds(y)
    BY <1>6, <1>7, <1>9, <2>1
  <2>3. Registers(y)' /\ Founds(y)'
    BY <1>6, <2>2 DEF Registers, Founds
  <2> QED BY <2>1, <2>3 DEF Registers, Founds
<1>11. ASSUME NEW y \in W!RequestRec, Registers(y), Deletes(y), y.ch # NoChannel
       PROVE  y.ch \in ChannelId \ {f}
  BY <1>2, <1>11 DEF Deletes, W!RequestRec
<1>12. ASSUME NEW p \in Request PROVE Deletes(requests[p])'
  <2>1. PICK y \in W!RequestRec : y = requests'[p]
    BY <1>7
  <2>2. Deletes(y) /\ Registers(y)
    BY <1>6, <1>7, <1>9, <2>1
  <2>3. Deletes(y)'
    <3> SUFFICES ASSUME y.ch # NoChannel
                 PROVE  /\ channels'[y.ch].type # "none"
                        /\ Passed(y) /\ W!Exists(y.ch)' /\ channels'[y.ch].type \notin skewed =>
                             \E d \in ChannelId \ {y.ch} : channels'[d].type = channels'[y.ch].type
                        /\ \A c \in ChannelId : y.new[c] # W!Absent
                             => W!Exists(c)' /\ y.new[c].type = channels'[c].type
      BY <1>6 DEF Deletes, Passed, W!Exists, W!Absent
    <3>1. y.ch \in ChannelId \ {f} /\ channels'[y.ch] = channels[y.ch]
      BY <1>5, <1>11, <2>2
    <3>2. ASSUME NEW d \in ChannelId, channels[d].type # "none" PROVE channels'[d] = channels[d]
      BY <1>2, <1>5, <3>2
    <3> QED BY <2>2, <3>1, <3>2 DEF Deletes, W!Exists
  <2> QED BY <2>1, <2>3 DEF Deletes, W!Exists, W!Absent, Passed
<1>13. ASSUME NEW p \in Request, NEW y \in Request, requests'[p].owner, requests'[y].owner
       PROVE  p = y
  BY <1>6, <1>7, <1>13, WorkspaceFacts DEF WorkspaceInv
<1>14. ASSUME NEW p \in Request, NEW o \in Request, p # o
       PROVE  Apart(requests[p], requests[o], skewed)'
  <2>1. PICK y \in W!RequestRec, z \in W!RequestRec : y = requests'[p] /\ z = requests'[o]
    BY <1>7
  <2>2. Deletes(y) /\ Deletes(z) /\ Registers(y) /\ Registers(z)
    BY <1>6, <1>7, <1>9, <2>1
  <2>3. Apart(y, z, skewed)
    BY <1>6, <1>7, <1>9, <1>14, <2>1, WorkspaceFacts, NoDeletion DEF WorkspaceInv
  <2>4. /\ y.ch # NoChannel => channels'[y.ch] = channels[y.ch]
        /\ z.ch # NoChannel => channels'[z.ch] = channels[z.ch]
    BY <1>5, <1>11, <2>2
  <2>5. Apart(y, z, skewed)'
    BY <1>6, <2>3, <2>4 DEF Apart, Passed, W!Exists, W!Absent
  <2> QED BY <2>1, <2>5 DEF Apart, Passed, W!Exists, W!Absent
<1>15. ASSUME NEW s \in {"text", "voice"} \ skewed PROVE \E c \in ChannelId : channels'[c].type = s
  <2>1. PICK c \in ChannelId : channels[c].type = s
    BY <1>6 DEF WorkspaceInv
  <2>2. c # f
    BY <1>2, <2>1
  <2> QED BY <1>5, <2>1, <2>2
<1>16. members' = users' /\ founders' \subseteq {guild'} /\ guild' # NoOne
  BY <1>6 DEF WorkspaceInv
<1> QED BY <1>6, <1>8, <1>10, <1>12, <1>13, <1>14, <1>15, <1>16 DEF WorkspaceInv

\* The rows of a committed transaction become everybody's.
LEMMA CommitKeeps ==
  ASSUME WorkspaceAssumption, WorkspaceInv, NEW r \in Request, W!Commit(r)
  PROVE  WorkspaceInv'
<1> USE RequestFacts
<1>1. PICK o \in W!RequestRec : o = requests[r] /\ o.at = "commit"
  BY DEF W!Commit, W!Is
<1>2. o.new \in [ChannelId -> W!ChannelRec] /\ o.email \in Email \cup {NoOne} /\ o.owner \in BOOLEAN
  BY DEF W!RequestRec
<1>3. /\ users' = users \cup ({o.email} \ {NoOne}) /\ members' = members \cup ({o.email} \ {NoOne})
      /\ guild' = IF o.owner THEN o.email ELSE guild
      /\ founders' = IF o.owner THEN founders \cup {o.email} ELSE founders
      /\ requests' = [requests EXCEPT ![r] = W!Idle] /\ UNCHANGED <<skewed, faults>>
  BY <1>1 DEF W!Commit, W!End, W!Counters
<1>4. /\ channels \in [ChannelId -> W!ChannelRec] /\ channels' \in [ChannelId -> W!ChannelRec]
      /\ \A c \in ChannelId : /\ o.deleted /\ o.ch = c => channels'[c].type = "gone"
                              /\ ~(o.deleted /\ o.ch = c) /\ o.new[c] # W!Absent
                                   => channels'[c] = o.new[c]
                              /\ ~(o.deleted /\ o.ch = c) /\ o.new[c] = W!Absent
                                   => channels'[c] = channels[c]
  <2>1. channels \in [ChannelId -> W!ChannelRec]
    BY DEF WorkspaceInv, W!TypeOK
  <2>2. PICK g \in W!ChannelRec : g = [type |-> "gone", position |-> 0] /\ g.type = "gone"
    <3>1. 0 \in 0..W!Cardinality(ChannelId)
      BY ChannelCounts, CountW, FS_EmptySet
    <3>2. /\ [type |-> "gone", position |-> 0] \in W!ChannelRec
          /\ [type |-> "gone", position |-> 0].type = "gone"
      BY <3>1 DEF W!ChannelRec
    <3> QED BY <3>2
  <2>3. channels' = [c \in ChannelId |->
          CASE o.deleted /\ o.ch = c -> g
            [] ~(o.deleted /\ o.ch = c) /\ o.new[c] # W!Absent -> o.new[c]
            [] ~(o.deleted /\ o.ch = c) /\ o.new[c] = W!Absent -> channels[c]]
    BY <1>1, <2>2 DEF W!Commit
  <2> QED BY <1>2, <2>1, <2>2, <2>3
<1>5. requests \in [Request -> W!RequestRec] /\ requests' \in [Request -> W!RequestRec]
  BY <1>3, WorkspaceFacts DEF WorkspaceInv, W!TypeOK
<1>6. Registers(o) /\ Founds(o) /\ Deletes(o)
  BY <1>1
<1>7. guild' # NoOne /\ (guild # NoOne => guild' = guild) /\ founders' \subseteq {guild'}
  BY <1>1, <1>3, <1>6 DEF Registers, WorkspaceInv
<1>8. W!TypeOK' /\ members' = users'
  BY <1>2, <1>3, <1>6, <1>4, <1>5 DEF WorkspaceInv, W!TypeOK, Registers
<1>9. Registers(W!Idle) /\ Founds(W!Idle) /\ Deletes(W!Idle)
  BY WorkspaceFacts DEF Registers, Founds, Deletes
<1>10. ASSUME NEW p \in Request PROVE (Registers(requests[p]) /\ Founds(requests[p]))'
  <2>1. PICK y \in W!RequestRec : y = requests'[p] /\ (p = r => y = W!Idle)
                                                   /\ (p # r => y = requests[p])
    BY <1>3, <1>5
  <2>2. Registers(y) /\ Founds(y)
    BY <1>9, <2>1
  <2>3. ~(y.owner /\ guild # NoOne) /\ (y.owner => p # r /\ requests[p].owner)
    BY <2>1, <2>2, WorkspaceFacts DEF Registers
  <2>4. y.owner => guild' = NoOne
    BY <1>1, <1>3, <2>2, <2>3 DEF Registers, WorkspaceInv
  <2>5. Registers(y)' /\ Founds(y)'
    BY <1>7, <2>2, <2>4 DEF Registers, Founds, W!Absent
  <2> QED BY <2>1, <2>5 DEF Registers, Founds, W!Absent
<1>11. ASSUME NEW p \in Request, NEW y \in Request, requests'[p].owner, requests'[y].owner
       PROVE  p = y
  BY <1>3, <1>5, <1>11, WorkspaceFacts DEF WorkspaceInv
\* Only the founder and a deletion commit channels; a deletion changes no type but that of
\* the channel it takes.
<1>12. /\ o.owner => guild = NoOne
       /\ ~o.owner => \A c \in ChannelId :
            channels'[c].type = IF o.deleted /\ o.ch = c THEN "gone" ELSE channels[c].type
  BY <1>4, <1>6 DEF Registers, Deletes
<1>13. ASSUME NEW p \in Request, NEW y \in W!RequestRec, y = requests'[p], y.ch # NoChannel
       PROVE  /\ p # r /\ y = requests[p] /\ ~o.owner /\ Deletes(y) /\ y.ch \in ChannelId
              /\ Apart(o, y, skewed)
  <2>1. p # r /\ y = requests[p]
    BY <1>3, <1>5, <1>13, WorkspaceFacts
  <2>2. guild # NoOne /\ Deletes(y) /\ y.ch \in ChannelId
    BY <1>13, <2>1 DEF Registers, W!RequestRec
  <2> QED BY <1>1, <1>12, <2>1, <2>2 DEF WorkspaceInv
<1>14. ASSUME NEW p \in Request PROVE Deletes(requests[p])'
  <2>1. PICK y \in W!RequestRec : y = requests'[p]
    BY <1>5
  <2>2. Deletes(y)'
    <3> SUFFICES ASSUME y.ch # NoChannel
                 PROVE  /\ channels'[y.ch].type # "none"
                        /\ Passed(y) /\ W!Exists(y.ch)' /\ channels'[y.ch].type \notin skewed =>
                             \E d \in ChannelId \ {y.ch} : channels'[d].type = channels'[y.ch].type
                        /\ \A c \in ChannelId : y.new[c] # W!Absent
                             => W!Exists(c)' /\ y.new[c].type = channels'[c].type
      BY <1>3 DEF Deletes, Passed, W!Exists, W!Absent
    <3>1. ~o.owner /\ Deletes(y) /\ y.ch \in ChannelId /\ Apart(o, y, skewed)
      BY <1>13, <2>1
    <3>2. channels'[y.ch].type # "none"
      BY <1>12, <3>1 DEF Deletes
    <3>3. ASSUME Passed(y), W!Exists(y.ch)', channels'[y.ch].type \notin skewed
          PROVE  \E d \in ChannelId \ {y.ch} : channels'[d].type = channels'[y.ch].type
      <4>1. ~(o.deleted /\ o.ch = y.ch) /\ channels'[y.ch].type = channels[y.ch].type
        BY <1>12, <3>1, <3>3 DEF W!Exists
      <4>2. W!Exists(y.ch)
        BY <3>3, <4>1 DEF W!Exists
      <4>3. PICK d \in ChannelId \ {y.ch} : channels[d].type = channels[y.ch].type
        BY <3>1, <3>3, <4>1, <4>2 DEF Deletes
      <4>4. ~(o.deleted /\ o.ch = d)
        <5>1. o.deleted => o.ch # NoChannel /\ Passed(o)
          BY <1>1, <1>6 DEF Registers, Passed
        <5>2. o.deleted /\ o.ch = d => W!Exists(o.ch) /\ channels[o.ch].type = channels[y.ch].type
          BY <4>2, <4>3 DEF W!Exists
        <5> QED BY <3>1, <3>3, <4>1, <4>2, <4>3, <5>1, <5>2 DEF Apart
      <4> QED BY <1>12, <3>1, <4>1, <4>3, <4>4
    <3>4. ASSUME NEW c \in ChannelId, y.new[c] # W!Absent
          PROVE  W!Exists(c)' /\ y.new[c].type = channels'[c].type
      <4>1. ~(o.deleted /\ o.ch = c)
        BY <3>1, <3>4 DEF Apart
      <4> QED BY <1>12, <3>1, <3>4, <4>1 DEF Deletes, W!Exists
    <3> QED BY <3>2, <3>3, <3>4
  <2> QED BY <2>1, <2>2 DEF Deletes, W!Exists, W!Absent, Passed
<1>15. ASSUME NEW p \in Request, NEW x \in Request, p # x
       PROVE  Apart(requests[p], requests[x], skewed)'
  <2>1. PICK y \in W!RequestRec, z \in W!RequestRec : y = requests'[p] /\ z = requests'[x]
    BY <1>5
  <2>2. Registers(y) /\ Registers(z)
    BY <1>3, <1>5, <1>9, <2>1
  <2>3. CASE y.ch = NoChannel \/ z.ch = NoChannel
    <3>1. y.ch = NoChannel => ~y.deleted
      BY <2>2 DEF Registers
    <3>2. Apart(y, z, skewed)'
      BY <2>3, <3>1 DEF Apart, Passed
    <3> QED BY <2>1, <3>2 DEF Apart, Passed, W!Exists, W!Absent
  <2>4. CASE y.ch # NoChannel /\ z.ch # NoChannel
    <3>1. /\ y = requests[p] /\ z = requests[x] /\ ~o.owner /\ y.ch \in ChannelId /\ z.ch \in ChannelId
      BY <1>13, <2>1, <2>4
    <3>2. Apart(y, z, skewed)
      BY <1>15, <3>1 DEF WorkspaceInv
    <3>3. \A c \in {y.ch, z.ch} :
            W!Exists(c)' => W!Exists(c) /\ channels'[c].type = channels[c].type
      BY <1>12, <3>1 DEF W!Exists
    <3>4. Apart(y, z, skewed)'
      BY <1>3, <3>2, <3>3 DEF Apart, Passed, W!Absent
    <3> QED BY <2>1, <3>4 DEF Apart, Passed, W!Exists, W!Absent
  <2> QED BY <2>3, <2>4
<1>16. ASSUME NEW t \in {"text", "voice"} \ skewed PROVE \E c \in ChannelId : channels'[c].type = t
  <2>1. CASE o.owner
    <3>1. PICK c \in ChannelId : o.new[c].type = t
      BY <1>1, <1>6, <2>1 DEF Founds
    <3>2. ~o.deleted /\ o.new[c] # W!Absent
      BY <1>6, <2>1, <3>1, WorkspaceFacts DEF Registers
    <3> QED BY <1>4, <3>1, <3>2
  <2>2. CASE ~o.owner
    <3>1. PICK c \in ChannelId : channels[c].type = t
      BY <1>1, <1>6, <2>2 DEF Registers, WorkspaceInv
    <3>2. PICK d \in ChannelId : channels[d].type = t /\ ~(o.deleted /\ o.ch = d)
      <4>1. CASE ~(o.deleted /\ o.ch = c)
        BY <3>1, <4>1
      <4>2. CASE o.deleted /\ o.ch = c
        BY <1>1, <1>6, <3>1, <4>2 DEF Registers, Deletes, Passed, W!Exists
      <4> QED BY <4>1, <4>2
    <3> QED BY <1>12, <2>2, <3>2
  <2> QED BY <2>1, <2>2
<1> QED BY <1>3, <1>7, <1>8, <1>10, <1>11, <1>14, <1>15, <1>16 DEF WorkspaceInv

LEMMA WorkspaceInvariant ==
  ASSUME WorkspaceAssumption PROVE W!Spec => []WorkspaceInv
<1>1. W!Init => WorkspaceInv
  <2> SUFFICES ASSUME W!Init PROVE WorkspaceInv
    OBVIOUS
  <2>1. /\ W!Nothing \in [ChannelId -> W!ChannelRec]
        /\ \A c \in ChannelId : W!Nothing[c].type = "none"
    BY WorkspaceFacts DEF W!Nothing
  <2>2. /\ requests \in [Request -> W!RequestRec] /\ \A r \in Request : requests[r] = W!Idle
        /\ channels = W!Nothing /\ users = {} /\ members = {} /\ founders = {} /\ guild = NoOne
        /\ skewed = {} /\ faults = 0
    BY WorkspaceFacts DEF W!Init
  <2>3. W!TypeOK
    <3>1. 0 \in 0..MaxFaults
      BY DEF WorkspaceAssumption
    <3>2. /\ users \subseteq Email /\ members \subseteq Email /\ founders \subseteq Email
          /\ guild \in Email \cup {NoOne} /\ skewed \subseteq {"text", "voice"}
      BY <2>2
    <3> QED BY <2>1, <2>2, <3>1, <3>2 DEF W!TypeOK
  <2>4. Registers(W!Idle) /\ Founds(W!Idle) /\ Deletes(W!Idle)
    BY WorkspaceFacts DEF Registers, Founds, Deletes
  <2>5. \A r, q \in Request : Apart(requests[r], requests[q], skewed)
    BY <2>2, <2>4, WorkspaceFacts, NoDeletion
  <2> QED BY <2>1, <2>2, <2>3, <2>4, <2>5, WorkspaceFacts DEF WorkspaceInv, W!Exists
<1>2. WorkspaceInv /\ [W!Next]_W!workspaceVars => WorkspaceInv'
  <2> SUFFICES ASSUME WorkspaceInv, [W!Next]_W!workspaceVars PROVE WorkspaceInv'
    OBVIOUS
  <2>1. CASE UNCHANGED W!workspaceVars
    BY <2>1 DEF W!workspaceVars, WorkspaceInv, W!TypeOK, Registers, Founds, Deletes, Apart, Passed,
       W!Exists, W!Absent
  <2>2. CASE W!Next
    <3>1. PICK r \in Request :
            \/ \E e \in Email : W!Register(r, e)
            \/ \E c \in ChannelId : W!DeleteChannel(r, c)
            \/ W!InsertUser(r) \/ W!FindWorkspace(r) \/ W!CreateIfAbsent(r)
            \/ W!CreateDefaultChannel(r)
            \/ W!Reload(r) \/ W!AddMember(r) \/ W!CreateChannel(r) \/ W!InsertChannel(r)
            \/ W!CheckSiblings(r) \/ W!DeleteRow(r) \/ W!Renumber(r) \/ W!Commit(r) \/ W!Abort(r)
      BY <2>2 DEF W!Next
    <3> QED BY <3>1, InsertUserKeeps, RegisterKeeps, CreateIfAbsentKeeps, DefaultChannelKeeps,
            DeleteChannelKeeps, CheckSiblingsKeeps, DeleteRowKeeps, RenumberKeeps, AbortKeeps,
            InsertChannelKeeps, CommitKeeps
  <2> QED BY <2>1, <2>2
<1> QED BY <1>1, <1>2, PTL DEF W!Spec

\* Registration (default-workspace.ts, createIfAbsent): in whatever order the statements
\* of any number of first registrations come, one of them makes the workspace, and no
\* user is left outside of it.
THEOREM WorkspaceIsSharedTheorem == W!Spec => []WorkspaceIsShared
<1>1. WorkspaceInv => W!WorkspaceIsShared
  <2> SUFFICES ASSUME WorkspaceInv PROVE W!WorkspaceIsShared
    OBVIOUS
  <2>1. founders = {} \/ founders = {guild}
    BY DEF WorkspaceInv
  <2>2. W!Cardinality(founders) \in {0, 1}
    BY <2>1, CountW, FS_EmptySet, FS_Singleton
  <2>3. W!Cardinality(founders) <= 1
    BY <2>2
  <2> QED BY <2>3 DEF WorkspaceInv, W!WorkspaceIsShared
<1>2. W!Spec => []WorkspaceInv
  BY ServerAssumption, WorkspaceInvariant
<1> QED BY <1>1, <1>2, PTL DEF WorkspaceIsShared

\* DELETE /v1/admin/channels/:id (routes/system.ts): the last channel of a type is never
\* deleted, whatever else is registered, created, renumbered and deleted, unless two
\* deletions of channels of that type count the siblings (906) before either commits.
THEOREM ChannelsRemainTheorem == W!Spec => []ChannelsRemain
<1>1. WorkspaceInv => W!ChannelsRemain
  BY DEF WorkspaceInv, W!ChannelsRemain, W!OfType
<1>2. W!Spec => []WorkspaceInv
  BY ServerAssumption, WorkspaceInvariant
<1> QED BY <1>1, <1>2, PTL DEF ChannelsRemain

-----------------------------------------------------------------------------
(* Presence.                                                               *)

SnapRec == [at : {"none", "read", "write", "rosters"}, who : User \cup {NoUser},
            roster : P!Counts, todo : SUBSET User]
CommandRec == [op : {"persist", "read", "write"}, c : Conn, u : User,
               n : 0..P!Cardinality(Conn)]

PresenceTypes ==
  /\ open \subseteq Conn
  /\ user \in [Conn -> User \cup {NoUser}]
  /\ snap \in [Conn -> SnapRec]
  /\ redis \in Seq(CommandRec)
  /\ hash \in P!Counts
  /\ view \in [Conn -> P!Counts]
  /\ misled \in [Conn -> SUBSET User]
  /\ dirty \subseteq User

\* Who is signed in is attached; who is not waits for nothing.
Attached ==
  \A c \in Conn : /\ user[c] # NoUser => c \in open
                  /\ c \in open /\ user[c] = NoUser => snap[c].at = "none"
                  /\ snap[c].at # "none" => snap[c].who \in User

\* A snapshot has one command of its own with Redis at a time, and writes its own counts.
Commands ==
  /\ \A i \in 1..Len(redis) :
       /\ redis[i].op # "persist" => snap[redis[i].c].at = redis[i].op
       /\ redis[i].op = "write" => redis[i].n = snap[redis[i].c].roster[redis[i].u]
  /\ \A i, j \in 1..Len(redis) :
       redis[i].op # "persist" /\ redis[j].op # "persist" /\ redis[i].c = redis[j].c => i = j

IsPersist(r, u) == r.op = "persist" /\ r.u = u
LastPersist(s, u, i) == /\ i \in 1..Len(s) /\ IsPersist(s[i], u)
                        /\ \A j \in 1..Len(s) : j > i => ~IsPersist(s[j], u)
NoPersist(s, u) == \A i \in 1..Len(s) : ~IsPersist(s[i], u)
\* No connection of u is between its authentication and onConnect.
Settled(u) == \A c \in Conn : snap[c].at # "none" => snap[c].who # u

\* Of the counts of u on their way to Redis and the clients, the last one is right.
Announced ==
  \A u \in User, i \in 1..Len(redis) :
    Settled(u) /\ LastPersist(redis, u, i) => redis[i].n = P!CountIn(user, u)

\* Once no count of u is on its way: a client that is not signed in shows the right
\* count or nothing; one whose snapshot is to come shows the right count, or nothing and
\* the snapshot has it; one that has had it shows the right count, as does the hash.
Shown ==
  \A u \in User : Settled(u) /\ NoPersist(redis, u) =>
    /\ \A c \in open :
         /\ user[c] = NoUser => view[c][u] \in {0, P!CountIn(user, u)}
         /\ snap[c].at \in {"read", "write"} =>
              \/ view[c][u] = P!CountIn(user, u)
              \/ view[c][u] = 0 /\ snap[c].roster[u] = P!CountIn(user, u)
         /\ user[c] # NoUser /\ snap[c].at \in {"none", "rosters"} /\ u \notin misled[c]
              => view[c][u] = P!CountIn(user, u)
    /\ u \notin dirty => hash[u] = P!CountIn(user, u)

PresenceInv ==
  PresenceTypes /\ Attached /\ Commands /\ Announced /\ Shown

LEMMA CountP == ASSUME NEW S PROVE P!Cardinality(S) = Cardinality(S)
BY DEF P!Cardinality, Cardinality

LEMMA PresenceCounts ==
  ASSUME PresenceAssumption, NEW who, NEW u
  PROVE  P!CountIn(who, u) \in 0..P!Cardinality(Conn)
<1> DEFINE S == {c \in Conn : who[c] = u}
<1>1. /\ Cardinality(S) <= Cardinality(Conn)
      /\ Cardinality(S) \in Nat /\ Cardinality(Conn) \in Nat
  BY FS_Subset, FS_CardinalityType DEF PresenceAssumption
<1> QED BY <1>1, CountP DEF P!CountIn

\* A connection that is signed in or out counts for its own user alone.
LEMMA CountKept ==
  ASSUME PresenceTypes, NEW c \in Conn, NEW w \in User \cup {NoUser}, NEW u \in User,
         user' = [user EXCEPT ![c] = w], u # w, u # user[c]
  PROVE  P!CountIn(user', u) = P!CountIn(user, u)
<1>1. {d \in Conn : user'[d] = u} = {d \in Conn : user[d] = u}
  BY DEF PresenceTypes
<1> QED BY <1>1 DEF P!CountIn

\* The commands of Redis, as a queue.
LEMMA AppendedCommand ==
  ASSUME NEW s \in Seq(CommandRec), NEW r \in CommandRec
  PROVE  /\ Append(s, r) \in Seq(CommandRec) /\ Len(Append(s, r)) = Len(s) + 1
         /\ Append(s, r)[Len(s) + 1] = r
         /\ \A i \in 1..Len(s) : Append(s, r)[i] = s[i]
         /\ \A u : NoPersist(Append(s, r), u) => NoPersist(s, u) /\ ~IsPersist(r, u)
         /\ \A u, i : LastPersist(Append(s, r), u, i) =>
              IF IsPersist(r, u) THEN Append(s, r)[i] = r ELSE LastPersist(s, u, i)
<1>1. /\ Append(s, r) \in Seq(CommandRec) /\ Len(Append(s, r)) = Len(s) + 1
      /\ Append(s, r)[Len(s) + 1] = r
      /\ \A i \in 1..Len(s) : Append(s, r)[i] = s[i]
      /\ Len(s) \in Nat
  OBVIOUS
<1> DEFINE t == Append(s, r)
<1> HIDE DEF t
<1>2. ASSUME NEW u, NoPersist(t, u) PROVE NoPersist(s, u) /\ ~IsPersist(r, u)
  BY <1>1, <1>2 DEF t, NoPersist
<1>3. ASSUME NEW u, NEW i, LastPersist(t, u, i), IsPersist(r, u) PROVE t[i] = r
  BY <1>1, <1>3 DEF t, LastPersist
<1>4. ASSUME NEW u, NEW i, LastPersist(t, u, i), ~IsPersist(r, u) PROVE LastPersist(s, u, i)
  BY <1>1, <1>4 DEF t, LastPersist
<1> QED BY <1>1, <1>2, <1>3, <1>4 DEF t

LEMMA AnsweredCommand ==
  ASSUME NEW s \in Seq(CommandRec), s # <<>>
  PROVE  /\ Tail(s) \in Seq(CommandRec) /\ Len(Tail(s)) = Len(s) - 1 /\ Len(s) \in Nat \ {0}
         /\ Head(s) = s[1] /\ s[1] \in CommandRec
         /\ \A i \in 1..Len(Tail(s)) : Tail(s)[i] = s[i + 1] /\ i + 1 \in 1..Len(s)
         /\ \A u, i : LastPersist(Tail(s), u, i) => LastPersist(s, u, i + 1)
         /\ \A u : NoPersist(Tail(s), u) => NoPersist(s, u) \/ LastPersist(s, u, 1)
<1>1. /\ Tail(s) \in Seq(CommandRec) /\ Len(Tail(s)) = Len(s) - 1 /\ Len(s) \in Nat \ {0}
      /\ Head(s) = s[1] /\ s[1] \in CommandRec
      /\ \A i \in 1..Len(Tail(s)) : Tail(s)[i] = s[i + 1] /\ i + 1 \in 1..Len(s)
  OBVIOUS
<1> DEFINE t == Tail(s)
<1> HIDE DEF t
<1>2. ASSUME NEW j \in 1..Len(s), j > 1 PROVE j - 1 \in 1..Len(t) /\ t[j - 1] = s[j]
  BY <1>1, <1>2 DEF t
<1>3. ASSUME NEW u, NEW i, LastPersist(t, u, i) PROVE LastPersist(s, u, i + 1)
  <2>1. i \in 1..Len(t) /\ i + 1 \in 1..Len(s) /\ IsPersist(s[i + 1], u)
    BY <1>1, <1>3 DEF t, LastPersist
  <2>2. ASSUME NEW j \in 1..Len(s), j > i + 1 PROVE ~IsPersist(s[j], u)
    BY <1>2, <2>1, <2>2, <1>3 DEF LastPersist
  <2> QED BY <2>1, <2>2 DEF LastPersist
<1>4. ASSUME NEW u, NoPersist(t, u) PROVE NoPersist(s, u) \/ LastPersist(s, u, 1)
  <2>1. ASSUME NEW j \in 1..Len(s), j > 1 PROVE ~IsPersist(s[j], u)
    BY <1>2, <1>4, <2>1 DEF NoPersist
  <2>2. 1 \in 1..Len(s)
    BY <1>1
  <2> QED BY <2>1, <2>2 DEF NoPersist, LastPersist
<1> QED BY <1>1, <1>3, <1>4 DEF t

LEMMA ZeroCounts ==
  ASSUME PresenceAssumption
  PROVE  0 \in 0..P!Cardinality(Conn) /\ P!Nobody \in P!Counts /\ P!Resting \in SnapRec
BY CountP, FS_CardinalityType DEF PresenceAssumption, P!Nobody, P!Counts, P!Resting, SnapRec

LEMMA AttachKeeps ==
  ASSUME PresenceAssumption, PresenceInv, P!Attach PROVE PresenceInv'
<1>1. PICK c \in Conn \ open :
        /\ snap[c].at = "none" /\ open' = open \cup {c}
        /\ view' = [view EXCEPT ![c] = P!Nobody] /\ misled' = [misled EXCEPT ![c] = {}]
        /\ UNCHANGED <<user, snap, redis, hash, dirty>>
  BY DEF P!Attach
<1>2. PresenceTypes'
  BY <1>1, ZeroCounts DEF PresenceInv, PresenceTypes, P!Counts, SnapRec, CommandRec
<1>3. Attached' /\ Commands'
  BY <1>1 DEF PresenceInv, PresenceTypes, Attached, Commands
<1>4. \A u : P!CountIn(user, u)' = P!CountIn(user, u) /\ (Settled(u)' <=> Settled(u))
  BY <1>1 DEF P!CountIn, Settled
<1>5. Announced'
  BY <1>1, <1>4 DEF PresenceInv, Announced
<1>6. Shown'
  <2> SUFFICES ASSUME NEW u \in User, Settled(u), NoPersist(redis, u)
               PROVE  /\ \A d \in open' :
                           /\ user[d] = NoUser => view'[d][u] \in {0, P!CountIn(user, u)}
                           /\ snap[d].at \in {"read", "write"} =>
                                \/ view'[d][u] = P!CountIn(user, u)
                                \/ view'[d][u] = 0 /\ snap[d].roster[u] = P!CountIn(user, u)
                           /\ user[d] # NoUser /\ snap[d].at \in {"none", "rosters"}
                              /\ u \notin misled'[d] => view'[d][u] = P!CountIn(user, u)
                      /\ u \notin dirty => hash[u] = P!CountIn(user, u)
    BY <1>1, <1>4 DEF Shown
  <2>1. user[c] = NoUser /\ snap[c].at = "none"
    BY <1>1 DEF PresenceInv, Attached
  <2>2. view'[c][u] = 0
    BY <1>1 DEF PresenceInv, PresenceTypes, P!Nobody
  <2>3. ASSUME NEW d \in open' \ {c} PROVE d \in open /\ view'[d] = view[d] /\ misled'[d] = misled[d]
    BY <1>1 DEF PresenceInv, PresenceTypes
  <2> QED BY <2>1, <2>2, <2>3 DEF PresenceInv, Shown
<1> QED BY <1>2, <1>3, <1>5, <1>6 DEF PresenceInv

LEMMA CommandFacts ==
  ASSUME PresenceInv
  PROVE  /\ redis \in Seq(CommandRec) /\ Len(redis) \in Nat
         /\ \A i \in 1..Len(redis) :
              /\ redis[i] \in CommandRec /\ redis[i].c \in Conn /\ redis[i].u \in User
              /\ redis[i].op # "persist" =>
                   snap[redis[i].c].at = redis[i].op /\ redis[i].op \in {"read", "write"}
<1>1. redis \in Seq(CommandRec) /\ Len(redis) \in Nat
  BY DEF PresenceInv, PresenceTypes
<1>2. \A r \in CommandRec : r.c \in Conn /\ r.u \in User /\ r.op \in {"persist", "read", "write"}
  BY DEF CommandRec
<1>3. \A i \in 1..Len(redis) : redis[i] \in CommandRec
  BY <1>1
<1> QED BY <1>1, <1>2, <1>3 DEF PresenceInv, Commands

LEMMA AuthenticateKeeps ==
  ASSUME PresenceAssumption, PresenceInv, NEW c \in Conn, NEW w \in User, P!Authenticate(c, w)
  PROVE  PresenceInv'
<1>1. PICK q \in SnapRec : /\ q = [at |-> "read", who |-> w, todo |-> {},
                                   roster |-> [v \in User |-> P!CountIn(user, v)]]
                           /\ q.at = "read" /\ q.who = w
                           /\ \A v \in User : q.roster[v] = P!CountIn(user, v)
  <2> DEFINE roster == [v \in User |-> P!CountIn(user, v)]
             q == [at |-> "read", who |-> w, todo |-> {}, roster |-> roster]
  <2>1. roster \in P!Counts /\ \A v \in User : roster[v] = P!CountIn(user, v)
    BY PresenceCounts DEF P!Counts
  <2> HIDE DEF roster
  <2>2. q \in SnapRec /\ q.at = "read" /\ q.who = w /\ q.roster = roster
    BY <2>1 DEF SnapRec
  <2> HIDE DEF q
  <2>3. q = [at |-> "read", who |-> w, todo |-> {}, roster |-> [v \in User |-> P!CountIn(user, v)]]
    BY DEF q, roster
  <2> QED BY <2>1, <2>2, <2>3
<1>2. PICK r \in CommandRec : /\ r = P!Command("read", c, w, 0)
                              /\ r.op = "read" /\ r.c = c
  <2>1. 0 \in 0..P!Cardinality(Conn)
    BY ZeroCounts
  <2>2. /\ P!Command("read", c, w, 0) \in CommandRec
        /\ P!Command("read", c, w, 0).op = "read" /\ P!Command("read", c, w, 0).c = c
    BY <2>1 DEF P!Command, CommandRec
  <2> QED BY <2>2
<1>3. /\ c \in open /\ user[c] = NoUser /\ snap[c].at = "none"
      /\ user' = [user EXCEPT ![c] = w] /\ snap' = [snap EXCEPT ![c] = q]
      /\ redis' = Append(redis, r) /\ UNCHANGED <<open, hash, view, misled, dirty>>
  BY <1>1, <1>2 DEF P!Authenticate
<1>4. PresenceTypes
  BY DEF PresenceInv
<1>6. /\ redis' \in Seq(CommandRec) /\ Len(redis') = Len(redis) + 1 /\ redis'[Len(redis) + 1] = r
      /\ \A i \in 1..Len(redis) : redis'[i] = redis[i]
      /\ \A u : NoPersist(redis', u) => NoPersist(redis, u)
      /\ \A u, i : LastPersist(redis', u, i) => LastPersist(redis, u, i) /\ redis'[i] = redis[i]
  BY <1>2, <1>4, <1>3, AppendedCommand DEF PresenceTypes, IsPersist, LastPersist
<1>7. ASSUME NEW u \in User, u # w PROVE P!CountIn(user, u)' = P!CountIn(user, u)
  <2>1. P!CountIn(user', u) = P!CountIn(user, u)
    BY <1>3, <1>4, <1>7, CountKept DEF PresenceAssumption
  <2> QED BY <2>1 DEF P!CountIn
<1>8. /\ user' \in [Conn -> User \cup {NoUser}] /\ user'[c] = w /\ w # NoUser
      /\ \A d \in Conn \ {c} : user'[d] = user[d] /\ snap'[d] = snap[d]
      /\ snap' \in [Conn -> SnapRec] /\ snap'[c] = q
  BY <1>3, <1>4 DEF PresenceTypes, PresenceAssumption
<1>9. ASSUME NEW u \in User, Settled(u)' PROVE u # w /\ Settled(u)
  BY <1>1, <1>3, <1>8, <1>9 DEF Settled
<1>10. PresenceTypes'
  BY <1>3, <1>4, <1>6, <1>8 DEF PresenceTypes, P!Counts, SnapRec, CommandRec
<1>11. Attached'
  BY <1>1, <1>3, <1>8 DEF PresenceInv, Attached
<1>12. Commands'
  <2>1. ASSUME NEW i \in 1..Len(redis), redis[i].op # "persist" PROVE redis[i].c # c
    BY <1>3, <2>1, CommandFacts
  <2>2. ASSUME NEW i \in 1..Len(redis')
        PROVE  /\ redis'[i].op # "persist" => snap'[redis'[i].c].at = redis'[i].op
               /\ redis'[i].op = "write" => redis'[i].n = snap'[redis'[i].c].roster[redis'[i].u]
    <3>1. CASE i = Len(redis) + 1
      BY <1>1, <1>2, <1>6, <1>8, <3>1
    <3>2. CASE i \in 1..Len(redis)
      <4>1. redis'[i] = redis[i] /\ redis[i].c \in Conn
        BY <1>6, <3>2, CommandFacts
      <4> QED BY <1>8, <2>1, <3>2, <4>1 DEF PresenceInv, Commands
    <3> QED BY <1>4, <1>6, <3>1, <3>2 DEF PresenceTypes
  <2>3. ASSUME NEW i \in 1..Len(redis'), NEW j \in 1..Len(redis'), redis'[i].op # "persist",
               redis'[j].op # "persist", redis'[i].c = redis'[j].c
        PROVE  i = j
    <3>1. \A k \in 1..Len(redis') : k = Len(redis) + 1 \/ k \in 1..Len(redis)
      BY <1>4, <1>6 DEF PresenceTypes
    <3> QED BY <1>2, <1>6, <2>1, <2>3, <3>1 DEF PresenceInv, Commands
  <2> QED BY <2>2, <2>3 DEF Commands
<1>13. Announced'
  <2> SUFFICES ASSUME NEW u \in User, NEW i \in 1..Len(redis'), Settled(u)',
                      LastPersist(redis', u, i)
               PROVE  redis'[i].n = P!CountIn(user, u)'
    BY DEF Announced, LastPersist, IsPersist
  <2>1. u # w /\ Settled(u) /\ LastPersist(redis, u, i) /\ redis'[i] = redis[i] /\ i \in 1..Len(redis)
    BY <1>6, <1>9 DEF LastPersist
  <2> QED BY <1>7, <2>1 DEF PresenceInv, Announced
<1>14. Shown'
  <2> SUFFICES ASSUME NEW u \in User, Settled(u)', NoPersist(redis', u)
               PROVE  /\ \A d \in open :
                           /\ user'[d] = NoUser => view[d][u] \in {0, P!CountIn(user, u)'}
                           /\ snap'[d].at \in {"read", "write"} =>
                                \/ view[d][u] = P!CountIn(user, u)'
                                \/ view[d][u] = 0 /\ snap'[d].roster[u] = P!CountIn(user, u)'
                           /\ user'[d] # NoUser /\ snap'[d].at \in {"none", "rosters"}
                              /\ u \notin misled[d] => view[d][u] = P!CountIn(user, u)'
                      /\ u \notin dirty => hash[u] = P!CountIn(user, u)'
    BY <1>3 DEF Shown, NoPersist, IsPersist
  <2>1. /\ P!CountIn(user, u)' = P!CountIn(user, u) /\ Settled(u) /\ NoPersist(redis, u)
        /\ open \subseteq Conn
    BY <1>4, <1>6, <1>7, <1>9 DEF PresenceTypes
  <2>2. view[c][u] \in {0, P!CountIn(user, u)} /\ q.roster[u] = P!CountIn(user, u)
    BY <1>1, <1>3, <2>1 DEF PresenceInv, Shown
  <2>3. ASSUME NEW d \in open \ {c} PROVE user'[d] = user[d] /\ snap'[d] = snap[d]
    BY <1>8, <2>1
  <2> QED BY <1>1, <1>8, <2>1, <2>2, <2>3 DEF PresenceInv, Shown
<1> QED BY <1>10, <1>11, <1>12, <1>13, <1>14 DEF PresenceInv

LEMMA PersistFacts ==
  ASSUME PresenceAssumption, PresenceInv, NEW c \in Conn, NEW u \in User, NEW who
  PROVE  \E r \in CommandRec : /\ r = P!Persist(u, P!CountIn(who, u)) /\ r.n = P!CountIn(who, u)
                               /\ r.op = "persist" /\ \A v : IsPersist(r, v) <=> v = u
<1>1. PICK n \in 0..P!Cardinality(Conn) : n = P!CountIn(who, u)
  BY PresenceCounts
<1>2. PICK d \in Conn : d = CHOOSE x \in Conn : TRUE
  OBVIOUS
<1>3. /\ [op |-> "persist", c |-> d, u |-> u, n |-> n] \in CommandRec
      /\ [op |-> "persist", c |-> d, u |-> u, n |-> n].n = n
      /\ [op |-> "persist", c |-> d, u |-> u, n |-> n].op = "persist"
      /\ [op |-> "persist", c |-> d, u |-> u, n |-> n].u = u
  BY DEF CommandRec
<1> QED BY <1>1, <1>2, <1>3 DEF P!Persist, IsPersist

\* A count is sent to Redis after the last of what is there.
LEMMA PersistAppended ==
  ASSUME PresenceInv, NEW w \in User, NEW r \in CommandRec, redis' = Append(redis, r),
         r.op = "persist", \A v : IsPersist(r, v) <=> v = w
  PROVE  /\ redis' \in Seq(CommandRec) /\ Len(redis') = Len(redis) + 1
         /\ redis'[Len(redis) + 1] = r
         /\ \A i \in 1..Len(redis') : i = Len(redis) + 1 \/ i \in 1..Len(redis)
         /\ \A i \in 1..Len(redis) : redis'[i] = redis[i]
         /\ \A u \in User : NoPersist(redis', u) => NoPersist(redis, u) /\ u # w
         /\ \A u, i : LastPersist(redis', u, i) =>
              IF u = w THEN redis'[i] = r
              ELSE LastPersist(redis, u, i) /\ redis'[i] = redis[i] /\ i \in 1..Len(redis)
BY CommandFacts, AppendedCommand DEF LastPersist

LEMMA DetachKeeps ==
  ASSUME PresenceAssumption, PresenceInv, NEW c \in Conn, P!Detach(c) PROVE PresenceInv'
<1>1. /\ c \in open /\ open' = open \ {c} /\ user' = [user EXCEPT ![c] = NoUser]
      /\ UNCHANGED <<snap, hash, view, misled, dirty>>
  BY DEF P!Detach
<1>2. PresenceTypes /\ Attached /\ Commands /\ Announced /\ Shown
  BY DEF PresenceInv
<1>3. /\ user' \in [Conn -> User \cup {NoUser}] /\ user'[c] = NoUser
      /\ \A d \in Conn \ {c} : user'[d] = user[d]
  BY <1>1, <1>2 DEF PresenceTypes
<1>4. Attached'
  BY <1>1, <1>2, <1>3 DEF Attached
<1>5. \A u : Settled(u)' <=> Settled(u)
  BY <1>1 DEF Settled
<1>6. CASE user[c] = NoUser
  <2>1. user' = user /\ redis' = redis
    BY <1>1, <1>2, <1>6 DEF P!Detach, PresenceTypes
  <2>2. \A u : P!CountIn(user, u)' = P!CountIn(user, u)
    BY <2>1 DEF P!CountIn
  <2>3. PresenceTypes' /\ Commands'
    BY <1>1, <1>2, <2>1 DEF PresenceTypes, Commands, P!Counts, SnapRec, CommandRec
  <2>4. Announced'
    BY <1>1, <1>2, <1>5, <2>1, <2>2 DEF Announced
  <2>5. Shown'
    BY <1>1, <1>2, <1>5, <2>1, <2>2 DEF Shown
  <2> QED BY <1>4, <2>3, <2>4, <2>5 DEF PresenceInv
<1>7. CASE user[c] # NoUser
  <2>1. PICK w \in User : w = user[c]
    BY <1>2, <1>7 DEF PresenceTypes
  <2>2. redis' = Append(redis, P!Persist(w, P!CountIn(user', w)))
    BY <1>7, <2>1 DEF P!Detach
  <2>3. PICK r \in CommandRec :
          /\ r = P!Persist(w, P!CountIn(user', w)) /\ r.n = P!CountIn(user', w)
          /\ r.op = "persist" /\ \A v : IsPersist(r, v) <=> v = w
    BY PersistFacts
  <2>4. redis' = Append(redis, r)
    BY <2>2, <2>3
  <2>5. /\ redis' \in Seq(CommandRec) /\ Len(redis') = Len(redis) + 1
        /\ redis'[Len(redis) + 1] = r
        /\ \A i \in 1..Len(redis') : i = Len(redis) + 1 \/ i \in 1..Len(redis)
        /\ \A i \in 1..Len(redis) : redis'[i] = redis[i]
        /\ \A u \in User : NoPersist(redis', u) => NoPersist(redis, u) /\ u # w
        /\ \A u, i : LastPersist(redis', u, i) =>
             IF u = w THEN redis'[i] = r
             ELSE LastPersist(redis, u, i) /\ redis'[i] = redis[i] /\ i \in 1..Len(redis)
    BY <2>3, <2>4, PersistAppended
  <2>7. ASSUME NEW u \in User, u # w PROVE P!CountIn(user, u)' = P!CountIn(user, u)
    BY <1>1, <1>2, <2>1, <2>7, CountKept DEF PresenceAssumption, P!CountIn
  <2>8. P!CountIn(user, w)' = r.n
    BY <2>3 DEF P!CountIn
  <2>9. PresenceTypes'
    BY <1>1, <1>2, <1>3, <2>5 DEF PresenceTypes, P!Counts, SnapRec, CommandRec
  <2>10. Commands'
    BY <1>1, <1>2, <2>3, <2>5, SMTT(30) DEF Commands
  <2>11. Announced'
    <3> SUFFICES ASSUME NEW u \in User, NEW i \in 1..Len(redis'), Settled(u),
                        LastPersist(redis', u, i)
                 PROVE  redis'[i].n = P!CountIn(user, u)'
      BY <1>5 DEF Announced, LastPersist, IsPersist
    <3>1. CASE u = w
      BY <2>5, <2>8, <3>1
    <3>2. CASE u # w
      BY <1>2, <2>5, <2>7, <3>2 DEF Announced
    <3> QED BY <3>1, <3>2
  <2>12. Shown'
    <3> SUFFICES ASSUME NEW u \in User, Settled(u), NoPersist(redis', u)
                 PROVE  /\ \A d \in open' :
                             /\ user'[d] = NoUser => view[d][u] \in {0, P!CountIn(user, u)'}
                             /\ snap[d].at \in {"read", "write"} =>
                                  \/ view[d][u] = P!CountIn(user, u)'
                                  \/ view[d][u] = 0 /\ snap[d].roster[u] = P!CountIn(user, u)'
                             /\ user'[d] # NoUser /\ snap[d].at \in {"none", "rosters"}
                                /\ u \notin misled[d] => view[d][u] = P!CountIn(user, u)'
                        /\ u \notin dirty => hash[u] = P!CountIn(user, u)'
      BY <1>1, <1>5 DEF Shown, NoPersist, IsPersist
    <3>1. P!CountIn(user, u)' = P!CountIn(user, u) /\ NoPersist(redis, u) /\ open \subseteq Conn
      BY <1>2, <2>5, <2>7 DEF PresenceTypes
    <3>2. ASSUME NEW d \in open' PROVE d \in open /\ user'[d] = user[d]
      BY <1>1, <1>3, <3>1
    <3> QED BY <1>2, <3>1, <3>2 DEF Shown
  <2> QED BY <1>4, <2>9, <2>10, <2>11, <2>12 DEF PresenceInv
<1> QED BY <1>6, <1>7

LEMMA OnConnectKeeps ==
  ASSUME PresenceAssumption, PresenceInv, NEW c \in Conn, P!OnConnect(c) PROVE PresenceInv'
<1>1. PresenceTypes /\ Attached /\ Commands /\ Announced /\ Shown
  BY DEF PresenceInv
<1>2. PICK w \in User : w = snap[c].who
  BY <1>1 DEF P!OnConnect, Attached
<1>3. PICK r \in CommandRec :
        /\ r = P!Persist(w, P!CountIn(user, w)) /\ r.n = P!CountIn(user, w)
        /\ r.op = "persist" /\ \A v : IsPersist(r, v) <=> v = w
  BY PersistFacts
<1>4. /\ snap[c].at = "rosters" /\ snap' = [snap EXCEPT ![c] = P!Resting]
      /\ redis' = Append(redis, r) /\ UNCHANGED <<open, user, hash, view, misled, dirty>>
  BY <1>2, <1>3 DEF P!OnConnect
<1>5. /\ redis' \in Seq(CommandRec) /\ Len(redis') = Len(redis) + 1
      /\ redis'[Len(redis) + 1] = r
      /\ \A i \in 1..Len(redis') : i = Len(redis) + 1 \/ i \in 1..Len(redis)
      /\ \A i \in 1..Len(redis) : redis'[i] = redis[i]
      /\ \A u \in User : NoPersist(redis', u) => NoPersist(redis, u) /\ u # w
      /\ \A u, i : LastPersist(redis', u, i) =>
           IF u = w THEN redis'[i] = r
           ELSE LastPersist(redis, u, i) /\ redis'[i] = redis[i] /\ i \in 1..Len(redis)
  BY <1>3, <1>4, PersistAppended
<1>6. /\ snap' \in [Conn -> SnapRec] /\ snap'[c].at = "none"
      /\ \A d \in Conn \ {c} : snap'[d] = snap[d]
  BY <1>1, <1>4, ZeroCounts DEF PresenceTypes, P!Resting
<1>7. \A u : P!CountIn(user, u)' = P!CountIn(user, u)
  BY <1>4 DEF P!CountIn
<1>8. ASSUME NEW u \in User, u # w, Settled(u)' PROVE Settled(u)
  BY <1>2, <1>6, <1>8 DEF Settled
<1>9. PresenceTypes'
  BY <1>1, <1>4, <1>5, <1>6 DEF PresenceTypes, P!Counts, SnapRec, CommandRec
<1>10. Attached'
  BY <1>1, <1>4, <1>6 DEF Attached
<1>11. Commands'
  BY <1>4, <1>6, CommandFacts, <1>1, <1>3, <1>5, SMTT(30) DEF Commands
<1>12. Announced'
  <2> SUFFICES ASSUME NEW u \in User, NEW i \in 1..Len(redis'), Settled(u)',
                      LastPersist(redis', u, i)
               PROVE  redis'[i].n = P!CountIn(user, u)
    BY <1>7 DEF Announced, LastPersist, IsPersist
  <2>1. CASE u = w
    BY <1>3, <1>5, <2>1
  <2>2. CASE u # w
    BY <1>1, <1>5, <1>8, <2>2 DEF Announced
  <2> QED BY <2>1, <2>2
<1>13. Shown'
  <2> SUFFICES ASSUME NEW u \in User, Settled(u)', NoPersist(redis', u)
               PROVE  /\ \A d \in open :
                           /\ user[d] = NoUser => view[d][u] \in {0, P!CountIn(user, u)}
                           /\ snap'[d].at \in {"read", "write"} =>
                                \/ view[d][u] = P!CountIn(user, u)
                                \/ view[d][u] = 0 /\ snap'[d].roster[u] = P!CountIn(user, u)
                           /\ user[d] # NoUser /\ snap'[d].at \in {"none", "rosters"}
                              /\ u \notin misled[d] => view[d][u] = P!CountIn(user, u)
                      /\ u \notin dirty => hash[u] = P!CountIn(user, u)
    BY <1>4, <1>7 DEF Shown, NoPersist, IsPersist
  <2>1. u # w /\ NoPersist(redis, u) /\ Settled(u) /\ open \subseteq Conn
    BY <1>1, <1>5, <1>8 DEF PresenceTypes
  <2> QED BY <1>1, <1>4, <1>6, <2>1 DEF Shown
<1> QED BY <1>9, <1>10, <1>11, <1>12, <1>13 DEF PresenceInv

\* What Redis answers is the oldest command.
LEMMA HeadFacts ==
  ASSUME PresenceInv, redis # <<>>
  PROVE  \E h \in CommandRec :
           /\ h = Head(redis) /\ h = redis[1] /\ 1 \in 1..Len(redis) /\ h.c \in Conn /\ h.u \in User
           /\ h.n \in 0..P!Cardinality(Conn)
           /\ Tail(redis) \in Seq(CommandRec) /\ Len(Tail(redis)) \in Nat
           /\ \A i \in 1..Len(Tail(redis)) :
                Tail(redis)[i] = redis[i + 1] /\ i + 1 \in 1..Len(redis) /\ i + 1 # 1
           /\ \A u, i : LastPersist(Tail(redis), u, i) => LastPersist(redis, u, i + 1)
           /\ \A u : NoPersist(Tail(redis), u) => NoPersist(redis, u) \/ LastPersist(redis, u, 1)
<1>1. redis \in Seq(CommandRec)
  BY CommandFacts
<1>2. /\ Tail(redis) \in Seq(CommandRec) /\ Len(Tail(redis)) = Len(redis) - 1
      /\ Len(redis) \in Nat \ {0}
      /\ Head(redis) = redis[1] /\ redis[1] \in CommandRec
      /\ \A i \in 1..Len(Tail(redis)) : Tail(redis)[i] = redis[i + 1] /\ i + 1 \in 1..Len(redis)
  BY <1>1, AnsweredCommand
<1>3. /\ \A u, i : LastPersist(Tail(redis), u, i) => LastPersist(redis, u, i + 1)
      /\ \A u : NoPersist(Tail(redis), u) => NoPersist(redis, u) \/ LastPersist(redis, u, 1)
  BY <1>1, AnsweredCommand
<1>4. /\ 1 \in 1..Len(redis) /\ Len(Tail(redis)) \in Nat
      /\ \A i \in 1..Len(Tail(redis)) : i + 1 # 1
  BY <1>2
<1>5. \A r \in CommandRec : r.c \in Conn /\ r.u \in User /\ r.n \in 0..P!Cardinality(Conn)
  BY DEF CommandRec
<1>6. PICK h \in CommandRec : h = Head(redis) /\ h = redis[1]
  BY <1>2
<1>7. h.c \in Conn /\ h.u \in User /\ h.n \in 0..P!Cardinality(Conn)
  BY <1>5, <1>6
<1> QED BY <1>2, <1>3, <1>4, <1>6, <1>7

LEMMA PersistedKeeps ==
  ASSUME PresenceAssumption, PresenceInv, NEW ok \in BOOLEAN, P!Persisted(ok)
  PROVE  PresenceInv'
<1>1. PresenceTypes /\ Attached /\ Commands /\ Announced /\ Shown
  BY DEF PresenceInv
<1>2. PICK h \in CommandRec :
        /\ h = Head(redis) /\ h = redis[1] /\ 1 \in 1..Len(redis) /\ h.c \in Conn /\ h.u \in User
        /\ h.n \in 0..P!Cardinality(Conn)
        /\ Tail(redis) \in Seq(CommandRec) /\ Len(Tail(redis)) \in Nat
        /\ \A i \in 1..Len(Tail(redis)) :
             Tail(redis)[i] = redis[i + 1] /\ i + 1 \in 1..Len(redis) /\ i + 1 # 1
        /\ \A u, i : LastPersist(Tail(redis), u, i) => LastPersist(redis, u, i + 1)
        /\ \A u : NoPersist(Tail(redis), u) => NoPersist(redis, u) \/ LastPersist(redis, u, 1)
  BY HeadFacts DEF P!Persisted, P!Outcome
<1>3. /\ h.op = "persist" /\ redis' = Tail(redis) /\ UNCHANGED <<open, user, snap>>
      /\ hash' = IF ok THEN [hash EXCEPT ![h.u] = h.n] ELSE hash
      /\ dirty' = IF ok THEN dirty \ {h.u} ELSE dirty \cup {h.u}
      /\ misled' = [c \in Conn |-> misled[c] \ {h.u}]
      /\ view' = [c \in Conn |-> IF c \in open THEN [view[c] EXCEPT ![h.u] = h.n] ELSE view[c]]
  BY <1>2 DEF P!Persisted
<1>4. /\ hash' \in P!Counts /\ dirty' \subseteq User /\ dirty \subseteq dirty' \cup {h.u}
      /\ misled' \in [Conn -> SUBSET User] /\ \A c \in Conn : misled[c] \subseteq misled'[c] \cup {h.u}
      /\ \A u \in User : hash'[u] = IF ok /\ u = h.u THEN h.n ELSE hash[u]
      /\ ok \/ h.u \in dirty'
  BY <1>1, <1>2, <1>3 DEF PresenceTypes, P!Counts
<1>5. /\ view' \in [Conn -> P!Counts]
      /\ \A c \in open, u \in User : view'[c][u] = IF u = h.u THEN h.n ELSE view[c][u]
  BY <1>1, <1>2, <1>3 DEF PresenceTypes, P!Counts
<1>6. \A u : P!CountIn(user, u)' = P!CountIn(user, u) /\ (Settled(u)' <=> Settled(u))
  BY <1>3 DEF P!CountIn, Settled
<1>7. PresenceTypes'
  BY <1>1, <1>2, <1>3, <1>4, <1>5 DEF PresenceTypes, P!Counts, SnapRec, CommandRec
<1>8. Attached'
  BY <1>1, <1>3 DEF Attached
<1>9. Commands'
  BY <1>2, <1>3, <1>1 DEF Commands
<1>10. Announced'
  <2> SUFFICES ASSUME NEW u \in User, NEW i \in 1..Len(redis'), Settled(u),
                      LastPersist(redis', u, i)
               PROVE  redis'[i].n = P!CountIn(user, u)
    BY <1>6 DEF Announced, LastPersist, IsPersist
  <2>1. LastPersist(redis, u, i + 1) /\ i + 1 \in 1..Len(redis) /\ redis'[i] = redis[i + 1]
    BY <1>2, <1>3
  <2> QED BY <1>1, <2>1 DEF Announced
<1>11. Shown'
  <2> SUFFICES ASSUME NEW u \in User, Settled(u), NoPersist(redis', u)
               PROVE  /\ \A d \in open :
                           /\ user[d] = NoUser => view'[d][u] \in {0, P!CountIn(user, u)}
                           /\ snap[d].at \in {"read", "write"} =>
                                \/ view'[d][u] = P!CountIn(user, u)
                                \/ view'[d][u] = 0 /\ snap[d].roster[u] = P!CountIn(user, u)
                           /\ user[d] # NoUser /\ snap[d].at \in {"none", "rosters"}
                              /\ u \notin misled'[d] => view'[d][u] = P!CountIn(user, u)
                      /\ u \notin dirty' => hash'[u] = P!CountIn(user, u)
    BY <1>3, <1>6 DEF Shown, NoPersist, IsPersist
  <2>1. CASE u = h.u
    <3>1. IsPersist(redis[1], u)
      BY <1>2, <1>3, <2>1 DEF IsPersist
    <3>2. LastPersist(redis, u, 1)
      BY <1>2, <1>3, <3>1 DEF NoPersist
    <3>3. h.n = P!CountIn(user, u)
      BY <1>1, <1>2, <3>2 DEF Announced
    <3> QED BY <1>4, <1>5, <2>1, <3>3
  <2>2. CASE u # h.u
    <3>1. ~IsPersist(redis[1], u)
      BY <1>2, <2>2 DEF IsPersist
    <3>2. NoPersist(redis, u)
      BY <1>2, <1>3, <3>1 DEF LastPersist
    <3>3. /\ \A d \in open : view'[d][u] = view[d][u] /\ (u \notin misled'[d] => u \notin misled[d])
          /\ u \notin dirty' => u \notin dirty /\ hash'[u] = hash[u]
      BY <1>1, <1>4, <1>5, <2>2 DEF PresenceTypes
    <3> QED BY <1>1, <3>2, <3>3 DEF Shown
  <2> QED BY <2>1, <2>2
<1> QED BY <1>7, <1>8, <1>9, <1>10, <1>11 DEF PresenceInv

\* The answer to a snapshot's own command: the snapshot is sent, or its next entry is
\* written back.  The counts it sends and writes are those of its own roster.
LEMMA DeliverKeeps ==
  ASSUME PresenceAssumption, PresenceInv, redis # <<>>, NEW h \in CommandRec, h = Head(redis),
         h.op \in {"read", "write"}, NEW todo \in SUBSET User, P!Deliver(h.c, todo),
         UNCHANGED <<open, user>>, hash' \in P!Counts, dirty' \subseteq User,
         \A u \in User \ dirty' : \/ u \notin dirty /\ hash'[u] = hash[u]
                                  \/ hash'[u] = P!CountIn(user, u)
  PROVE  PresenceInv'
<1>1. PresenceTypes /\ Attached /\ Commands /\ Announced /\ Shown
  BY DEF PresenceInv
<1> DEFINE rest == Tail(redis)
           k == h.c
<1>2. /\ h = redis[1] /\ 1 \in 1..Len(redis) /\ k \in Conn
      /\ rest \in Seq(CommandRec) /\ Len(rest) \in Nat
      /\ \A i \in 1..Len(rest) : rest[i] = redis[i + 1] /\ i + 1 \in 1..Len(redis) /\ i + 1 # 1
      /\ \A u, i : LastPersist(rest, u, i) => LastPersist(redis, u, i + 1)
      /\ \A u : NoPersist(rest, u) => NoPersist(redis, u) \/ LastPersist(redis, u, 1)
  BY HeadFacts
<1> HIDE DEF rest, k
<1>3. snap[k].at = h.op /\ snap[k].at \in {"read", "write"}
  BY <1>2, CommandFacts DEF k
<1>4. \A i \in 1..Len(rest) : rest[i].op # "persist" => rest[i].c # k
  BY <1>1, <1>2 DEF Commands, k
<1>5. \A u : ~IsPersist(redis[1], u)
  BY <1>2 DEF IsPersist
<1>6. \A u : NoPersist(rest, u) => NoPersist(redis, u)
  BY <1>2, <1>5 DEF LastPersist
<1>7. PICK s \in SnapRec : s = snap[k]
  BY <1>1, <1>2 DEF PresenceTypes
\* What the two ways out have in common.
<1>8. PICK q \in SnapRec, view2 \in [Conn -> P!Counts], tail \in Seq(CommandRec) :
        /\ snap' = [snap EXCEPT ![k] = q] /\ view' = view2 /\ redis' = tail
        /\ misled' \in [Conn -> SUBSET User] /\ \A d \in Conn \ {k} : misled'[d] = misled[d]
        /\ q.who = s.who /\ q.roster = s.roster
        /\ \/ /\ q.at = "rosters" /\ tail = rest
              /\ \A d \in Conn \ {k} : view2[d] = view[d]
              /\ \A u \in User : k \in open => view2[k][u] = IF s.roster[u] > 0 THEN s.roster[u]
                                                            ELSE view[k][u]
              /\ \A u \in User \ misled'[k] : s.roster[u] \in {0, P!CountIn(user, u)}
           \/ /\ q.at = "write" /\ view2 = view
              /\ \E r \in CommandRec : /\ tail = Append(rest, r) /\ r.op = "write" /\ r.c = k
                                       /\ r.n = s.roster[r.u]
  <2>1. CASE todo = {}
    <3>1. PICK q \in SnapRec : /\ q = [s EXCEPT !.at = "rosters", !.todo = {}]
                               /\ q.at = "rosters" /\ q.who = s.who /\ q.roster = s.roster
      <4> DEFINE q == [s EXCEPT !.at = "rosters", !.todo = {}]
      <4>1. q \in SnapRec /\ q.at = "rosters" /\ q.who = s.who /\ q.roster = s.roster
        BY DEF SnapRec
      <4> QED BY <4>1
    <3>2. snap' = [snap EXCEPT ![k] = q] /\ redis' = rest
      BY <1>7, <2>1, <3>1 DEF P!Deliver, k, rest
    <3>3. view' = IF k \in open
                  THEN [view EXCEPT ![k] = [u \in User |-> IF s.roster[u] > 0 THEN s.roster[u]
                                                           ELSE view[k][u]]]
                  ELSE view
      BY <1>7, <2>1 DEF P!Deliver, k
    <3>4. s.roster \in P!Counts /\ view \in [Conn -> P!Counts]
      BY <1>1 DEF PresenceTypes, SnapRec
    <3>5. /\ view' \in [Conn -> P!Counts]
          /\ \A d \in Conn \ {k} : view'[d] = view[d]
          /\ \A u \in User : k \in open => view'[k][u] = IF s.roster[u] > 0 THEN s.roster[u]
                                                        ELSE view[k][u]
      BY <1>2, <3>3, <3>4 DEF P!Counts
    <3>6. misled' = [misled EXCEPT ![k] = {u \in User : s.roster[u] \notin {0, P!CountIn(user, u)}}]
      BY <1>7, <2>1 DEF P!Deliver, k
    <3>7. /\ misled' \in [Conn -> SUBSET User] /\ \A d \in Conn \ {k} : misled'[d] = misled[d]
          /\ \A u \in User \ misled'[k] : s.roster[u] \in {0, P!CountIn(user, u)}
      BY <1>1, <1>2, <3>6 DEF PresenceTypes
    <3> QED BY <1>2, <3>1, <3>2, <3>5, <3>7
  <2>2. CASE todo # {}
    <3>1. PICK u \in User : u = CHOOSE v \in todo : TRUE
      BY <2>2
    <3>2. PICK q \in SnapRec : /\ q = [s EXCEPT !.at = "write", !.todo = todo]
                               /\ q.at = "write" /\ q.who = s.who /\ q.roster = s.roster
      <4> DEFINE q == [s EXCEPT !.at = "write", !.todo = todo]
      <4>1. q \in SnapRec /\ q.at = "write" /\ q.who = s.who /\ q.roster = s.roster
        BY DEF SnapRec
      <4> QED BY <4>1
    <3>3. PICK r \in CommandRec : /\ r = P!Command("write", k, u, s.roster[u])
                                  /\ r.op = "write" /\ r.c = k /\ r.u = u /\ r.n = s.roster[u]
      <4>1. PICK n \in 0..P!Cardinality(Conn) : n = s.roster[u]
        BY DEF SnapRec, P!Counts
      <4>2. /\ P!Command("write", k, u, n) \in CommandRec
            /\ P!Command("write", k, u, n).op = "write" /\ P!Command("write", k, u, n).c = k
            /\ P!Command("write", k, u, n).u = u /\ P!Command("write", k, u, n).n = n
        BY <1>2 DEF P!Command, CommandRec
      <4> QED BY <4>1, <4>2
    <3>4. snap' = [snap EXCEPT ![k] = q] /\ redis' = Append(rest, r) /\ view' = view /\ misled' = misled
      BY <1>7, <2>2, <3>1, <3>2, <3>3, ZenonT(30) DEF P!Deliver, k, rest
    <3>5. Append(rest, r) \in Seq(CommandRec) /\ view \in [Conn -> P!Counts]
          /\ misled \in [Conn -> SUBSET User]
      BY <1>1, <1>2 DEF PresenceTypes
    <3> QED BY <3>2, <3>3, <3>4, <3>5, ZenonT(30)
  <2> QED BY <2>1, <2>2
<1>9. /\ snap' \in [Conn -> SnapRec] /\ snap'[k] = q
      /\ \A d \in Conn \ {k} : snap'[d] = snap[d]
      /\ \A d \in Conn : /\ snap'[d].at # "none" <=> snap[d].at # "none"
                         /\ snap'[d].who = snap[d].who /\ snap'[d].roster = snap[d].roster
  BY <1>1, <1>2, <1>3, <1>7, <1>8 DEF PresenceTypes
<1>10. \A u : P!CountIn(user, u)' = P!CountIn(user, u) /\ (Settled(u)' <=> Settled(u))
  BY <1>9 DEF P!CountIn, Settled
\* The commands that are left, whether or not a write was added.
<1> DEFINE Left ==
  /\ \A i \in 1..Len(tail) : \/ i \in 1..Len(rest) /\ tail[i] = rest[i]
                             \/ /\ i = Len(rest) + 1 /\ q.at = "write"
                                /\ tail[i].op = "write" /\ tail[i].c = k
                                /\ tail[i].n = s.roster[tail[i].u]
  /\ \A u : NoPersist(tail, u) => NoPersist(rest, u)
  /\ \A u, i : LastPersist(tail, u, i) => LastPersist(rest, u, i) /\ tail[i] = rest[i]
<1>11. Left
  <2>1. CASE tail = rest
    BY <2>1
  <2>2. ASSUME NEW r \in CommandRec, tail = Append(rest, r), r.op = "write", r.c = k,
               r.n = s.roster[r.u], q.at = "write"
        PROVE  Left
    BY <2>2, <1>2, AppendedCommand DEF IsPersist, LastPersist
  <2> QED BY <1>8, <2>1, <2>2
<1>12. PresenceTypes'
  BY <1>1, <1>8, <1>9 DEF PresenceTypes, P!Counts, SnapRec, CommandRec
<1>13. Attached'
  BY <1>1, <1>9 DEF Attached
<1>14. Commands'
  <2>1. \A i \in 1..Len(rest) : /\ rest[i] = redis[i + 1] /\ i + 1 \in 1..Len(redis)
                                /\ rest[i].op # "persist" => rest[i].c \in Conn \ {k}
    BY <1>2, <1>4, CommandFacts
  <2>2. ASSUME NEW i \in 1..Len(redis')
        PROVE  /\ redis'[i].op # "persist" => snap'[redis'[i].c].at = redis'[i].op
               /\ redis'[i].op = "write" => redis'[i].n = snap'[redis'[i].c].roster[redis'[i].u]
    <3>1. CASE i \in 1..Len(rest) /\ tail[i] = rest[i]
      BY <1>1, <1>8, <1>9, <2>1, <3>1 DEF Commands
    <3>2. CASE /\ q.at = "write" /\ tail[i].op = "write" /\ tail[i].c = k
               /\ tail[i].n = s.roster[tail[i].u]
      BY <1>8, <1>9, <3>2
    <3> QED BY <1>8, <1>11, <3>1, <3>2
  <2>3. ASSUME NEW i \in 1..Len(redis'), NEW j \in 1..Len(redis'), redis'[i].op # "persist",
               redis'[j].op # "persist", redis'[i].c = redis'[j].c
        PROVE  i = j
    <3>1. CASE i \in 1..Len(rest) /\ j \in 1..Len(rest)
      <4>1. redis'[i] = rest[i] /\ redis'[j] = rest[j] /\ i \in Int /\ j \in Int
        BY <1>2, <1>8, <1>11, <3>1
      <4>2. /\ redis'[i] = redis[i + 1] /\ i + 1 \in 1..Len(redis)
            /\ redis'[j] = redis[j + 1] /\ j + 1 \in 1..Len(redis)
        BY <2>1, <3>1, <4>1
      <4>3. i + 1 = j + 1
        BY <1>1, <2>3, <4>2 DEF Commands
      <4> QED BY <4>1, <4>3
    <3>2. CASE i \notin 1..Len(rest) \/ j \notin 1..Len(rest)
      BY <1>8, <1>11, <2>1, <2>3, <3>2
    <3> QED BY <3>1, <3>2
  <2> QED BY <2>2, <2>3 DEF Commands
<1>15. Announced'
  <2> SUFFICES ASSUME NEW u \in User, NEW i \in 1..Len(redis'), Settled(u),
                      LastPersist(redis', u, i)
               PROVE  redis'[i].n = P!CountIn(user, u)
    BY <1>10 DEF Announced, LastPersist, IsPersist
  <2>1. LastPersist(rest, u, i) /\ redis'[i] = rest[i]
    BY <1>8, <1>11
  <2>2. LastPersist(redis, u, i + 1) /\ rest[i] = redis[i + 1] /\ i + 1 \in 1..Len(redis)
    BY <1>2, <2>1 DEF LastPersist
  <2> QED BY <1>1, <2>1, <2>2 DEF Announced
<1>16. Shown'
  <2> SUFFICES ASSUME NEW u \in User, Settled(u), NoPersist(redis', u)
               PROVE  /\ \A d \in open :
                           /\ user[d] = NoUser => view'[d][u] \in {0, P!CountIn(user, u)}
                           /\ snap'[d].at \in {"read", "write"} =>
                                \/ view'[d][u] = P!CountIn(user, u)
                                \/ view'[d][u] = 0 /\ snap'[d].roster[u] = P!CountIn(user, u)
                           /\ user[d] # NoUser /\ snap'[d].at \in {"none", "rosters"}
                              /\ u \notin misled'[d] => view'[d][u] = P!CountIn(user, u)
                      /\ u \notin dirty' => hash'[u] = P!CountIn(user, u)
    BY <1>10 DEF Shown, NoPersist, IsPersist
  <2>1. NoPersist(redis, u) /\ open \subseteq Conn
    BY <1>1, <1>6, <1>8, <1>11 DEF PresenceTypes
  <2>2. u \notin dirty' => hash'[u] = P!CountIn(user, u)
    BY <1>1, <2>1 DEF Shown
  <2>3. ASSUME k \in open
        PROVE  /\ user[k] # NoUser
               /\ \/ view[k][u] = P!CountIn(user, u)
                  \/ view[k][u] = 0 /\ s.roster[u] = P!CountIn(user, u)
    BY <1>1, <1>2, <1>3, <1>7, <2>1, <2>3 DEF Attached, Shown
  <2>4. ASSUME k \in open, q.at = "rosters", u \notin misled'[k]
        PROVE  view'[k][u] = P!CountIn(user, u)
    <3>1. s.roster[u] \in {0, P!CountIn(user, u)} /\ s.roster[u] \in Nat
      <4>1. s.roster[u] \in 0..P!Cardinality(Conn)
        BY DEF SnapRec, P!Counts
      <4> QED BY <1>8, <2>4, <4>1
    <3> QED BY <1>8, <2>3, <2>4, <3>1
  <2>5. ASSUME k \in open, q.at = "write"
        PROVE  \/ view'[k][u] = P!CountIn(user, u)
               \/ view'[k][u] = 0 /\ q.roster[u] = P!CountIn(user, u)
    BY <1>8, <2>3, <2>5
  <2>6. q.at \in {"rosters", "write"}
    BY <1>8
  <2>7. ASSUME NEW d \in open \ {k}
        PROVE  snap'[d] = snap[d] /\ view'[d] = view[d] /\ misled'[d] = misled[d]
    BY <1>8, <1>9, <2>1
  <2> QED BY <1>1, <1>9, <2>1, <2>2, <2>3, <2>4, <2>5, <2>6, <2>7 DEF Shown
<1> QED BY <1>12, <1>13, <1>14, <1>15, <1>16 DEF PresenceInv

LEMMA AnswerKeeps ==
  ASSUME PresenceAssumption, PresenceInv, NEW ok \in BOOLEAN, P!HashRead(ok) \/ P!HashWritten(ok)
  PROVE  PresenceInv'
<1>1. redis # <<>> /\ hash \in P!Counts /\ dirty \subseteq User /\ Commands /\ PresenceTypes
  BY DEF P!HashRead, P!HashWritten, P!Outcome, PresenceInv, PresenceTypes
<1>2. PICK h \in CommandRec : /\ h = Head(redis) /\ h = redis[1] /\ 1 \in 1..Len(redis)
                              /\ h.u \in User /\ h.n \in 0..P!Cardinality(Conn)
  BY <1>1, HeadFacts
<1>3. snap[h.c].todo \subseteq User
  <2>1. PICK s \in SnapRec : s = snap[h.c]
    BY <1>1, <1>2, HeadFacts DEF PresenceTypes
  <2> QED BY <2>1 DEF SnapRec
<1>4. CASE P!HashRead(ok)
  <2>1. PICK todo \in SUBSET User : P!Deliver(h.c, todo)
    <3> DEFINE differ == {u \in User : hash[u] # snap[h.c].roster[u]}
    <3>1. P!Deliver(h.c, IF ok THEN differ ELSE {})
      BY <1>2, <1>4 DEF P!HashRead
    <3>2. (IF ok THEN differ ELSE {}) \in SUBSET User
      OBVIOUS
    <3> QED BY <3>1, <3>2
  <2>2. h.op = "read" /\ UNCHANGED <<open, user, hash, dirty>>
    BY <1>2, <1>4 DEF P!HashRead
  <2> QED BY <1>1, <1>2, <2>1, <2>2, DeliverKeeps
<1>5. CASE P!HashWritten(ok)
  <2>1. /\ h.op = "write" /\ P!Deliver(h.c, snap[h.c].todo \ {h.u}) /\ UNCHANGED <<open, user>>
        /\ hash' = IF ok THEN [hash EXCEPT ![h.u] = h.n] ELSE hash
        /\ dirty' = CASE ~ok -> dirty
                      [] ok /\ h.n = P!CountIn(user, h.u) -> dirty \ {h.u}
                      [] ok /\ h.n # P!CountIn(user, h.u) -> dirty \cup {h.u}
    BY <1>2, <1>5 DEF P!HashWritten
  <2>2. hash' \in P!Counts
    BY <1>1, <1>2, <2>1 DEF P!Counts
  <2>3. /\ dirty' \subseteq User
        /\ \A u \in User \ dirty' : \/ u \notin dirty /\ hash'[u] = hash[u]
                                    \/ hash'[u] = P!CountIn(user, u)
    <3>1. CASE ~ok
      BY <1>1, <2>1, <3>1
    <3>2. CASE ok /\ h.n = P!CountIn(user, h.u)
      BY <1>1, <1>2, <2>1, <3>2 DEF P!Counts
    <3>3. CASE ok /\ h.n # P!CountIn(user, h.u)
      BY <1>1, <1>2, <2>1, <3>3 DEF P!Counts
    <3> QED BY <3>1, <3>2, <3>3
  <2>4. snap[h.c].todo \ {h.u} \in SUBSET User
    BY <1>3
  <2> QED BY <1>1, <1>2, <2>1, <2>2, <2>3, <2>4, DeliverKeeps
<1> QED BY <1>4, <1>5

LEMMA PresenceInvariant ==
  ASSUME PresenceAssumption PROVE P!Spec => []PresenceInv
<1>1. P!Init => PresenceInv
  <2> SUFFICES ASSUME P!Init PROVE PresenceInv
    OBVIOUS
  <2>1. PresenceTypes
    BY ZeroCounts DEF P!Init, PresenceTypes
  <2>2. Len(redis) = 0 /\ 1..Len(redis) = {}
    BY DEF P!Init
  <2>3. P!Resting.at = "none"
    BY DEF P!Resting
  <2>4. Attached /\ Commands /\ Announced
    BY <2>2, <2>3 DEF P!Init, Attached, Commands, Announced
  <2>5. ASSUME NEW u \in User PROVE hash[u] = P!CountIn(user, u)
    BY CountP, FS_EmptySet DEF P!Init, PresenceAssumption, P!CountIn, P!Nobody
  <2>6. Shown
    BY <2>5 DEF P!Init, Shown
  <2> QED BY <2>1, <2>4, <2>6 DEF PresenceInv
<1>2. PresenceInv /\ [P!Next]_P!vars => PresenceInv'
  <2> SUFFICES ASSUME PresenceInv, [P!Next]_P!vars PROVE PresenceInv'
    OBVIOUS
  <2>1. CASE UNCHANGED P!vars
    <3>1. UNCHANGED <<open, user, snap, redis, hash, view, misled, dirty>>
      BY <2>1 DEF P!vars
    <3>2. PresenceTypes' /\ Attached' /\ Commands'
      BY <3>1 DEF PresenceInv, PresenceTypes, Attached, Commands, P!Counts, SnapRec, CommandRec
    <3>3. \A u : P!CountIn(user, u)' = P!CountIn(user, u) /\ (Settled(u)' <=> Settled(u))
      BY <3>1 DEF P!CountIn, Settled
    <3>4. Announced'
      BY <3>1, <3>3 DEF PresenceInv, Announced, LastPersist, IsPersist
    <3>5. Shown'
      BY <3>1, <3>3 DEF PresenceInv, Shown, NoPersist, IsPersist
    <3> QED BY <3>2, <3>4, <3>5 DEF PresenceInv
  <2>2. CASE P!Attach
    BY <2>2, AttachKeeps
  <2>3. ASSUME NEW c \in Conn, P!Detach(c) \/ P!OnConnect(c) \/ \E u \in User : P!Authenticate(c, u)
        PROVE  PresenceInv'
    BY <2>3, DetachKeeps, OnConnectKeeps, AuthenticateKeeps
  <2>4. ASSUME NEW ok \in BOOLEAN, P!Persisted(ok) \/ P!HashRead(ok) \/ P!HashWritten(ok)
        PROVE  PresenceInv'
    BY <2>4, PersistedKeeps, AnswerKeeps
  <2> QED BY <2>1, <2>2, <2>3, <2>4 DEF P!Next
<1> QED BY <1>1, <1>2, PTL DEF P!Spec

\* The presence manager (presence-manager.ts): counts taken before a Redis call are sent
\* after it, by any number of connections at once and whatever Redis fails, and still the
\* last one a client applies is right, unless it came with the client's own snapshot,
\* was wrong by the time that was sent, and no broadcast about the user followed.
THEOREM RosterExactTheorem == P!Spec => []RosterExact
<1>1. PresenceInv => P!RosterExact
  <2> SUFFICES ASSUME PresenceInv, P!Quiet, NEW c \in open, NEW u \in User, user[c] # NoUser,
                      u \notin misled[c]
               PROVE  view[c][u] = P!CountIn(user, u)
    BY DEF P!RosterExact
  <2>1. Settled(u) /\ NoPersist(redis, u) /\ c \in Conn /\ snap[c].at = "none"
    BY DEF P!Quiet, P!Pending, Settled, NoPersist, PresenceInv, PresenceTypes
  <2> QED BY <2>1 DEF PresenceInv, Shown
<1>2. P!Spec => []PresenceInv
  BY ServerAssumption, PresenceInvariant
<1> QED BY <1>1, <1>2, PTL DEF RosterExact

\* The write-backs of reconcileRedisSnapshot and the persists of onConnect and
\* onDisconnect leave the hash as the connections are, but for users whose last count was
\* refused, or whose entry was last written back from a snapshot wrong about them by then.
THEOREM MirrorExactTheorem == P!Spec => []MirrorExact
<1>1. PresenceInv => P!MirrorExact
  <2> SUFFICES ASSUME PresenceInv, P!Quiet, NEW u \in User \ dirty
               PROVE  hash[u] = P!CountIn(user, u)
    BY DEF P!MirrorExact
  <2>1. Settled(u) /\ NoPersist(redis, u)
    BY DEF P!Quiet, P!Pending, Settled, NoPersist
  <2> QED BY <2>1 DEF PresenceInv, Shown
<1>2. P!Spec => []PresenceInv
  BY ServerAssumption, PresenceInvariant
<1> QED BY <1>1, <1>2, PTL DEF MirrorExact

-----------------------------------------------------------------------------
(* Maintenance: the containers under an update.                            *)

PreviousName(j) == Append(M!Service, <<"previous", j>>)
FailedName(j) == Append(M!Service, <<"failed", j>>)
Name == {M!Service} \cup {PreviousName(j) : j \in Job} \cup {FailedName(j) : j \in Job}
BoxRec == [there : BOOLEAN, on : BOOLEAN, name : Name, by : Job \cup {M!NoJob}]
HelperAt == {"unused", "inspect", "pull", "stop", "wait", "rename", "create", "start", "health",
             "complete", "delete", "rollback", "unstart", "unname", "restore", "restart", "discard",
             "failed", "ended"}
HelperRec == [at : HelperAt, box : Box, name : {M!Service}]

\* One container is there, b, or two, of which n was made by j; `up' runs.
There == {x \in Box : boxes[x].there}
One(b, p, up) == There = {b} /\ M!On = up /\ boxes[b].name = p
Both(b, p, n, q, up, j) ==
  /\ b # n /\ There = {b, n} /\ M!On = up
  /\ boxes[b].name = p /\ boxes[n].name = q /\ boxes[n].by = j

Serving == \E b \in Box : One(b, M!Service, {b})
Stopped == \E b \in Box : One(b, M!Service, {})
Aside(j) == \E b \in Box : One(b, PreviousName(j), {})
Made(j) == \E b, n \in Box : Both(b, PreviousName(j), n, M!Service, {}, j)
Started(j) == \E b, n \in Box : Both(b, PreviousName(j), n, M!Service, {n}, j)
Unnamed(j) == \E b, n \in Box : Both(b, PreviousName(j), n, FailedName(j), {}, j)
Restored(j) == \E b, n \in Box : Both(b, M!Service, n, FailedName(j), {}, j)
Restarted(j) == \E b, n \in Box : Both(b, M!Service, n, FailedName(j), {b}, j)

\* What is there where the helper of j is.
Shape(at, j) ==
  /\ at \in {"inspect", "pull", "stop", "failed"} => Serving
  /\ at \in {"wait", "rename"} => Stopped
  /\ at = "create" => Aside(j)
  /\ at = "start" => Made(j)
  /\ at \in {"health", "complete", "delete"} => Started(j)
  /\ at = "rollback" => Serving \/ Stopped \/ Aside(j) \/ Made(j) \/ Started(j)
  /\ at = "unstart" => Aside(j) \/ Made(j) \/ Started(j)
  /\ at = "unname" => Aside(j) \/ Made(j)
  /\ at = "restore" => Aside(j) \/ Unnamed(j)
  /\ at = "restart" => Stopped \/ Restored(j)
  /\ at = "discard" => Serving \/ Restarted(j)

\* A rollback has had the one failure that is allowed.
RollsBack == {"rollback", "unstart", "unname", "restore", "restart", "discard"}
Place(j) ==
  /\ Shape(helpers[j].at, j)
  /\ helpers[j].at = "inspect" => boxes[helpers[j].box].there
  /\ helpers[j].at \in RollsBack => faults >= 1

\* The container of the job that succeeded runs until another job is past `inspect'.
Succeeded ==
  status.st = "succeeded" =>
    /\ status.job \in Job
    /\ helpers[status.job].at \in {"delete", "ended"}
    /\ \A b \in M!On : boxes[b].by = status.job
    /\ \A k \in M!Working : k # status.job => helpers[k].at = "inspect"

Orderly ==
  /\ boxes \in [Box -> BoxRec]
  /\ helpers \in [Job -> HelperRec]
  /\ \A j, k \in M!Working : j = k
  /\ M!Working = {} => Serving
  /\ \A j \in Job : Place(j)
  /\ Succeeded

\* While no two updates overlapped, no helper died and one call at most failed.
UpdateInv ==
  /\ faults \in Nat /\ overlap \in BOOLEAN
  /\ ~overlap /\ faults <= 1 => Orderly

LEMMA NameFacts ==
  ASSUME NEW j \in Job
  PROVE  /\ PreviousName(j) # M!Service /\ FailedName(j) # M!Service
         /\ PreviousName(j) # FailedName(j)
         /\ {M!Service, PreviousName(j), FailedName(j)} \subseteq Name
<1> DEFINE p == <<"previous", j>>
           f == <<"failed", j>>
<1>1. p # f
  OBVIOUS
<1> HIDE DEF p, f
<1>2. <<p>> # <<>> /\ <<f>> # <<>> /\ <<p>> # <<f>>
  BY <1>1
<1>3. Append(<<>>, p) = <<p>> /\ Append(<<>>, f) = <<f>>
  OBVIOUS
<1>4. PreviousName(j) = <<p>> /\ FailedName(j) = <<f>> /\ M!Service = <<>>
  BY <1>3 DEF p, f, PreviousName, FailedName, M!Service
<1> QED BY <1>2, <1>4 DEF Name

\* Whom a name names.
LEMMA OneNamed ==
  ASSUME NEW b \in Box, NEW p, NEW up, One(b, p, up)
  PROVE  /\ M!Named(p) = {b} /\ M!Exists(p) /\ M!The(p) = b
         /\ \A q : q # p => M!Named(q) = {} /\ ~M!Exists(q)
BY DEF One, There, M!Named, M!Exists, M!The

LEMMA BothNamed ==
  ASSUME NEW b \in Box, NEW n \in Box, NEW p, NEW q, NEW up, NEW j, p # q, Both(b, p, n, q, up, j)
  PROVE  /\ M!Named(p) = {b} /\ M!Exists(p) /\ M!The(p) = b
         /\ M!Named(q) = {n} /\ M!Exists(q) /\ M!The(q) = n
         /\ \A r : r # p /\ r # q => M!Named(r) = {} /\ ~M!Exists(r)
BY DEF Both, There, M!Named, M!Exists, M!The

\* A call of Docker changes one container.
LEMMA BoxChanges ==
  ASSUME boxes \in [Box -> BoxRec], NEW c \in Box, NEW r \in BoxRec,
         boxes' = [boxes EXCEPT ![c] = r]
  PROVE  /\ boxes' \in [Box -> BoxRec] /\ boxes'[c] = r
         /\ \A x \in Box \ {c} : boxes'[x] = boxes[x]
         /\ There' = IF r.there THEN There \cup {c} ELSE There \ {c}
         /\ M!On' = IF r.on THEN M!On \cup {c} ELSE M!On \ {c}
BY DEF BoxRec, There, M!On

Kept == \A x \in Box : boxes'[x].by = boxes[x].by

LEMMA BoxStops ==
  ASSUME boxes \in [Box -> BoxRec], NEW c \in Box, M!StopBox(c)
  PROVE  /\ boxes' \in [Box -> BoxRec] /\ Kept /\ There' = There /\ M!On' = M!On \ {c}
         /\ \A x \in Box : boxes'[x].name = boxes[x].name
<1>1. PICK o \in BoxRec : o = boxes[c]
  OBVIOUS
<1>2. PICK r \in BoxRec : /\ r = [o EXCEPT !.on = FALSE] /\ r.there = o.there /\ ~r.on
                          /\ r.name = o.name /\ r.by = o.by
  <2> DEFINE r == [o EXCEPT !.on = FALSE]
  <2>1. r \in BoxRec /\ r.there = o.there /\ ~r.on /\ r.name = o.name /\ r.by = o.by
    BY DEF BoxRec
  <2> QED BY <2>1
<1>3. boxes' = [boxes EXCEPT ![c] = r]
  BY <1>1, <1>2 DEF M!StopBox
<1> QED BY <1>1, <1>2, <1>3, BoxChanges, ZenonT(30) DEF There, Kept

LEMMA BoxStarts ==
  ASSUME boxes \in [Box -> BoxRec], NEW c \in Box, M!StartBox(c)
  PROVE  /\ boxes' \in [Box -> BoxRec] /\ Kept /\ There' = There /\ M!On' = M!On \cup {c}
         /\ \A x \in Box : boxes'[x].name = boxes[x].name
<1>1. PICK o \in BoxRec : o = boxes[c]
  OBVIOUS
<1>2. PICK r \in BoxRec : /\ r = [o EXCEPT !.on = TRUE] /\ r.there = o.there /\ r.on
                          /\ r.name = o.name /\ r.by = o.by
  <2> DEFINE r == [o EXCEPT !.on = TRUE]
  <2>1. r \in BoxRec /\ r.there = o.there /\ r.on /\ r.name = o.name /\ r.by = o.by
    BY DEF BoxRec
  <2> QED BY <2>1
<1>3. boxes' = [boxes EXCEPT ![c] = r]
  BY <1>1, <1>2 DEF M!StartBox
<1>4. /\ boxes' \in [Box -> BoxRec] /\ boxes'[c] = r /\ M!On' = M!On \cup {c}
      /\ \A x \in Box \ {c} : boxes'[x] = boxes[x]
  BY <1>2, <1>3, BoxChanges
<1>5. There' = There
  BY <1>1, <1>2, <1>4 DEF There
<1> QED BY <1>1, <1>2, <1>4, <1>5 DEF Kept

LEMMA BoxRenamed ==
  ASSUME boxes \in [Box -> BoxRec], NEW c \in Box, NEW p \in Name, M!Rename(c, p)
  PROVE  /\ boxes' \in [Box -> BoxRec] /\ Kept /\ There' = There /\ M!On' = M!On
         /\ boxes'[c].name = p
         /\ \A x \in Box \ {c} : boxes'[x].name = boxes[x].name
<1>1. PICK o \in BoxRec : o = boxes[c]
  OBVIOUS
<1>2. PICK r \in BoxRec : /\ r = [o EXCEPT !.name = p] /\ r.there = o.there /\ r.on = o.on
                          /\ r.name = p /\ r.by = o.by
  <2> DEFINE r == [o EXCEPT !.name = p]
  <2>1. r \in BoxRec /\ r.there = o.there /\ r.on = o.on /\ r.name = p /\ r.by = o.by
    BY DEF BoxRec
  <2> QED BY <2>1
<1>3. boxes' = [boxes EXCEPT ![c] = r]
  BY <1>1, <1>2 DEF M!Rename
<1> QED BY <1>1, <1>2, <1>3, BoxChanges DEF There, M!On, Kept

\* Docker refuses to delete what runs.
LEMMA BoxDeleted ==
  ASSUME boxes \in [Box -> BoxRec], NEW p, M!Delete(p)
  PROVE  /\ boxes' \in [Box -> BoxRec] /\ Kept /\ There' = There \ (M!Named(p) \ M!On)
         /\ M!On' = M!On /\ \A x \in Box : boxes'[x].name = boxes[x].name
<1>1. ASSUME NEW x \in Box
      PROVE  /\ boxes'[x] \in BoxRec /\ boxes'[x].by = boxes[x].by
             /\ boxes'[x].name = boxes[x].name /\ boxes'[x].on = boxes[x].on
             /\ boxes'[x].there = (boxes[x].there /\ ~(x \in M!Named(p) /\ ~boxes[x].on))
  <2>1. PICK o \in BoxRec : o = boxes[x]
    OBVIOUS
  <2>2. PICK r \in BoxRec : /\ r = [o EXCEPT !.there = FALSE] /\ r.on = o.on /\ ~r.there
                            /\ r.name = o.name /\ r.by = o.by
    <3> DEFINE r == [o EXCEPT !.there = FALSE]
    <3>1. r \in BoxRec /\ r.on = o.on /\ ~r.there /\ r.name = o.name /\ r.by = o.by
      BY DEF BoxRec
    <3> QED BY <3>1
  <2>3. boxes'[x] = IF x \in M!Named(p) /\ ~o.on THEN r ELSE o
    BY <2>1, <2>2 DEF M!Delete
  <2>4. o.there \in BOOLEAN /\ r.there = FALSE
    BY <2>2 DEF BoxRec
  <2> QED BY <2>1, <2>2, <2>3, <2>4
<1>2. boxes' \in [Box -> BoxRec]
  BY <1>1 DEF M!Delete
<1>3. There' = There \ (M!Named(p) \ M!On)
  BY <1>1 DEF There, M!On
<1> QED BY <1>1, <1>2, <1>3 DEF M!On, Kept

LEMMA HelperFacts ==
  ASSUME Orderly, NEW j \in Job, helpers[j].at \notin {"unused", "ended"}
  PROVE  /\ M!Working = {j} /\ M!Old(j) = M!Service /\ Place(j) /\ boxes \in [Box -> BoxRec]
         /\ M!Previous(j) = PreviousName(j) /\ M!Failed(j) = FailedName(j)
         /\ status.st = "succeeded" => helpers[j].at \in {"inspect", "delete"}
BY DEF M!Working, Orderly, M!Old, HelperRec, M!Previous, M!Failed, PreviousName, FailedName,
   Succeeded

\* The helper of j goes on: what is asked of where it gets.
LEMMA HelperMoves ==
  ASSUME Orderly, NEW j \in Job, helpers[j].at \notin {"unused", "ended"},
         NEW at \in HelperAt \ {"unused", "inspect"}, M!Goto(j, at),
         boxes' \in [Box -> BoxRec], Shape(at, j)', at = "ended" => Serving',
         at \in RollsBack => faults' >= 1, Succeeded'
  PROVE  Orderly'
<1>1. PICK o \in HelperRec : o = helpers[j]
  BY DEF Orderly
<1>2. PICK r \in HelperRec : r = [o EXCEPT !.at = at] /\ r.at = at
  <2>1. [o EXCEPT !.at = at] \in HelperRec /\ [o EXCEPT !.at = at].at = at
    BY DEF HelperRec
  <2> QED BY <2>1
<1>3. /\ helpers' \in [Job -> HelperRec] /\ helpers'[j].at = at
      /\ \A k \in Job \ {j} : helpers'[k] = helpers[k]
  BY <1>1, <1>2 DEF M!Goto, Orderly
<1>4. \A k \in Job \ {j} : helpers[k].at \in {"unused", "ended"}
  BY HelperFacts DEF M!Working
<1>5. M!Working' = IF at = "ended" THEN {} ELSE {j}
  BY <1>3, <1>4 DEF M!Working
<1>6. ASSUME NEW k \in Job PROVE Place(k)'
  BY <1>3, <1>4 DEF Place, Shape, RollsBack
<1> QED BY <1>3, <1>5, <1>6 DEF Orderly

\* Once a job that did not succeed is past `inspect', no earlier success stands.
LEMMA NoSuccess ==
  ASSUME Orderly, NEW j \in Job, helpers[j].at \notin {"unused", "ended", "inspect", "delete"},
         status' = status \/ status'.st \in {"idle", "running", "failed"}
  PROVE  Succeeded'
BY HelperFacts DEF Succeeded

\* Inspect, PullTargetImage, ReportFailure: no container changes.
LEMMA InspectKeeps ==
  ASSUME Orderly, NEW j \in Job, M!Inspect(j) PROVE Orderly'
<1>1. helpers[j].at = "inspect" /\ UNCHANGED <<boxes, faults>>
  BY DEF M!Inspect, M!At, M!NoFault
<1>2. M!Working = {j} /\ Serving /\ boxes[helpers[j].box].there /\ boxes \in [Box -> BoxRec]
  BY <1>1, HelperFacts DEF Place, Shape
<1>3. PICK o \in HelperRec : o = helpers[j]
  BY DEF Orderly
<1>4. boxes[o.box].name = M!Service
  BY <1>2, <1>3 DEF There, HelperRec, Serving, One
<1>5. PICK r \in HelperRec : r = [o EXCEPT !.at = "pull", !.name = M!Service] /\ r.at = "pull"
  <2> DEFINE r == [o EXCEPT !.at = "pull", !.name = M!Service]
  <2>1. r \in HelperRec /\ r.at = "pull"
    BY DEF HelperRec, HelperAt
  <2> QED BY <2>1
<1>6. helpers' = [helpers EXCEPT ![j] = r] /\ status'.st = "running"
  <2>1. /\ helpers' = [helpers EXCEPT ![j].at = "pull", ![j].name = boxes[helpers[j].box].name]
        /\ status' = [st |-> "running", job |-> j]
    BY <1>2 DEF M!Inspect, M!WriteStatus
  <2>2. helpers' = [helpers EXCEPT ![j].at = "pull", ![j].name = M!Service]
    BY <1>3, <1>4, <2>1
  <2> QED BY <1>3, <1>5, <2>1, <2>2
<1>7. /\ helpers' \in [Job -> HelperRec] /\ helpers'[j].at = "pull"
      /\ \A k \in Job \ {j} : helpers'[k] = helpers[k]
  BY <1>5, <1>6 DEF Orderly
<1>8. \A k \in Job \ {j} : helpers[k].at \in {"unused", "ended"}
  BY <1>2 DEF M!Working
<1>9. M!Working' = {j}
  BY <1>7, <1>8 DEF M!Working
<1>10. Serving'
  BY <1>1, <1>2 DEF Serving, One, There, M!On
<1>11. ASSUME NEW k \in Job PROVE Place(k)'
  BY <1>7, <1>8, <1>10 DEF Place, Shape, RollsBack
<1>12. Succeeded'
  BY <1>6 DEF Succeeded
<1>13. boxes' \in [Box -> BoxRec]
  BY <1>1, <1>2
<1> QED BY <1>7, <1>9, <1>10, <1>11, <1>12, <1>13 DEF Orderly

\* A shape is about the containers alone.
LEMMA ShapesKept ==
  ASSUME UNCHANGED boxes, NEW j
  PROVE  /\ Serving' = Serving /\ Stopped' = Stopped /\ Aside(j)' = Aside(j) /\ Made(j)' = Made(j)
         /\ Started(j)' = Started(j) /\ Unnamed(j)' = Unnamed(j) /\ Restored(j)' = Restored(j)
         /\ Restarted(j)' = Restarted(j)
BY DEF Serving, Stopped, Aside, Made, Started, Unnamed, Restored, Restarted, One, Both, There, M!On

LEMMA PullKeeps ==
  ASSUME Orderly, faults \in Nat, faults' <= 1, NEW j \in Job,
         M!PullTargetImage(j) \/ M!ReportFailure(j) \/ M!CallFails(j) \/ M!WaitForHealthy(j)
         \/ M!WaitForStopped(j)
  PROVE  Orderly'
<1>1. /\ UNCHANGED boxes /\ helpers[j].at \notin {"unused", "ended", "inspect", "delete"}
      /\ status' = status \/ status'.st \in {"idle", "running", "failed"}
  BY DEF M!PullTargetImage, M!ReportFailure, M!CallFails, M!WaitForHealthy, M!WaitForStopped, M!At,
     M!WriteStatus
<1>2. Succeeded'
  BY <1>1, NoSuccess
<1>3. Place(j) /\ boxes' \in [Box -> BoxRec] /\ M!Old(j) = M!Service
  BY <1>1, HelperFacts
<1>4. /\ Serving' = Serving /\ Stopped' = Stopped /\ Aside(j)' = Aside(j) /\ Made(j)' = Made(j)
      /\ Started(j)' = Started(j) /\ Unnamed(j)' = Unnamed(j) /\ Restored(j)' = Restored(j)
      /\ Restarted(j)' = Restarted(j)
  BY <1>1, ShapesKept
<1>5. ASSUME NEW at \in HelperAt \ {"unused", "inspect"}, M!Goto(j, at), Shape(at, j)',
             at = "ended" => Serving', at \in RollsBack => faults' >= 1
      PROVE  Orderly'
  BY <1>1, <1>2, <1>3, <1>5, HelperMoves
<1>6. CASE M!PullTargetImage(j)
  BY <1>6, <1>3, <1>4, <1>5 DEF M!PullTargetImage, M!At, Place, Shape, HelperAt, RollsBack
<1>7. CASE M!ReportFailure(j)
  BY <1>7, <1>3, <1>4, <1>5 DEF M!ReportFailure, M!At, Place, Shape, HelperAt, RollsBack
<1>8. CASE M!CallFails(j)
  BY <1>8, <1>3, <1>4, <1>5 DEF M!CallFails, M!Fault, Place, Shape, HelperAt, RollsBack
<1>9. CASE M!WaitForHealthy(j)
  <2>1. helpers[j].at = "health" /\ Started(j)
    BY <1>3, <1>9 DEF M!WaitForHealthy, M!At, Place, Shape
  <2>2. M!Exists(M!Service) /\ boxes[M!The(M!Service)].on
    <3>1. PICK b \in Box, n \in Box : Both(b, PreviousName(j), n, M!Service, {n}, j)
      BY <2>1 DEF Started
    <3>2. M!Exists(M!Service) /\ M!The(M!Service) = n
      BY <3>1, BothNamed, NameFacts
    <3> QED BY <3>1, <3>2 DEF Both, M!On
  <2>3. M!Goto(j, "complete") \/ (M!Goto(j, "rollback") /\ faults' = faults + 1)
    BY <1>3, <1>9, <2>2 DEF M!WaitForHealthy, M!Fault
  <2>4. Shape("complete", j)' /\ Shape("rollback", j)'
    BY <1>4, <2>1 DEF Shape
  <2>5. faults' = faults + 1 => faults' >= 1
    OBVIOUS
  <2> QED BY <1>5, <2>3, <2>4, <2>5 DEF HelperAt, RollsBack
<1>10. CASE M!WaitForStopped(j)
  <2>1. helpers[j].at = "wait" /\ Stopped
    BY <1>3, <1>10 DEF M!WaitForStopped, M!At, Place, Shape
  <2>2. M!Exists(M!Service) /\ ~boxes[M!The(M!Service)].on
    <3>1. PICK b \in Box : One(b, M!Service, {})
      BY <2>1 DEF Stopped
    <3>2. M!Exists(M!Service) /\ M!The(M!Service) = b
      BY <3>1, OneNamed
    <3> QED BY <3>1, <3>2 DEF One, M!On
  <2>3. M!Goto(j, "rename")
    BY <1>3, <1>10, <2>2 DEF M!WaitForStopped
  <2>4. Shape("rename", j)'
    BY <1>4, <2>1 DEF Shape
  <2> QED BY <1>5, <2>3, <2>4 DEF HelperAt, RollsBack
<1> QED BY <1>6, <1>7, <1>8, <1>9, <1>10

\* The steps forward that change a container.
LEMMA ForwardKeeps ==
  ASSUME Orderly, NEW j \in Job, M!Stop(j) \/ M!RenameOld(j) \/ M!Start(j) \/ M!Create(j)
  PROVE  Orderly'
<1>1. /\ helpers[j].at \notin {"unused", "ended", "inspect", "delete"}
      /\ status' = status \/ status'.st \in {"idle", "running", "failed"}
  BY DEF M!Stop, M!RenameOld, M!Start, M!Create, M!At, M!WriteStatus
<1>2. Succeeded'
  BY <1>1, NoSuccess
<1>3. /\ Place(j) /\ boxes \in [Box -> BoxRec] /\ M!Old(j) = M!Service
      /\ M!Previous(j) = PreviousName(j)
  BY <1>1, HelperFacts
<1>4. /\ PreviousName(j) # M!Service
      /\ {M!Service, PreviousName(j), FailedName(j)} \subseteq Name
  BY NameFacts
<1>5. ASSUME NEW at \in HelperAt \ {"unused", "inspect", "ended"}, at \notin RollsBack,
             M!Goto(j, at), boxes' \in [Box -> BoxRec], Shape(at, j)'
      PROVE  Orderly'
  BY <1>1, <1>2, <1>5, HelperMoves
<1>6. CASE M!Stop(j)
  <2>1. PICK b \in Box : One(b, M!Service, {b})
    BY <1>3, <1>6 DEF M!Stop, M!At, Place, Shape, Serving
  <2>2. M!Exists(M!Service) /\ M!The(M!Service) = b
    BY <2>1, OneNamed
  <2>3. M!Goto(j, "wait") /\ M!StopBox(b)
    BY <1>3, <1>6, <2>2 DEF M!Stop
  <2>4. One(b, M!Service, {})' /\ boxes' \in [Box -> BoxRec]
    BY <1>3, <2>1, <2>3, BoxStops DEF One
  <2>5. Shape("wait", j)'
    BY <2>4 DEF Shape, Stopped
  <2> QED BY <1>5, <2>3, <2>4, <2>5 DEF HelperAt, RollsBack
<1>7. CASE M!RenameOld(j)
  <2>1. PICK b \in Box : One(b, M!Service, {})
    BY <1>3, <1>7 DEF M!RenameOld, M!At, Place, Shape, Stopped
  <2>2. M!Exists(M!Service) /\ M!The(M!Service) = b
    BY <2>1, OneNamed
  <2>3. M!Goto(j, "create") /\ M!Rename(b, PreviousName(j))
    BY <1>3, <1>7, <2>2 DEF M!RenameOld
  <2>4. One(b, PreviousName(j), {})' /\ boxes' \in [Box -> BoxRec]
    BY <1>3, <1>4, <2>1, <2>3, BoxRenamed DEF One
  <2>5. Shape("create", j)'
    BY <2>4 DEF Shape, Aside
  <2> QED BY <1>5, <2>3, <2>4, <2>5 DEF HelperAt, RollsBack
<1>8. CASE M!Create(j)
  <2>1. PICK b \in Box : One(b, PreviousName(j), {})
    BY <1>3, <1>8 DEF M!Create, M!At, Place, Shape, Aside
  <2>2. ~M!Exists(M!Service)
    BY <1>4, <2>1, OneNamed
  <2>3. PICK n \in Box : /\ M!Goto(j, "start") /\ ~boxes[n].there
                         /\ boxes' = [boxes EXCEPT ![n] =
                              [there |-> TRUE, on |-> FALSE, name |-> M!Service, by |-> j]]
    BY <1>3, <1>8, <2>2 DEF M!Create
  <2>4. PICK r \in BoxRec : /\ r = [there |-> TRUE, on |-> FALSE, name |-> M!Service, by |-> j]
                            /\ r.there /\ ~r.on /\ r.name = M!Service /\ r.by = j
    <3> DEFINE r == [there |-> TRUE, on |-> FALSE, name |-> M!Service, by |-> j]
    <3>1. r \in BoxRec /\ r.there /\ ~r.on /\ r.name = M!Service /\ r.by = j
      BY <1>4 DEF BoxRec
    <3> QED BY <3>1
  <2>5. /\ boxes' \in [Box -> BoxRec] /\ boxes'[n] = r
        /\ \A x \in Box \ {n} : boxes'[x] = boxes[x]
        /\ There' = There \cup {n} /\ M!On' = M!On \ {n}
    BY <1>3, <2>3, <2>4, BoxChanges
  <2>6. b # n
    BY <2>1, <2>3 DEF One, There
  <2>7. Both(b, PreviousName(j), n, M!Service, {}, j)'
    BY <2>1, <2>4, <2>5, <2>6 DEF One, Both
  <2>8. Shape("start", j)'
    BY <2>7 DEF Shape, Made
  <2> QED BY <1>5, <2>3, <2>5, <2>8 DEF HelperAt, RollsBack
<1>9. CASE M!Start(j)
  <2>1. PICK b \in Box, n \in Box : Both(b, PreviousName(j), n, M!Service, {}, j)
    BY <1>3, <1>9 DEF M!Start, M!At, Place, Shape, Made
  <2>2. M!Exists(M!Service) /\ M!The(M!Service) = n
    BY <1>4, <2>1, BothNamed
  <2>3. M!CanStart(n)
    BY <2>1 DEF M!CanStart, Both
  <2>4. M!Goto(j, "health") /\ M!StartBox(n)
    BY <1>3, <1>9, <2>2, <2>3 DEF M!Start
  <2>5. Both(b, PreviousName(j), n, M!Service, {n}, j)' /\ boxes' \in [Box -> BoxRec]
    BY <1>3, <2>1, <2>4, BoxStarts DEF Both, Kept
  <2>6. Shape("health", j)'
    BY <2>5 DEF Shape, Started
  <2> QED BY <1>5, <2>4, <2>5, <2>6 DEF HelperAt, RollsBack
<1> QED BY <1>6, <1>7, <1>8, <1>9

\* The job succeeds, and the container it replaced is deleted.
LEMMA CompleteKeeps ==
  ASSUME Orderly, NEW j \in Job, M!Complete(j) \/ M!DeletePrevious(j)
  PROVE  Orderly'
<1>1. helpers[j].at \in {"complete", "delete"}
  BY DEF M!Complete, M!DeletePrevious, M!At
<1>2. /\ M!Working = {j} /\ Started(j) /\ boxes \in [Box -> BoxRec] /\ helpers \in [Job -> HelperRec]
      /\ M!Previous(j) = PreviousName(j)
  BY <1>1, HelperFacts DEF Place, Shape, Orderly
<1>3. PICK b \in Box, n \in Box : Both(b, PreviousName(j), n, M!Service, {n}, j)
  BY <1>2 DEF Started
<1>4. CASE M!Complete(j)
  <2>1. /\ M!Goto(j, "delete") /\ status' = [st |-> "succeeded", job |-> j] /\ UNCHANGED boxes
    BY <1>4 DEF M!Complete, M!WriteStatus
  <2>2. Started(j)' /\ M!On' = M!On /\ boxes' \in [Box -> BoxRec]
    BY <1>2, <2>1, ShapesKept DEF M!On
  <2>3. helpers'[j].at = "delete" /\ \A k \in Job \ {j} : helpers'[k] = helpers[k]
    BY <1>2, <2>1 DEF M!Goto, HelperRec
  <2>4. M!Working' \subseteq {j}
    BY <1>2, <2>3 DEF M!Working
  <2>5. Succeeded'
    BY <1>3, <2>1, <2>2, <2>3, <2>4 DEF Succeeded, Both
  <2>6. Shape("delete", j)'
    BY <2>2 DEF Shape
  <2> QED BY <1>1, <2>1, <2>2, <2>5, <2>6, HelperMoves DEF HelperAt, RollsBack
<1>5. CASE M!DeletePrevious(j)
  <2>1. M!Goto(j, "ended") /\ M!Delete(PreviousName(j)) /\ UNCHANGED status
    BY <1>2, <1>5 DEF M!DeletePrevious
  <2>2. M!Named(PreviousName(j)) = {b}
    BY <1>3, BothNamed, NameFacts
  <2>3. /\ boxes' \in [Box -> BoxRec] /\ Kept /\ There' = There \ ({b} \ M!On) /\ M!On' = M!On
        /\ \A x \in Box : boxes'[x].name = boxes[x].name
    BY <1>2, <2>1, <2>2, BoxDeleted
  <2>4. One(n, M!Service, {n})'
    BY <1>3, <2>3 DEF Both, One
  <2>5. helpers'[j].at = "ended" /\ \A k \in Job \ {j} : helpers'[k] = helpers[k]
    BY <1>2, <2>1 DEF M!Goto, HelperRec
  <2>6. M!Working' = {}
    BY <1>2, <2>5 DEF M!Working
  <2>7. Succeeded'
    BY <1>2, <1>5, <2>1, <2>3, <2>5, <2>6 DEF M!DeletePrevious, M!At, Orderly, Succeeded, M!On, Kept
  <2>8. Serving' /\ Shape("ended", j)'
    BY <2>4 DEF Serving, Shape
  <2> QED BY <1>1, <2>1, <2>3, <2>7, <2>8, HelperMoves DEF HelperAt, RollsBack
<1> QED BY <1>4, <1>5

\* The rollback: every shape it can find is led back to one container that serves.
LEMMA RollbackKeeps ==
  ASSUME Orderly, NEW j \in Job, UNCHANGED faults,
         M!Rollback(j) \/ M!StopFailed(j) \/ M!RenameFailed(j)
  PROVE  Orderly'
<1>1. /\ helpers[j].at \notin {"unused", "ended", "inspect", "delete"}
      /\ helpers[j].at \in RollsBack
      /\ status' = status \/ status'.st \in {"idle", "running", "failed"}
  BY DEF M!Rollback, M!StopFailed, M!RenameFailed, M!At, M!WriteStatus, RollsBack
<1>2. Succeeded'
  BY <1>1, NoSuccess
<1>3. /\ Place(j) /\ boxes \in [Box -> BoxRec] /\ M!Old(j) = M!Service
      /\ M!Previous(j) = PreviousName(j) /\ M!Failed(j) = FailedName(j)
  BY <1>1, HelperFacts
<1>4. /\ PreviousName(j) # M!Service /\ FailedName(j) # M!Service
      /\ {M!Service, PreviousName(j), FailedName(j)} \subseteq Name
  BY NameFacts
<1>5. faults' >= 1
  BY <1>1, <1>3 DEF Place
<1>6. ASSUME NEW at \in HelperAt \ {"unused", "inspect", "ended"}, M!Goto(j, at),
             boxes' \in [Box -> BoxRec], Shape(at, j)'
      PROVE  Orderly'
  BY <1>1, <1>2, <1>5, <1>6, HelperMoves
<1>7. ASSUME UNCHANGED boxes, NEW k
      PROVE  /\ boxes' \in [Box -> BoxRec] /\ Serving' = Serving
             /\ Aside(k)' = Aside(k) /\ Made(k)' = Made(k) /\ Started(k)' = Started(k)
  BY <1>3, <1>7, ShapesKept
<1>8. CASE M!Rollback(j)
  <2>1. Serving \/ Stopped \/ Aside(j) \/ Made(j) \/ Started(j)
    BY <1>3, <1>8 DEF M!Rollback, M!At, Place, Shape
  <2>2. CASE Aside(j) \/ Made(j) \/ Started(j)
    <3>1. M!Exists(PreviousName(j))
      <4>1. CASE Aside(j)
        BY <4>1, OneNamed DEF Aside
      <4>2. CASE Made(j)
        BY <1>4, <4>2, BothNamed DEF Made
      <4>3. CASE Started(j)
        BY <1>4, <4>3, BothNamed DEF Started
      <4> QED BY <2>2, <4>1, <4>2, <4>3
    <3>2. M!Goto(j, "unstart") /\ UNCHANGED boxes
      BY <1>3, <1>8, <3>1 DEF M!Rollback
    <3>3. Shape("unstart", j)'
      BY <1>7, <2>2, <3>2 DEF Shape
    <3> QED BY <1>6, <1>7, <3>2, <3>3 DEF HelperAt
  <2>3. CASE Serving \/ Stopped
    <3>1. PICK b \in Box, up \in SUBSET Box : One(b, M!Service, up) /\ up \subseteq {b}
      <4>1. CASE Serving
        <5>1. PICK b \in Box : One(b, M!Service, {b})
          BY <4>1 DEF Serving
        <5>2. {b} \in SUBSET Box /\ {b} \subseteq {b}
          OBVIOUS
        <5> QED BY <5>1, <5>2
      <4>2. CASE Stopped
        <5>1. PICK b \in Box : One(b, M!Service, {})
          BY <4>2 DEF Stopped
        <5>2. {} \in SUBSET Box /\ {} \subseteq {b}
          OBVIOUS
        <5> QED BY <5>1, <5>2
      <4> QED BY <2>3, <4>1, <4>2
    <3>2. ~M!Exists(PreviousName(j)) /\ M!Exists(M!Service) /\ M!The(M!Service) = b
      BY <1>4, <3>1, OneNamed
    <3>3. M!CanStart(b)
      BY <3>1 DEF M!CanStart, One
    <3>4. M!Goto(j, "failed") /\ M!StartBox(b)
      BY <1>3, <1>8, <3>2, <3>3 DEF M!Rollback
    <3>5. One(b, M!Service, {b})' /\ boxes' \in [Box -> BoxRec]
      BY <1>3, <3>1, <3>4, BoxStarts DEF One
    <3>6. Shape("failed", j)'
      BY <3>5 DEF Shape, Serving
    <3> QED BY <1>6, <3>4, <3>5, <3>6 DEF HelperAt
  <2> QED BY <2>1, <2>2, <2>3
<1>9. CASE M!StopFailed(j)
  <2>1. Aside(j) \/ Made(j) \/ Started(j)
    BY <1>3, <1>9 DEF M!StopFailed, M!At, Place, Shape
  <2>2. M!Goto(j, "unname")
    BY <1>9 DEF M!StopFailed
  <2>3. CASE Aside(j)
    BY <1>4, <2>3, OneNamed, <1>3, <1>9, <1>7, <1>6, <2>2 DEF Aside, M!StopFailed, Shape, HelperAt
  <2>4. CASE Made(j) \/ Started(j)
    <3>1. PICK b \in Box, n \in Box, up \in SUBSET Box :
                /\ Both(b, PreviousName(j), n, M!Service, up, j) /\ up \subseteq {n}
      <4>1. CASE Made(j)
        <5>1. PICK b \in Box, n \in Box : Both(b, PreviousName(j), n, M!Service, {}, j)
          BY <4>1 DEF Made
        <5>2. {} \in SUBSET Box /\ {} \subseteq {n}
          OBVIOUS
        <5> QED BY <5>1, <5>2
      <4>2. CASE Started(j)
        <5>1. PICK b \in Box, n \in Box : Both(b, PreviousName(j), n, M!Service, {n}, j)
          BY <4>2 DEF Started
        <5>2. {n} \in SUBSET Box /\ {n} \subseteq {n}
          OBVIOUS
        <5> QED BY <5>1, <5>2
      <4> QED BY <2>4, <4>1, <4>2
    <3>2. M!Exists(M!Service) /\ M!The(M!Service) = n
      BY <1>4, <3>1, BothNamed
    <3>3. M!StopBox(n)
      BY <1>3, <1>9, <3>2 DEF M!StopFailed
    <3>4. Both(b, PreviousName(j), n, M!Service, {}, j)' /\ boxes' \in [Box -> BoxRec]
      BY <1>3, <3>1, <3>3, BoxStops DEF Both, Kept
    <3>5. Shape("unname", j)'
      BY <3>4 DEF Shape, Made
    <3> QED BY <1>6, <2>2, <3>4, <3>5 DEF HelperAt
  <2> QED BY <2>1, <2>3, <2>4
<1>10. CASE M!RenameFailed(j)
  <2>1. Aside(j) \/ Made(j)
    BY <1>3, <1>10 DEF M!RenameFailed, M!At, Place, Shape
  <2>2. M!Goto(j, "restore")
    BY <1>10 DEF M!RenameFailed
  <2>3. CASE Aside(j)
    BY <1>4, <2>3, OneNamed, <1>3, <1>10, <1>7, <1>6, <2>2 DEF Aside, M!RenameFailed, Shape,
       HelperAt
  <2>4. CASE Made(j)
    <3>1. PICK b \in Box, n \in Box : Both(b, PreviousName(j), n, M!Service, {}, j)
      BY <2>4 DEF Made
    <3>2. M!Exists(M!Service) /\ M!The(M!Service) = n
      BY <1>4, <3>1, BothNamed
    <3>3. M!Rename(n, FailedName(j))
      BY <1>3, <1>10, <3>2 DEF M!RenameFailed
    <3>4. Both(b, PreviousName(j), n, FailedName(j), {}, j)' /\ boxes' \in [Box -> BoxRec]
      BY <1>3, <1>4, <3>1, <3>3, BoxRenamed DEF Both, Kept
    <3>5. Shape("restore", j)'
      BY <3>4 DEF Shape, Unnamed
    <3> QED BY <1>6, <2>2, <3>4, <3>5 DEF HelperAt
  <2> QED BY <2>1, <2>3, <2>4
<1> QED BY <1>8, <1>9, <1>10

LEMMA RestoreKeeps ==
  ASSUME Orderly, NEW j \in Job, UNCHANGED faults,
         M!RestorePrevious(j) \/ M!StartPrevious(j) \/ M!DeleteFailed(j)
  PROVE  Orderly'
<1>1. /\ helpers[j].at \notin {"unused", "ended", "inspect", "delete"}
      /\ helpers[j].at \in RollsBack /\ status' = status
  BY DEF M!RestorePrevious, M!StartPrevious, M!DeleteFailed, M!At, RollsBack
<1>2. Succeeded'
  BY <1>1, NoSuccess
<1>3. /\ Place(j) /\ boxes \in [Box -> BoxRec] /\ M!Old(j) = M!Service
      /\ M!Previous(j) = PreviousName(j) /\ M!Failed(j) = FailedName(j)
  BY <1>1, HelperFacts
<1>4. /\ PreviousName(j) # M!Service /\ FailedName(j) # M!Service
      /\ PreviousName(j) # FailedName(j)
      /\ {M!Service, PreviousName(j), FailedName(j)} \subseteq Name
  BY NameFacts
<1>5. faults' >= 1
  BY <1>1, <1>3 DEF Place
<1>6. ASSUME NEW at \in HelperAt \ {"unused", "inspect", "ended"}, M!Goto(j, at),
             boxes' \in [Box -> BoxRec], Shape(at, j)'
      PROVE  Orderly'
  BY <1>1, <1>2, <1>5, <1>6, HelperMoves
<1>7. CASE M!RestorePrevious(j)
  <2>1. Aside(j) \/ Unnamed(j)
    BY <1>3, <1>7 DEF M!RestorePrevious, M!At, Place, Shape
  <2>2. CASE Aside(j)
    <3>1. PICK b \in Box : One(b, PreviousName(j), {})
      BY <2>2 DEF Aside
    <3>2. ~M!Exists(M!Service) /\ M!Exists(PreviousName(j)) /\ M!The(PreviousName(j)) = b
      BY <1>4, <3>1, OneNamed
    <3>3. M!Goto(j, "restart") /\ M!Rename(b, M!Service)
      BY <1>3, <1>7, <3>2 DEF M!RestorePrevious
    <3>4. One(b, M!Service, {})' /\ boxes' \in [Box -> BoxRec]
      BY <1>3, <1>4, <3>1, <3>3, BoxRenamed DEF One
    <3>5. Shape("restart", j)'
      BY <3>4 DEF Shape, Stopped
    <3> QED BY <1>6, <3>3, <3>4, <3>5 DEF HelperAt
  <2>3. CASE Unnamed(j)
    <3>1. PICK b \in Box, n \in Box : Both(b, PreviousName(j), n, FailedName(j), {}, j)
      BY <2>3 DEF Unnamed
    <3>2. ~M!Exists(M!Service) /\ M!Exists(PreviousName(j)) /\ M!The(PreviousName(j)) = b
      BY <1>4, <3>1, BothNamed
    <3>3. M!Goto(j, "restart") /\ M!Rename(b, M!Service)
      BY <1>3, <1>7, <3>2 DEF M!RestorePrevious
    <3>4. Both(b, M!Service, n, FailedName(j), {}, j)' /\ boxes' \in [Box -> BoxRec]
      BY <1>3, <1>4, <3>1, <3>3, BoxRenamed DEF Both, Kept
    <3>5. Shape("restart", j)'
      BY <3>4 DEF Shape, Restored
    <3> QED BY <1>6, <3>3, <3>4, <3>5 DEF HelperAt
  <2> QED BY <2>1, <2>2, <2>3
<1>8. CASE M!StartPrevious(j)
  <2>1. Stopped \/ Restored(j)
    BY <1>3, <1>8 DEF M!StartPrevious, M!At, Place, Shape
  <2>2. CASE Stopped
    <3>1. PICK b \in Box : One(b, M!Service, {})
      BY <2>2 DEF Stopped
    <3>2. M!Exists(M!Service) /\ M!The(M!Service) = b /\ M!CanStart(b)
      BY <3>1, OneNamed DEF One, M!CanStart
    <3>3. M!Goto(j, "discard") /\ M!StartBox(b)
      BY <1>3, <1>8, <3>2 DEF M!StartPrevious
    <3>4. One(b, M!Service, {b})' /\ boxes' \in [Box -> BoxRec]
      BY <1>3, <3>1, <3>3, BoxStarts DEF One
    <3>5. Shape("discard", j)'
      BY <3>4 DEF Shape, Serving
    <3> QED BY <1>6, <3>3, <3>4, <3>5 DEF HelperAt
  <2>3. CASE Restored(j)
    <3>1. PICK b \in Box, n \in Box : Both(b, M!Service, n, FailedName(j), {}, j)
      BY <2>3 DEF Restored
    <3>2. M!Exists(M!Service) /\ M!The(M!Service) = b /\ M!CanStart(b)
      BY <1>4, <3>1, BothNamed DEF Both, M!CanStart
    <3>3. M!Goto(j, "discard") /\ M!StartBox(b)
      BY <1>3, <1>8, <3>2 DEF M!StartPrevious
    <3>4. Both(b, M!Service, n, FailedName(j), {b}, j)' /\ boxes' \in [Box -> BoxRec]
      BY <1>3, <3>1, <3>3, BoxStarts DEF Both, Kept
    <3>5. Shape("discard", j)'
      BY <3>4 DEF Shape, Restarted
    <3> QED BY <1>6, <3>3, <3>4, <3>5 DEF HelperAt
  <2> QED BY <2>1, <2>2, <2>3
<1>9. CASE M!DeleteFailed(j)
  <2>1. Serving \/ Restarted(j)
    BY <1>3, <1>9 DEF M!DeleteFailed, M!At, Place, Shape
  <2>2. M!Goto(j, "failed") /\ M!Delete(FailedName(j))
    BY <1>3, <1>9 DEF M!DeleteFailed
  <2>3. /\ boxes' \in [Box -> BoxRec] /\ Kept
        /\ There' = There \ (M!Named(FailedName(j)) \ M!On) /\ M!On' = M!On
        /\ \A x \in Box : boxes'[x].name = boxes[x].name
    BY <1>3, <2>2, BoxDeleted
  <2>4. \E b \in Box : One(b, M!Service, {b})'
    <3>1. CASE Serving
      <4>1. PICK b \in Box : One(b, M!Service, {b})
        BY <3>1 DEF Serving
      <4>2. M!Named(FailedName(j)) = {}
        BY <1>4, <4>1, OneNamed
      <4> QED BY <2>3, <4>1, <4>2 DEF One
    <3>2. CASE Restarted(j)
      <4>1. PICK b \in Box, n \in Box : Both(b, M!Service, n, FailedName(j), {b}, j)
        BY <3>2 DEF Restarted
      <4>2. M!Named(FailedName(j)) = {n}
        BY <1>4, <4>1, BothNamed
      <4>3. There' = {b}
        BY <2>3, <4>1, <4>2 DEF Both
      <4>4. One(b, M!Service, {b})'
        BY <2>3, <4>1, <4>3 DEF Both, One
      <4> QED BY <4>4
    <3> QED BY <2>1, <3>1, <3>2
  <2>5. Shape("failed", j)'
    BY <2>4 DEF Shape, Serving
  <2> QED BY <1>6, <2>2, <2>3, <2>5 DEF HelperAt
<1> QED BY <1>7, <1>8, <1>9

\* Whoever leaves the containers and the helpers alone, with another answer at most.
LEMMA OrderlyKept ==
  ASSUME Orderly, faults \in Nat, faults' \in Nat, faults' >= faults, UNCHANGED <<boxes, helpers>>,
         status' = status \/ status'.st \in {"idle", "running", "failed"}
  PROVE  Orderly'
BY ShapesKept DEF M!Working, M!On, Orderly, Place, Shape, Succeeded

\* A helper is started for the container that runs; its job has succeeded at nothing yet.
LEMMA StartHelperKeeps ==
  ASSUME Orderly, M!StartUpdateHelper, ~overlap', UNCHANGED <<boxes, status>>
  PROVE  Orderly'
<1> DEFINE n == M!NewJob
<1>1. n \in Job /\ helpers[n].at = "unused"
  BY DEF M!StartUpdateHelper, M!CanHelp, M!NewJob, M!At
<1>2. M!Working = {} /\ Serving
  BY DEF M!StartUpdateHelper, Orderly
<1>3. PICK b \in Box : One(b, M!Service, {b})
  BY <1>2 DEF Serving
<1>4. (CHOOSE x \in M!On : TRUE) = b
  BY <1>3 DEF One
<1>5. PICK o \in HelperRec : o = helpers[n]
  BY <1>1 DEF Orderly
<1>6. PICK r \in HelperRec : r = [o EXCEPT !.at = "inspect", !.box = b] /\ r.at = "inspect" /\ r.box = b
  <2> DEFINE r == [o EXCEPT !.at = "inspect", !.box = b]
  <2>1. r \in HelperRec /\ r.at = "inspect" /\ r.box = b
    BY DEF HelperRec, HelperAt
  <2> QED BY <2>1
<1>7. helpers' = [helpers EXCEPT ![n] = r]
  <2>1. helpers' = [helpers EXCEPT ![n].at = "inspect", ![n].box = b]
    BY <1>4 DEF M!StartUpdateHelper
  <2> QED BY <1>5, <1>6, <2>1
<1> HIDE DEF n
<1>8. /\ helpers' \in [Job -> HelperRec] /\ helpers'[n] = r
      /\ \A k \in Job \ {n} : helpers'[k] = helpers[k]
  BY <1>1, <1>6, <1>7 DEF Orderly
<1>9. \A k \in Job : helpers[k].at \in {"unused", "ended"}
  BY <1>2 DEF M!Working
<1>10. M!Working' = {n}
  BY <1>1, <1>6, <1>8, <1>9 DEF M!Working
<1>11. Serving' /\ M!On' = M!On
  BY <1>2, ShapesKept DEF M!On
<1>12. boxes[b].there
  BY <1>3 DEF One, There
<1>13. ASSUME NEW k \in Job PROVE Place(k)'
  <2>1. CASE k = n
    BY <1>6, <1>8, <1>11, <1>12, <2>1 DEF Place, Shape, RollsBack
  <2>2. CASE k # n
    BY <1>8, <1>9, <2>2 DEF Place, Shape, RollsBack
  <2> QED BY <2>1, <2>2
<1>14. Succeeded'
  <2>1. ASSUME status.st = "succeeded"
        PROVE  /\ status.job \in Job /\ status.job # n /\ helpers'[status.job].at = "ended"
               /\ \A x \in M!On : boxes[x].by = status.job
    BY <1>1, <1>8, <1>9, <2>1 DEF Orderly, Succeeded
  <2> QED BY <1>6, <1>8, <1>10, <1>11, <2>1 DEF Succeeded
<1> QED BY <1>8, <1>10, <1>11, <1>13, <1>14 DEF Orderly

\* No step forgets a failure or an overlap.
LEMMA BoundsGrow ==
  ASSUME faults \in Nat, overlap \in BOOLEAN, M!Next
  PROVE  /\ faults' \in Nat /\ faults' >= faults
         /\ overlap' \in BOOLEAN /\ (overlap => overlap')
<1>1. faults' = faults \/ faults' = faults + 1
  BY DEF M!Next, M!HelperStep, M!Inspect, M!PullTargetImage, M!Stop, M!WaitForStopped, M!RenameOld,
     M!Create, M!Start, M!WaitForHealthy, M!Complete, M!DeletePrevious, M!CallFails, M!Rollback,
     M!StopFailed, M!RenameFailed, M!RestorePrevious, M!StartPrevious, M!DeleteFailed,
     M!ReportFailure, M!HelperDies, M!Apply, M!ApplyStarts, M!ApplyAnswers, M!LockAges, M!FallsIll,
     M!Repair, M!TakeLock, M!FindStale, M!RemoveStale, M!Health, M!RestartSupervisorService,
     M!Check, M!StartContainerRepair, M!Release, M!NoFault, M!Fault
<1>2. overlap' = overlap \/ overlap' = TRUE \/ overlap' = (overlap \/ M!Working # {})
  BY DEF M!Next, M!HelperStep, M!Inspect, M!PullTargetImage, M!Stop, M!WaitForStopped, M!RenameOld,
     M!Create, M!Start, M!WaitForHealthy, M!Complete, M!DeletePrevious, M!CallFails, M!Rollback,
     M!StopFailed, M!RenameFailed, M!RestorePrevious, M!StartPrevious, M!DeleteFailed,
     M!ReportFailure, M!HelperDies, M!Apply, M!ApplyStarts, M!ApplyAnswers, M!LockAges, M!FallsIll,
     M!Repair, M!TakeLock, M!FindStale, M!RemoveStale, M!Health, M!RestartSupervisorService,
     M!Check, M!StartContainerRepair, M!Release, M!OutsideKept, M!StartUpdateHelper
<1>3. faults' \in Nat /\ faults' >= faults
  BY <1>1
<1>4. overlap' \in BOOLEAN /\ (overlap => overlap')
  <2>1. CASE overlap' = overlap
    BY <2>1
  <2>2. CASE overlap' = TRUE
    BY <2>2
  <2>3. CASE overlap' = (overlap \/ M!Working # {})
    BY <2>3, Zenon
  <2> QED BY <1>2, <2>1, <2>2, <2>3
<1> QED BY <1>3, <1>4

LEMMA UpdateInit ==
  ASSUME MaintenanceAssumption, M!Init
  PROVE  UpdateInv
<1>1. M!First \in Box /\ M!Unused.box \in Box
  BY DEF MaintenanceAssumption, M!First, M!Unused
<1>2. \A j \in Job : helpers[j] = M!Unused
  BY DEF M!Init
<1>3. M!Unused \in HelperRec /\ M!Unused.at = "unused"
  BY <1>1 DEF M!Unused, HelperRec, HelperAt
<1>4. helpers \in [Job -> HelperRec] /\ M!Working = {}
  BY <1>2, <1>3 DEF M!Init, M!Working
<1>5. \A b \in Box : boxes[b] = [there |-> b = M!First, on |-> b = M!First, name |-> M!Service, by |-> M!NoJob]
  BY DEF M!Init
<1>6. ASSUME NEW b \in Box
      PROVE  [there |-> b = M!First, on |-> b = M!First, name |-> M!Service, by |-> M!NoJob] \in BoxRec
  BY DEF BoxRec, Name
<1>7. boxes \in [Box -> BoxRec]
  BY <1>5, <1>6 DEF M!Init
<1>8. One(M!First, M!Service, {M!First})
  <2>1. \A b \in Box : /\ boxes[b].there = (b = M!First) /\ boxes[b].on = (b = M!First)
                         /\ boxes[b].name = M!Service
    <3> TAKE b \in Box
    <3> DEFINE r == [there |-> b = M!First, on |-> b = M!First, name |-> M!Service, by |-> M!NoJob]
    <3>1. r.there = (b = M!First) /\ r.on = (b = M!First) /\ r.name = M!Service
      BY Zenon
    <3>2. boxes[b] = r
      BY <1>5
    <3> HIDE DEF r
    <3> QED BY <3>1, <3>2
  <2>2. There = {M!First}
    BY <1>1, <2>1 DEF There
  <2>3. M!On = {M!First}
    BY <1>1, <2>1 DEF M!On
  <2> QED BY <1>1, <2>1, <2>2, <2>3 DEF One
<1>9. \A j \in Job : Place(j)
  BY <1>2, <1>3 DEF Place, Shape, RollsBack
<1>10. status.st = "idle"
  BY DEF M!Init
<1> QED BY <1>1, <1>4, <1>7, <1>8, <1>9, <1>10 DEF M!Init, UpdateInv, Orderly, Serving, Succeeded

\* UpdateInv holds in every state: one lemma of the helper, or one of the others, each step.
LEMMA UpdateInvariant ==
  ASSUME MaintenanceAssumption PROVE M!Spec => []UpdateInv
<1>1. M!Init => UpdateInv
  BY UpdateInit
<1>2. UpdateInv /\ [M!Next]_M!maintenanceVars => UpdateInv'
  <2> SUFFICES ASSUME UpdateInv, [M!Next]_M!maintenanceVars PROVE UpdateInv'
    OBVIOUS
  <2>1. CASE UNCHANGED M!maintenanceVars
    BY <2>1, OrderlyKept DEF M!maintenanceVars, UpdateInv
  <2>2. CASE M!Next
    <3>1. /\ faults \in Nat /\ faults' \in Nat /\ faults' >= faults
          /\ overlap' \in BOOLEAN /\ (overlap => overlap')
      BY <2>2, BoundsGrow DEF UpdateInv
    <3> SUFFICES ASSUME ~overlap', faults' <= 1 PROVE Orderly'
      BY <3>1 DEF UpdateInv
    <3>2. Orderly
      BY <3>1 DEF UpdateInv
    <3>3. ASSUME NEW j \in Job, M!HelperStep(j) PROVE Orderly'
      BY <3>2, InspectKeeps, <3>1, PullKeeps, ForwardKeeps, CompleteKeeps, RollbackKeeps,
         RestoreKeeps, <3>3 DEF M!Rollback, M!StopFailed, M!RenameFailed, M!NoFault,
         M!RestorePrevious, M!StartPrevious, M!DeleteFailed, M!HelperDies, M!HelperStep
    <3>4. ASSUME M!StartUpdateHelper, UNCHANGED <<boxes, status>> PROVE Orderly'
      BY <3>2, <3>4, StartHelperKeeps
    <3>5. ASSUME UNCHANGED <<boxes, helpers>>,
                 status' = status \/ status'.st \in {"idle", "running", "failed"}
          PROVE  Orderly'
      BY <3>1, <3>2, <3>5, OrderlyKept
    <3>6. CASE M!ApplyStarts
      BY <3>6, <3>4, <3>5 DEF M!ApplyStarts
    <3>7. CASE M!ApplyAnswers
      BY <3>7, <3>5 DEF M!ApplyAnswers, M!WriteStatus
    <3>8. ASSUME NEW a \in M!Repairer, M!StartContainerRepair(a) PROVE Orderly'
      BY <3>8, <3>4, <3>5 DEF M!StartContainerRepair
    <3>9. CASE M!Apply \/ M!LockAges \/ \E p \in M!Restartable : M!FallsIll(p)
      BY <3>9, <3>5 DEF M!Apply, M!LockAges, M!FallsIll
    <3>10. ASSUME NEW a \in M!Repairer,
                  M!Repair(a) \/ M!TakeLock(a) \/ M!FindStale(a) \/ M!RemoveStale(a) \/ M!Health(a)
                  \/ M!RestartSupervisorService(a) \/ M!Check(a) \/ M!Release(a)
           PROVE  Orderly'
      BY <3>10, <3>5 DEF M!Repair, M!TakeLock, M!FindStale, M!RemoveStale, M!Health,
         M!RestartSupervisorService, M!Check, M!Release
    <3> QED BY <2>2, <3>3, <3>6, <3>7, <3>8, <3>9, <3>10 DEF M!Next
  <2> QED BY <2>1, <2>2
<1> QED BY <1>1, <1>2, PTL DEF M!Spec

\* Whatever one call fails, at whatever step of an update, one container runs under
\* the service's name when the helper has ended, and it is the one the job made when
\* the status says that the job succeeded (main and rollback of update-helper.mjs).
THEOREM ServiceSurvivesTheorem == M!Spec => []ServiceSurvives
<1>1. UpdateInv => M!ServiceSurvives
  <2> SUFFICES ASSUME UpdateInv, M!Working = {}, ~overlap, faults <= 1
               PROVE  /\ \E b \in M!On : M!On = {b} /\ boxes[b].name = M!Service
                      /\ \A j \in Job : M!At(j, "ended") /\ status = [st |-> "succeeded", job |-> j]
                                          => boxes[CHOOSE b \in M!On : TRUE].by = j
    BY DEF M!ServiceSurvives
  <2>1. PICK b \in Box : One(b, M!Service, {b})
    BY DEF UpdateInv, Orderly, Serving
  <2>2. M!On = {b} /\ boxes[b].name = M!Service /\ (CHOOSE x \in M!On : TRUE) = b
    BY <2>1 DEF One
  <2>3. ASSUME NEW j \in Job, status = [st |-> "succeeded", job |-> j]
        PROVE  boxes[b].by = j
    BY <2>2, <2>3 DEF UpdateInv, Orderly, Succeeded
  <2> QED BY <2>2, <2>3
<1>2. M!Spec => []UpdateInv
  BY ServerAssumption, UpdateInvariant
<1> QED BY <1>1, <1>2, PTL DEF ServiceSurvives

-----------------------------------------------------------------------------
(* RuntimeRepair: what a repair knows.                                     *)

\* While a repair looks, all that was ill or well since the look began is noted, an
\* answer that did not come means that the program was ill, and one that came means
\* that it was well; a repair that restarts goes by such a look.
RepairInv ==
  /\ programs \in [Supervised -> R!State] /\ wanted \in BOOLEAN /\ control \in BOOLEAN
  /\ repair \in R!RepairRec
  /\ repair.at \in {"look", "again"} =>
       /\ R!Up(programs) \subseteq repair.well /\ R!NotUp(programs) \subseteq repair.ill
       /\ repair.answered \subseteq repair.well
       /\ repair.probed \ repair.answered \subseteq repair.ill
       /\ repair.control => Supervised \ repair.running \subseteq repair.ill
  /\ R!VerdictsAreTrue

\* A look begun with a repair's record keeps what else is in it.
LEMMA LookFacts ==
  ASSUME NEW r \in R!RepairRec, NEW on \in BOOLEAN, r.at \in {"look", "again"},
         control \in BOOLEAN
  PROVE  LET l == R!Look(r, on) IN
         /\ l \in R!RepairRec /\ l.at = r.at /\ l.probed = {} /\ l.answered = {}
         /\ l.well = R!Up(programs) /\ l.ill = R!NotUp(programs)
         /\ l.control => Supervised \ l.running \subseteq l.ill
<1> DEFINE l == R!Look(r, on)
<1>1. /\ l \in R!RepairRec /\ l.at = r.at /\ l.probed = {} /\ l.answered = {}
      /\ l.well = R!Up(programs) /\ l.ill = R!NotUp(programs) /\ l.control = control
      /\ l.running = IF control THEN Supervised \ {s \in Supervised : programs[s] = "down"} ELSE {}
  BY DEF R!Look, R!RepairRec, R!Up, R!NotUp
<1>2. l.control => Supervised \ l.running \subseteq l.ill
  BY <1>1 DEF R!Up, R!NotUp
<1> QED BY <1>1, <1>2, SMTT(30)

\* What a look finds ill was ill, and what it finds well was well.
LEMMA VerdictFacts ==
  ASSUME RepairInv, repair.at \in {"look", "again"}, R!Probed
  PROVE  /\ R!Targets \subseteq Supervised /\ R!Targets \subseteq repair.ill
         /\ R!Enabled(repair.enabled) \ R!Targets \subseteq repair.well
BY DEF R!Enabled, R!Probed, R!Healthy, RepairInv, R!Targets

LEMMA RestKeeps ==
  ASSUME RepairInv, repair' = R!Idle, UNCHANGED <<programs, wanted, control>>,
         \/ UNCHANGED result
         \/ /\ result'.status = "succeeded" => R!Enabled(result'.enabled) \subseteq result'.well
            /\ result'.helper => result'.remaining # {} /\ result'.remaining \subseteq result'.ill
  PROVE  RepairInv'
BY DEF R!Idle, R!RepairRec, RepairInv, R!VerdictsAreTrue, R!Enabled

\* A step that leaves the verdicts alone.
LEMMA LooksKeep ==
  ASSUME RepairInv, UNCHANGED result, programs' \in [Supervised -> R!State],
         wanted' \in BOOLEAN, control' \in BOOLEAN, repair' \in R!RepairRec,
         repair'.at \in {"look", "again"} =>
           /\ R!Up(programs') \subseteq repair'.well /\ R!NotUp(programs') \subseteq repair'.ill
           /\ repair'.answered \subseteq repair'.well
           /\ repair'.probed \ repair'.answered \subseteq repair'.ill
           /\ repair'.control => Supervised \ repair'.running \subseteq repair'.ill,
         repair'.at = "restart" =>
           /\ repair'.targets \subseteq repair'.ill
           /\ R!Enabled(repair'.enabled) \ repair'.targets \subseteq repair'.well
  PROVE  RepairInv'
BY DEF RepairInv, R!VerdictsAreTrue, R!Enabled, R!Up, R!NotUp

LEMMA ProbeKeeps ==
  ASSUME RepairInv, NEW s \in Supervised, R!Probe(s)
  PROVE  RepairInv'
<1>1. /\ repair' \in R!RepairRec /\ repair'.at = repair.at
      /\ repair'.probed = repair.probed \cup {s}
      /\ repair'.answered = IF programs[s] = "up" THEN repair.answered \cup {s}
                            ELSE repair.answered
      /\ repair'.well = repair.well /\ repair'.ill = repair.ill
      /\ repair'.control = repair.control /\ repair'.running = repair.running
  BY DEF RepairInv, R!Probe, R!RepairRec
<1>2. /\ repair'.answered \subseteq repair'.well
      /\ repair'.probed \ repair'.answered \subseteq repair'.ill
  BY <1>1 DEF RepairInv, R!Probe, R!Up, R!NotUp
<1>3. /\ UNCHANGED <<programs, wanted, control, result>> /\ repair'.at # "restart"
      /\ R!Up(programs) \subseteq repair.well /\ R!NotUp(programs) \subseteq repair.ill
      /\ repair.control => Supervised \ repair.running \subseteq repair.ill
      /\ programs \in [Supervised -> R!State] /\ wanted \in BOOLEAN /\ control \in BOOLEAN
  BY <1>1 DEF RepairInv, R!Probe
<1> QED BY <1>1, <1>2, <1>3, LooksKeep

LEMMA BecomesKeeps ==
  ASSUME RepairInv, NEW s \in Supervised, NEW w \in R!State, R!Becomes(s, w)
  PROVE  RepairInv'
<1>1. programs' = [programs EXCEPT ![s] = w] /\ programs' \in [Supervised -> R!State]
  BY DEF R!Becomes, RepairInv
<1>2. /\ repair' \in R!RepairRec /\ repair'.at = repair.at
      /\ repair'.well = IF repair.at \in {"look", "again"} THEN repair.well \cup R!Up(programs')
                        ELSE repair.well
      /\ repair'.ill = IF repair.at \in {"look", "again"} THEN repair.ill \cup R!NotUp(programs')
                       ELSE repair.ill
      /\ repair'.probed = repair.probed /\ repair'.answered = repair.answered
      /\ repair'.control = repair.control /\ repair'.running = repair.running
      /\ repair'.enabled = repair.enabled /\ repair'.targets = repair.targets
  <2> DEFINE up == R!Up(programs')  down == R!NotUp(programs')
  <2>1. up \subseteq Supervised /\ down \subseteq Supervised
    BY DEF R!Up, R!NotUp
  <2>2. /\ repair \in R!RepairRec
        /\ repair' = [repair EXCEPT
             !.ill = IF repair.at \in {"look", "again"} THEN repair.ill \cup down ELSE repair.ill,
             !.well = IF repair.at \in {"look", "again"} THEN repair.well \cup up ELSE repair.well]
    BY DEF R!Becomes, R!Seen, RepairInv
  <2> HIDE DEF up, down
  <2>3. /\ repair' \in R!RepairRec /\ repair'.at = repair.at
        /\ repair'.well = IF repair.at \in {"look", "again"} THEN repair.well \cup up
                          ELSE repair.well
        /\ repair'.ill = IF repair.at \in {"look", "again"} THEN repair.ill \cup down
                         ELSE repair.ill
        /\ repair'.probed = repair.probed /\ repair'.answered = repair.answered
        /\ repair'.control = repair.control /\ repair'.running = repair.running
        /\ repair'.enabled = repair.enabled /\ repair'.targets = repair.targets
    BY <2>1, <2>2 DEF R!RepairRec
  <2> QED BY <2>3 DEF up, down
<1>3. repair'.at \in {"look", "again"} =>
        /\ R!Up(programs') \subseteq repair'.well /\ R!NotUp(programs') \subseteq repair'.ill
        /\ repair'.answered \subseteq repair'.well
        /\ repair'.probed \ repair'.answered \subseteq repair'.ill
        /\ repair'.control => Supervised \ repair'.running \subseteq repair'.ill
  BY <1>2 DEF RepairInv
<1>4. repair'.at = "restart" =>
        /\ repair'.targets \subseteq repair'.ill
        /\ R!Enabled(repair'.enabled) \ repair'.targets \subseteq repair'.well
  BY <1>2 DEF RepairInv, R!VerdictsAreTrue
<1>5. UNCHANGED <<wanted, control, result>> /\ wanted \in BOOLEAN /\ control \in BOOLEAN
  BY DEF R!Becomes, RepairInv
<1> QED BY <1>1, <1>2, <1>3, <1>4, <1>5, LooksKeep

LEMMA BeginKeeps ==
  ASSUME RepairInv, R!Begin
  PROVE  RepairInv'
<1>1. PICK who \in {"api", "watchdog"}, allow \in BOOLEAN :
        repair' = R!Look([R!Idle EXCEPT !.by = who, !.at = "look", !.allow = allow], wanted)
  BY DEF R!Begin
<1> DEFINE r == [R!Idle EXCEPT !.by = who, !.at = "look", !.allow = allow]
<1>2. r \in R!RepairRec /\ r.at = "look"
  BY DEF R!Idle, R!RepairRec
<1> HIDE DEF r
<1>3. /\ UNCHANGED <<programs, wanted, control, result>> /\ repair' = R!Look(r, wanted)
      /\ programs \in [Supervised -> R!State] /\ wanted \in BOOLEAN /\ control \in BOOLEAN
  BY <1>1 DEF R!Begin, RepairInv, r
<1>4. /\ repair' \in R!RepairRec /\ repair'.at = "look"
      /\ repair'.probed = {} /\ repair'.answered = {}
      /\ repair'.well = R!Up(programs) /\ repair'.ill = R!NotUp(programs)
      /\ repair'.control => Supervised \ repair'.running \subseteq repair'.ill
  BY <1>2, <1>3, LookFacts
<1> QED BY <1>3, <1>4, LooksKeep

LEMMA LookAgainKeeps ==
  ASSUME RepairInv, R!LookAgain
  PROVE  RepairInv'
<1> DEFINE r == [repair EXCEPT !.at = "again"]
           on == IF repair.by = "api" THEN wanted ELSE repair.enabled
<1>1. r \in R!RepairRec /\ r.at = "again" /\ on \in BOOLEAN
  BY DEF RepairInv, R!RepairRec
<1>2. /\ UNCHANGED <<programs, wanted, control, result>> /\ repair' = R!Look(r, on)
      /\ programs \in [Supervised -> R!State] /\ wanted \in BOOLEAN /\ control \in BOOLEAN
  BY DEF R!LookAgain, RepairInv
<1> HIDE DEF r, on
<1>3. /\ repair' \in R!RepairRec /\ repair'.at = "again"
      /\ repair'.probed = {} /\ repair'.answered = {}
      /\ repair'.well = R!Up(programs) /\ repair'.ill = R!NotUp(programs)
      /\ repair'.control => Supervised \ repair'.running \subseteq repair'.ill
  BY <1>1, <1>2, LookFacts
<1> QED BY <1>2, <1>3, LooksKeep

LEMMA LookedKeeps ==
  ASSUME RepairInv, R!Looked
  PROVE  RepairInv'
<1>1. /\ R!Targets \subseteq Supervised /\ R!Targets \subseteq repair.ill
      /\ R!Enabled(repair.enabled) \ R!Targets \subseteq repair.well
  BY VerdictFacts DEF R!Looked
<1>2. /\ UNCHANGED <<programs, wanted, control>>
      /\ programs \in [Supervised -> R!State] /\ wanted \in BOOLEAN /\ control \in BOOLEAN
  BY DEF R!Looked, RepairInv
<1>3. CASE repair.control /\ R!Targets # {}
  <2> DEFINE t == R!Targets
  <2>1. /\ repair' = [repair EXCEPT !.at = "restart", !.todo = t, !.targets = t]
        /\ UNCHANGED result /\ t \subseteq Supervised
    BY <1>1, <1>3 DEF R!Looked
  <2> HIDE DEF t
  <2>2. /\ repair' \in R!RepairRec /\ repair'.at = "restart" /\ repair'.targets = t
        /\ repair'.ill = repair.ill /\ repair'.well = repair.well
        /\ repair'.enabled = repair.enabled
    BY <2>1 DEF RepairInv, R!RepairRec
  <2> QED BY <1>1, <1>2, <2>1, <2>2, LooksKeep DEF t
<1>4. CASE ~(repair.control /\ R!Targets # {})
  BY <1>4, <1>2, RestKeeps DEF R!Looked, R!Write
<1> QED BY <1>3, <1>4

LEMMA RestartKeeps ==
  ASSUME RepairInv, R!RestartSupervisorService
  PROVE  RepairInv'
<1>1. /\ UNCHANGED <<wanted, control, result>> /\ repair.at = "restart"
      /\ wanted \in BOOLEAN /\ control \in BOOLEAN /\ repair \in R!RepairRec
  BY DEF R!RestartSupervisorService, RepairInv
<1>2. programs' \in [Supervised -> R!State]
  BY DEF R!RestartSupervisorService, RepairInv, R!Restarted, R!State
<1>3. PICK s \in repair.todo :
        \/ repair' = R!Idle
        \/ repair' = [repair EXCEPT !.todo = repair.todo \ {s}]
        \/ repair' = [repair EXCEPT !.todo = repair.todo \ {s}, !.failed = repair.failed \cup {s}]
  BY DEF R!RestartSupervisorService
<1>4. CASE repair' = R!Idle
  BY <1>4, <1>1, <1>2, LooksKeep DEF R!Idle, R!RepairRec
<1>5. CASE repair' # R!Idle
  <2>0. PICK todo \in SUBSET Supervised, failed \in SUBSET Supervised :
          repair' = [repair EXCEPT !.todo = todo, !.failed = failed]
    <3>1. /\ s \in Supervised /\ repair.todo \ {s} \in SUBSET Supervised
          /\ repair.failed \in SUBSET Supervised /\ repair.failed \cup {s} \in SUBSET Supervised
      BY <1>1 DEF R!RepairRec
    <3>2. CASE repair' = [repair EXCEPT !.todo = repair.todo \ {s}]
      <4>1. repair' = [repair EXCEPT !.todo = repair.todo \ {s}, !.failed = repair.failed]
        BY <1>1, <3>2 DEF R!RepairRec
      <4> QED BY <3>1, <4>1
    <3>3. CASE repair' = [repair EXCEPT !.todo = repair.todo \ {s},
                                       !.failed = repair.failed \cup {s}]
      BY <3>1, <3>3
    <3> QED BY <1>3, <1>5, <3>2, <3>3
  <2>1. /\ repair' \in R!RepairRec /\ repair'.at = "restart" /\ repair'.targets = repair.targets
        /\ repair'.ill = repair.ill /\ repair'.well = repair.well
        /\ repair'.enabled = repair.enabled
    BY <1>1, <2>0 DEF R!RepairRec
  <2>2. /\ repair.targets \subseteq repair.ill
        /\ R!Enabled(repair.enabled) \ repair.targets \subseteq repair.well
    BY <1>1 DEF RepairInv, R!VerdictsAreTrue
  <2> QED BY <1>1, <1>2, <2>1, <2>2, LooksKeep
<1> QED BY <1>4, <1>5

LEMMA FinishKeeps ==
  ASSUME RepairInv, R!Finish
  PROVE  RepairInv'
BY VerdictFacts, RestKeeps DEF R!Finish, R!Write

LEMMA RepairInvariant == R!Spec => []RepairInv
<1>1. R!Init => RepairInv
  <2> SUFFICES ASSUME R!Init PROVE RepairInv
    OBVIOUS
  <2>1. R!Idle \in R!RepairRec /\ R!Idle.at = "idle"
    BY DEF R!Idle, R!RepairRec
  <2>2. programs \in [Supervised -> R!State] /\ wanted \in BOOLEAN /\ control \in BOOLEAN
    BY DEF R!Init, R!State
  <2>3. R!VerdictsAreTrue
    BY <2>1 DEF R!Init, R!VerdictsAreTrue
  <2> QED BY <2>1, <2>2, <2>3 DEF R!Init, RepairInv
<1>2. RepairInv /\ [R!Next]_R!vars => RepairInv'
  <2> SUFFICES ASSUME RepairInv, [R!Next]_R!vars PROVE RepairInv'
    OBVIOUS
  <2>1. CASE UNCHANGED R!vars
    BY <2>1 DEF R!vars, RepairInv, R!VerdictsAreTrue, R!Up, R!NotUp, R!Enabled
  <2>2. CASE R!Begin \/ R!Looked \/ R!RestartSupervisorService \/ R!LookAgain \/ R!Finish
    BY <2>2, BeginKeeps, LookedKeeps, RestartKeeps, LookAgainKeeps, FinishKeeps
  <2>3. CASE R!SaveTurn \/ R!ControlLost \/ R!ControlBack
    <3>1. /\ UNCHANGED <<programs, repair, result>> /\ wanted' \in BOOLEAN /\ control' \in BOOLEAN
          /\ programs' \in [Supervised -> R!State] /\ repair' \in R!RepairRec
      BY <2>3 DEF R!SaveTurn, R!ControlLost, R!ControlBack, RepairInv
    <3> QED BY <3>1 DEF RepairInv, R!VerdictsAreTrue, R!Up, R!NotUp, R!Enabled
  <2>4. ASSUME NEW s \in Supervised, R!Probe(s) \/ R!Fails(s) \/ R!Recovers(s)
        PROVE  RepairInv'
    <3>1. CASE R!Probe(s)
      BY <3>1, ProbeKeeps
    <3>2. CASE R!Fails(s) \/ R!Recovers(s)
      <4>1. PICK w \in R!State : R!Becomes(s, w)
        BY <3>2 DEF R!Fails, R!Recovers, R!State
      <4> QED BY <4>1, BecomesKeeps
    <3> QED BY <2>4, <3>1, <3>2
  <2> QED BY <2>1, <2>2, <2>3, <2>4 DEF R!Next
<1> QED BY <1>1, <1>2, PTL DEF R!Spec

-----------------------------------------------------------------------------
(* AdminPanel: what a call owes.                                           *)

CallShape == [st : {"none", "sent", "served", "refused", "reads", "unread"},
              login : BOOLEAN, pw : Password \cup {Empty}, to : Password \cup {Empty},
              route : J!Route, reloads : SUBSET Follow, held : [Follow -> Nat]]
PanelShape == [auth : BOOLEAN, pw : Password \cup {Empty}, typed : BOOLEAN,
               busy : SUBSET J!Spinner, shown : [Follow -> Nat], lapses : SUBSET J!Lapse]
ServerShape == [pw : Password, at : [Follow -> Nat \ {0}]]

PanelTypes ==
  /\ panel \in PanelShape /\ asked \in [J!Slot -> CallShape] /\ kept \in ServerShape

\* What every call is like: what it changes it shows or reads again, a login reads all,
\* a new password and a login go under the spinner of the page, and what is sent or at
\* rest holds nothing.
Fits(c, s) ==
  /\ c.route.writes \subseteq c.route.answers \cup c.reloads
  /\ c.login => c.reloads = Follow /\ c.to = Empty
  /\ c.login \/ c.to # Empty => s = "page"
  /\ c.st \in {"none", "sent"} => c.held = J!Nothing

\* The call will show the part as it is, or lapse.
Owes(c, p) ==
  \/ c.st = "served" /\ J!Changes(c) /\ (c.held[p] = kept.at[p] \/ p \in c.reloads)
  \/ c.st = "reads" /\ p \in c.reloads
  \/ c.st = "unread"

\* What a call holds is so.
Honest(c) == \A p \in Follow : c.held[p] \in {0, kept.at[p]}

\* Without a lapse what every call holds is so, an admitted login has the server's
\* password, an admitted new one is the server's, and whatever a signed-in page does not show as it is, a call owes.
Owed ==
  /\ \A s \in J!Slot : Honest(asked[s])
  /\ asked["page"].st = "served" => /\ asked["page"].login => asked["page"].pw = kept.pw
                                    /\ asked["page"].to \in {Empty, kept.pw}
  /\ panel.auth => \/ panel.pw = kept.pw
                   \/ asked["page"].st = "served" /\ asked["page"].to = kept.pw
  /\ panel.auth => \A p \in Follow : \/ panel.shown[p] = kept.at[p]
                                     \/ \E s \in J!Slot : Owes(asked[s], p)
  /\ ~panel.auth => panel.typed \/ panel.pw = Empty

PanelInv ==
  /\ PanelTypes
  /\ \A s \in J!Spinner : s \in panel.busy <=> asked[s].st # "none"
  /\ \A s \in J!Slot : Fits(asked[s], s)
  /\ panel.lapses = {} => Owed

LEMMA SlotFacts ==
  /\ J!Spinner \subseteq J!Slot /\ {"page", "runtime", "export"} \subseteq J!Spinner
  /\ "refresh" \in J!Slot \ J!Spinner
  /\ J!Nothing \in [Follow -> Nat] /\ \A p \in Follow : J!Nothing[p] = 0
  /\ J!NoRoute \in J!Route /\ J!NoRoute.writes = {} /\ J!NoRoute.answers = {}
BY DEF J!Spinner, J!Slot, J!Nothing, J!Unread, J!NoRoute, J!Route

LEMMA NoCallFacts ==
  /\ J!NoCall \in CallShape /\ J!NoCall.st = "none" /\ J!NoCall.held = J!Nothing
  /\ \A s : Fits(J!NoCall, s)
  /\ Honest(J!NoCall) /\ \A p : ~Owes(J!NoCall, p)
BY SlotFacts DEF J!NoCall, CallShape, Fits, Honest, Owes

\* A request holds nothing, and fits when its route's changes are shown or read.
LEMMA SentFacts ==
  ASSUME PanelTypes, NEW route, NEW reloads, route.writes \subseteq route.answers \cup reloads
  PROVE  LET q == J!Query(route, reloads) IN
         /\ q \in CallShape /\ q.st = "sent" /\ q.held = J!Nothing /\ ~q.login
         /\ q.to = Empty /\ q.reloads = reloads \cap Follow
         /\ \A s : Fits(q, s)
<1> DEFINE q == J!Query(route, reloads)
           r == [writes |-> route.writes \cap Follow, answers |-> route.answers \cap Follow]
           l == reloads \cap Follow
<1>1. /\ r \in J!Route /\ r.writes = route.writes \cap Follow
      /\ r.answers = route.answers \cap Follow /\ l \in SUBSET Follow
  BY DEF J!Route
<1>2. q = [J!NoCall EXCEPT !.st = "sent", !.pw = panel.pw, !.reloads = l, !.route = r]
  BY DEF J!Query
<1>3. J!NoCall \in CallShape /\ J!NoCall.held = J!Nothing /\ ~J!NoCall.login
      /\ J!NoCall.to = Empty /\ panel.pw \in Password \cup {Empty}
  BY NoCallFacts DEF J!NoCall, PanelTypes, PanelShape
<1> HIDE DEF q, r, l
<1>4. /\ q \in CallShape /\ q.st = "sent" /\ q.held = J!Nothing /\ ~q.login
      /\ q.to = Empty /\ q.reloads = l /\ q.route = r
  BY <1>1, <1>2, <1>3 DEF CallShape
<1>5. \A s : Fits(q, s)
  BY <1>1, <1>4 DEF Fits, l
<1> QED BY <1>4, <1>5 DEF q, l

\* One call moves.
LEMMA CallMoves ==
  ASSUME PanelInv, NEW s \in J!Slot, NEW c \in CallShape, asked' = [asked EXCEPT ![s] = c],
         Fits(c, s), panel' \in PanelShape, kept' \in ServerShape,
         \A t \in J!Spinner : t \in panel'.busy <=> IF t = s THEN c.st # "none"
                                                   ELSE t \in panel.busy,
         panel'.lapses = {} => Owed'
  PROVE  PanelInv'
BY SlotFacts DEF PanelInv, PanelTypes, Fits, J!Nothing, J!Unread

\* A call moves while page and server stay: it is honest, and owes what it owed.
LEMMA OwedMoves ==
  ASSUME PanelInv, NEW s \in J!Slot, NEW c \in CallShape, asked' = [asked EXCEPT ![s] = c],
         Owed, Honest(c),
         panel'.auth => panel.auth, panel'.auth => panel'.pw = panel.pw,
         panel'.shown = panel.shown, UNCHANGED kept,
         ~panel'.auth => panel'.typed \/ panel'.pw = Empty,
         c.st # "served",
         asked[s].st = "served" => asked[s].to = Empty,
         panel'.auth => \A p \in Follow :
            Owes(asked[s], p) => Owes(c, p) \/ panel.shown[p] = kept.at[p]
                                  \/ \E t \in J!Slot \ {s} : Owes(asked[t], p)
  PROVE  Owed'
<1>1. \A t \in J!Slot : asked'[t] = IF t = s THEN c ELSE asked[t]
  BY DEF PanelInv, PanelTypes
<1>2. \A t \in J!Slot : Honest(asked[t])'
  BY <1>1 DEF Owed, Honest
<1>3. asked'["page"].st = "served" => asked'["page"] = asked["page"]
  BY <1>1, SlotFacts
<1>4. ASSUME panel'.auth, panel'.pw # kept'.pw
      PROVE  asked'["page"].st = "served" /\ asked'["page"].to = kept'.pw
  BY <1>4, ServerAssumption, <1>1, SlotFacts DEF Owed, PanelInv, PanelTypes, ServerShape,
     ServerAssumption, PanelAssumption
<1>5. ASSUME panel'.auth, NEW p \in Follow, panel'.shown[p] # kept'.at[p]
      PROVE  \E t \in J!Slot : Owes(asked[t], p)'
  <2>1. PICK t \in J!Slot : Owes(asked[t], p)
    BY <1>5 DEF Owed
  <2>2. \A x \in J!Slot \ {s} : Owes(asked[x], p) => Owes(asked[x], p)'
    BY <1>1 DEF Owes
  <2>3. Owes(c, p) => Owes(asked[s], p)'
    BY <1>1 DEF Owes
  <2> QED BY <1>5, <2>1, <2>2, <2>3
<1> QED BY <1>2, <1>3, <1>4, <1>5 DEF Owed

\* A request is sent.
LEMMA SendKeeps ==
  ASSUME PanelInv, NEW s \in J!Slot, NEW c \in CallShape, Fits(c, s), c.st = "sent",
         J!Send(s, c),
         \/ s \in J!Spinner /\ panel' = [panel EXCEPT !.busy = @ \cup {s}]
         \/ s \notin J!Spinner /\ UNCHANGED panel
  PROVE  PanelInv'
<1>1. /\ asked[s].st = "none" /\ asked' = [asked EXCEPT ![s] = c] /\ UNCHANGED kept
      /\ panel \in PanelShape /\ kept' \in ServerShape
  BY DEF J!Send, PanelInv, PanelTypes
<1>2. /\ panel' \in PanelShape /\ panel'.auth = panel.auth /\ panel'.pw = panel.pw
      /\ panel'.typed = panel.typed /\ panel'.shown = panel.shown
      /\ panel'.lapses = panel.lapses
      /\ panel'.busy = IF s \in J!Spinner THEN panel.busy \cup {s} ELSE panel.busy
  BY <1>1 DEF PanelShape
<1>3. \A t \in J!Spinner : t \in panel'.busy <=> IF t = s THEN c.st # "none" ELSE t \in panel.busy
  BY <1>2
<1>4. Honest(c)
  BY SlotFacts DEF Fits, Honest
<1>5. ASSUME NEW p \in Follow PROVE ~Owes(asked[s], p)
  BY <1>1 DEF Owes
<1>6. ASSUME Owed PROVE ~panel.auth => panel'.typed \/ panel'.pw = Empty
  BY <1>2, <1>6 DEF Owed
<1>7. ASSUME Owed PROVE Owed'
  BY <1>1, <1>2, <1>4, <1>5, <1>6, <1>7, OwedMoves
<1>8. panel'.lapses = {} => Owed'
  BY <1>2, <1>7 DEF PanelInv
<1> QED BY <1>1, <1>2, <1>3, <1>8, CallMoves

LEMMA ClickKeeps ==
  ASSUME PanelInv, NEW s \in J!Spinner, NEW route, NEW reloads,
         route.writes \subseteq route.answers \cup reloads, J!Click(s, route, reloads)
  PROVE  PanelInv'
<1> DEFINE q == J!Query(route, reloads)
<1>1. q \in CallShape /\ q.st = "sent" /\ Fits(q, s)
  BY SentFacts DEF PanelInv
<1>2. J!Send(s, q) /\ panel' = [panel EXCEPT !.busy = @ \cup {s}] /\ s \in J!Slot
  BY SlotFacts DEF J!Click
<1> HIDE DEF q
<1> QED BY <1>1, <1>2, SendKeeps

\* Every button: what its route changes is answered or read again.
LEMMA ClicksKeep ==
  ASSUME PanelInv,
         \/ J!CheckVersions \/ J!SaveUpdateProxy \/ J!StartUpdate \/ J!SaveDeploymentSettings
         \/ J!ApplyDeployment \/ J!CreateUser \/ J!CreateChannel \/ J!SaveChannel
         \/ J!DeleteChannel \/ J!RepairRuntime \/ J!SaveSelfRepair \/ J!SavePublicIp
         \/ J!CheckPublicIp \/ J!ExportRuntimeLogs
  PROVE  PanelInv'
<1>1. PICK s \in J!Spinner : \E route, reloads :
        route.writes \subseteq route.answers \cup reloads /\ J!Click(s, route, reloads)
  BY SlotFacts DEF J!CheckVersions, J!VersionsRoute, J!ProxyRoute, J!SaveUpdateProxy, J!UpdateRoute,
     J!StartUpdate, J!DeploymentRoute, J!SaveDeploymentSettings, J!ApplyRoute, J!ApplyDeployment,
     J!UserRoute, J!Part, J!CreateUser, J!ChannelRoute, J!CreateChannel, J!SaveChannel,
     J!DeleteChannel, J!RepairRoute, J!RepairRuntime, J!SelfRepairRoute, J!SaveSelfRepair,
     J!AddressRoute, J!SavePublicIp, J!CheckRoute, J!CheckPublicIp, J!ExportRuntimeLogs,
     J!ExportRoute
<1> QED BY <1>1, ClickKeeps

\* The login reads every part.
LEMMA LoginKeeps ==
  ASSUME ServerAssumption, PanelInv, J!Login
  PROVE  PanelInv'
<1> DEFINE q == J!Query(J!NoRoute, J!Part)
           c == [q EXCEPT !.login = TRUE]
<1>1. /\ q \in CallShape /\ q.st = "sent" /\ q.held = J!Nothing /\ q.to = Empty
      /\ q.reloads = Follow /\ Fits(q, "page")
  <2>1. J!Part \cap Follow = Follow
    BY ServerAssumption DEF ServerAssumption, PanelAssumption
  <2>2. J!NoRoute.writes \subseteq J!NoRoute.answers \cup J!Part
    BY SlotFacts
  <2> QED BY <2>1, <2>2, SentFacts DEF PanelInv
<1> HIDE DEF q
<1>2. /\ c \in CallShape /\ c.st = "sent" /\ c.held = J!Nothing /\ c.to = Empty
      /\ c.reloads = Follow /\ c.route = q.route
  BY <1>1 DEF CallShape
<1>3. Fits(c, "page")
  BY <1>1, <1>2 DEF Fits
<1>4. J!Send("page", c) /\ panel' = [panel EXCEPT !.busy = @ \cup {"page"}]
  BY DEF J!Login, q
<1> HIDE DEF c
<1> QED BY <1>2, <1>3, <1>4, SlotFacts, SendKeeps

LEMMA SaveSettingsKeeps ==
  ASSUME PanelInv, J!SaveSettings
  PROVE  PanelInv'
<1> DEFINE q == J!Query(J!SettingsRoute, J!Part)
<1>1. q \in CallShape /\ q.st = "sent" /\ q.held = J!Nothing /\ ~q.login /\ Fits(q, "page")
  BY SentFacts DEF J!SettingsRoute, J!Part, PanelInv
<1>2. PICK to \in Password \cup {Empty} : J!Send("page", [q EXCEPT !.to = to])
  BY DEF J!SaveSettings
<1> DEFINE c == [q EXCEPT !.to = to]
<1>3. panel' = [panel EXCEPT !.busy = @ \cup {"page"}]
  BY DEF J!SaveSettings
<1> HIDE DEF q
<1>4. /\ c \in CallShape /\ c.st = "sent" /\ c.held = J!Nothing /\ c.login = q.login
      /\ c.reloads = q.reloads /\ c.route = q.route
  BY <1>1 DEF CallShape
<1>5. Fits(c, "page")
  BY <1>1, <1>4 DEF Fits
<1>6. J!Send("page", c)
  BY <1>2
<1> HIDE DEF c
<1> QED BY <1>3, <1>4, <1>5, <1>6, SlotFacts, SendKeeps

LEMMA RefreshKeeps ==
  ASSUME PanelInv, J!RefreshUpdateStatus \/ J!RefreshRuntimeHealth
  PROVE  PanelInv'
<1>1. PICK p \in J!Part : J!Send("refresh", J!Query(J!Reading(p), {})) /\ UNCHANGED panel
  BY DEF J!RefreshUpdateStatus, J!RefreshRuntimeHealth, J!Part
<1>2. J!Reading(p).writes \subseteq J!Reading(p).answers \cup {}
  BY DEF J!Reading
<1> DEFINE q == J!Query(J!Reading(p), {})
<1>3. q \in CallShape /\ q.st = "sent" /\ Fits(q, "refresh")
  BY <1>2, SentFacts DEF PanelInv
<1> HIDE DEF q
<1> QED BY <1>1, <1>3, SlotFacts, SendKeeps DEF q

\* What the page does while the calls and the server stay.
LEMMA PageKeeps ==
  ASSUME PanelInv, J!Type \/ J!SignOut
  PROVE  PanelInv'
<1>1. UNCHANGED <<asked, kept>> /\ panel \in PanelShape
  BY DEF J!Type, J!SignOut, PanelInv, PanelTypes
<1>2. /\ panel' \in PanelShape /\ ~panel'.auth /\ (panel'.typed \/ panel'.pw = Empty)
      /\ panel'.busy = panel.busy /\ panel'.lapses = panel.lapses
  <2>1. CASE J!Type
    <3>1. PICK p \in Password : panel' = [panel EXCEPT !.pw = p, !.typed = TRUE]
      BY <2>1 DEF J!Type
    <3>2. ~panel.auth
      BY <2>1 DEF J!Type
    <3> QED BY <1>1, <3>1, <3>2 DEF PanelShape
  <2>2. CASE J!SignOut
    <3>1. panel' = [panel EXCEPT !.auth = FALSE, !.pw = Empty, !.typed = FALSE]
      BY <2>2 DEF J!SignOut
    <3> QED BY <1>1, <3>1 DEF PanelShape
  <2> QED BY <2>1, <2>2
<1>3. ASSUME Owed PROVE Owed'
  BY <1>1, <1>3, <1>2 DEF Owed, Honest
<1>4. PanelTypes'
  BY <1>1, <1>2 DEF PanelInv, PanelTypes
<1>5. (\A s \in J!Slot : Fits(asked[s], s))'
  BY <1>1 DEF PanelInv, Fits, J!Nothing, J!Unread
<1> QED BY <1>1, <1>2, <1>3, <1>4, <1>5 DEF PanelInv

\* A call ends, with its spinner; what it owed is shown, or has lapsed.
LEMMA EndKeeps ==
  ASSUME PanelInv, NEW s \in J!Slot, J!End(s), UNCHANGED kept, panel' \in PanelShape,
         panel'.busy = J!Quieter(s), panel'.auth = panel.auth, panel'.pw = panel.pw,
         panel'.typed = panel.typed, panel.lapses \subseteq panel'.lapses,
         asked[s].st = "served" /\ asked[s].to # Empty => panel'.lapses # {},
         panel'.lapses = {} => \A p \in Follow :
           \/ panel'.shown[p] = kept.at[p]
           \/ panel'.shown[p] = panel.shown[p] /\ ~Owes(asked[s], p)
  PROVE  PanelInv'
<1>1. asked' = [asked EXCEPT ![s] = J!NoCall]
  BY DEF J!End
<1>2. \A t \in J!Slot : asked'[t] = IF t = s THEN J!NoCall ELSE asked[t]
  BY <1>1 DEF PanelInv, PanelTypes
<1>3. \A t \in J!Spinner : t \in panel'.busy <=> IF t = s THEN J!NoCall.st # "none"
                                              ELSE t \in panel.busy
  BY NoCallFacts DEF J!Quieter
<1>4. ASSUME panel'.lapses = {}
      PROVE  Owed'
  <2>1. Owed
    BY <1>4 DEF PanelInv
  <2>2. \A t \in J!Slot : Honest(asked[t])'
    BY <1>2, <2>1, NoCallFacts DEF Owed, Honest
  <2>3. asked'["page"].st = "served" => asked'["page"] = asked["page"]
    BY <1>2, SlotFacts, NoCallFacts
  <2>4. ASSUME panel.auth, panel.pw # kept.pw
        PROVE  asked'["page"].st = "served" /\ asked'["page"].to = kept.pw
    BY <2>1, <2>4, ServerAssumption, <1>4, <1>2, SlotFacts DEF Owed, PanelInv, PanelTypes,
       ServerShape, ServerAssumption, PanelAssumption
  <2>5. ASSUME panel.auth, NEW p \in Follow, panel'.shown[p] # kept.at[p]
        PROVE  \E t \in J!Slot : Owes(asked[t], p)'
    <3>1. panel'.shown[p] = panel.shown[p] /\ ~Owes(asked[s], p)
      BY <1>4, <2>5
    <3>2. PICK t \in J!Slot : Owes(asked[t], p)
      BY <2>1, <2>5, <3>1 DEF Owed
    <3>3. asked'[t] = asked[t]
      BY <1>2, <3>1, <3>2
    <3> QED BY <3>2, <3>3 DEF Owes
  <2> QED BY <2>1, <2>2, <2>3, <2>4, <2>5 DEF Owed
<1>5. kept' \in ServerShape
  BY DEF PanelInv, PanelTypes
<1> QED BY <1>1, <1>3, <1>4, <1>5, NoCallFacts, CallMoves

LEMMA ServeKeeps ==
  ASSUME PanelInv, NEW s \in J!Slot, J!Serve(s)
  PROVE  PanelInv'
<1> DEFINE c == asked[s]
           w == c.route.writes
           h == [p \in Follow |-> IF p \in c.route.answers THEN J!Changed(w)[p] ELSE J!Unread]
           d == [c EXCEPT !.st = "served", !.held = h]
           k == [pw |-> IF c.to = Empty THEN kept.pw ELSE c.to, at |-> J!Changed(w)]
<1>1. /\ c \in CallShape /\ c.st = "sent" /\ Fits(c, s) /\ kept \in ServerShape
      /\ panel \in PanelShape /\ w \subseteq Follow
  BY DEF PanelInv, PanelTypes, J!Serve, CallShape, J!Route
<1>2. J!Changed(w) \in [Follow -> Nat \ {0}]
  BY <1>1 DEF J!Changed, ServerShape
<1>3. h \in [Follow -> Nat] /\ \A p \in Follow : h[p] \in {0, J!Changed(w)[p]}
  BY <1>2 DEF J!Unread
<1>4. k \in ServerShape /\ k.at = J!Changed(w) /\ k.pw = IF c.to = Empty THEN kept.pw ELSE c.to
  BY <1>1, <1>2 DEF ServerShape, CallShape
<1>5. /\ d \in CallShape /\ d.st = "served" /\ d.held = h /\ d.login = c.login /\ d.to = c.to
      /\ d.pw = c.pw /\ d.route = c.route /\ d.reloads = c.reloads
  <2> HIDE DEF h, c
  <2> QED BY <1>1, <1>3 DEF CallShape
<1>6. Fits(d, s)
  BY <1>1, <1>5 DEF Fits
<1>7. CASE J!Admits(c)
  <2>1. asked' = [asked EXCEPT ![s] = d] /\ kept' = k
    BY <1>7 DEF J!Serve
  <2>2. \A t \in J!Slot : asked'[t] = IF t = s THEN d ELSE asked[t]
    BY <2>1 DEF PanelInv, PanelTypes
  <2>3. /\ panel' \in PanelShape /\ panel'.auth = panel.auth /\ panel'.pw = panel.pw
        /\ panel'.typed = panel.typed /\ panel'.shown = panel.shown
        /\ panel'.busy = panel.busy /\ panel.lapses \subseteq panel'.lapses
        /\ panel'.lapses = {} => ~J!Overtakes(w)
    BY <1>7, <1>1 DEF J!Serve, PanelShape, J!Lapse
  <2> HIDE DEF d, k, h
  <2>4. ASSUME panel'.lapses = {}
        PROVE  Owed'
    <3>1. Owed
      BY <2>3, <2>4 DEF PanelInv
    <3>2. \A t \in J!Slot, p \in w : asked[t].held[p] = 0
      BY <2>3, <2>4 DEF J!Overtakes, J!Unread
    <3>3. \A p \in Follow : p \notin w => kept'.at[p] = kept.at[p]
      BY <1>4, <2>1 DEF J!Changed
    <3>4. ASSUME NEW t \in J!Slot PROVE Honest(asked[t])'
      BY <1>3, <1>4, <1>5, <2>1, <2>2, <3>1, <3>2, <3>3 DEF Honest, Owed
    <3>5. ASSUME asked'["page"].st = "served"
          PROVE  /\ asked'["page"].login => asked'["page"].pw = kept'.pw
                 /\ asked'["page"].to \in {Empty, kept'.pw}
      BY <1>1, <1>5, <2>2, <1>7, <1>4, <2>1, SlotFacts, <3>1, <3>5 DEF Fits, J!Admits, Owed
    <3>6. ASSUME panel.auth, panel.pw # kept'.pw
          PROVE  asked'["page"].st = "served" /\ asked'["page"].to = kept'.pw
      BY <1>4, <2>1, <3>1, <3>6, <1>1, <2>2, SlotFacts, <1>5 DEF Owed, Fits
    <3>7. ASSUME panel.auth, NEW p \in Follow, panel.shown[p] # kept'.at[p]
          PROVE  \E t \in J!Slot : Owes(asked[t], p)'
      <4>1. CASE p \in w
        BY <1>1, <1>5, <4>1, <1>4, <2>1, <2>2 DEF J!Changes, Fits, h, Owes
      <4>2. CASE p \notin w
        <5>1. kept'.at[p] = kept.at[p]
          BY <3>3, <4>2
        <5>2. PICK t \in J!Slot : Owes(asked[t], p)
          BY <3>1, <3>7, <5>1 DEF Owed
        <5>3. t # s
          BY <1>1, <5>2 DEF Owes
        <5>4. asked'[t] = asked[t]
          BY <2>2, <5>3
        <5> QED BY <5>1, <5>2, <5>4 DEF Owes
      <4> QED BY <4>1, <4>2
    <3>8. ~panel'.auth => panel'.typed \/ panel'.pw = Empty
      BY <2>3, <3>1 DEF Owed
    <3> QED BY <2>3, <3>4, <3>5, <3>6, <3>7, <3>8 DEF Owed
  <2>5. \A t \in J!Spinner : t \in panel'.busy <=> IF t = s THEN d.st # "none" ELSE t \in panel.busy
    BY <1>1, <1>5, <2>3 DEF PanelInv
  <2> HIDE DEF c
  <2> QED BY <1>4, <1>5, <1>6, <2>1, <2>3, <2>4, <2>5, CallMoves
<1>8. CASE ~J!Admits(c)
  <2> DEFINE e == [c EXCEPT !.st = "refused"]
  <2>1. asked' = [asked EXCEPT ![s] = e] /\ UNCHANGED <<kept, panel>>
    BY <1>8 DEF J!Serve
  <2>2. /\ e \in CallShape /\ e.st = "refused" /\ e.held = c.held /\ e.login = c.login
        /\ e.to = c.to /\ e.route = c.route /\ e.reloads = c.reloads
    BY <1>1 DEF CallShape
  <2> HIDE DEF e
  <2>3. Fits(e, s) /\ e.held = J!Nothing
    BY <1>1, <2>2 DEF Fits
  <2>4. Honest(e)
    BY <2>3, SlotFacts DEF Honest
  <2>5. \A p : ~Owes(c, p)
    BY <1>1 DEF Owes
  <2>6. ASSUME Owed PROVE ~panel'.auth => panel'.typed \/ panel'.pw = Empty
    BY <2>1, <2>6 DEF Owed
  <2>7. ASSUME Owed PROVE Owed'
    BY <1>1, <2>1, <2>2, <2>4, <2>5, <2>6, <2>7, OwedMoves
  <2>8. \A t \in J!Spinner : t \in panel'.busy <=> IF t = s THEN e.st # "none" ELSE t \in panel.busy
    BY <1>1, <2>1, <2>2 DEF PanelInv
  <2>9. panel'.lapses = {} => Owed'
    BY <2>1, <2>7 DEF PanelInv
  <2> QED BY <1>1, <2>1, <2>2, <2>3, <2>8, <2>9, CallMoves
<1> QED BY <1>7, <1>8

LEMMA RefuseKeeps ==
  ASSUME PanelInv, NEW s \in J!Slot, J!Refuse(s)
  PROVE  PanelInv'
<1> DEFINE c == asked[s]  e == [c EXCEPT !.st = "refused"]
<1>1. /\ c \in CallShape /\ c.st = "sent" /\ Fits(c, s) /\ kept \in ServerShape
      /\ panel \in PanelShape
  BY DEF PanelInv, PanelTypes, J!Refuse
<1>2. asked' = [asked EXCEPT ![s] = e] /\ UNCHANGED <<kept, panel>>
  BY DEF J!Refuse
<1>3. /\ e \in CallShape /\ e.st = "refused" /\ e.held = c.held /\ e.login = c.login
      /\ e.to = c.to /\ e.route = c.route /\ e.reloads = c.reloads
  BY <1>1 DEF CallShape
<1> HIDE DEF e
<1>4. Fits(e, s) /\ e.held = J!Nothing
  BY <1>1, <1>3 DEF Fits
<1>5. Honest(e)
  BY <1>4, SlotFacts DEF Honest
<1>6. \A p : ~Owes(c, p)
  BY <1>1 DEF Owes
<1>7. ASSUME Owed PROVE ~panel'.auth => panel'.typed \/ panel'.pw = Empty
  BY <1>2, <1>7 DEF Owed
<1>8. ASSUME Owed PROVE Owed'
  BY <1>1, <1>2, <1>3, <1>5, <1>6, <1>7, <1>8, OwedMoves
<1>9. \A t \in J!Spinner : t \in panel'.busy <=> IF t = s THEN e.st # "none" ELSE t \in panel.busy
  BY <1>1, <1>2, <1>3 DEF PanelInv
<1>10. panel'.lapses = {} => Owed'
  BY <1>2, <1>8 DEF PanelInv
<1> QED BY <1>1, <1>2, <1>3, <1>4, <1>9, <1>10, CallMoves

LEMMA ElsewhereKeeps ==
  ASSUME PanelInv, J!Elsewhere
  PROVE  PanelInv'
<1>1. panel \in PanelShape /\ kept \in ServerShape /\ asked' = asked
  BY DEF PanelInv, PanelTypes, J!Elsewhere
<1>2. panel' \in PanelShape /\ panel'.busy = panel.busy /\ panel'.lapses # {}
  BY <1>1 DEF J!Elsewhere, PanelShape, J!Lapse
<1>3. kept' \in ServerShape
  <2>1. CASE \E p \in Follow : kept' = [kept EXCEPT !.at = J!Changed({p})]
    <3>1. PICK p \in Follow : kept' = [kept EXCEPT !.at = J!Changed({p})]
      BY <2>1
    <3>2. J!Changed({p}) \in [Follow -> Nat \ {0}]
      BY <1>1 DEF J!Changed, ServerShape
    <3> QED BY <1>1, <3>1, <3>2 DEF ServerShape
  <2>2. CASE \E p \in Password \ {kept.pw} : kept' = [kept EXCEPT !.pw = p]
    BY <1>1, <2>2 DEF ServerShape
  <2> QED BY <2>1, <2>2 DEF J!Elsewhere
<1>4. PanelTypes'
  BY <1>1, <1>2, <1>3 DEF PanelInv, PanelTypes
<1>5. (\A s \in J!Slot : Fits(asked[s], s))'
  BY <1>1 DEF PanelInv, Fits, J!Nothing, J!Unread
<1> QED BY <1>1, <1>2, <1>4, <1>5 DEF PanelInv

\* The answer that is shown ends the call, or its parts are read.
LEMMA ShownKeeps ==
  ASSUME PanelInv, NEW s \in J!Slot, J!Answer(s)
  PROVE  PanelInv'
<1> DEFINE c == asked[s]
           l == panel.lapses \cup (IF c.login /\ panel.pw # c.pw THEN {"retyped"} ELSE {})
                             \cup (IF c.to # Empty /\ ~panel.auth THEN {"late"} ELSE {})
           auth == panel.auth \/ c.login
           pw == IF c.to = Empty THEN panel.pw ELSE c.to
           busy == IF c.reloads = {} THEN J!Quieter(s) ELSE panel.busy
           shown == J!Shown(c)
<1>1. /\ c \in CallShape /\ c.st = "served" /\ Fits(c, s) /\ kept \in ServerShape
      /\ panel \in PanelShape /\ UNCHANGED kept
  BY DEF PanelInv, PanelTypes, J!Answer
<1>2. /\ l \subseteq J!Lapse /\ auth \in BOOLEAN /\ pw \in Password \cup {Empty}
      /\ busy \subseteq J!Spinner /\ shown \in [Follow -> Nat]
  BY <1>1 DEF PanelShape, CallShape, J!Lapse, J!Quieter, J!Shown
<1>3. panel' = [panel EXCEPT !.shown = shown, !.auth = auth, !.pw = pw, !.busy = busy,
                             !.lapses = l]
  BY DEF J!Answer
<1>4. ASSUME l = {}
      PROVE  /\ panel.lapses = {} /\ (c.login => panel.pw = c.pw)
             /\ (c.to # Empty => panel.auth)
  BY <1>4
<1> HIDE DEF l, auth, pw, busy, shown
<1>5. /\ panel' \in PanelShape /\ panel'.auth = auth /\ panel'.pw = pw /\ panel'.busy = busy
      /\ panel'.shown = shown /\ panel'.lapses = l /\ panel'.typed = panel.typed
  BY <1>1, <1>2, <1>3 DEF PanelShape
<1> DEFINE e == IF c.reloads = {} THEN J!NoCall ELSE [c EXCEPT !.st = "reads", !.held = J!Nothing]
<1>6. asked' = [asked EXCEPT ![s] = e]
  BY DEF J!Answer, J!End
<1>7. /\ e \in CallShape /\ e.held = J!Nothing /\ e.st # "served"
      /\ c.reloads = {} => e.st = "none"
      /\ c.reloads # {} => e.st = "reads" /\ e.reloads = c.reloads
      /\ Fits(e, s)
  <2>1. CASE c.reloads = {}
    BY <2>1, NoCallFacts
  <2>2. CASE c.reloads # {}
    <3> DEFINE f == [c EXCEPT !.st = "reads", !.held = J!Nothing]
    <3>1. /\ f \in CallShape /\ f.held = J!Nothing /\ f.st = "reads" /\ f.reloads = c.reloads
          /\ f.login = c.login /\ f.to = c.to /\ f.route = c.route
      BY <1>1, SlotFacts DEF CallShape
    <3> HIDE DEF f
    <3>2. Fits(f, s)
      BY <1>1, <3>1 DEF Fits
    <3>3. e = f
      BY <2>2 DEF f
    <3> QED BY <2>2, <3>1, <3>2, <3>3
  <2> QED BY <2>1, <2>2
<1> HIDE DEF e
<1>8. \A t \in J!Slot : asked'[t] = IF t = s THEN e ELSE asked[t]
  BY <1>6 DEF PanelInv, PanelTypes
<1>9. \A t \in J!Spinner : t \in panel'.busy <=> IF t = s THEN e.st # "none" ELSE t \in panel.busy
  BY <1>1, <1>5, <1>7 DEF PanelInv, busy, J!Quieter
<1>10. ASSUME panel'.lapses = {}
       PROVE  Owed'
  <2>1. /\ Owed /\ panel.lapses = {} /\ (c.login => panel.pw = c.pw)
        /\ (c.to # Empty => panel.auth)
    BY <1>4, <1>5, <1>10 DEF PanelInv
  <2>2. \A t \in J!Slot : Honest(asked[t])'
    BY <1>1, <1>7, <1>8, <2>1, SlotFacts DEF Owed, Honest
  <2>3. asked'["page"].st = "served" => asked'["page"] = asked["page"] /\ s # "page"
    BY <1>7, <1>8, SlotFacts
  <2>4. ASSUME panel'.auth, panel'.pw # kept'.pw
        PROVE  asked'["page"].st = "served" /\ asked'["page"].to = kept'.pw
    <3>1. CASE s = "page"
      <4>1. CASE c.login
        BY <1>1, <2>1, <3>1, <4>1, <1>5, <2>4 DEF Owed, Fits, pw
      <4>2. CASE ~c.login
        <5>1. panel.auth
          BY <1>5, <2>4, <4>2 DEF auth
        <5>2. /\ panel.pw = kept.pw \/ c.to = kept.pw
              /\ c.to \in {Empty, kept.pw}
          BY <1>1, <2>1, <3>1, <5>1 DEF Owed
        <5>3. kept.pw # Empty
          BY <1>1, ServerAssumption DEF ServerShape, ServerAssumption, PanelAssumption
        <5>4. CASE c.to = Empty
          BY <1>1, <1>5, <2>4, <5>2, <5>3, <5>4 DEF pw
        <5>5. CASE c.to # Empty
          BY <1>1, <1>5, <2>4, <5>2, <5>5 DEF pw
        <5> QED BY <5>4, <5>5
      <4> QED BY <4>1, <4>2
    <3>2. CASE s # "page"
      <4>1. ~c.login /\ c.to = Empty
        BY <1>1, <3>2 DEF Fits
      <4>2. panel.auth /\ panel'.pw = panel.pw
        BY <1>5, <2>4, <4>1 DEF auth, pw
      <4>3. asked["page"].st = "served" /\ asked["page"].to = kept.pw
        BY <1>1, <2>1, <2>4, <4>2 DEF Owed
      <4> QED BY <1>1, <1>8, <3>2, <4>3, SlotFacts
    <3> QED BY <3>1, <3>2
  <2>5. ASSUME panel'.auth, NEW p \in Follow, panel'.shown[p] # kept'.at[p]
        PROVE  \E t \in J!Slot : Owes(asked[t], p)'
    <3>1. c.held[p] = 0 \/ c.held[p] = kept.at[p]
      BY <2>1 DEF Owed, Honest
    <3>2. c.held[p] = 0 /\ panel'.shown[p] = panel.shown[p]
      BY <1>1, <1>5, <2>5, <3>1 DEF shown, J!Shown, J!Unread
    <3>3. CASE p \in c.reloads
      BY <1>7, <3>3, <1>8 DEF Owes
    <3>4. CASE p \notin c.reloads
      <4>1. ~c.login
        BY <1>1, <3>4 DEF Fits
      <4>2. panel.auth
        BY <1>5, <2>5, <4>1 DEF auth
      <4>3. PICK t \in J!Slot : Owes(asked[t], p)
        BY <1>1, <2>1, <2>5, <3>2, <4>2 DEF Owed
      <4>4. kept.at[p] # 0
        BY <1>1 DEF ServerShape
      <4>5. t # s
        BY <1>1, <3>2, <3>4, <4>3, <4>4 DEF Owes
      <4>6. asked'[t] = asked[t]
        BY <1>8, <4>5
      <4> QED BY <1>1, <4>3, <4>6 DEF Owes
    <3> QED BY <3>3, <3>4
  <2>6. ~panel'.auth => panel'.typed \/ panel'.pw = Empty
    <3>1. ASSUME ~panel'.auth PROVE panel'.typed \/ panel'.pw = Empty
      <4>1. ~panel.auth
        BY <1>5, <3>1 DEF auth
      <4>2. panel'.pw = panel.pw
        BY <1>5, <2>1, <4>1 DEF pw
      <4> QED BY <1>5, <2>1, <4>1, <4>2 DEF Owed
    <3> QED BY <3>1
  <2> QED BY <1>1, <2>1, <2>2, <2>3, <2>4, <2>5, <2>6 DEF Owed
<1> QED BY <1>1, <1>5, <1>6, <1>7, <1>9, <1>10, CallMoves

LEMMA ReadPartKeeps ==
  ASSUME PanelInv, NEW s \in J!Slot, NEW p \in Follow, J!ReadPart(s, p)
  PROVE  PanelInv'
<1> DEFINE c == asked[s]
           h == [c.held EXCEPT ![p] = kept.at[p]]
           e == IF J!Admits(c) THEN [c EXCEPT !.held = h] ELSE [c EXCEPT !.st = "unread"]
<1>1. /\ c \in CallShape /\ c.st = "reads" /\ Fits(c, s) /\ kept \in ServerShape
      /\ panel \in PanelShape /\ UNCHANGED <<kept, panel>>
  BY DEF PanelInv, PanelTypes, J!ReadPart
<1>2. /\ h \in [Follow -> Nat]
      /\ \A q \in Follow : h[q] = IF q = p THEN kept.at[p] ELSE c.held[q]
  BY <1>1 DEF CallShape, ServerShape
<1>3. asked' = [asked EXCEPT ![s] = e]
  BY DEF J!ReadPart
<1> HIDE DEF h
<1>4. /\ e \in CallShape /\ e.login = c.login /\ e.to = c.to /\ e.route = c.route
      /\ e.reloads = c.reloads
      /\ \/ e.st = "reads" /\ e.held = h
         \/ e.st = "unread" /\ e.held = c.held
  BY <1>1, <1>2 DEF CallShape
<1> HIDE DEF e
<1>5. Fits(e, s)
  BY <1>1, <1>4 DEF Fits
<1>6. \A t \in J!Spinner : t \in panel'.busy <=> IF t = s THEN e.st # "none" ELSE t \in panel.busy
  BY <1>1, <1>4 DEF PanelInv
<1>7. ASSUME Owed PROVE Owed'
  BY <1>1, <1>2, <1>4, <1>7, <1>3, OwedMoves DEF Owed, Honest, Owes
<1>8. panel'.lapses = {} => Owed'
  BY <1>1, <1>7 DEF PanelInv
<1> QED BY <1>1, <1>3, <1>4, <1>5, <1>6, <1>8, CallMoves

LEMMA LoadedKeeps ==
  ASSUME PanelInv, NEW s \in J!Slot, J!Loaded(s)
  PROVE  PanelInv'
<1> DEFINE c == asked[s]
           shown == J!Shown(c)
           busy == J!Quieter(s)
<1>1. /\ c \in CallShape /\ c.st = "reads" /\ kept \in ServerShape
      /\ panel \in PanelShape /\ UNCHANGED kept /\ J!End(s)
  BY DEF PanelInv, PanelTypes, J!Loaded
<1>2. shown \in [Follow -> Nat] /\ busy \subseteq J!Spinner
  BY <1>1 DEF PanelShape, CallShape, J!Shown, J!Quieter
<1>3. panel' = [panel EXCEPT !.shown = shown, !.busy = busy]
  BY DEF J!Loaded
<1> HIDE DEF shown, busy
<1>4. /\ panel' \in PanelShape /\ panel'.auth = panel.auth /\ panel'.pw = panel.pw
      /\ panel'.typed = panel.typed /\ panel'.lapses = panel.lapses
      /\ panel'.shown = shown /\ panel'.busy = busy
  BY <1>1, <1>2, <1>3 DEF PanelShape
<1>5. ASSUME panel'.lapses = {}, NEW p \in Follow
      PROVE  \/ panel'.shown[p] = kept.at[p]
             \/ panel'.shown[p] = panel.shown[p] /\ ~Owes(c, p)
  BY <1>4, <1>5, <1>1 DEF PanelInv, Owed, Honest, J!Loaded, J!Unread, shown, J!Shown, Owes
<1> QED BY <1>1, <1>4, <1>5, EndKeeps DEF busy

\* A call that ends in the handler's catch.
LEMMA CatchKeeps ==
  ASSUME PanelInv, NEW s \in J!Slot, NEW lapses \in SUBSET J!Lapse, J!Catch(s, lapses),
         UNCHANGED kept, asked[s].st = "served" /\ asked[s].to # Empty => lapses # {},
         lapses = {} => \A p : ~Owes(asked[s], p)
  PROVE  PanelInv'
<1> DEFINE l == panel.lapses \cup lapses  busy == J!Quieter(s)
<1>1. panel' = [panel EXCEPT !.busy = busy, !.lapses = l] /\ J!End(s)
  BY DEF J!Catch
<1>2. /\ panel \in PanelShape /\ l \subseteq J!Lapse /\ busy \subseteq J!Spinner
      /\ panel.lapses \subseteq l /\ (l = {} => lapses = {})
  BY DEF PanelInv, PanelTypes, PanelShape, J!Quieter
<1> HIDE DEF l, busy
<1>3. /\ panel' \in PanelShape /\ panel'.auth = panel.auth /\ panel'.pw = panel.pw
      /\ panel'.typed = panel.typed /\ panel'.lapses = l
      /\ panel'.shown = panel.shown /\ panel'.busy = busy
  BY <1>1, <1>2 DEF PanelShape
<1> QED BY <1>1, <1>2, <1>3, EndKeeps DEF busy

LEMMA RefusedKeeps ==
  ASSUME PanelInv, NEW s \in J!Slot, J!Refused(s) \/ J!Lost(s)
  PROVE  PanelInv'
<1> DEFINE c == asked[s]
<1>1. {"unloaded"} \in SUBSET J!Lapse /\ {} \in SUBSET J!Lapse
  BY DEF J!Lapse
<1>2. CASE J!Refused(s)
  <2>1. PICK lapses \in SUBSET J!Lapse :
          /\ J!Catch(s, lapses) /\ UNCHANGED kept /\ c.st \in {"refused", "unread"}
          /\ lapses = IF c.st = "unread" THEN {"unloaded"} ELSE {}
    BY <1>1, <1>2 DEF J!Refused
  <2>2. lapses = {} => \A p : ~Owes(c, p)
    BY <2>1 DEF Owes
  <2> QED BY <2>1, <2>2, CatchKeeps
<1>3. CASE J!Lost(s)
  <2>1. PICK lapses \in SUBSET J!Lapse :
          /\ J!Catch(s, lapses) /\ UNCHANGED kept /\ c.st \in {"sent", "served", "reads"}
          /\ lapses = IF c.st = "reads" \/ (c.st = "served" /\ J!Changes(c))
                      THEN {"unloaded"} ELSE {}
    BY <1>1, <1>3 DEF J!Lost
  <2>2. lapses = {} => \A p : ~Owes(c, p)
    BY <2>1 DEF Owes
  <2>3. c.st = "served" /\ c.to # Empty => lapses # {}
    BY <2>1 DEF J!Changes
  <2> QED BY <2>1, <2>2, <2>3, CatchKeeps
<1> QED BY <1>2, <1>3

LEMMA PanelInvariant == ServerAssumption => (J!Spec => []PanelInv)
<1> SUFFICES ASSUME ServerAssumption PROVE J!Spec => []PanelInv
  OBVIOUS
<1>1. J!Init => PanelInv
  <2> SUFFICES ASSUME J!Init PROVE PanelInv
    OBVIOUS
  <2> DEFINE k == CHOOSE p \in Password : TRUE
  <2>1. k \in Password
    BY ServerAssumption DEF ServerAssumption, PanelAssumption
  <2> HIDE DEF k
  <2>2. /\ panel = [auth |-> FALSE, pw |-> Empty, typed |-> FALSE, busy |-> {},
                    shown |-> J!Nothing, lapses |-> {}]
        /\ asked = [s \in J!Slot |-> J!NoCall]
        /\ kept = [pw |-> k, at |-> [p \in Follow |-> 1]]
    BY DEF J!Init, k
  <2>3. /\ panel \in PanelShape /\ panel.busy = {} /\ panel.auth = FALSE /\ panel.pw = Empty
    BY <2>2, SlotFacts DEF PanelShape
  <2>4. kept \in ServerShape
    BY <2>1, <2>2 DEF ServerShape
  <2>5. /\ asked \in [J!Slot -> CallShape]
        /\ \A s \in J!Slot : asked[s] = J!NoCall
    BY <2>2, NoCallFacts
  <2>6. Owed
    BY <2>3, <2>5, SlotFacts, NoCallFacts DEF Owed
  <2> QED BY <2>3, <2>4, <2>5, <2>6, SlotFacts, NoCallFacts DEF PanelInv, PanelTypes
<1>2. PanelInv /\ [J!Next]_J!vars => PanelInv'
  <2> SUFFICES ASSUME PanelInv, [J!Next]_J!vars PROVE PanelInv'
    OBVIOUS
  <2>1. CASE UNCHANGED J!vars
    BY <2>1 DEF J!vars, PanelInv, PanelTypes, Fits, J!Nothing, J!Unread, Owed, Honest, Owes
  <2>2. CASE J!Type \/ J!SignOut \/ J!RefreshUpdateStatus \/ J!RefreshRuntimeHealth \/ J!Elsewhere
    BY <2>2, PageKeeps, RefreshKeeps, ElsewhereKeeps
  <2>3. CASE J!Clicks
    BY LoginKeeps, SaveSettingsKeeps, <2>3, ClicksKeep DEF J!Clicks
  <2>4. ASSUME NEW s \in J!Slot,
               J!Serve(s) \/ J!Refuse(s) \/ J!Answer(s) \/ J!Loaded(s) \/ J!Refused(s) \/ J!Lost(s)
        PROVE  PanelInv'
    BY <2>4, ServeKeeps, RefuseKeeps, ShownKeeps, LoadedKeeps, RefusedKeeps
  <2>5. ASSUME NEW s \in J!Slot, NEW p \in Follow, J!ReadPart(s, p)
        PROVE  PanelInv'
    BY <2>5, ReadPartKeeps
  <2> QED BY <2>1, <2>2, <2>3, <2>4, <2>5 DEF J!Next
<1> QED BY <1>1, <1>2, PTL DEF J!Spec

\* No repair acts on a verdict that no moment of its look bears out, whatever fails and
\* recovers meanwhile; and once no call of the administrator's page is under way, the page
\* shows the server as it is and holds its password, unless one of the lapses happened: a
\* change that overtook an older answer, one made elsewhere, a read refused or lost, a
\* password typed over or answered late (RuntimeRepair and AdminPanel).
THEOREM AdministrationHoldsTheorem == R!Spec /\ J!Spec => []AdministrationHolds
<1>1. RepairInv => R!VerdictsAreTrue
  BY DEF RepairInv
<1>2. PanelInv => J!PanelSettles
  <2> SUFFICES ASSUME PanelInv, J!Quiet, panel.lapses = {}
               PROVE  IF panel.auth THEN panel.pw = kept.pw /\ panel.shown = kept.at
                      ELSE panel.typed \/ panel.pw = Empty
    BY DEF PanelInv, J!PanelSettles
  <2>1. /\ Owed /\ asked["page"].st = "none"
        /\ panel.shown \in [Follow -> Nat] /\ kept.at \in [Follow -> Nat \ {0}]
    BY SlotFacts DEF PanelInv, PanelTypes, PanelShape, ServerShape, J!Quiet
  <2>2. ASSUME panel.auth, NEW p \in Follow
        PROVE  panel.shown[p] = kept.at[p]
    BY <2>1, <2>2 DEF Owed, Owes, J!Quiet
  <2>3. CASE panel.auth
    BY <2>1, <2>3, <2>2 DEF Owed
  <2>4. CASE ~panel.auth
    BY <2>1, <2>4 DEF Owed
  <2> QED BY <2>3, <2>4
<1>3. R!Spec => []RepairInv
  BY RepairInvariant
<1>4. J!Spec => []PanelInv
  BY ServerAssumption, PanelInvariant
<1> QED BY <1>1, <1>2, <1>3, <1>4, PTL DEF AdministrationHolds

-----------------------------------------------------------------------------
(* PublicIp: what a check knows.                                           *)

CheckShape == [at: {"idle", "detect", "env", "write", "restart"},
               file: I!FileRec, ip: Ip \cup {NoIp}, todo: SUBSET I!Managed,
               tried: BOOLEAN, failed: BOOLEAN]

\* A program with an old address has a failed restart on record, and the address that
\* failed is not the one applied before, so that the next check looks the record up.
OnRecord ==
  /\ (\E s \in I!Managed : running[s] # env) => file.error = "restart"
  /\ file.error = "restart" => file.applied # env

\* What a check that found c, and is about to restart programs, still has to do.
Restarting(c) ==
  /\ env = c.ip
  /\ c.failed => c.tried
  /\ \A s \in I!Managed : running[s] # env => s \in c.todo \/ c.failed

\* One check at a time works on the record it read; until it writes, what is owed is on
\* record, and from then on it is the check that owes it.
AddressInv ==
  /\ address \in Ip /\ env \in Ip /\ running \in [I!Managed -> Ip] /\ masked \in BOOLEAN
  /\ file \in I!FileRec /\ checks \in [Checker -> CheckShape]
  /\ ~masked =>
       /\ \A v, w \in Checker : ~I!Is(v, "idle") /\ ~I!Is(w, "idle") => v = w
       /\ \A w \in Checker :
            /\ I!Is(w, "idle") => checks[w] = I!Resting
            /\ ~I!Is(w, "restart") => ~checks[w].failed /\ ~checks[w].tried
            /\ I!Is(w, "detect") \/ I!Is(w, "env") => checks[w].file = file
            /\ I!Is(w, "write") => checks[w].todo = I!Managed
            /\ I!Is(w, "env") \/ I!Is(w, "write") \/ I!Is(w, "restart") => checks[w].ip \in Ip
            /\ I!Is(w, "restart") => Restarting(checks[w])
       /\ (\A w \in Checker : ~I!Is(w, "write") /\ ~I!Is(w, "restart")) => OnRecord

LEMMA RestingFacts ==
  /\ I!Resting \in CheckShape /\ I!Resting.at = "idle" /\ ~I!Resting.failed /\ ~I!Resting.tried
  /\ I!NoFile \in I!FileRec /\ I!NoFile.error = "none"
BY DEF I!Resting, CheckShape, I!NoFile, I!FileRec

LEMMA AddressStarts == I!Init => AddressInv
<1> SUFFICES ASSUME I!Init PROVE AddressInv
  OBVIOUS
<1>1. /\ \A w \in Checker : checks[w] = I!Resting
      /\ checks \in [Checker -> CheckShape] /\ file = I!NoFile
      /\ address \in Ip /\ env = address /\ masked = FALSE
      /\ running \in [I!Managed -> Ip] /\ \A s \in I!Managed : running[s] = env
  BY RestingFacts DEF I!Init
<1> QED BY <1>1, RestingFacts DEF AddressInv, I!Is, OnRecord

LEMMA BeginCheckAddress ==
  ASSUME AddressInv, NEW w \in Checker, I!BeginCheck(w), ~masked
  PROVE  AddressInv'
<1> DEFINE c == checks[w]
           d == checks'[w]
<1>1. /\ checks \in [Checker -> CheckShape] /\ c = I!Resting /\ file \in I!FileRec
  BY ~masked DEF AddressInv, I!BeginCheck, I!Is
<1>2. /\ UNCHANGED <<address, env, running, file>> /\ masked' \in BOOLEAN
      /\ ~masked' => \A v \in Checker : I!Is(v, "idle")
  BY DEF I!BeginCheck
<1>3. /\ checks' \in [Checker -> CheckShape] /\ \A v \in Checker \ {w} : checks'[v] = checks[v]
      /\ d.at = "detect" /\ ~d.failed /\ ~d.tried /\ d.file = file
  BY <1>1, RestingFacts DEF I!BeginCheck, CheckShape
<1>4. ~masked' => OnRecord'
  BY <1>2, ~masked DEF AddressInv, I!Is, OnRecord
<1>5. ~masked => \A v \in Checker : I!Is(v, "idle") => checks[v] = I!Resting
  BY DEF AddressInv
<1> QED BY <1>1, <1>2, <1>3, <1>4, <1>5, RestingFacts, ~masked DEF AddressInv, I!Is

LEMMA DetectedAddress ==
  ASSUME AddressInv, NEW w \in Checker, I!Detected(w), ~masked
  PROVE  AddressInv'
<1> DEFINE c == checks[w]
           d == checks'[w]
<1>1. /\ checks \in [Checker -> CheckShape] /\ c.at = "detect" /\ c \in CheckShape
      /\ ~c.failed /\ ~c.tried /\ c.file = file /\ address \in Ip
  BY ~masked DEF AddressInv, I!Detected, I!Is
<1>2. UNCHANGED <<address, env, running, file, masked>>
  BY DEF I!Detected
<1>3. /\ checks' \in [Checker -> CheckShape] /\ \A v \in Checker \ {w} : checks'[v] = checks[v]
      /\ d.at = "env" /\ ~d.failed /\ ~d.tried /\ d.file = file /\ d.ip \in Ip
  BY <1>1 DEF I!Detected, CheckShape
<1>4. /\ \A v \in Checker : v # w => I!Is(v, "idle")
      /\ \A v \in Checker : I!Is(v, "idle") => checks[v] = I!Resting
  BY <1>1, ~masked DEF AddressInv, I!Is
<1>5. OnRecord
  BY <1>1, <1>4, ~masked DEF AddressInv, I!Is
<1>6. OnRecord'
  BY <1>2, <1>5 DEF OnRecord
<1> QED BY <1>1, <1>2, <1>3, <1>4, <1>6, RestingFacts, ~masked DEF AddressInv, I!Is

LEMMA DetectionFailsAddress ==
  ASSUME AddressInv, NEW w \in Checker, I!DetectionFails(w), ~masked
  PROVE  AddressInv'
<1>1. /\ checks[w] \in CheckShape /\ checks[w].file \in I!FileRec /\ checks[w].at = "detect"
      /\ file \in I!FileRec /\ checks \in [Checker -> CheckShape] /\ masked \in BOOLEAN
  BY DEF AddressInv, CheckShape, I!DetectionFails, I!Is
<1>2. I!Resting \in CheckShape /\ I!Resting.at = "idle" /\ ~I!Resting.failed /\ ~I!Resting.tried
  BY RestingFacts
<1>3. checks' = [checks EXCEPT ![w] = I!Resting] /\ checks' \in [Checker -> CheckShape]
  BY <1>1, <1>2 DEF I!DetectionFails
<1>4. file' \in I!FileRec /\ masked' \in BOOLEAN
  BY <1>1 DEF I!DetectionFails, I!FileRec
<1>5. file'.error = "detection" /\ (masked' <=> file.error = "restart")
  BY <1>1, ~masked DEF I!DetectionFails, I!FileRec
<1>6. UNCHANGED <<address, env, running>>
  BY DEF I!DetectionFails
<1>7. \A v \in Checker : v # w => I!Is(v, "idle")
  BY <1>1, ~masked DEF AddressInv, I!Is
<1>8. OnRecord
  BY <1>1, <1>7, ~masked DEF AddressInv, I!Is
<1>9. ASSUME ~masked' PROVE OnRecord'
  BY <1>5, <1>6, <1>8, <1>9 DEF OnRecord
<1> QED BY <1>1, <1>2, <1>3, <1>4, <1>6, <1>7, <1>9, ~masked DEF AddressInv, I!Is

LEMMA ReadEnvAddress ==
  ASSUME AddressInv, NEW w \in Checker, I!ReadEnv(w), ~masked
  PROVE  AddressInv'
<1> DEFINE c == checks[w]
           d == checks'[w]
<1>1. /\ checks \in [Checker -> CheckShape] /\ c \in CheckShape /\ c.at = "env" /\ c.file = file
      /\ c.ip \in Ip /\ ~c.failed /\ ~c.tried
  BY ~masked DEF AddressInv, I!ReadEnv, I!Is
<1>2. UNCHANGED <<address, env, running, file, masked>>
  BY DEF I!ReadEnv
<1>3. /\ checks' \in [Checker -> CheckShape] /\ \A v \in Checker \ {w} : checks'[v] = checks[v]
      /\ d.at = IF env # c.ip THEN "write" ELSE "restart"
      /\ d.todo = IF env # c.ip \/ I!Pending(w) THEN I!Managed ELSE {}
      /\ d.ip = c.ip /\ d.failed = c.failed /\ d.tried = c.tried /\ d.file = c.file
  BY <1>1 DEF I!ReadEnv, CheckShape
<1>4. \A v \in Checker : v # w => I!Is(v, "idle")
  BY <1>1, ~masked DEF AddressInv, I!Is
<1>5. OnRecord
  BY <1>1, <1>4, ~masked DEF AddressInv, I!Is
<1>6. ASSUME env = c.ip PROVE Restarting(d)
  BY <1>1, <1>3, <1>6, <1>5 DEF Restarting, OnRecord, I!Pending
<1>7. ASSUME env = c.ip PROVE Restarting(checks[w])'
  BY <1>2, <1>6, <1>7 DEF Restarting
<1>8. ~masked => \A v \in Checker : I!Is(v, "idle") => checks[v] = I!Resting
  BY DEF AddressInv
<1> QED BY <1>1, <1>2, <1>3, <1>4, <1>7, <1>8, ~masked DEF AddressInv, I!Is

LEMMA WriteEnvAddress ==
  ASSUME AddressInv, NEW w \in Checker, I!WriteEnv(w), ~masked
  PROVE  AddressInv'
<1> DEFINE c == checks[w]
           d == checks'[w]
<1>1. /\ checks \in [Checker -> CheckShape] /\ c \in CheckShape /\ c.at = "write"
      /\ c.ip \in Ip /\ ~c.failed /\ ~c.tried /\ c.todo = I!Managed
  BY ~masked DEF AddressInv, I!WriteEnv, I!Is
<1>2. UNCHANGED <<address, running, file, masked>> /\ env' = c.ip
  BY DEF I!WriteEnv
<1>3. /\ checks' \in [Checker -> CheckShape] /\ \A v \in Checker \ {w} : checks'[v] = checks[v]
      /\ d.at = "restart" /\ d.todo = c.todo
      /\ d.ip = c.ip /\ d.failed = c.failed /\ d.tried = c.tried /\ d.file = c.file
  BY <1>1 DEF I!WriteEnv, CheckShape
<1>4. \A v \in Checker : v # w => I!Is(v, "idle")
  BY <1>1, ~masked DEF AddressInv, I!Is
<1>5. Restarting(checks[w])'
  BY <1>1, <1>2, <1>3 DEF Restarting
<1>6. ~masked => \A v \in Checker : I!Is(v, "idle") => checks[v] = I!Resting
  BY DEF AddressInv
<1> QED BY <1>1, <1>2, <1>3, <1>4, <1>5, <1>6, ~masked DEF AddressInv, I!Is

LEMMA RestartServiceAddress ==
  ASSUME AddressInv, NEW w \in Checker, I!RestartService(w), ~masked
  PROVE  AddressInv'
BY DEF AddressInv, I!RestartService, I!Is, CheckShape, OnRecord, Restarting, I!NoFault

LEMMA EndCheckAddress ==
  ASSUME AddressInv, NEW w \in Checker, I!EndCheck(w), ~masked
  PROVE  AddressInv'
<1> DEFINE c == checks[w]
<1>1. /\ checks \in [Checker -> CheckShape] /\ c \in CheckShape /\ c.at = "restart" /\ c.todo = {}
      /\ c.ip \in Ip /\ c.file \in I!FileRec /\ masked \in BOOLEAN /\ Restarting(c)
  BY ~masked DEF AddressInv, I!EndCheck, I!Is, CheckShape
<1>2. I!Resting \in CheckShape /\ I!Resting.at = "idle" /\ ~I!Resting.failed /\ ~I!Resting.tried
  BY RestingFacts
<1>3. checks' = [checks EXCEPT ![w] = I!Resting] /\ checks' \in [Checker -> CheckShape]
  BY <1>1, <1>2 DEF I!EndCheck
<1>4. file' \in I!FileRec /\ masked' \in BOOLEAN /\ UNCHANGED <<address, env, running>>
  BY <1>1 DEF I!EndCheck, I!FileRec, CheckShape
<1>5. \A v \in Checker : v # w => I!Is(v, "idle")
  BY <1>1, ~masked DEF AddressInv, I!Is
<1>6. ASSUME ~masked' PROVE OnRecord'
  <2>1. /\ file'.applied = (IF c.tried /\ ~c.failed THEN c.ip ELSE c.file.applied)
        /\ file'.error = (IF c.failed THEN "restart" ELSE "none")
        /\ c.failed => c.file.applied # c.ip
    BY <1>6 DEF I!EndCheck
  <2>2. \A s \in I!Managed : running[s] # env => c.failed
    BY <1>1 DEF Restarting
  <2> QED BY <1>1, <1>4, <2>1, <2>2 DEF OnRecord, Restarting
<1> QED BY <1>1, <1>2, <1>3, <1>4, <1>5, <1>6, ~masked DEF AddressInv, I!Is

LEMMA AddressStep == AddressInv /\ [I!Next]_(I!publicIpVars) => AddressInv'
<1> SUFFICES ASSUME AddressInv, [I!Next]_(I!publicIpVars) PROVE AddressInv'
  OBVIOUS
<1>1. CASE UNCHANGED I!publicIpVars
  BY <1>1 DEF I!publicIpVars, AddressInv, I!Is, OnRecord, Restarting
<1>2. CASE I!AddressChanges /\ ~masked
  BY <1>2 DEF I!AddressChanges, AddressInv, I!Is, OnRecord, Restarting
<1>3. ASSUME NEW w \in Checker, ~masked,
             \/ I!BeginCheck(w) \/ I!Detected(w) \/ I!DetectionFails(w) \/ I!ReadEnv(w)
             \/ I!WriteEnv(w) \/ I!RestartService(w) \/ I!EndCheck(w)
      PROVE  AddressInv'
  BY <1>3, BeginCheckAddress, DetectedAddress, DetectionFailsAddress, ReadEnvAddress,
     WriteEnvAddress, RestartServiceAddress, EndCheckAddress
<1> QED BY <1>1, <1>2, <1>3 DEF I!Next

LEMMA FailedRestartOwed == I!Spec => []I!FailedRestartIsOwed
<1>1. AddressInv => I!FailedRestartIsOwed
  BY DEF AddressInv, I!FailedRestartIsOwed, I!Is, OnRecord
<1> QED BY <1>1, AddressStarts, AddressStep, PTL DEF I!Spec

-----------------------------------------------------------------------------
(* Deployment: what is pending.                                            *)

DeployShape == [file: N!Settings, marker: SUBSET N!Marker, box: N!BoxRec,
                job: SUBSET N!JobRec, request: [Request -> N!RequestRec], lapsed: BOOLEAN]

\* Saves that have written the settings and not yet their marker.
TornIn(d) == {r \in Request : d.request[r].st \in {"written", "merging"}}

\* A change of k waits: it is in the marker, or in a save that is about to write it.
Waits(d, k) == \/ \E m \in d.marker : k \in m.keys
               \/ \E r \in TornIn(d) : k \in d.request[r].keys

\* What box b does not have of the settings waits, and the range whose ports it publishes
\* is the one the marker has, or will have, as the previous one.
Pend(d, b) ==
  /\ b.env # d.file => d.marker # {} \/ TornIn(d) # {}
  /\ b.web # d.file.web => Waits(d, "web")
  /\ b.media # N!Published(d.file) => Waits(d, "range") \/ Waits(d, "on")
  /\ \A m \in d.marker : b.media \subseteq {m.previous.range}
  /\ d.marker = {} => \A r \in Request :
       d.request[r].st \in {"env", "written", "merging"} => b.media \subseteq {d.request[r].file.range}

Matches(b, f) == b.env = f /\ b.web = f.web /\ b.media = N!Published(f)

\* A job that no save crossed makes, or has made, a box that has the settings as they are;
\* until it is done the box to roll back to is as the marker says.
JobHolds(d, j) ==
  /\ j.st = "queued" =>
       /\ Pend(d, d.box)
       /\ ~j.crossed /\ TornIn(d) = {} => Matches(N!Created(j, d.box, d.file), d.file)
       /\ j.crossed /\ d.marker = {} => TornIn(d) # {}
  /\ j.st = "replaced" =>
       /\ Pend(d, j.old)
       /\ j.crossed /\ d.marker = {} => Pend(d, d.box)
       /\ ~j.crossed => /\ Matches(d.box, d.file) /\ TornIn(d) = {}
                        /\ \A r \in Request : d.request[r].st = "env" => d.request[r].file = d.file

DeployInv(d) ==
  /\ d \in DeployShape
  /\ \A m, n \in d.marker : m = n
  /\ \A i, j \in d.job : i = j
  /\ ~d.lapsed =>
       /\ N!Valid(d.file)
       /\ d.job = {} => Pend(d, d.box)
       /\ \A j \in d.job : JobHolds(d, j)

LEMMA IdleFacts ==
  ASSUME DeploymentAssumption
  PROVE  N!Start \in N!Settings /\ N!Idle \in N!RequestRec /\ N!Idle.st = "idle"
BY DEF DeploymentAssumption, N!Start, N!Settings, N!Idle, N!RequestRec

\* A step that writes neither file and neither begins nor ends a save.
Quietly(d, e) ==
  /\ e.file = d.file /\ e.marker = d.marker /\ TornIn(e) = TornIn(d)
  /\ \A r \in TornIn(d) : /\ e.request[r].keys = d.request[r].keys
                          /\ e.request[r].file = d.request[r].file
  /\ \A r \in Request : e.request[r].st = "env" =>
       d.request[r].st = "env" /\ e.request[r].file = d.request[r].file

LEMMA QuietlyPend ==
  ASSUME NEW d \in DeployShape, NEW e \in DeployShape, Quietly(d, e), NEW b, Pend(d, b)
  PROVE  Pend(e, b)
BY DEF Quietly, Waits, TornIn, Pend

\* The container stops while no save is between its two files.
LEMMA StoppedPend ==
  ASSUME NEW d \in DeployShape, NEW e \in DeployShape, TornIn(d) = {},
         e.file = d.file, e.marker = d.marker, \A r \in Request : e.request[r].st = "idle",
         NEW b, NEW c, Pend(d, b), c.web = b.web, c.media = b.media, c.env \in {b.env, d.file}
  PROVE  Pend(e, c)
BY DEF TornIn, Waits, Pend

LEMMA MatchesPend ==
  ASSUME NEW d \in DeployShape, NEW b, Matches(b, d.file),
         \/ \A r \in Request : d.request[r].st = "idle"
         \/ /\ TornIn(d) = {}
            /\ \A r \in Request : d.request[r].st = "env" => d.request[r].file = d.file,
         d.marker = {}
  PROVE  Pend(d, b)
BY DEF Matches, N!Published, Pend, TornIn

LEMMA WriteEnvPend ==
  ASSUME NEW d \in DeployShape, NEW e \in DeployShape, NEW r \in Request,
         d.request[r].st = "env", d.request[r].file = d.file,
         e.request = [d.request EXCEPT ![r].st = "written"], e.marker = d.marker,
         e.file = N!Updated(d.file, d.request[r]),
         NEW b, Pend(d, b)
  PROVE  Pend(e, b)
<1> DEFINE req == d.request[r]
<1>1. req \in N!RequestRec /\ d.file \in N!Settings
  BY DEF DeployShape
<1>2. /\ e.request[r].st = "written" /\ e.request[r].keys = req.keys /\ e.request[r].file = req.file
      /\ \A q \in Request \ {r} : e.request[q] = d.request[q]
  BY <1>1 DEF DeployShape, N!RequestRec
<1>3. r \in TornIn(e) /\ TornIn(d) \subseteq TornIn(e)
  BY <1>2 DEF TornIn
<1>4. \A k : (Waits(d, k) => Waits(e, k)) /\ (k \in req.keys => Waits(e, k))
  BY <1>2, <1>3 DEF Waits, TornIn
<1>5. /\ "web" \notin req.keys => e.file.web = d.file.web
      /\ "range" \notin req.keys => e.file.range = d.file.range
      /\ "on" \notin req.keys => e.file.on = d.file.on
  BY DEF N!Updated
<1>6. b.media # N!Published(e.file) => Waits(e, "range") \/ Waits(e, "on")
  BY <1>4, <1>5 DEF Pend, N!Published
<1>7. \A q \in Request : e.request[q].st \in {"env", "written", "merging"} =>
        d.request[q].st \in {"env", "written", "merging"} /\ e.request[q].file = d.request[q].file
  BY <1>2
<1> QED BY <1>3, <1>4, <1>5, <1>6, <1>7 DEF Pend

LEMMA WriteMarkerPend ==
  ASSUME NEW d \in DeployShape, NEW e \in DeployShape, NEW r \in Request,
         d.request[r].st = "merging", d.request[r].marker = d.marker,
         \A q \in Request \ {r} : e.request[q] = d.request[q], e.request[r].st = "idle",
         e.marker = {N!Merged(d.marker, d.request[r])}, e.file = d.file,
         \A m, n \in d.marker : m = n,
         NEW b, Pend(d, b)
  PROVE  Pend(e, b)
<1> DEFINE req == d.request[r]
           n == N!Merged(d.marker, req)
<1>1. n.keys = req.keys \cup UNION {m.keys : m \in d.marker}
  BY DEF N!Merged
<1>2. \A k : Waits(d, k) => Waits(e, k)
  BY <1>1 DEF Waits, TornIn
<1>3. b.media \subseteq {n.previous.range}
  BY DEF Pend, N!Merged
<1> QED BY <1>2, <1>3 DEF Pend
-----------------------------------------------------------------------------

\* A request that goes on without writing: the box, the file, the marker and the job are
\* as they were.
LEMMA SaveMoves ==
  ASSUME DeployInv(deploy), ~deploy.lapsed, deploy' \in DeployShape,
         Quietly(deploy, deploy'),
         deploy'.box = deploy.box, deploy'.job = deploy.job
  PROVE  DeployInv(deploy')
BY QuietlyPend DEF DeployInv, Quietly, JobHolds

\* Request r goes on to the record q.
Becomes(r, q) ==
  deploy'.request = [deploy.request EXCEPT ![r] = q] /\ deploy'.file = deploy.file
  /\ deploy'.marker = deploy.marker

LEMMA BecomesQuiet ==
  ASSUME NEW r \in Request, deploy \in DeployShape, NEW q, Becomes(r, q),
         \/ {q.st, deploy.request[r].st} \cap {"env", "written", "merging"} = {}
         \/ /\ q.st = "merging" /\ deploy.request[r].st = "written"
            /\ q.keys = deploy.request[r].keys /\ q.file = deploy.request[r].file
  PROVE  Quietly(deploy, deploy')
<1>1. /\ deploy'.request[r] = q
      /\ \A p \in Request \ {r} : deploy'.request[p] = deploy.request[p]
  BY DEF Becomes, DeployShape
<1>2. TornIn(deploy') = TornIn(deploy)
  BY <1>1 DEF TornIn
<1> QED BY <1>1, <1>2 DEF Becomes, Quietly, TornIn

LEMMA PatchDeploy ==
  ASSUME DeploymentAssumption, DeployInv(deploy), ~deploy.lapsed, NEW r \in Request, N!Patch(r)
  PROVE  DeployInv(deploy')
<1>1. deploy \in DeployShape
  BY DEF DeployInv
<1>2. PICK keys \in {{"web"}, {"range"}, {"on"}, {"on", "cred"}}, to \in N!Settings :
        LET q == [N!Idle EXCEPT !.st = "checked", !.keys = keys,
                    !.to = N!Updated(N!Start, [keys |-> keys, to |-> to])]
        IN  /\ \A k \in keys : q.to[k] # deploy.file[k]
            /\ N!Valid(N!Updated(deploy.file, q))
            /\ deploy' = [deploy EXCEPT !.request[r] = q]
  BY Zenon DEF N!Patch
<1> DEFINE new == N!Updated(N!Start, [keys |-> keys, to |-> to])
           q == [N!Idle EXCEPT !.st = "checked", !.keys = keys, !.to = new]
<1>3. new \in N!Settings
  BY IdleFacts DEF N!Updated, N!Settings
<1> HIDE DEF new
<1>4. q \in N!RequestRec /\ q.st = "checked"
  BY <1>3, IdleFacts DEF N!RequestRec, N!Key
<1> HIDE DEF q
<1>5. /\ deploy' \in DeployShape /\ Becomes(r, q)
      /\ deploy'.box = deploy.box /\ deploy'.job = deploy.job
  BY <1>1, <1>2, <1>4 DEF DeployShape, Becomes, q, new
<1>6. deploy.request[r].st = "idle"
  BY IdleFacts DEF N!Patch
<1> QED BY <1>1, <1>4, <1>5, <1>6, BecomesQuiet, SaveMoves

LEMMA ReadEnvDeploy ==
  ASSUME DeployInv(deploy), ~deploy.lapsed, NEW r \in Request, N!ReadEnv(r)
  PROVE  DeployInv(deploy')
<1> DEFINE d == deploy
           e == deploy'
<1>1. d \in DeployShape /\ d.request[r] \in N!RequestRec /\ d.request[r].st = "checked"
      /\ d.file \in N!Settings
  BY DEF DeployInv, DeployShape, N!ReadEnv
<1>2. /\ e \in DeployShape /\ e.file = d.file /\ e.marker = d.marker /\ e.box = d.box /\ e.job = d.job
      /\ \A q \in Request \ {r} : e.request[q] = d.request[q]
      /\ e.request[r].st = "env" /\ e.request[r].file = d.file
      /\ e.lapsed <=> N!Torn(d)
  BY <1>1 DEF DeployShape, N!ReadEnv, N!RequestRec, N!Torn
<1>3. SUFFICES ASSUME ~e.lapsed PROVE DeployInv(e)
  BY <1>2 DEF DeployInv
<1>4. TornIn(d) = {} /\ TornIn(e) = {}
  BY <1>2, <1>3 DEF N!Torn, TornIn
<1>5. ASSUME NEW b, Pend(d, b) PROVE Pend(e, b)
  BY <1>2, <1>4, <1>5 DEF Waits, Pend, N!Published
<1>6. \A j \in d.job : JobHolds(e, j)
  BY <1>2, <1>4, <1>5 DEF DeployInv, JobHolds
<1> QED BY <1>2, <1>5, <1>6 DEF DeployInv

LEMMA ReadMarkerDeploy ==
  ASSUME DeployInv(deploy), ~deploy.lapsed, NEW r \in Request, N!ReadMarker(r)
  PROVE  DeployInv(deploy')
<1> DEFINE q == [deploy.request[r] EXCEPT !.st = "merging", !.marker = deploy.marker]
<1>1. deploy \in DeployShape /\ deploy.request[r] \in N!RequestRec
      /\ deploy.request[r].st = "written" /\ deploy.marker \in SUBSET N!Marker
  BY DEF DeployInv, DeployShape, N!ReadMarker
<1>2. q \in N!RequestRec /\ q.st = "merging" /\ q.keys = deploy.request[r].keys
      /\ q.file = deploy.request[r].file
  BY <1>1 DEF N!RequestRec
<1>3. deploy' = [deploy EXCEPT !.request[r] = q]
  BY <1>1 DEF N!ReadMarker, DeployShape, N!RequestRec
<1> HIDE DEF q
<1>4. /\ deploy' \in DeployShape /\ Becomes(r, q)
      /\ deploy'.box = deploy.box /\ deploy'.job = deploy.job
  BY <1>1, <1>2, <1>3 DEF DeployShape, Becomes
<1> QED BY <1>1, <1>2, <1>4, BecomesQuiet, SaveMoves

LEMMA ApplyDeploy ==
  ASSUME DeploymentAssumption, DeployInv(deploy), ~deploy.lapsed, NEW r \in Request, N!Apply(r)
  PROVE  DeployInv(deploy')
<1> DEFINE q == [deploy.request[r] EXCEPT !.st = "reading"]
<1>1. deploy \in DeployShape /\ deploy.request[r] \in N!RequestRec /\ deploy.request[r].st = "idle"
  BY IdleFacts DEF DeployInv, DeployShape, N!Apply
<1>2. q \in N!RequestRec /\ q.st = "reading"
  BY <1>1 DEF N!RequestRec
<1>3. deploy' = [deploy EXCEPT !.request[r] = q]
  BY <1>1 DEF N!Apply, DeployShape, N!RequestRec
<1> HIDE DEF q
<1>4. /\ deploy' \in DeployShape /\ Becomes(r, q)
      /\ deploy'.box = deploy.box /\ deploy'.job = deploy.job
  BY <1>1, <1>2, <1>3 DEF DeployShape, Becomes
<1> QED BY <1>1, <1>2, <1>4, BecomesQuiet, SaveMoves

LEMMA ReadFilesDeploy ==
  ASSUME DeployInv(deploy), ~deploy.lapsed, NEW r \in Request, N!ReadFiles(r)
  PROVE  DeployInv(deploy')
<1> DEFINE q == [deploy.request[r] EXCEPT !.st = "read", !.file = deploy.file, !.marker = deploy.marker]
<1>1. deploy \in DeployShape /\ deploy.request[r] \in N!RequestRec
      /\ deploy.request[r].st = "reading" /\ deploy.marker \in SUBSET N!Marker
      /\ deploy.file \in N!Settings
  BY DEF DeployInv, DeployShape, N!ReadFiles
<1>2. q \in N!RequestRec /\ q.st = "read"
  BY <1>1 DEF N!RequestRec
<1>3. deploy' = [deploy EXCEPT !.request[r].st = "read", !.request[r].file = deploy.file,
                               !.request[r].marker = deploy.marker, !.lapsed = @ \/ N!Torn(deploy)]
  BY DEF N!ReadFiles
<1> DEFINE torn == N!Torn(deploy)
           file1 == deploy.file
           marker1 == deploy.marker
           q1 == [deploy.request EXCEPT ![r].st = "read", ![r].file = file1, ![r].marker = marker1]
<1>4. torn \in BOOLEAN
  BY DEF N!Torn
<1>5. q1 \in [Request -> N!RequestRec] /\ q1 = [deploy.request EXCEPT ![r] = q]
  <2> HIDE DEF file1, marker1
  <2>1. file1 \in N!Settings /\ marker1 \in SUBSET N!Marker
    BY <1>1 DEF file1, marker1
  <2>2. q = [deploy.request[r] EXCEPT !.st = "read", !.file = file1, !.marker = marker1]
    BY DEF file1, marker1
  <2> QED BY <1>1, <2>1, <2>2 DEF DeployShape, N!RequestRec
<1>6. deploy' = [deploy EXCEPT !.request = q1, !.lapsed = @ \/ torn]
  <2> HIDE DEF torn, file1, marker1
  <2>1. deploy' = [deploy EXCEPT !.request[r].st = "read", !.request[r].file = file1,
                                 !.request[r].marker = marker1, !.lapsed = @ \/ torn]
    BY <1>3 DEF torn, file1, marker1
  <2>2. deploy \in DeployShape
    BY <1>1
  <2> QED BY <2>1, <2>2 DEF DeployShape
<1> HIDE DEF q, q1, torn
<1>7. /\ deploy' \in DeployShape /\ Becomes(r, q)
      /\ deploy'.box = deploy.box /\ deploy'.job = deploy.job
  BY <1>1, <1>4, <1>5, <1>6 DEF DeployShape, Becomes
<1> QED BY <1>1, <1>2, <1>7, BecomesQuiet, SaveMoves
-----------------------------------------------------------------------------

\* The job after a save has written.
Crossed(jobs) == {[j EXCEPT !.crossed = TRUE] : j \in jobs}

LEMMA CrossedFacts ==
  ASSUME NEW jobs \in SUBSET N!JobRec
  PROVE  /\ Crossed(jobs) \in SUBSET N!JobRec
         /\ Crossed(jobs) = {} => jobs = {}
         /\ \A i \in Crossed(jobs) : /\ i.crossed
                                     /\ \E j \in jobs : i = [j EXCEPT !.crossed = TRUE] /\ i.st = j.st /\ i.old = j.old
BY DEF Crossed, N!JobRec

\* After a write, job j is crossed: what waits for the boxes of before waits still.
LEMMA CrossedHolds ==
  ASSUME NEW d \in DeployShape, NEW e \in DeployShape, e.box = d.box,
         \A b : Pend(d, b) => Pend(e, b), e.marker # {} \/ TornIn(e) # {},
         NEW j, JobHolds(d, j), NEW i, i.st = j.st, i.old = j.old, i.crossed,
         j.st = "replaced" /\ e.marker = {} => Pend(d, d.box)
  PROVE  JobHolds(e, i)
BY DEF JobHolds

LEMMA WriteEnvDeploy ==
  ASSUME DeployInv(deploy), ~deploy.lapsed, NEW r \in Request, N!WriteEnv(r)
  PROVE  DeployInv(deploy')
<1> DEFINE d == deploy
           e == deploy'
           req == d.request[r]
           new == N!Updated(req.file, req)
<1>1. /\ d \in DeployShape /\ req \in N!RequestRec /\ req.st = "env"
      /\ req.file \in N!Settings /\ req.to \in N!Settings /\ d.job \in SUBSET N!JobRec
  BY DEF DeployInv, DeployShape, N!WriteEnv, N!RequestRec
<1>2. new \in N!Settings
  BY <1>1 DEF N!Updated, N!Settings
<1>3. e = [d EXCEPT !.file = new, !.request[r].st = "written",
                    !.lapsed = @ \/ d.file # req.file \/ ~N!Valid(new),
                    !.job = Crossed(d.job)]
  BY DEF N!WriteEnv, Crossed
<1>4. (d.lapsed \/ d.file # req.file \/ ~N!Valid(new)) \in BOOLEAN
  OBVIOUS
<1> HIDE DEF new
<1>5. /\ e.file = new /\ e.marker = d.marker /\ e.box = d.box /\ e.job = Crossed(d.job)
      /\ e.lapsed <=> d.file # req.file \/ ~N!Valid(new)
      /\ e.lapsed \in BOOLEAN
      /\ e.request = [d.request EXCEPT ![r].st = "written"]
  BY <1>1, <1>3, <1>4 DEF DeployShape
<1>6. e \in DeployShape
  <2>1. e.request \in [Request -> N!RequestRec]
    BY <1>1, <1>5 DEF DeployShape, N!RequestRec
  <2> QED BY <1>1, <1>2, <1>3, <1>5, <2>1, CrossedFacts DEF DeployShape
<1>7. /\ \A m, n \in e.marker : m = n
      /\ \A i, j \in e.job : i = j
  BY <1>5 DEF DeployInv, Crossed
<1>8. ASSUME ~e.lapsed
      PROVE  /\ N!Valid(e.file)
             /\ e.job = {} => Pend(e, e.box)
             /\ \A j \in e.job : JobHolds(e, j)
  <2>1. d.file = req.file /\ N!Valid(new)
    BY <1>5, <1>8
  <2>2. \A b : Pend(d, b) => Pend(e, b)
    BY <1>1, <1>5, <1>6, <2>1, WriteEnvPend DEF new
  <2>3. e.job = {} => Pend(e, e.box)
    <3>1. e.job = {} => d.job = {}
      BY <1>1, <1>5, CrossedFacts
    <3>2. d.job = {} => Pend(d, d.box)
      BY DEF DeployInv
    <3> QED BY <1>5, <2>2, <3>1, <3>2
  <2>4. ASSUME NEW j \in d.job, j.st = "replaced", d.marker = {} PROVE Pend(d, d.box)
    BY <1>1, <2>4, MatchesPend DEF DeployInv, N!JobRec, JobHolds
  <2>5. \A i \in e.job : JobHolds(e, i)
    <3>1. TAKE i \in e.job
    <3>2. PICK j \in d.job : i.st = j.st /\ i.old = j.old /\ i.crossed
      BY <1>1, <1>5, CrossedFacts
    <3>3. JobHolds(d, j)
      BY DEF DeployInv
    <3>4. r \in TornIn(e)
      BY <1>1, <1>5 DEF DeployShape, N!RequestRec, TornIn
    <3> QED BY <1>1, <1>5, <1>6, <2>2, <2>4, <3>2, <3>3, <3>4, CrossedHolds
  <2> QED BY <1>5, <2>1, <2>3, <2>5
<1> QED BY <1>6, <1>7, <1>8 DEF DeployInv

LEMMA WriteMarkerDeploy ==
  ASSUME DeploymentAssumption, DeployInv(deploy), ~deploy.lapsed, NEW r \in Request,
         N!WriteMarker(r)
  PROVE  DeployInv(deploy')
<1> DEFINE d == deploy
           e == deploy'
           req == d.request[r]
           new == N!Merged(req.marker, req)
<1>1. /\ d \in DeployShape /\ req \in N!RequestRec /\ req.st = "merging"
      /\ req.marker \in SUBSET N!Marker /\ d.job \in SUBSET N!JobRec
  BY DEF DeployInv, DeployShape, N!WriteMarker, N!RequestRec
<1>2. new \in N!Marker
  BY <1>1 DEF N!Marker, N!Merged, N!RequestRec
<1>3. e = [d EXCEPT !.marker = {new}, !.request[r] = N!Idle,
                    !.lapsed = @ \/ d.marker # req.marker, !.job = Crossed(d.job)]
  BY DEF N!WriteMarker, Crossed
<1>4. (d.lapsed \/ d.marker # req.marker) \in BOOLEAN
  OBVIOUS
<1> HIDE DEF new
<1>5. /\ e.file = d.file /\ e.marker = {new} /\ e.box = d.box /\ e.job = Crossed(d.job)
      /\ e.lapsed <=> d.marker # req.marker
      /\ e.lapsed \in BOOLEAN
      /\ e.request = [d.request EXCEPT ![r] = N!Idle]
  BY <1>1, <1>3, <1>4 DEF DeployShape
<1>6. e \in DeployShape
  <2>1. e.request \in [Request -> N!RequestRec]
    BY <1>1, <1>5, IdleFacts DEF DeployShape
  <2>2. {new} \in SUBSET N!Marker /\ Crossed(d.job) \in SUBSET N!JobRec
    BY <1>1, <1>2, CrossedFacts
  <2> QED BY <1>1, <1>3, <1>5, <2>1, <2>2 DEF DeployShape
<1>7. /\ \A m, n \in e.marker : m = n
      /\ \A i, j \in e.job : i = j
  BY <1>5 DEF DeployInv, Crossed
<1>8. ASSUME ~e.lapsed
      PROVE  /\ N!Valid(e.file)
             /\ e.job = {} => Pend(e, e.box)
             /\ \A j \in e.job : JobHolds(e, j)
  <2>1. d.marker = req.marker
    BY <1>5, <1>8
  <2>2. /\ e.request[r].st = "idle" /\ \A q \in Request \ {r} : e.request[q] = d.request[q]
        /\ \A m, n \in d.marker : m = n
    BY <1>1, <1>5, IdleFacts DEF DeployShape, DeployInv
  <2>3. \A b : Pend(d, b) => Pend(e, b)
    BY <1>1, <1>5, <1>6, <2>1, <2>2, WriteMarkerPend, ZenonT(30) DEF new
  <2>4. e.job = {} => Pend(e, e.box)
    <3>1. e.job = {} => d.job = {}
      BY <1>1, <1>5, CrossedFacts
    <3>2. d.job = {} => Pend(d, d.box)
      BY DEF DeployInv
    <3> QED BY <1>5, <2>3, <3>1, <3>2
  <2>5. \A i \in e.job : JobHolds(e, i)
    <3>1. TAKE i \in e.job
    <3>2. PICK j \in d.job : i.st = j.st /\ i.old = j.old /\ i.crossed
      BY <1>1, <1>5, CrossedFacts
    <3>3. JobHolds(d, j) /\ e.marker # {}
      BY <1>5 DEF DeployInv
    <3> QED BY <1>1, <1>5, <1>6, <2>3, <3>2, <3>3, CrossedHolds
  <2> QED BY <1>5, <2>4, <2>5 DEF DeployInv
<1> QED BY <1>6, <1>7, <1>8 DEF DeployInv
-----------------------------------------------------------------------------

\* A job made from files as they are makes a box that has the settings.
LEMMA StartedMatches ==
  ASSUME NEW d \in DeployShape, NEW j, N!Valid(d.file), Pend(d, d.box), TornIn(d) = {},
         \A m, n \in d.marker : m = n,
         NEW req, req.file = d.file, req.marker = d.marker,
         j.desired = N!Desired(req, d.box), j.previous = N!PreviousSettings(req, d.box)
  PROVE  Matches(N!Created(j, d.box, d.file), d.file)
<1> DEFINE des == N!Desired(req, d.box)
           prev == N!PreviousSettings(req, d.box)
           new == N!Created(j, d.box, d.file)
<1>1. d.file \in N!Settings /\ \A m \in d.marker : m \in N!Marker /\ m.previous \in N!Settings
  BY DEF DeployShape, N!Marker
<1>2. /\ des.range = d.file.range /\ des.on = d.file.on
      /\ des.web = IF \E m \in d.marker : "web" \in m.keys THEN d.file.web ELSE d.box.web
  BY <1>1 DEF N!Desired, N!Settings
<1>3. d.box.web # d.file.web => \E m \in d.marker : "web" \in m.keys
  BY DEF Pend, Waits
<1>4. des.web = d.file.web
  BY <1>2, <1>3
<1>5. d.box.media \subseteq {prev.range} \cup {d.file.range}
  <2>1. CASE d.marker = {}
    BY <2>1 DEF Pend, Waits, N!Published
  <2>2. CASE d.marker # {}
    <3>1. PICK m \in d.marker : m = (CHOOSE n \in d.marker : TRUE)
      BY <2>2
    <3>2. prev.range = m.previous.range
      BY <1>1, <2>2, <3>1 DEF N!PreviousSettings, N!Settings
    <3> QED BY <3>2 DEF Pend
  <2> QED BY <2>1, <2>2
<1>6. new.media = ((d.box.media \ {prev.range}) \ {des.range}) \cup N!Published(des)
  BY DEF N!Created, N!WithoutManaged
<1>7. N!Published(des) = N!Published(d.file)
  BY <1>2 DEF N!Published
<1>8. new.media = N!Published(d.file)
  <2> HIDE DEF new
  <2>1. \A x : x \notin ((d.box.media \ {prev.range}) \ {des.range})
    BY <1>2, <1>5
  <2>2. ((d.box.media \ {prev.range}) \ {des.range}) = {}
    BY <2>1
  <2> QED BY <1>6, <1>7, <2>2
<1> QED BY <1>4, <1>8 DEF Matches, N!Created

LEMMA StartHelperDeploy ==
  ASSUME DeploymentAssumption, DeployInv(deploy), ~deploy.lapsed, NEW r \in Request,
         N!StartHelper(r)
  PROVE  DeployInv(deploy')
<1> DEFINE d == deploy
           e == deploy'
           req == d.request[r]
           job == [st |-> "queued", desired |-> N!Desired(req, d.box),
                   previous |-> N!PreviousSettings(req, d.box), old |-> d.box, crossed |-> FALSE]
<1>1. /\ d \in DeployShape /\ req \in N!RequestRec /\ req.st = "read"
      /\ req.marker \in SUBSET N!Marker /\ req.file \in N!Settings /\ d.box \in N!BoxRec
  BY DEF DeployInv, DeployShape, N!StartHelper, N!RequestRec
<1>2. Becomes(r, N!Idle) /\ e.box = d.box => Quietly(d, e)
  BY <1>1, IdleFacts, BecomesQuiet
<1>3. CASE d' = [d EXCEPT !.request[r] = N!Idle]
  BY <1>1, <1>3, IdleFacts, <1>2, SaveMoves DEF DeployShape, Becomes
<1>4. CASE e = [d EXCEPT !.request[r] = N!Idle, !.job = {job},
                         !.lapsed = @ \/ d.job # {} \/ d.file # req.file \/ d.marker # req.marker]
  <2>1. N!Desired(req, d.box) \in N!Settings /\ N!PreviousSettings(req, d.box) \in N!Settings
    <3>1. req.marker # {} => (CHOOSE m \in req.marker : TRUE) \in req.marker
      OBVIOUS
    <3>2. req.marker # {} => (CHOOSE m \in req.marker : TRUE).previous \in N!Settings
      BY <1>1, <3>1 DEF N!Marker
    <3> QED BY <1>1, <3>2 DEF N!Desired, N!PreviousSettings, N!Settings, N!BoxRec
  <2>2. job \in N!JobRec
    BY <1>1, <2>1 DEF N!JobRec
  <2>3. /\ job.st = "queued" /\ ~job.crossed /\ job.desired = N!Desired(req, d.box)
        /\ job.previous = N!PreviousSettings(req, d.box)
    OBVIOUS
  <2> HIDE DEF job
  <2>4. (d.lapsed \/ d.job # {} \/ d.file # req.file \/ d.marker # req.marker) \in BOOLEAN
    OBVIOUS
  <2>5. /\ e \in DeployShape /\ Becomes(r, N!Idle) /\ e.box = d.box /\ e.job = {job}
        /\ ~e.lapsed => d.job = {} /\ d.file = req.file /\ d.marker = req.marker
    BY <1>1, <1>4, <2>2, <2>4, IdleFacts DEF DeployShape, Becomes
  <2>6. /\ e.file = d.file /\ e.marker = d.marker /\ TornIn(e) = TornIn(d)
    BY <1>2, <2>5 DEF Quietly
  <2>7. ASSUME ~e.lapsed PROVE N!Valid(d.file) /\ Pend(d, d.box)
    BY <2>5, <2>7 DEF DeployInv
  <2>8. ASSUME ~e.lapsed PROVE Pend(e, e.box)
    BY <1>1, <1>2, <2>5, <2>7, <2>8, QuietlyPend
  <2>9. ASSUME ~e.lapsed, TornIn(e) = {} PROVE Matches(N!Created(job, e.box, e.file), e.file)
    <3>1. \A m, n \in d.marker : m = n
      BY DEF DeployInv
    <3> QED BY <1>1, <2>3, <2>5, <2>6, <2>7, <2>9, <3>1, StartedMatches
  <2>10. ~e.lapsed => JobHolds(e, job)
    BY <2>3, <2>8, <2>9 DEF JobHolds
  <2> QED BY <2>5, <2>6, <2>7, <2>10 DEF DeployInv
<1> QED BY <1>3, <1>4 DEF N!StartHelper
-----------------------------------------------------------------------------

LEMMA HelperDiesDeploy ==
  ASSUME DeployInv(deploy), ~deploy.lapsed, N!HelperDies
  PROVE  DeployInv(deploy')
<1> DEFINE d == deploy
           e == deploy'
<1>1. PICK j \in d.job :
        e = [d EXCEPT !.job = {}, !.lapsed = @ \/ (j.st = "replaced" /\ d.marker # {})]
  BY DEF N!HelperDies
<1>2. d \in DeployShape /\ JobHolds(d, j) /\ j \in N!JobRec
  BY DEF DeployInv, DeployShape
<1>3. (d.lapsed \/ (j.st = "replaced" /\ d.marker # {})) \in BOOLEAN
  OBVIOUS
<1>4. /\ e \in DeployShape /\ e.job = {} /\ e.box = d.box
      /\ e.file = d.file /\ e.marker = d.marker /\ e.request = d.request
      /\ ~e.lapsed => j.st = "queued" \/ d.marker = {}
  BY <1>1, <1>2, <1>3 DEF DeployShape, N!JobRec
<1>5. Quietly(d, e)
  BY <1>4 DEF Quietly, TornIn
<1>6. ASSUME ~e.lapsed PROVE Pend(d, d.box)
  BY <1>2, <1>4, <1>6, MatchesPend DEF JobHolds, N!JobRec
<1>7. ~e.lapsed => Pend(e, e.box)
  BY <1>2, <1>4, <1>5, <1>6, QuietlyPend
<1> QED BY <1>4, <1>7, SMTT(30) DEF DeployInv

\* The container has stopped: no request is under way, and none was between its files.
LEMMA StoppedFacts ==
  ASSUME DeploymentAssumption, NEW d \in DeployShape
  PROVE  LET s == N!Stopped(d) IN
         /\ s \in DeployShape /\ s.file = d.file /\ s.marker = d.marker /\ s.box = d.box
         /\ s.job = d.job /\ \A r \in Request : s.request[r].st = "idle"
         /\ ~s.lapsed => ~d.lapsed /\ TornIn(d) = {}
<1> DEFINE s == N!Stopped(d)
<1>1. s = [d EXCEPT !.request = [r \in Request |-> N!Idle], !.lapsed = @ \/ N!Torn(d)]
  BY DEF N!Stopped
<1>2. (d.lapsed \/ N!Torn(d)) \in BOOLEAN /\ [r \in Request |-> N!Idle] \in [Request -> N!RequestRec]
  BY IdleFacts
<1>3. ~N!Torn(d) => TornIn(d) = {}
  BY DEF N!Torn, TornIn
<1>4. d.lapsed \in BOOLEAN /\ N!Torn(d) \in BOOLEAN
  BY DEF DeployShape, N!Torn
<1> HIDE DEF s
<1>5. /\ s.request = [r \in Request |-> N!Idle] /\ s.lapsed = (d.lapsed \/ N!Torn(d))
      /\ s.file = d.file /\ s.marker = d.marker /\ s.box = d.box /\ s.job = d.job
      /\ s \in DeployShape
  BY <1>1, <1>2 DEF DeployShape
<1> QED BY <1>3, <1>4, <1>5, IdleFacts DEF s

LEMMA RestartDeploy ==
  ASSUME DeploymentAssumption, DeployInv(deploy), ~deploy.lapsed, N!Restart
  PROVE  DeployInv(deploy')
<1> DEFINE d == deploy
           s == N!Stopped(d)
           e == deploy'
<1>1. d \in DeployShape /\ e = [s EXCEPT !.box.env = d.file] /\ d.box \in N!BoxRec /\ d.file \in N!Settings
  BY DEF DeployInv, N!Restart, DeployShape
<1>2. /\ s \in DeployShape /\ s.file = d.file /\ s.marker = d.marker /\ s.box = d.box
      /\ s.job = d.job /\ \A r \in Request : s.request[r].st = "idle"
      /\ ~s.lapsed => ~d.lapsed /\ TornIn(d) = {}
  BY <1>1, StoppedFacts
<1> HIDE DEF s
<1>3. /\ e \in DeployShape /\ e.file = d.file /\ e.marker = d.marker /\ e.job = d.job
      /\ e.request = s.request /\ e.lapsed = s.lapsed
      /\ e.box \in N!BoxRec /\ e.box.env = d.file /\ e.box.web = d.box.web /\ e.box.media = d.box.media
  BY <1>1, <1>2 DEF DeployShape, N!BoxRec
<1>4. SUFFICES ASSUME ~e.lapsed PROVE DeployInv(e)
  BY <1>3 DEF DeployInv
<1>5. TornIn(d) = {} /\ TornIn(e) = {} /\ \A r \in Request : e.request[r].st = "idle"
  BY <1>2, <1>3, <1>4 DEF TornIn
<1>6. ASSUME Pend(d, d.box) PROVE Pend(e, e.box)
  BY <1>3, <1>5, <1>6 DEF Waits, Pend
<1>7. ASSUME NEW b, Pend(d, b) PROVE Pend(e, b)
  BY <1>1, <1>3, <1>5, <1>7, StoppedPend
<1>8. ASSUME NEW j \in d.job PROVE JobHolds(e, j)
  BY <1>3, <1>5, <1>6, <1>7 DEF DeployInv, N!Created, Matches, JobHolds
<1> QED BY <1>3, <1>6, <1>8 DEF DeployInv

LEMMA RolledBackDeploy ==
  ASSUME DeploymentAssumption, DeployInv(deploy), ~deploy.lapsed, N!RolledBack
  PROVE  DeployInv(deploy')
<1> DEFINE d == deploy
           s == N!Stopped(d)
           e == deploy'
<1>1. d \in DeployShape /\ d.box \in N!BoxRec /\ d.file \in N!Settings
  BY DEF DeployInv, DeployShape
<1>2. PICK j \in d.job :
        e = [s EXCEPT !.box = [(IF j.st = "queued" THEN d.box ELSE j.old) EXCEPT !.env = d.file],
                      !.job = {}]
  BY DEF N!RolledBack
<1> DEFINE b == IF j.st = "queued" THEN d.box ELSE j.old
           new == [b EXCEPT !.env = d.file]
<1>3. /\ s \in DeployShape /\ s.file = d.file /\ s.marker = d.marker
      /\ \A r \in Request : s.request[r].st = "idle"
      /\ ~s.lapsed => ~d.lapsed /\ TornIn(d) = {}
  BY <1>1, StoppedFacts
<1>4. j \in N!JobRec /\ b \in N!BoxRec
  BY <1>1 DEF DeployShape, N!JobRec
<1> HIDE DEF s
<1>5. JobHolds(d, j)
  BY DEF DeployInv
<1>6. Pend(d, b)
  BY <1>4, <1>5 DEF JobHolds, N!JobRec
<1> HIDE DEF b
<1>7. new \in N!BoxRec /\ new.env = d.file /\ new.web = b.web /\ new.media = b.media
  BY <1>1, <1>4 DEF N!BoxRec
<1>8. e = [s EXCEPT !.box = new, !.job = {}]
  BY <1>2 DEF b
<1> HIDE DEF new
<1>9. /\ e \in DeployShape /\ e.file = d.file /\ e.marker = d.marker /\ e.job = {} /\ e.box = new
      /\ e.request = s.request /\ e.lapsed = s.lapsed
  BY <1>3, <1>7, <1>8 DEF DeployShape
<1>10. ~e.lapsed => Pend(e, e.box)
  BY <1>1, <1>3, <1>6, <1>7, <1>9, StoppedPend
<1> QED BY <1>9, <1>10 DEF DeployInv

LEMMA ReplaceDeploy ==
  ASSUME DeploymentAssumption, DeployInv(deploy), ~deploy.lapsed, N!Replace
  PROVE  DeployInv(deploy')
<1> DEFINE d == deploy
           s == N!Stopped(d)
           e == deploy'
<1>1. d \in DeployShape /\ d.box \in N!BoxRec /\ d.file \in N!Settings
  BY DEF DeployInv, DeployShape
<1>2. PICK j \in d.job :
        /\ j.st = "queued"
        /\ e = [s EXCEPT !.box = N!Created(j, d.box, d.file),
                         !.job = {[j EXCEPT !.st = "replaced", !.old = d.box]}]
  BY DEF N!Replace
<1> DEFINE new == N!Created(j, d.box, d.file)
           i == [j EXCEPT !.st = "replaced", !.old = d.box]
<1>3. /\ s \in DeployShape /\ s.file = d.file /\ s.marker = d.marker
      /\ \A r \in Request : s.request[r].st = "idle"
      /\ ~s.lapsed => ~d.lapsed /\ TornIn(d) = {}
  BY <1>1, StoppedFacts
<1>4. j \in N!JobRec /\ JobHolds(d, j)
  BY <1>1 DEF DeployShape, DeployInv
<1>5. i \in N!JobRec /\ i.st = "replaced" /\ i.old = d.box /\ i.crossed = j.crossed
  BY <1>1, <1>4 DEF N!JobRec
<1>6. new \in N!BoxRec
  BY <1>1, <1>4 DEF N!Created, N!BoxRec, N!JobRec, N!Settings, N!Published, N!WithoutManaged
<1> HIDE DEF s, i, new
<1>7. /\ e \in DeployShape /\ e.file = d.file /\ e.marker = d.marker /\ e.job = {i} /\ e.box = new
      /\ e.request = s.request /\ e.lapsed = s.lapsed
  <2>1. e = [s EXCEPT !.box = new, !.job = {i}]
    BY <1>2 DEF i, new
  <2> QED BY <1>3, <1>5, <1>6, <2>1 DEF DeployShape
<1>8. SUFFICES ASSUME ~e.lapsed PROVE DeployInv(e)
  BY <1>5, <1>7 DEF DeployInv
<1>9. TornIn(d) = {} /\ TornIn(e) = {} /\ \A r \in Request : e.request[r].st = "idle"
  BY <1>3, <1>7, <1>8 DEF TornIn
<1>10. Pend(d, d.box) /\ (~j.crossed => Matches(new, d.file))
  BY <1>2, <1>4, <1>9 DEF JobHolds, new
<1>11. Pend(e, d.box)
  BY <1>1, <1>7, <1>9, <1>10, StoppedPend
<1>12. ~(j.crossed /\ d.marker = {})
  BY <1>2, <1>4, <1>9 DEF JobHolds
<1>13. JobHolds(e, i)
  BY <1>5, <1>7, <1>9, <1>10, <1>11, <1>12 DEF JobHolds
<1> QED BY <1>7, <1>13 DEF DeployInv
LEMMA CompleteDeploy ==
  ASSUME DeployInv(deploy), ~deploy.lapsed, N!Complete
  PROVE  DeployInv(deploy')
<1> DEFINE d == deploy
           e == deploy'
<1>1. PICK j \in d.job :
        /\ j.st = "replaced"
        /\ e = [d EXCEPT !.marker = {}, !.job = {}, !.lapsed = @ \/ j.crossed]
  BY DEF N!Complete
<1>2. d \in DeployShape /\ JobHolds(d, j) /\ j \in N!JobRec
  BY DEF DeployInv, DeployShape
<1>3. j.crossed \in BOOLEAN /\ d.lapsed \in BOOLEAN
  BY <1>2 DEF N!JobRec, DeployShape
<1>4. /\ e \in DeployShape /\ e.file = d.file /\ e.marker = {} /\ e.job = {} /\ e.box = d.box
      /\ e.request = d.request /\ (e.lapsed <=> j.crossed)
  BY <1>1, <1>2, <1>3 DEF DeployShape
<1>5. ASSUME ~e.lapsed PROVE Pend(e, e.box)
  <2>1. /\ Matches(d.box, d.file) /\ TornIn(d) = {}
        /\ \A r \in Request : d.request[r].st = "env" => d.request[r].file = d.file
    BY <1>1, <1>2, <1>4, <1>5 DEF JobHolds
  <2>2. TornIn(e) = {}
    BY <1>4, <2>1 DEF TornIn
  <2> QED BY <1>4, <2>1, <2>2, MatchesPend
<1> QED BY <1>4, <1>5 DEF DeployInv

LEMMA DeployStarts == DeploymentAssumption /\ N!Init => DeployInv(deploy)
<1> SUFFICES ASSUME DeploymentAssumption, N!Init PROVE DeployInv(deploy)
  OBVIOUS
<1> DEFINE d == deploy
<1>1. PICK on, cred \in BOOLEAN :
        LET new == [N!Start EXCEPT !.on = on, !.cred = cred]
        IN /\ N!Valid(new)
           /\ d = [file |-> new, marker |-> {}, job |-> {},
                   box |-> [web |-> new.web, media |-> N!Published(new), env |-> new],
                   request |-> [r \in Request |-> N!Idle], lapsed |-> FALSE]
  BY DEF N!Init
<1> DEFINE start == [N!Start EXCEPT !.on = on, !.cred = cred]
           box == [web |-> start.web, media |-> N!Published(start), env |-> start]
<1>2. start \in N!Settings
  BY IdleFacts DEF N!Settings
<1> HIDE DEF start
<1>3. box \in N!BoxRec
  BY <1>2 DEF N!BoxRec, N!Settings, N!Published
<1>4. Matches(box, start)
  BY DEF Matches
<1> HIDE DEF box
<1>5. d = [file |-> start, marker |-> {}, job |-> {}, box |-> box,
           request |-> [r \in Request |-> N!Idle], lapsed |-> FALSE]
  BY <1>1 DEF start, box
<1>6. d \in DeployShape
  BY <1>2, <1>3, <1>5, IdleFacts DEF DeployShape
<1>7. \A r \in Request : d.request[r].st = "idle"
  BY <1>5, IdleFacts
<1>8. Pend(d, d.box)
  BY <1>4, <1>5, <1>6, <1>7, MatchesPend
<1>9. N!Valid(d.file)
  BY <1>1, <1>5 DEF start
<1> QED BY <1>5, <1>6, <1>8, <1>9 DEF DeployInv

LEMMA DeployStep ==
  DeploymentAssumption /\ DeployInv(deploy) /\ [N!Next]_(N!deployVars) => DeployInv(deploy')
<1> SUFFICES ASSUME DeploymentAssumption, DeployInv(deploy), [N!Next]_(N!deployVars)
             PROVE  DeployInv(deploy')
  OBVIOUS
<1>1. CASE UNCHANGED N!deployVars
  BY <1>1 DEF N!deployVars
<1>2. CASE N!Next
  BY <1>2, PatchDeploy, ReadEnvDeploy, WriteEnvDeploy, ReadMarkerDeploy, WriteMarkerDeploy,
     ApplyDeploy, ReadFilesDeploy, StartHelperDeploy, HelperDiesDeploy, ReplaceDeploy,
     RolledBackDeploy, CompleteDeploy, RestartDeploy DEF N!Next
<1> QED BY <1>1, <1>2

LEMMA SettledIsPending == DeployInv(deploy) => N!ChangesArePending
<1> SUFFICES ASSUME DeployInv(deploy), N!Settled PROVE
       LET box == deploy.box
           new == deploy.file
       IN /\ N!Valid(new)
          /\ box.env # new => deploy.marker # {}
          /\ box.web # new.web => \E m \in deploy.marker : "web" \in m.keys
          /\ box.media # N!Published(new) =>
               \E m \in deploy.marker :
                 /\ m.keys \cap {"range", "on"} # {}
                 /\ box.media \subseteq {new.range, m.previous.range}
  BY DEF N!ChangesArePending
<1>1. N!Valid(deploy.file) /\ Pend(deploy, deploy.box)
  BY DEF DeployInv, N!Settled
<1>2. TornIn(deploy) = {}
  BY DEF N!Settled, TornIn, N!Idle
<1>3. \A k : Waits(deploy, k) => \E m \in deploy.marker : k \in m.keys
  BY <1>2 DEF Waits
<1> QED BY <1>1, <1>2, <1>3 DEF Pend

LEMMA ChangesPending == N!Spec => []N!ChangesArePending
<1>1. N!Init => DeployInv(deploy)
  BY DeployStarts, ServerAssumption
<1>2. DeployInv(deploy) /\ [N!Next]_(N!deployVars) => DeployInv(deploy)'
  BY DeployStep, ServerAssumption
<1> QED BY <1>1, <1>2, SettledIsPending, PTL DEF N!Spec

\* A program left with an old address has its failed restart on record until a check
\* retries it, as long as no other check and no failed detection takes the record's
\* place; a change of the deployment waits in the marker until the container has it,
\* whatever saves, applies and restarts of the machine cross (PublicIp, Deployment).
THEOREM ChangesAreOwedTheorem == I!Spec /\ N!Spec => []ChangesAreOwed
BY FailedRestartOwed, ChangesPending, PTL DEF ChangesAreOwed
=============================================================================
