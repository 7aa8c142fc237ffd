----------------------------- MODULE Maintenance -----------------------------
(***************************************************************************)
(* Repair and replacement of the all-in-one container: the admin requests  *)
(* of apps/api (routes/system.ts, lib/runtime-health.ts, docker-control.ts)*)
(* and the watchdog (docker/allinone/runtime-watchdog.mjs), which run in   *)
(* the container, and the update helper (docker/allinone/update-helper.mjs)*)
(* which runs beside it and replaces it.  They meet in three places: the   *)
(* repair lock file, the update status file, and the Docker daemon.        *)
(*                                                                         *)
(* Docker is external: names are unique, a container that is stopped takes *)
(* its processes with it, and one with its ports in use does not start.  A *)
(* call that fails has no effect.  Names are built by suffixes: <<>> is the*)
(* service's.  Settings, ports, images and messages are left out.          *)
(***************************************************************************)
EXTENDS Naturals, Sequences, FiniteSets

CONSTANTS
  Box,        \* containers; the first is the one the service starts in
  Job,        \* update helpers
  Program,    \* supervised programs other than the API
  MaxFaults   \* bound: calls that fail, unhealthy containers, dead helpers

VARIABLES
  boxes,      \* Box -> [there, name, on, by: the job that made it]
  status,     \* update-status.json
  lock,       \* runtime-repair.lock
  ill,        \* programs that are stopped or fail their probe
  actors,     \* "api" (a repair), "apply" (a request) and "watchdog": where each is
  helpers,    \* Job -> HelperRec
  faults,
  stolen,     \* a stale lock was removed after somebody had taken it anew
  overlap     \* two helpers were at work at once, or one died

maintenanceVars == <<boxes, status, lock, ill, actors, helpers, faults, stolen, overlap>>

NoJob == "no job"
Nobody == "nobody"
Service == <<>>
Actor == {"api", "apply", "watchdog"}
Restartable == Program \cup {"api"}
Resting == [at |-> "idle", todo |-> {}, job |-> NoJob]
Unused == [at |-> "unused", box |-> CHOOSE b \in Box : TRUE, name |-> Service]

TypeOK ==
  /\ \A b \in Box : /\ {boxes[b].there, boxes[b].on} \subseteq BOOLEAN
                    /\ boxes[b].by \in Job \cup {NoJob}
                    /\ Len(boxes[b].name) <= 2 * Cardinality(Job)
  /\ status \in [st: {"idle", "running", "succeeded", "failed"}, job: Job \cup {NoJob}]
  /\ lock \in [holder: Actor \cup {Nobody}, taken: BOOLEAN, stale: BOOLEAN]
  /\ ill \subseteq Restartable
  /\ \A a \in Actor : /\ actors[a].at \in {"idle", "lock", "stale", "health", "restart", "check",
                                           "helper", "release", "answer", "refused"}
                      /\ actors[a].todo \subseteq Restartable
                      /\ actors[a].job \in Job \cup {NoJob}
  /\ \A j \in Job : helpers[j].box \in Box
  /\ faults \in 0..MaxFaults /\ stolen \in BOOLEAN /\ overlap \in BOOLEAN

Free == [holder |-> Nobody, taken |-> FALSE, stale |-> FALSE]
First == CHOOSE b \in Box : TRUE

Init ==
  /\ boxes = [b \in Box |-> [there |-> b = First, on |-> b = First, name |-> Service, by |-> NoJob]]
  /\ status = [st |-> "idle", job |-> NoJob]
  /\ lock = Free
  /\ ill = {}
  /\ actors = [a \in Actor |-> Resting]
  /\ helpers = [j \in Job |-> Unused]
  /\ faults = 0 /\ stolen = FALSE /\ overlap = FALSE

-----------------------------------------------------------------------------
(* Docker.                                                                 *)

Named(name) == {b \in Box : boxes[b].there /\ boxes[b].name = name}
Exists(name) == Named(name) # {}
The(name) == CHOOSE b \in Named(name) : TRUE
On == {b \in Box : boxes[b].on}
Up == On # {}

\* Stopping the container ends what runs in it: the lock it holds remains.
StopBox(b) ==
  /\ boxes' = [boxes EXCEPT ![b].on = FALSE]
  /\ actors' = IF boxes[b].on THEN [a \in Actor |-> Resting] ELSE actors
  /\ lock' = IF boxes[b].on THEN [lock EXCEPT !.holder = Nobody] ELSE lock
Rename(b, name) == boxes' = [boxes EXCEPT ![b].name = name]
CanStart(b) == On \subseteq {b}
StartBox(b) == boxes' = [boxes EXCEPT ![b].on = TRUE]
Delete(name) == boxes' = [b \in Box |-> IF b \in Named(name) /\ ~boxes[b].on
                                        THEN [boxes[b] EXCEPT !.there = FALSE] ELSE boxes[b]]

Fault == faults < MaxFaults /\ faults' = faults + 1
NoFault == UNCHANGED faults

-----------------------------------------------------------------------------
(* The helper: main() and rollback() of update-helper.mjs.                 *)

Working == {j \in Job : helpers[j].at \notin {"unused", "ended"}}
At(j, at) == helpers[j].at = at
Goto(j, at) == helpers' = [helpers EXCEPT ![j].at = at]
WriteStatus(st, j) == status' = [st |-> st, job |-> j]
Old(j) == helpers[j].name
Previous(j) == Append(Old(j), <<"previous", j>>)
Failed(j) == Append(Old(j), <<"failed", j>>)
OutsideKept == UNCHANGED <<ill, stolen, overlap>>
Inside == <<actors, lock>>

Inspect(j) ==
  /\ At(j, "inspect")
  /\ IF boxes[helpers[j].box].there
     THEN /\ helpers' = [helpers EXCEPT ![j].at = "pull", ![j].name = boxes[helpers[j].box].name]
          /\ WriteStatus("running", j)
     ELSE Goto(j, "failed") /\ UNCHANGED status
  /\ NoFault /\ OutsideKept /\ UNCHANGED <<boxes, Inside>>

\* The image is pulled before anything is touched: no rollback when it fails.
PullTargetImage(j) ==
  /\ At(j, "pull")
  /\ WriteStatus("running", j)
  /\ \/ Goto(j, "stop") /\ NoFault
     \/ Goto(j, "failed") /\ Fault
  /\ OutsideKept /\ UNCHANGED <<boxes, Inside>>

\* The steps of the try block: each writes its phase, makes one call, and
\* goes to the rollback when that call throws.
Stop(j) ==
  /\ At(j, "stop")
  /\ WriteStatus("running", j)
  /\ IF Exists(Old(j)) THEN Goto(j, "wait") /\ StopBox(The(Old(j)))
     ELSE Goto(j, "rollback") /\ UNCHANGED <<boxes, Inside>>
  /\ NoFault /\ OutsideKept

WaitForStopped(j) ==
  /\ At(j, "wait")
  /\ Goto(j, IF Exists(Old(j)) /\ ~boxes[The(Old(j))].on THEN "rename" ELSE "rollback")
  /\ NoFault /\ OutsideKept /\ UNCHANGED <<boxes, status, Inside>>

RenameOld(j) ==
  /\ At(j, "rename")
  /\ WriteStatus("running", j)
  /\ IF Exists(Old(j)) THEN Goto(j, "create") /\ Rename(The(Old(j)), Previous(j))
     ELSE Goto(j, "rollback") /\ UNCHANGED boxes
  /\ NoFault /\ OutsideKept /\ UNCHANGED Inside

Create(j) ==
  /\ At(j, "create")
  /\ WriteStatus("running", j)
  /\ IF Exists(Old(j)) THEN Goto(j, "rollback") /\ UNCHANGED boxes
     ELSE /\ Goto(j, "start")
          /\ \E b \in Box : /\ ~boxes[b].there /\ boxes[b].by = NoJob
                            /\ boxes' = [boxes EXCEPT ![b] =
                                 [there |-> TRUE, on |-> FALSE, name |-> Old(j), by |-> j]]
  /\ NoFault /\ OutsideKept /\ UNCHANGED Inside

Start(j) ==
  /\ At(j, "start")
  /\ WriteStatus("running", j)
  /\ IF Exists(Old(j)) /\ CanStart(The(Old(j)))
     THEN Goto(j, "health") /\ StartBox(The(Old(j)))
     ELSE Goto(j, "rollback") /\ UNCHANGED boxes
  /\ NoFault /\ OutsideKept /\ UNCHANGED Inside

\* Whatever container has the name is asked for its health.
WaitForHealthy(j) ==
  /\ At(j, "health")
  /\ IF Exists(Old(j)) /\ boxes[The(Old(j))].on
     THEN \/ Goto(j, "complete") /\ NoFault
          \/ Goto(j, "rollback") /\ Fault
     ELSE Goto(j, "rollback") /\ NoFault
  /\ OutsideKept /\ UNCHANGED <<boxes, status, Inside>>

Complete(j) ==
  /\ At(j, "complete")
  /\ WriteStatus("succeeded", j)
  /\ Goto(j, "delete")
  /\ NoFault /\ OutsideKept /\ UNCHANGED <<boxes, Inside>>

DeletePrevious(j) ==
  /\ At(j, "delete")
  /\ Delete(Previous(j))
  /\ Goto(j, "ended")
  /\ NoFault /\ OutsideKept /\ UNCHANGED <<status, Inside>>

\* A call fails by itself: in the try block it leads to the rollback, which is
\* given up when a call of its own fails.
CallFails(j) ==
  /\ Fault
  /\ \/ /\ helpers[j].at \in {"stop", "wait", "rename", "create", "start", "complete"}
        /\ Goto(j, "rollback")
     \/ /\ helpers[j].at \in {"rollback", "restore", "restart"}
        /\ Goto(j, "failed")
  /\ OutsideKept /\ UNCHANGED <<boxes, status, Inside>>

Rollback(j) ==
  /\ At(j, "rollback")
  /\ WriteStatus("running", j)
  /\ IF Exists(Previous(j)) THEN Goto(j, "unstart") /\ UNCHANGED boxes
     ELSE /\ Goto(j, "failed")
          /\ IF Exists(Old(j)) /\ CanStart(The(Old(j)))
             THEN StartBox(The(Old(j))) ELSE UNCHANGED boxes
  /\ NoFault /\ OutsideKept /\ UNCHANGED Inside

StopFailed(j) ==
  /\ At(j, "unstart")
  /\ Goto(j, "unname")
  /\ IF Exists(Old(j)) THEN StopBox(The(Old(j))) ELSE UNCHANGED <<boxes, Inside>>
  /\ NoFault /\ OutsideKept /\ UNCHANGED status

RenameFailed(j) ==
  /\ At(j, "unname")
  /\ Goto(j, "restore")
  /\ IF Exists(Old(j)) THEN Rename(The(Old(j)), Failed(j)) ELSE UNCHANGED boxes
  /\ NoFault /\ OutsideKept /\ UNCHANGED <<status, Inside>>

RestorePrevious(j) ==
  /\ At(j, "restore")
  /\ IF Exists(Old(j)) \/ ~Exists(Previous(j)) THEN Goto(j, "failed") /\ UNCHANGED boxes
     ELSE Goto(j, "restart") /\ Rename(The(Previous(j)), Old(j))
  /\ NoFault /\ OutsideKept /\ UNCHANGED <<status, Inside>>

\* Mutant of StartPrevious: the container that was renamed back stays stopped.
StartPreviousForgotten(j) ==
  /\ At(j, "restart")
  /\ Goto(j, "discard")
  /\ NoFault /\ OutsideKept /\ UNCHANGED <<boxes, status, Inside>>

StartPrevious(j) ==
  /\ At(j, "restart")
  /\ IF Exists(Old(j)) /\ CanStart(The(Old(j)))
     THEN Goto(j, "discard") /\ StartBox(The(Old(j)))
     ELSE Goto(j, "failed") /\ UNCHANGED boxes
  /\ NoFault /\ OutsideKept /\ UNCHANGED <<status, Inside>>

DeleteFailed(j) ==
  /\ At(j, "discard")
  /\ Delete(Failed(j))
  /\ Goto(j, "failed")
  /\ NoFault /\ OutsideKept /\ UNCHANGED <<status, Inside>>

ReportFailure(j) ==
  /\ At(j, "failed")
  /\ WriteStatus("failed", j)
  /\ Goto(j, "ended")
  /\ NoFault /\ OutsideKept /\ UNCHANGED <<boxes, Inside>>

\* The helper has no restart policy.
HelperDies(j) ==
  /\ j \in Working
  /\ Fault
  /\ Goto(j, "ended")
  /\ overlap' = TRUE
  /\ UNCHANGED <<boxes, status, lock, ill, actors, stolen>>

-----------------------------------------------------------------------------
(* startUpdateHelper, of the API and of the watchdog.                      *)

NewJob == CHOOSE j \in Job : At(j, "unused")
CanHelp == \E j \in Job : At(j, "unused")
StartUpdateHelper ==
  /\ CanHelp
  /\ helpers' = [helpers EXCEPT ![NewJob].at = "inspect", ![NewJob].box = CHOOSE b \in On : TRUE]
  /\ overlap' = (overlap \/ Working # {})

Act(a, at) == actors' = [actors EXCEPT ![a].at = at]
Is(a, at) == actors[a].at = at

\* POST /v1/admin/updates/apply and deployment/apply: refused during a repair,
\* not during another update.
Apply ==
  /\ Up
  /\ Is("apply", "idle")
  /\ ~lock.taken
  /\ Act("apply", "helper")
  /\ UNCHANGED <<boxes, status, lock, ill, helpers, faults, stolen, overlap>>

ApplyStarts ==
  /\ Is("apply", "helper")
  /\ \/ /\ StartUpdateHelper
        /\ actors' = [actors EXCEPT !["apply"] = [at |-> "answer", todo |-> {}, job |-> NewJob]]
        /\ NoFault
     \/ Fault /\ Act("apply", "refused") /\ UNCHANGED <<helpers, overlap>>
  /\ UNCHANGED <<boxes, status, lock, ill, stolen>>

\* writeStartingUpdateStatus and writeFailedUpdateStatus: over whatever the
\* helper, or another one, has written meanwhile.
ApplyAnswers ==
  /\ \/ Is("apply", "answer") /\ WriteStatus("running", actors["apply"].job)
     \/ Is("apply", "refused") /\ WriteStatus("failed", NoJob)
  /\ actors' = [actors EXCEPT !["apply"] = Resting]
  /\ UNCHANGED <<boxes, lock, ill, helpers, faults, stolen, overlap>>

-----------------------------------------------------------------------------
(* The repair, of the API and of the watchdog (a).                         *)

\* The API looks at the status alone; the watchdog's loop also at the lock,
\* so that a lock nobody holds keeps it from repairing for ever.
Repair(a) ==
  /\ Up
  /\ Is(a, "idle")
  /\ status.st # "running"
  /\ a = "watchdog" => ~lock.taken
  /\ Act(a, "lock")
  /\ UNCHANGED <<boxes, status, lock, ill, helpers, faults, stolen, overlap>>

\* Mutant of TakeLock: an existing file is opened.
TakeLockAnyway(a) ==
  /\ Is(a, "lock") /\ ~lock.stale
  /\ Act(a, "health") /\ lock' = [holder |-> a, taken |-> TRUE, stale |-> FALSE]
  /\ UNCHANGED <<boxes, status, ill, helpers, faults, stolen, overlap>>

\* removeStaleRepairLock, from stat to rm, then open(path, 'wx').
TakeLock(a) ==
  /\ Is(a, "lock") /\ ~lock.stale
  /\ IF lock.taken THEN actors' = [actors EXCEPT ![a] = Resting] /\ UNCHANGED lock
     ELSE Act(a, "health") /\ lock' = [holder |-> a, taken |-> TRUE, stale |-> FALSE]
  /\ UNCHANGED <<boxes, status, ill, helpers, faults, stolen, overlap>>

FindStale(a) ==
  /\ Is(a, "lock") /\ lock.stale
  /\ Act(a, "stale")
  /\ UNCHANGED <<boxes, status, lock, ill, helpers, faults, stolen, overlap>>

RemoveStale(a) ==
  /\ Is(a, "stale")
  /\ lock' = Free
  /\ stolen' = (stolen \/ lock.holder # Nobody)
  /\ Act(a, "lock")
  /\ UNCHANGED <<boxes, status, ill, helpers, faults, overlap>>

\* The watchdog looks at the status once more, with the lock.
Health(a) ==
  /\ Is(a, "health")
  /\ IF ill = {} \/ (a = "watchdog" /\ status.st = "running")
     THEN Act(a, "release")
     ELSE actors' = [actors EXCEPT ![a].at = "restart", ![a].todo = ill]
  /\ UNCHANGED <<boxes, status, lock, ill, helpers, faults, stolen, overlap>>

\* supervisorctl restart of one target.  Restarting the API ends its requests,
\* the repair that asked for it with them.
RestartSupervisorService(a) ==
  /\ Is(a, "restart") /\ actors[a].todo # {}
  /\ \E p \in actors[a].todo :
       LET rest == [actors EXCEPT ![a].todo = @ \ {p}]
       IN /\ ill' \in {ill, ill \ {p}}
          /\ actors' = IF p = "api" THEN [rest EXCEPT !["api"] = Resting, !["apply"] = Resting]
                                    ELSE rest
          /\ lock' = IF p = "api" /\ lock.holder = "api" THEN [lock EXCEPT !.holder = Nobody] ELSE lock
  /\ UNCHANGED <<boxes, status, helpers, faults, stolen, overlap>>

\* What is still ill asks for a new container, when that is allowed.
Check(a) ==
  /\ Is(a, "restart") /\ actors[a].todo = {}
  /\ \/ ill = {} /\ Act(a, "release")
     \/ ill # {} /\ \E at \in {"helper", "release"} : Act(a, at)
  /\ UNCHANGED <<boxes, status, lock, ill, helpers, faults, stolen, overlap>>

StartContainerRepair(a) ==
  /\ a # "apply" /\ Is(a, "helper")
  /\ Act(a, "release")
  /\ \/ StartUpdateHelper /\ NoFault
     \/ Fault /\ UNCHANGED <<helpers, overlap>>
  /\ UNCHANGED <<boxes, status, lock, ill, stolen>>

\* The result is written and the lock file removed, whoever made it.
Release(a) ==
  /\ Is(a, "release")
  /\ lock' = Free
  /\ actors' = [actors EXCEPT ![a] = Resting]
  /\ UNCHANGED <<boxes, status, ill, helpers, faults, stolen, overlap>>

-----------------------------------------------------------------------------
(* The environment.                                                        *)

FallsIll(p) ==
  /\ Up /\ p \notin ill
  /\ ill' = ill \cup {p}
  /\ UNCHANGED <<boxes, status, lock, actors, helpers, faults, stolen, overlap>>

\* Fifteen minutes pass; a repair that is alive has ended before.
LockAges ==
  /\ lock.taken /\ lock.holder = Nobody /\ ~lock.stale
  /\ lock' = [lock EXCEPT !.stale = TRUE]
  /\ UNCHANGED <<boxes, status, ill, actors, helpers, faults, stolen, overlap>>

HelperStep(j) ==
  \/ Inspect(j) \/ PullTargetImage(j) \/ Stop(j) \/ WaitForStopped(j) \/ RenameOld(j)
  \/ Create(j) \/ Start(j) \/ WaitForHealthy(j) \/ Complete(j) \/ DeletePrevious(j)
  \/ CallFails(j) \/ Rollback(j) \/ StopFailed(j) \/ RenameFailed(j) \/ RestorePrevious(j)
  \/ StartPrevious(j) \/ DeleteFailed(j) \/ ReportFailure(j) \/ HelperDies(j)

Repairer == {"api", "watchdog"}

Next ==
  \/ \E j \in Job : HelperStep(j)
  \/ Apply \/ ApplyStarts \/ ApplyAnswers \/ LockAges
  \/ \E p \in Restartable : FallsIll(p)
  \/ \E a \in Repairer :
       \/ Repair(a) \/ TakeLock(a) \/ FindStale(a) \/ RemoveStale(a) \/ Health(a)
       \/ RestartSupervisorService(a) \/ Check(a) \/ StartContainerRepair(a) \/ Release(a)

Spec == Init /\ [][Next]_maintenanceVars

-----------------------------------------------------------------------------
(* Properties.                                                             *)

\* Whatever step of an update fails, the service is there when the helper has
\* ended: one container runs, under the service's name, and it is
\* the one a job made when the status says that it succeeded (update-helper.mjs,
\* README.md:99) -- given one failure at most, in one helper at a time.
ServiceSurvives ==
  Working = {} /\ ~overlap /\ faults <= 1 =>
    /\ \E b \in On : On = {b} /\ boxes[b].name = Service
    /\ \A j \in Job : At(j, "ended") /\ status = [st |-> "succeeded", job |-> j]
                        => boxes[CHOOSE b \in On : TRUE].by = j

\* Two repairs never restart programs at once (the lock file of
\* withRepairLock), unless both found the same stale lock.
OneRepair ==
  ~stolen => Cardinality({a \in Repairer : actors[a].at \in {"health", "restart", "helper", "release"}}) <= 1
=============================================================================
