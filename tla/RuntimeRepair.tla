---------------------------- MODULE RuntimeRepair ----------------------------
(***************************************************************************)
(* One repair of the supervised programs, look by look: repairRuntime-     *)
(* Services of the API (lib/runtime-health.ts) and repairOnce of the       *)
(* watchdog (docker/allinone/runtime-watchdog.mjs).  A look asks supervisord*)
(* for every program's state and then probes the programs, each at its own *)
(* time, while they fail, recover and start.  What is found ill is         *)
(* restarted in order and looked at once more; what is still ill asks for  *)
(* a new container.  The lock that keeps repairs apart is in Maintenance.  *)
(***************************************************************************)
EXTENDS Naturals, FiniteSets

CONSTANTS
  Service, Rank,     \* supervised programs and the order they are restarted in
  Api, Relay,        \* the API itself; the program that settings may disable
  MaxFaults          \* bound: failures, settings saved, supervisorctl lost or refusing

VARIABLES
  programs,    \* Service -> "down": not RUNNING, "deaf": does not answer, or "up"
  wanted,   \* TURN_ENABLED in the environment file
  control,  \* supervisorctl answers
  repair,   \* the repair under way
  result,   \* runtime-repair-status.json
  faults

vars == <<programs, wanted, control, repair, result, faults>>

State == {"down", "deaf", "up"}

RepairRec == [by: {"nobody", "api", "watchdog"}, at: {"idle", "look", "restart", "again"},
              allow: BOOLEAN,           \* a new container may be asked for
              enabled: BOOLEAN,         \* what it read of wanted
              control: BOOLEAN, running: SUBSET Service,   \* supervisorctl status
              probed: SUBSET Service, answered: SUBSET Service,
              todo: SUBSET Service, failed: SUBSET Service, targets: SUBSET Service,
              ill: SUBSET Service, well: SUBSET Service]   \* at a time since the look began

ResultRec == [status: {"none", "skipped", "succeeded", "partial", "failed"},
              helper: BOOLEAN, remaining: SUBSET Service, enabled: BOOLEAN,
              ill: SUBSET Service, well: SUBSET Service]

TypeOK ==
  /\ programs \in [Service -> State] /\ wanted \in BOOLEAN /\ control \in BOOLEAN
  /\ repair \in RepairRec /\ result \in ResultRec /\ faults \in 0 .. MaxFaults

Idle == [by |-> "nobody", at |-> "idle", allow |-> FALSE, enabled |-> FALSE, control |-> FALSE,
         running |-> {}, probed |-> {}, answered |-> {}, todo |-> {}, failed |-> {},
         targets |-> {}, ill |-> {}, well |-> {}]

Init ==
  /\ wanted \in BOOLEAN
  /\ programs = [s \in Service |-> IF s = Relay /\ ~wanted THEN "down" ELSE "up"]
  /\ control = TRUE
  /\ repair = Idle
  /\ result = [status |-> "none", helper |-> FALSE, remaining |-> {}, enabled |-> FALSE,
               ill |-> {}, well |-> {}]
  /\ faults = 0

Fault == faults < MaxFaults /\ faults' = faults + 1

-----------------------------------------------------------------------------
(* A look.                                                                 *)

Up(w) == {s \in Service : w[s] = "up"}
NotUp(w) == Service \ Up(w)
Enabled(on) == IF on THEN Service ELSE Service \ {Relay}

\* readDeploymentRuntimeSettings and `supervisorctl status`.  The watchdog's second look
\* keeps the settings of its first.
Look(r, on) ==
  [r EXCEPT !.enabled = on, !.control = control,
            !.running = IF control THEN Service \ {s \in Service : programs[s] = "down"} ELSE {},
            !.probed = {}, !.answered = {}, !.ill = NotUp(programs), !.well = Up(programs)]

\* probeTcp, probeHttp.
Probe(s) ==
  /\ repair.at \in {"look", "again"} /\ s \in Enabled(repair.enabled) \ repair.probed
  /\ repair' = [repair EXCEPT !.probed = @ \cup {s},
                              !.answered = IF programs[s] = "up" THEN @ \cup {s} ELSE @]
  /\ UNCHANGED <<programs, wanted, control, result, faults>>

Probed == Enabled(repair.enabled) \subseteq repair.probed

\* "healthy" of deriveServiceStatus and of the watchdog's serviceHealth.
Healthy(s) == (repair.control => s \in repair.running) /\ s \in repair.answered

\* Mutant of Targets: a program is ill when supervisord says so.
TargetsBySupervisor == {s \in Enabled(repair.enabled) : repair.control /\ s \notin repair.running}

\* servicesNeedingRepair, repairTargets.
Targets == {s \in Enabled(repair.enabled) : ~Healthy(s)}

-----------------------------------------------------------------------------
(* The repair.                                                             *)

\* The administrator's request; the watchdog's loop, which does nothing without
\* supervisorctl.
Begin ==
  /\ repair.at = "idle"
  /\ \E who \in {"api", "watchdog"}, allow \in BOOLEAN :
       /\ who = "watchdog" => control
       /\ repair' = Look([Idle EXCEPT !.by = who, !.at = "look", !.allow = allow], wanted)
  /\ UNCHANGED <<programs, wanted, control, result, faults>>

Write(status, helper, remaining) ==
  result' = [status |-> status, helper |-> helper, remaining |-> remaining,
             enabled |-> repair.enabled, ill |-> repair.ill, well |-> repair.well]

\* The API records that it could not look and that nothing is ill; the watchdog does not.
Looked ==
  /\ repair.at = "look" /\ Probed
  /\ IF repair.control /\ Targets # {}
     THEN /\ repair' = [repair EXCEPT !.at = "restart", !.todo = Targets, !.targets = Targets]
          /\ UNCHANGED result
     ELSE /\ repair' = Idle
          /\ IF repair.by = "watchdog" THEN UNCHANGED result
             ELSE Write(IF repair.control THEN "skipped" ELSE "failed", FALSE, Targets)
  /\ UNCHANGED <<programs, wanted, control, faults>>

First(s) == \A t \in repair.todo : Rank[s] <= Rank[t]

\* A program that is started: the relay ends at once when it is not enabled (turn.sh).
Restarted(s) == IF s = Relay /\ ~wanted THEN {"down"} ELSE {"deaf", "up"}

\* `supervisorctl restart`.  The API's repair does not outlive the restart of the API.
RestartSupervisorService ==
  /\ repair.at = "restart"
  /\ \E s \in repair.todo :
       /\ First(s)
       /\ \/ /\ control
             /\ \E w \in Restarted(s) : programs' = [programs EXCEPT ![s] = w]
             /\ repair' = IF s = Api /\ repair.by = "api" THEN Idle
                          ELSE [repair EXCEPT !.todo = @ \ {s}]
             /\ UNCHANGED faults
          \/ /\ IF control THEN Fault ELSE UNCHANGED faults
             /\ repair' = [repair EXCEPT !.todo = @ \ {s}, !.failed = @ \cup {s}]
             /\ UNCHANGED programs
  /\ UNCHANGED <<wanted, control, result>>

LookAgain ==
  /\ repair.at = "restart" /\ repair.todo = {}
  /\ repair' = Look([repair EXCEPT !.at = "again"],
                    IF repair.by = "api" THEN wanted ELSE repair.enabled)
  /\ UNCHANGED <<programs, wanted, control, result, faults>>

\* repairStatusFromActions; the watchdog does not look at its actions.
StatusFromActions ==
  CASE repair.by = "watchdog" \/ repair.failed = {} -> "succeeded"
    [] repair.failed = repair.targets -> "failed"
    [] OTHER -> "partial"

\* startContainerRepair, which may fail.
AsksForContainer == repair.allow

Finish ==
  /\ repair.at = "again" /\ Probed
  /\ IF Targets = {} THEN Write(StatusFromActions, FALSE, {})
     ELSE \/ AsksForContainer /\ Write("partial", TRUE, Targets)
          \/ Write("failed", FALSE, Targets)
  /\ repair' = Idle
  /\ UNCHANGED <<programs, wanted, control, faults>>

-----------------------------------------------------------------------------
(* The programs and the settings.                                          *)

\* The look under way sees what is the case meanwhile.
Seen(w) == [repair EXCEPT !.ill = IF repair.at \in {"look", "again"} THEN @ \cup NotUp(w) ELSE @,
                          !.well = IF repair.at \in {"look", "again"} THEN @ \cup Up(w) ELSE @]

Becomes(s, w) ==
  /\ programs' = [programs EXCEPT ![s] = w]
  /\ repair' = Seen(programs')
  /\ UNCHANGED <<wanted, control, result>>

Fails(s) == programs[s] = "up" /\ Fault /\ \E w \in {"down", "deaf"} : Becomes(s, w)

\* By itself, or started again by supervisord.
Recovers(s) == /\ programs[s] # "up" /\ (s = Relay => wanted)
               /\ Becomes(s, "up") /\ UNCHANGED faults

\* The administrator turns the relay on or off: its program is as before.
SaveTurn ==
  /\ Fault /\ wanted' = ~wanted
  /\ UNCHANGED <<programs, control, repair, result>>

ControlLost == control /\ Fault /\ control' = FALSE /\ UNCHANGED <<programs, wanted, repair, result>>
ControlBack == ~control /\ control' = TRUE /\ UNCHANGED <<programs, wanted, repair, result, faults>>

Next ==
  \/ Begin \/ Looked \/ RestartSupervisorService \/ LookAgain \/ Finish
  \/ SaveTurn \/ ControlLost \/ ControlBack
  \/ \E s \in Service : Probe(s) \/ Fails(s) \/ Recovers(s)

Spec == Init /\ [][Next]_vars

-----------------------------------------------------------------------------

\* No verdict is made up from answers of different times: what a repair restarts was ill
\* at a moment of its look, and what it leaves alone was well at one (servicesNeeding-
\* Repair); a repair that reports success had every enabled program up at some moment
\* after the restarts, and one that asks for a new container found one that was not
\* (runtime-health.ts:703).  A relay the settings disable is left alone and not counted.
VerdictsAreTrue ==
  /\ repair.at = "restart" =>
       /\ repair.targets \subseteq repair.ill
       /\ Enabled(repair.enabled) \ repair.targets \subseteq repair.well
  /\ result.status = "succeeded" => Enabled(result.enabled) \subseteq result.well
  /\ result.helper => result.remaining # {} /\ result.remaining \subseteq result.ill
=============================================================================
