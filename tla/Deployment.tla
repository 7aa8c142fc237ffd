----------------------------- MODULE Deployment -----------------------------
(***************************************************************************)
(* The deployment settings an administrator saves and applies: PATCH       *)
(* /v1/admin/deployment/settings and POST .../apply of                     *)
(* apps/api/src/routes/system.ts, the files of lib/runtime-config.ts, and  *)
(* what docker/allinone/update-helper.mjs makes of them.  A save writes    *)
(* runtime.env, then a marker of what waits to be applied; an apply has a  *)
(* helper replace the container, whose published ports are computed from   *)
(* the settings, and remove the marker.                                    *)
(*                                                                         *)
(* The API runs in the container: whatever it does ends with it.  Settings *)
(* are the web port, one range of relay ports, whether the relay is on and *)
(* whether it has its credentials; the order of a range's ends is left     *)
(* out.  The steps of the helper and its rollback are those of Maintenance.*)
(***************************************************************************)
EXTENDS Naturals

CONSTANTS
  Request,
  Port,       \* of the host, for the web
  Range,      \* of relay ports
  MaxClicks,  \* bound: saves and applies
  MaxFaults   \* bound: failed jobs, restarts, an absent Docker

VARIABLES
  deploy,     \* DeployRec
  clicks, faults

deployVars == <<deploy, clicks, faults>>

Key == {"web", "range", "on", "cred"}
Settings == [web: Port, range: Range, on: BOOLEAN, cred: BOOLEAN]
Marker == [keys: SUBSET Key, previous: Settings]

RequestRec == [st: {"idle", "checked", "env", "written", "merging", "reading", "read"},
               keys: SUBSET Key, to: Settings,    \* the save's input
               file: Settings, marker: SUBSET Marker]  \* what was read

\* web, media: the published ports; env: what its programs read when they started.
BoxRec == [web: Port, media: SUBSET Range, env: Settings]

JobRec == [st: {"queued", "replaced"}, desired: Settings, previous: Settings, old: BoxRec,
           crossed: BOOLEAN]   \* a save wrote since its settings were read

\* Files, jobs: {} when there is none.
DeployRec == [file: Settings, marker: SUBSET Marker, box: BoxRec, job: SUBSET JobRec,
              request: [Request -> RequestRec],
              lapsed: BOOLEAN]   \* a step used what another had changed, or was cut short

TypeOK ==
  /\ deploy.file \in Settings
  /\ \A m \in deploy.marker : m \in Marker
  /\ deploy.box \in BoxRec
  /\ \A j \in deploy.job : /\ j.st \in {"queued", "replaced"}
                           /\ {j.desired, j.previous} \subseteq Settings
  /\ \A r \in Request :
       deploy.request[r].st \in {"idle", "checked", "env", "written", "merging", "reading", "read"}
  /\ clicks \in 0..MaxClicks
  /\ faults \in 0..MaxFaults

\* assertValidDeploymentSettings; a container with other settings does not start.
Valid(s) == s.on => s.cred

\* The relay ports a container with these settings publishes.
Published(s) == IF s.on THEN {s.range} ELSE {}

Start == [web |-> CHOOSE p \in Port : TRUE, range |-> CHOOSE r \in Range : TRUE,
          on |-> FALSE, cred |-> FALSE]

Idle == [st |-> "idle", keys |-> {}, to |-> Start, file |-> Start, marker |-> {}]

Init ==
  /\ \E on, cred \in BOOLEAN :
       LET file == [Start EXCEPT !.on = on, !.cred = cred]
       IN /\ Valid(file)
          /\ deploy = [file |-> file, marker |-> {}, job |-> {},
                       box |-> [web |-> file.web, media |-> Published(file), env |-> file],
                       request |-> [r \in Request |-> Idle], lapsed |-> FALSE]
  /\ clicks = 0
  /\ faults = 0

-----------------------------------------------------------------------------

\* Requests differ in nothing.
Free ==
  CHOOSE r \in Request : \/ deploy.request[r] = Idle
                         \/ \A q \in Request : deploy.request[q] # Idle

Click == clicks < MaxClicks /\ clicks' = clicks + 1
NoClick == UNCHANGED clicks
Fault == faults < MaxFaults /\ faults' = faults + 1
NoFault == UNCHANGED faults

\* setRuntimeValue for every key of the input.
Updated(s, req) ==
  [web |-> IF "web" \in req.keys THEN req.to.web ELSE s.web,
   range |-> IF "range" \in req.keys THEN req.to.range ELSE s.range,
   on |-> IF "on" \in req.keys THEN req.to.on ELSE s.on,
   cred |-> IF "cred" \in req.keys THEN req.to.cred ELSE s.cred]

\* The marker written over the one that waits.
MergedOver(existing, req) ==
  [keys |-> req.keys \cup UNION {m.keys : m \in existing}, previous |-> req.file]

\* writeDeploymentPendingMarker: the previous settings are those before the first save.
Merged(existing, req) ==
  [keys |-> req.keys \cup UNION {m.keys : m \in existing},
   previous |-> IF existing = {} THEN req.file ELSE (CHOOSE m \in existing : TRUE).previous]

\* resolveContainerHostPorts: a web port that was not saved anew is the container's.
Desired(req, box) ==
  [req.file EXCEPT !.web = IF \E m \in req.marker : "web" \in m.keys THEN @ ELSE box.web]

\* previousContainerHostPortSettings.
PreviousSettings(req, box) ==
  [(IF req.marker = {} THEN req.file ELSE (CHOOSE m \in req.marker : TRUE).previous)
     EXCEPT !.web = box.web]

\* removeManagedPorts.
WithoutManaged(media, s) == media \ {s.range}

\* createPortBindings, and the programs that read the file when they start.
Created(j, box, file) ==
  [web |-> j.desired.web,
   media |-> WithoutManaged(WithoutManaged(box.media, j.previous), j.desired)
               \cup Published(j.desired),
   env |-> file]

\* A save has written the settings and not yet its marker.
Torn(d) == \E r \in Request : d.request[r].st \in {"written", "merging"}

\* The container stops, and with it what the API was doing.
Stopped(d) == [d EXCEPT !.request = [r \in Request |-> Idle], !.lapsed = @ \/ Torn(d)]

-----------------------------------------------------------------------------
(* PATCH /v1/admin/deployment/settings.                                    *)

\* The settings are read and, with the input, valid.
Patch(r) ==
  /\ r = Free /\ deploy.request[r] = Idle
  /\ Click
  /\ \E keys \in {{"web"}, {"range"}, {"on"}, {"on", "cred"}}, to \in Settings :
       LET req == [Idle EXCEPT !.st = "checked", !.keys = keys,
                               !.to = Updated(Start, [keys |-> keys, to |-> to])]
       IN /\ \A k \in keys : req.to[k] # deploy.file[k]   \* an input that changes something
          /\ Valid(Updated(deploy.file, req))
          /\ deploy' = [deploy EXCEPT !.request[r] = req]
  /\ NoFault

\* updateDeploymentRuntimeSettings reads the file.
ReadEnv(r) ==
  /\ deploy.request[r].st = "checked"
  /\ deploy' = [deploy EXCEPT !.request[r].st = "env", !.request[r].file = deploy.file,
                              !.lapsed = @ \/ Torn(deploy)]
  /\ NoClick /\ NoFault

\* writeRuntimeEnvToDisk: the file is replaced at once.
WriteEnv(r) ==
  /\ deploy.request[r].st = "env"
  /\ LET req == deploy.request[r]
         file == Updated(req.file, req)
     IN deploy' = [deploy EXCEPT !.file = file, !.request[r].st = "written",
                                 !.lapsed = @ \/ deploy.file # req.file \/ ~Valid(file),
                                 !.job = {[j EXCEPT !.crossed = TRUE] : j \in @}]
  /\ NoClick /\ NoFault

ReadMarker(r) ==
  /\ deploy.request[r].st = "written"
  /\ deploy' = [deploy EXCEPT !.request[r].st = "merging", !.request[r].marker = deploy.marker]
  /\ NoClick /\ NoFault

WriteMarker(r) ==
  /\ deploy.request[r].st = "merging"
  /\ LET req == deploy.request[r]
     IN deploy' = [deploy EXCEPT !.marker = {Merged(req.marker, req)}, !.request[r] = Idle,
                                 !.lapsed = @ \/ deploy.marker # req.marker,
                                 !.job = {[j EXCEPT !.crossed = TRUE] : j \in @}]
  /\ NoClick /\ NoFault

-----------------------------------------------------------------------------
(* POST /v1/admin/deployment/apply, and .../updates/apply, which differs   *)
(* in the image.                                                           *)

Apply(r) ==
  /\ r = Free /\ deploy.request[r] = Idle
  /\ Click
  /\ deploy' = [deploy EXCEPT !.request[r].st = "reading"]
  /\ NoFault

\* The files and the container are read together; a save that crosses the reads lapses.
ReadFiles(r) ==
  /\ deploy.request[r].st = "reading"
  /\ deploy' = [deploy EXCEPT !.request[r].st = "read", !.request[r].file = deploy.file,
                              !.request[r].marker = deploy.marker, !.lapsed = @ \/ Torn(deploy)]
  /\ NoClick /\ NoFault

\* startUpdateHelper.
StartHelper(r) ==
  /\ deploy.request[r].st = "read"
  /\ LET req == deploy.request[r]
         job == [st |-> "queued", desired |-> Desired(req, deploy.box),
                 previous |-> PreviousSettings(req, deploy.box), old |-> deploy.box, crossed |-> FALSE]
     IN \/ /\ Valid(job.desired)
           /\ deploy' = [deploy EXCEPT !.request[r] = Idle, !.job = {job},
                                       !.lapsed = \/ @
                                                  \/ deploy.job # {}
                                                  \/ deploy.file # req.file
                                                  \/ deploy.marker # req.marker]
           /\ NoFault
        \* No Docker, no helper, or (only after a lapse) invalid settings.
        \/ /\ Fault
           /\ deploy' = [deploy EXCEPT !.request[r] = Idle]
  /\ NoClick

-----------------------------------------------------------------------------
(* The helper.                                                             *)

\* The image cannot be had, or the helper ends between two of its steps (Maintenance has
\* those in which no container runs).
HelperDies ==
  /\ \E j \in deploy.job :
       deploy' = [deploy EXCEPT !.job = {},
                                \* The marker stays, with what is no longer published.
                                !.lapsed = @ \/ (j.st = "replaced" /\ deploy.marker # {})]
  /\ Fault
  /\ NoClick

\* The container is stopped, and one with the desired ports runs in its place.
Replace ==
  /\ \E j \in deploy.job :
       /\ j.st = "queued"
       /\ deploy' = [Stopped(deploy) EXCEPT !.box = Created(j, deploy.box, deploy.file),
                                            !.job = {[j EXCEPT !.st = "replaced", !.old = deploy.box]}]
  /\ NoClick /\ NoFault

\* The previous container runs again.
RolledBack ==
  /\ \E j \in deploy.job :
       /\ Fault
       /\ deploy' = [Stopped(deploy) EXCEPT
            !.box = [(IF j.st = "queued" THEN deploy.box ELSE j.old) EXCEPT !.env = deploy.file],
            !.job = {}]
  /\ NoClick

\* The container is healthy: nothing waits to be applied any more.
Complete ==
  /\ \E j \in deploy.job :
       /\ j.st = "replaced"
       /\ Valid(deploy.box.env)
       /\ deploy' = [deploy EXCEPT !.marker = {}, !.job = {}, !.lapsed = @ \/ j.crossed]
  /\ NoClick /\ NoFault

\* The container restarts, of itself or for a repair.
Restart ==
  /\ Fault
  /\ deploy' = [Stopped(deploy) EXCEPT !.box.env = deploy.file]
  /\ NoClick

\* A lapse ends the behaviour.
Next ==
  /\ ~deploy.lapsed
  /\ \/ HelperDies \/ Replace \/ RolledBack \/ Complete \/ Restart
     \/ \E r \in Request :
          \/ Patch(r) \/ ReadEnv(r) \/ WriteEnv(r) \/ ReadMarker(r) \/ WriteMarker(r)
          \/ Apply(r) \/ ReadFiles(r) \/ StartHelper(r)

Spec == Init /\ [][Next]_deployVars

-----------------------------------------------------------------------------

Settled ==
  /\ ~deploy.lapsed
  /\ deploy.job = {}
  /\ \A r \in Request : deploy.request[r] = Idle

\* Once no save or apply is under way, the container publishes and runs what the file
\* says, or the marker names what waits to be applied and knows the ports to remove
\* (runtime-config.ts, writeDeploymentPendingMarker; update-helper.mjs,
\* createPortBindings).
ChangesArePending ==
  Settled =>
    LET box == deploy.box
        file == deploy.file
    IN /\ Valid(file)
       /\ box.env # file => deploy.marker # {}
       /\ box.web # file.web => \E m \in deploy.marker : "web" \in m.keys
       /\ box.media # Published(file) =>
            \E m \in deploy.marker :
              /\ m.keys \cap {"range", "on"} # {}
              /\ box.media \subseteq {file.range, m.previous.range}
=============================================================================
