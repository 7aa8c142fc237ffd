------------------------------- MODULE PublicIp -------------------------------
(***************************************************************************)
(* Public IP automation of the all-in-one image: checkAndApplyPublicIp of  *)
(* the watchdog (docker/allinone/runtime-watchdog.mjs), the same function  *)
(* of the API (lib/runtime-public-ip.ts) behind the admin's Check button,  *)
(* and the admin's deployment settings (lib/runtime-config.ts), all over   *)
(* the files runtime.env and public-ip.json.                               *)
(*                                                                         *)
(* TURN is enabled, its URLs are generated and the SFU address is set, so  *)
(* one address stands for the three settings.  A service uses the address  *)
(* that runtime.env held when it was started.  A file is read or replaced  *)
(* (rename) at once; the awaits between interleave.                        *)
(***************************************************************************)
EXTENDS Naturals, FiniteSets

CONSTANTS
  Who,        \* the loops that check: the watchdog's, requests of the API
  Ip,
  NoIp,
  MaxFaults   \* bound: failed detections, failed restarts, changes of address

VARIABLES
  address,    \* what the endpoints would answer
  env,        \* the managed addresses of runtime.env
  running,    \* service -> the address it was started with
  file,       \* public-ip.json
  checks,     \* who -> CheckRec
  masked,     \* an error that asked for a retry was overwritten or cannot lead to one
  faults

publicIpVars == <<address, env, running, file, checks, masked, faults>>

Managed == {"turn", "media"}
FileRec == [applied: Ip \cup {NoIp}, detected: Ip \cup {NoIp}, error: {"none", "restart", "detection"}]
CheckRec == [at: {"idle", "detect", "env", "write", "restart"},
             file: FileRec, ip: Ip \cup {NoIp}, todo: SUBSET Managed,
             tried: BOOLEAN, failed: BOOLEAN]
NoFile == [applied |-> NoIp, detected |-> NoIp, error |-> "none"]
Resting == [at |-> "idle", file |-> NoFile, ip |-> NoIp, todo |-> {}, tried |-> FALSE, failed |-> FALSE]

TypeOK ==
  /\ address \in Ip /\ env \in Ip
  /\ running \in [Managed -> Ip]
  /\ file \in FileRec
  /\ checks \in [Who -> CheckRec]
  /\ masked \in BOOLEAN
  /\ faults \in 0..MaxFaults

Init ==
  /\ address \in Ip
  /\ env = address
  /\ running = [s \in Managed |-> address]
  /\ file = NoFile
  /\ checks = [w \in Who |-> Resting]
  /\ masked = FALSE
  /\ faults = 0

-----------------------------------------------------------------------------

Is(w, at) == checks[w].at = at
Fault == faults < MaxFaults /\ faults' = faults + 1
NoFault == UNCHANGED faults

\* The settings are read first, and written back last: of two checks at once, each may
\* overwrite what the other found.
BeginCheck(w) ==
  /\ Is(w, "idle")
  /\ checks' = [checks EXCEPT ![w].at = "detect", ![w].file = file]
  /\ masked' = (masked \/ \E v \in Who : ~Is(v, "idle"))
  /\ UNCHANGED <<address, env, running, file, faults>>

Detected(w) ==
  /\ Is(w, "detect")
  /\ checks' = [checks EXCEPT ![w].at = "env", ![w].ip = address]
  /\ NoFault /\ UNCHANGED <<address, env, running, file, masked>>

\* writeDetectionFailure: the error replaces the one the file had.
DetectionFails(w) ==
  /\ Is(w, "detect")
  /\ file' = [checks[w].file EXCEPT !.error = "detection"]
  /\ checks' = [checks EXCEPT ![w] = Resting]
  /\ masked' = (masked \/ file.error = "restart")
  /\ Fault /\ UNCHANGED <<address, env, running>>

\* Mutant of Pending: the failed restart is not looked up.
PendingForgotten(w) == FALSE

\* addPendingRestartServices
Pending(w) ==
  LET c == checks[w]
  IN c.file.applied # c.ip /\ c.file.error = "restart" /\ env = c.ip

ReadEnv(w) ==
  /\ Is(w, "env")
  /\ checks' = [checks EXCEPT ![w].at = IF env # checks[w].ip THEN "write" ELSE "restart",
                              ![w].todo = IF env # checks[w].ip \/ Pending(w) THEN Managed ELSE {}]
  /\ UNCHANGED <<address, env, running, file, masked, faults>>

WriteEnv(w) ==
  /\ Is(w, "write")
  /\ env' = checks[w].ip
  /\ checks' = [checks EXCEPT ![w].at = "restart"]
  /\ UNCHANGED <<address, running, file, masked, faults>>

\* supervisorctl restart, one service after the other.
RestartService(w) ==
  /\ Is(w, "restart")
  /\ \E s \in checks[w].todo :
       \/ /\ running' = [running EXCEPT ![s] = env]
          /\ checks' = [checks EXCEPT ![w].todo = @ \ {s}, ![w].tried = TRUE]
          /\ NoFault
       \/ /\ checks' = [checks EXCEPT ![w].todo = @ \ {s}, ![w].tried = TRUE, ![w].failed = TRUE]
          /\ running' \in {running, [running EXCEPT ![s] = env]}
          /\ Fault
  /\ UNCHANGED <<address, env, file, masked>>

EndCheck(w) ==
  LET c == checks[w]
  IN /\ Is(w, "restart") /\ c.todo = {}
     /\ file' = [applied |-> IF c.tried /\ ~c.failed THEN c.ip ELSE c.file.applied,
                 detected |-> c.ip,
                 error |-> IF c.failed THEN "restart" ELSE "none"]
     /\ checks' = [checks EXCEPT ![w] = Resting]
     /\ masked' = (masked \/ (c.failed /\ c.file.applied = c.ip))
     /\ UNCHANGED <<address, env, running, faults>>

AddressChanges ==
  /\ Fault
  /\ address' \in Ip \ {address}
  /\ UNCHANGED <<env, running, file, checks, masked>>

\* A masked error ends the behaviour.
Next ==
  /\ ~masked
  /\ \/ \E w \in Who : \/ BeginCheck(w) \/ Detected(w) \/ DetectionFails(w) \/ ReadEnv(w)
                       \/ WriteEnv(w) \/ RestartService(w) \/ EndCheck(w)
     \/ AddressChanges

Spec == Init /\ [][Next]_publicIpVars

-----------------------------------------------------------------------------

\* Between checks, a program that still runs with an address other than the
\* one in runtime.env is on record as a failed restart, which the next check
\* retries (addPendingRestartServices), unless a failed detection or another check
\* took the record's place or the address is the one applied before.
FailedRestartIsOwed ==
  (\A w \in Who : Is(w, "idle")) /\ (\E s \in Managed : running[s] # env)
    => file.error = "restart" \/ masked
=============================================================================
