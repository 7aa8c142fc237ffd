--------------------------- MODULE DesktopServers ---------------------------
(***************************************************************************)
(* The desktop client's list of servers: DesktopApp.tsx selects, adds,     *)
(* edits and removes servers, one asynchronous function of each kind at a  *)
(* time (Kind), and electron/main.ts keeps the list and one session per    *)
(* server on disk and serves both over IPC.                                *)
(*                                                                         *)
(* A session is modelled by the address that issued it: a server keeps its *)
(* id when its address is edited, so a session kept for the old address    *)
(* must not be there for the new one.  The session store above (auth-store)*)
(* is its loads, saves and clears; its own module is AuthStore.  Names,    *)
(* versions, reachability, notices and the order of the list are left out. *)
(*                                                                         *)
(* What the code does not exclude ends a behaviour here (raced): a click or*)
(* a validation that ends while another function is writing works on the   *)
(* list it saw before that write; a sign-in or refresh that saves between  *)
(* the clearing of a session and the end of the removal or edit; a session *)
(* cleared while main.ts reads it from disk, which caches it again.        *)
(***************************************************************************)
EXTENDS Naturals, Sequences

CONSTANTS
  Server,      \* ids
  Address,
  None,        \* no server, no address, nothing
  MaxClicks,   \* bound: selections, connections and removals
  MaxFaults,   \* bound: failed probes and writes, unreadable sessions, exits
  MaxQueue     \* bound: vault writes waiting

VARIABLES
  desk,    \* the renderer's and the main process's state: DeskRec
  clicks,
  faults

deskVars == <<desk, clicks, faults>>

Kind == {"select", "connect", "remove"}
Slot == 1 .. 2          \* bound: loads of sessions under way

Registry == [at: [Server -> Address \cup {None}], active: Server \cup {None}]

FlowRec == [at: {"idle", "probing", "clearing", "saving"},
            id: Server \cup {None},
            to: Address \cup {None},
            rev: Nat,
            list: Registry]       \* the list of the render it was started in

LoadRec == [at: {"idle", "hit", "queued", "read"},
            id: Server \cup {None},
            behind: 0 .. MaxQueue,              \* vault writes before it
            got: Address \cup {None},
            fresh: BOOLEAN]                     \* nobody activated a session since

DeskRec == [phase: {"loading", "setup", "app"},
            registry: Registry,                 \* React state
            file: Registry,                     \* server.json
            shown: [id: Server \cup {None}, at: Address \cup {None}],  \* serverConfig
            runtime: Address \cup {None},       \* whose tokens the store holds
            safe: BOOLEAN,                      \* safeStorage is available
            memory: [Server -> Address \cup {None}],
            vault: [Server -> Address \cup {None}],
            queue: Seq([by: Kind \cup {None}, id: Server, val: Address \cup {None}]),
            revision: Nat,
            busy: Server \cup {None},
            flows: [Kind -> FlowRec],
            loads: [Slot -> LoadRec],
            gone: SUBSET Server,                \* removed: ids are never used again
            raced: BOOLEAN]

\* Every component has its type.
TypeOK ==
  /\ desk.phase \in {"loading", "setup", "app"}
  /\ desk.registry \in Registry /\ desk.file \in Registry
  /\ desk.flows \in [Kind -> FlowRec] /\ desk.loads \in [Slot -> LoadRec]
  /\ {desk.memory, desk.vault} \subseteq [Server -> Address \cup {None}]
  /\ desk.shown.id \in Server \cup {None} /\ desk.busy \in Server \cup {None}
  /\ desk.gone \subseteq Server /\ desk.raced \in BOOLEAN
  /\ Len(desk.queue) <= MaxQueue
  /\ clicks \in 0 .. MaxClicks /\ faults \in 0 .. MaxFaults

NoList == [at |-> [s \in Server |-> None], active |-> None]
NoFlow == [at |-> "idle", id |-> None, to |-> None, rev |-> 0, list |-> NoList]
NoLoad == [at |-> "idle", id |-> None, behind |-> 0, got |-> None, fresh |-> FALSE]
Nobody == [s \in Server |-> None]

Listed(list) == {s \in Server : list.at[s] # None}

\* An empty disk, or one server whose session is kept, or two.
Init ==
  /\ \E a \in Address, two \in BOOLEAN, safe \in BOOLEAN, fresh \in BOOLEAN :
       LET s == CHOOSE x \in Server : TRUE
           list == IF fresh THEN NoList
                   ELSE [at |-> [x \in Server |-> IF x = s THEN a
                                                  ELSE IF two THEN CHOOSE b \in Address : b # a
                                                  ELSE None],
                         active |-> s]
       IN /\ fresh => two
          /\ desk = [phase |-> "loading", registry |-> NoList, file |-> list,
                     shown |-> [id |-> None, at |-> None], runtime |-> None, safe |-> safe,
                     memory |-> Nobody, vault |-> IF safe THEN list.at ELSE Nobody,
                     queue |-> <<>>, revision |-> 0, busy |-> None,
                     flows |-> [k \in Kind |-> NoFlow], loads |-> [l \in Slot |-> NoLoad],
                     gone |-> {}, raced |-> FALSE]
  /\ clicks = 0 /\ faults = 0

-----------------------------------------------------------------------------
(* The session of the server shown.                                        *)

IdleLoad(d) == {l \in Slot : d.loads[l].at = "idle"}

\* activateSessionPersistence: what was loading is out of date; memory answers at
\* once, the disk after the writes that wait; a failed load counts as no session.
Activate(d, s) ==
  LET old == [l \in Slot |-> [d.loads[l] EXCEPT !.fresh = FALSE]]
      load == [at |-> IF d.memory[s] # None \/ ~d.safe THEN "hit" ELSE "queued",
               id |-> s, behind |-> Len(d.queue), got |-> d.memory[s], fresh |-> TRUE]
  IN [d EXCEPT !.runtime = None,
               !.loads = [old EXCEPT ![CHOOSE l \in IdleLoad(d) : TRUE] = load]]

\* setServerConfig and the phase that goes with it.
Show(d, s) ==
  LET e == [d EXCEPT !.shown = [id |-> s, at |-> IF s = None THEN None ELSE d.registry.at[s]],
                     !.phase = IF s = None THEN "setup" ELSE "app"]
  IN IF s = None THEN [e EXCEPT !.loads = [l \in Slot |-> [@[l] EXCEPT !.fresh = FALSE]]]
     ELSE Activate(e, s)

\* gateway.disconnect, chat.reset, clearRuntimeSession.
ClearRuntime(d) ==
  [d EXCEPT !.runtime = None, !.loads = [l \in Slot |-> [@[l] EXCEPT !.fresh = FALSE]]]

Enqueue(d, by, s, val) ==
  [d EXCEPT !.queue = Append(@, [by |-> by, id |-> s, val |-> val])]

\* A session is cleared while its read is under way.
ReadUnderWay(d, s) == \E l \in Slot : d.loads[l].at \in {"queued", "read"} /\ d.loads[l].id = s

\* clear-server-session: gone from memory at once, from the disk in its turn.
ClearSession(d, by, s) ==
  Enqueue([d EXCEPT !.memory[s] = None, !.raced = @ \/ ReadUnderWay(d, s)], by, s, None)

Writing(d) == \E k \in Kind : d.flows[k].at \in {"clearing", "saving"}

\* A flow that removes the server shown, or moves it to another address.
Changing(d) == \E k \in Kind : /\ d.flows[k].at \in {"clearing", "saving"}
                               /\ d.flows[k].id = d.shown.id

CanQueue == Len(desk.queue) < MaxQueue

Boot ==
  /\ desk.phase = "loading"
  /\ desk' = Show([desk EXCEPT !.registry = desk.file], desk.file.active)
  /\ UNCHANGED <<clicks, faults>>

\* get-server-session reads the vault file once the writes it waited for are done.
ReadVault(l) ==
  LET r == desk.loads[l]
  IN /\ r.at = "queued" /\ r.behind = 0
     /\ \/ /\ desk' = [desk EXCEPT !.loads[l].at = "read", !.loads[l].got = desk.vault[r.id]]
           /\ UNCHANGED faults
        \/ \* a session that cannot be decrypted is discarded
           /\ desk.vault[r.id] # None /\ faults < MaxFaults /\ CanQueue
           /\ desk' = Enqueue([desk EXCEPT !.loads[l].at = "hit", !.loads[l].got = None],
                              None, r.id, None)
           /\ faults' = faults + 1
     /\ UNCHANGED clicks

\* What was read is kept in memory and answered; the store takes the answer of its
\* newest activation.
Loaded(l) ==
  LET r == desk.loads[l]
      kept == IF r.at = "read" /\ r.got # None THEN [desk EXCEPT !.memory[r.id] = r.got]
              ELSE desk
  IN /\ r.at \in {"hit", "read"}
     /\ desk' = [kept EXCEPT !.runtime = IF r.fresh THEN r.got ELSE @, !.loads[l] = NoLoad]
     /\ UNCHANGED <<clicks, faults>>

\* A login or a refresh at the server shown; without safe storage the disk forgets.
SaveSession ==
  LET s == desk.shown.id
  IN /\ desk.phase = "app" /\ CanQueue
     /\ ~\E l \in Slot : desk.loads[l].at # "idle" /\ desk.loads[l].fresh
     /\ desk.runtime = None \/ desk.memory[s] = None
     /\ desk' = Enqueue([desk EXCEPT !.runtime = desk.shown.at, !.memory[s] = desk.shown.at,
                                     !.raced = @ \/ Changing(desk)],
                        None, s, IF desk.safe THEN desk.shown.at ELSE None)
     /\ UNCHANGED <<clicks, faults>>

Logout ==
  /\ desk.runtime # None /\ CanQueue
  /\ desk' = ClearSession(ClearRuntime(desk), None, desk.shown.id)
  /\ UNCHANGED <<clicks, faults>>

-----------------------------------------------------------------------------
(* Selecting, connecting and removing.                                     *)

\* run of the coordinator: a new revision, then the target is validated.
Probe(d, k, s, a) ==
  [d EXCEPT !.revision = @ + 1, !.busy = s, !.raced = @ \/ Writing(d),
            !.flows[k] = [at |-> "probing", id |-> s, to |-> a, rev |-> d.revision + 1,
                          list |-> d.registry]]

SelectServer(s) ==
  /\ clicks < MaxClicks
  /\ s \in Listed(desk.registry) /\ desk.busy = None /\ desk.flows["select"].at = "idle"
  /\ desk' = Probe(desk, "select", s, desk.registry.at[s])
  /\ clicks' = clicks + 1 /\ UNCHANGED faults

\* The form adds a server or changes the address of one.
Connect(s, a) ==
  /\ clicks < MaxClicks /\ desk.phase # "loading"
  /\ desk.flows["connect"].at = "idle" /\ s \notin desk.gone
  /\ \A x \in Listed(desk.registry) \ {s} : desk.registry.at[x] # a
  /\ desk' = Probe(desk, "connect", s, a)
  /\ clicks' = clicks + 1 /\ UNCHANGED faults

Freed(d, k) == [d EXCEPT !.flows[k] = NoFlow,
                         !.busy = IF @ = d.flows[k].id THEN None ELSE @]

\* commitActiveServer: everything of the old server is dropped, then the list is saved.
Commit(d, k) == [ClearRuntime(d) EXCEPT !.flows[k].at = "saving"]

\* MUTANT: a validation that ends late commits all the same.
SupersededNever(f) == FALSE

Superseded(f) == f.rev # desk.revision

\* The target answered; an edited address first gives up the session of the old one.
Validated(k) ==
  LET f == desk.flows[k]
      was == f.list.at[f.id]
      d == [desk EXCEPT !.raced = @ \/ Writing(desk)]
  IN /\ f.at = "probing"
     /\ \/ Superseded(f) /\ desk' = Freed(desk, k)
        \/ /\ ~Superseded(f) /\ was \in {None, f.to}
           /\ desk' = Commit(d, k)
        \/ /\ ~Superseded(f) /\ was \notin {None, f.to} /\ CanQueue
           /\ desk' = ClearSession([d EXCEPT !.flows[k].at = "clearing"], k, f.id)
     /\ UNCHANGED <<clicks, faults>>

ProbeFails(k) ==
  /\ desk.flows[k].at = "probing" /\ faults < MaxFaults
  /\ desk' = Freed(desk, k)
  /\ faults' = faults + 1 /\ UNCHANGED clicks

\* confirmRemoveServer until its first await.
Remove(s) ==
  /\ clicks < MaxClicks /\ CanQueue
  /\ s \in Listed(desk.registry) /\ desk.flows["remove"].at = "idle"
  /\ desk' = ClearSession([desk EXCEPT !.revision = @ + 1, !.raced = @ \/ Writing(desk),
                             !.flows["remove"] = [at |-> "clearing", id |-> s, to |-> None,
                                                  rev |-> 0, list |-> desk.registry]],
                          "remove", s)
  /\ clicks' = clicks + 1 /\ UNCHANGED faults

\* The session is cleared: an edit commits, a removal drops the server's runtime.
Cleared(d, k) ==
  IF k = "connect" THEN Commit(d, k)
  ELSE LET f == d.flows[k]
           e == IF f.list.active = f.id THEN ClearRuntime(d) ELSE d
       IN [e EXCEPT !.flows[k].at = "saving"]

\* The vault's writes run one after another; a failed one fails its caller.
WriteVault ==
  LET op == Head(desk.queue)
      moved == [l \in Slot |-> [desk.loads[l] EXCEPT !.behind = IF @ = 0 THEN 0 ELSE @ - 1]]
      d == [desk EXCEPT !.queue = Tail(@), !.loads = moved]
      after(e) == op.by # None /\ e.flows[op.by].at = "clearing"
  IN /\ desk.queue # <<>>
     /\ \/ /\ desk' = LET e == [d EXCEPT !.vault[op.id] = op.val]
                      IN IF after(e) THEN Cleared(e, op.by) ELSE e
           /\ UNCHANGED faults
        \/ /\ faults < MaxFaults /\ faults' = faults + 1
           /\ desk' = IF after(d) THEN Freed(d, op.by) ELSE d
     /\ UNCHANGED clicks

\* The list a flow saves; a removed active server is replaced by one that is left.
Upserted(f) == [at |-> [f.list.at EXCEPT ![f.id] = f.to], active |-> f.id]
Without(f) ==
  LET left == [f.list.at EXCEPT ![f.id] = None]
      rest == {s \in Server : left[s] # None}
  IN {[at |-> left, active |-> a] :
        a \in IF f.list.active # f.id THEN {f.list.active}
              ELSE IF rest = {} THEN {None} ELSE rest}

\* saveServerRegistry answered: the list is shown, and the server that is now active.
SaveList(k) ==
  LET f == desk.flows[k]
  IN /\ f.at = "saving" /\ IdleLoad(desk) # {}
     /\ \/ /\ k # "remove"
           /\ LET list == Upserted(f)
              IN desk' = Show(Freed([desk EXCEPT !.file = list, !.registry = list], k), f.id)
           /\ UNCHANGED faults
        \/ /\ k = "remove"
           /\ \E list \in Without(f) :
                LET d == Freed([desk EXCEPT !.file = list, !.registry = list,
                                            !.gone = @ \cup {f.id}], k)
                IN desk' = IF f.list.active = f.id THEN Show(d, list.active) ELSE d
           /\ UNCHANGED faults
        \/ /\ faults < MaxFaults /\ faults' = faults + 1
           /\ desk' = Freed(desk, k)
     /\ UNCHANGED clicks

\* The application ends anywhere; what is on disk is what it starts with.
Quit ==
  /\ desk.phase # "loading" /\ faults < MaxFaults
  /\ desk' = [desk EXCEPT !.phase = "loading", !.registry = NoList,
                          !.shown = [id |-> None, at |-> None], !.runtime = None,
                          !.memory = Nobody, !.queue = <<>>, !.revision = 0, !.busy = None,
                          !.flows = [k \in Kind |-> NoFlow], !.loads = [l \in Slot |-> NoLoad]]
  /\ faults' = faults + 1 /\ UNCHANGED clicks

Next ==
  /\ ~desk.raced
  /\ \/ Boot \/ SaveSession \/ Logout \/ WriteVault \/ Quit
     \/ \E l \in Slot : ReadVault(l) \/ Loaded(l)
     \/ \E s \in Server : SelectServer(s) \/ Remove(s) \/ \E a \in Address : Connect(s, a)
     \/ \E k \in Kind : Validated(k) \/ ProbeFails(k) \/ SaveList(k)

Spec == Init /\ [][Next]_deskVars

-----------------------------------------------------------------------------
Quiet == /\ desk.phase # "loading" /\ desk.queue = <<>>
         /\ \A k \in Kind : desk.flows[k].at = "idle"
         /\ \A l \in Slot : desk.loads[l].at = "idle"

\* When nothing is under way the window shows the server that is active on disk, a
\* server removed is not back, and no session is kept, in memory or on disk, for a
\* server that is not listed or has another address by now: whatever selections
\* superseded each other, whichever write failed and wherever the application ended.
\* Server-switch.ts: "Keeps slow health checks from committing an older server".
ServersSettle ==
  (Quiet /\ ~desk.raced) =>
    /\ desk.registry = desk.file
    /\ desk.shown.id = desk.file.active
    /\ desk.shown.id # None => desk.shown.at = desk.file.at[desk.shown.id]
    /\ desk.runtime \in {None, desk.shown.at}
    /\ desk.gone \cap Listed(desk.file) = {}
    /\ \A s \in Server : {desk.memory[s], desk.vault[s]} \subseteq {None, desk.file.at[s]}
=============================================================================
