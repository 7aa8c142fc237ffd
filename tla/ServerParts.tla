----------------------------- MODULE ServerParts -----------------------------
(***************************************************************************)
(* The parts of the server beside the rooms of the gateway and the media   *)
(* service, each with its own constants and variables, and what is checked *)
(* (MCParts) and proved (ServerPartsProofs) of them.                       *)
(***************************************************************************)
EXTENDS Naturals, FiniteSets

CONSTANTS
  Box, Job, Program,                          \* Maintenance
  Email, ChannelId, Request, NoOne, NoChannel,\* Workspace
  Conn, User, NoUser, MaxArrivals, MaxErrors, \* Presence
  Supervised, Rank, Api, TurnProgram, MaxBreaks, \* RuntimeRepair
  Follow, Password, Empty, MaxClicks,         \* AdminPanel
  Checker, Ip, NoIp, MaxMoves,                \* PublicIp
  WebPort, RelayRange, MaxSaves,              \* Deployment, with the requests of Workspace
  MaxFaults                                   \* bound: faults of Maintenance, Workspace,
                                              \* AdminPanel and Deployment

VARIABLES
  boxes, status, lock, ill, actors, helpers, stolen, overlap,
  users, members, guild, founders, channels, requests, skewed,
  open, user, snap, redis, hash, names, view, misled, dirty, arrivals, errors,
  programs, wanted, control, repair, result, breaks,
  panel, asked, kept, clicks,
  address, env, running, file, checks, masked,
  deploy,
  faults

M == INSTANCE Maintenance
W == INSTANCE Workspace WITH Channel <- ChannelId
P == INSTANCE Presence
R == INSTANCE RuntimeRepair WITH
       Service <- Supervised, Relay <- TurnProgram, MaxFaults <- MaxBreaks, faults <- breaks
J == INSTANCE AdminPanel WITH calls <- asked, server <- kept
I == INSTANCE PublicIp WITH Who <- Checker, MaxFaults <- MaxMoves
N == INSTANCE Deployment WITH Port <- WebPort, Range <- RelayRange, MaxClicks <- MaxSaves

MaintenanceAssumption == Box # {} /\ M!NoJob \notin Job
WorkspaceAssumption ==
  /\ IsFiniteSet(ChannelId) /\ MaxFaults \in Nat
  /\ NoOne \notin Email /\ NoChannel \notin ChannelId
PresenceAssumption == IsFiniteSet(Conn) /\ NoUser \notin User
RepairAssumption == MaxBreaks \in Nat
PanelAssumption ==
  /\ Follow \subseteq J!Part /\ Password # {} /\ Empty \notin Password
  /\ MaxClicks \in Nat /\ MaxFaults \in Nat
DeploymentAssumption == WebPort # {} /\ RelayRange # {}

ASSUME ServerAssumption ==
  /\ MaintenanceAssumption /\ WorkspaceAssumption /\ PresenceAssumption
  /\ RepairAssumption /\ PanelAssumption /\ DeploymentAssumption

-----------------------------------------------------------------------------
(* The properties; each is stated and explained in its module.             *)

\* Whatever step of an update fails, one container serves.
ServiceSurvives == M!ServiceSurvives

\* Two repairs never restart programs at once.
OneRepair == M!OneRepair

\* Concurrent first registrations make one workspace.
WorkspaceIsShared == W!WorkspaceIsShared

\* One channel of each type remains.
ChannelsRemain == W!ChannelsRemain

\* Clients show exactly who is connected.
RosterExact == P!RosterExact

\* The mirror in Redis agrees with the connections.
MirrorExact == P!MirrorExact

\* A repair acts on what was the case, and the administrator's page settles to the server.
AdministrationHolds == R!VerdictsAreTrue /\ J!PanelSettles

\* What was changed and is not yet taken up is on record: a program left with an old
\* address, and saved settings the container does not run with.
ChangesAreOwed == I!FailedRestartIsOwed /\ N!ChangesArePending
=============================================================================
