------------------------------- MODULE MCParts -------------------------------
(***************************************************************************)
(* The components that share no state with the rooms of the gateway, side  *)
(* by side: a behaviour picks one part and runs it alone, so a run of TLC  *)
(* explores the sum of its parts and not their product.  The instances     *)
(* give each part its bounds.  Because one part runs, the client's parts   *)
(* share their variables: self is a part's own state, peer and wire what   *)
(* it talks to and what is under way.                                      *)
(***************************************************************************)
EXTENDS SfuAdapter, ServerParts, ClientParts

CONSTANT Parts    \* the parts a run explores

VARIABLES
  part,
  self, peer, wire

MCChannelOf == [s \in Session |-> CHOOSE c \in Channel : TRUE]

MCRank == [s \in Supervised |-> IF s = Api THEN 1 ELSE 2]

Flows == {"first", "second"}

TextChannelsOf == [g \in {"g1", "g2"} |-> IF g = "g1" THEN <<"a", "b">> ELSE <<"c">>]

Z == INSTANCE MusicShare WITH
  music <- self,
  Flow <- Flows, MaxSessions <- 1, MaxAirs <- 1, MaxFaults <- 2
\* Three peers that come and go; two that also lose sockets and connections.
K == INSTANCE PeerLink WITH mesh <- self, NPeers <- 3, MaxJoins <- 3, MaxFaults <- 0
D == INSTANCE PeerLink WITH mesh <- self, NPeers <- 2, MaxJoins <- 2, MaxFaults <- 2
Q == INSTANCE LiteMedia WITH
  media <- self, gateway <- peer,
  Channel <- {"c1", "c2"}, Home <- "c1", None <- "none", MaxSessions <- 4, MaxClicks <- 3,
  MaxFaults <- 1
X == INSTANCE LiteSfu WITH
  sfu <- self, inbox <- wire,
  Producer <- {"p1", "p2"}, MaxFaults <- 1
H == INSTANCE ChatSync WITH
  chat <- self, server <- peer, loads <- wire,
  Guild <- {"g1", "g2"}, Home <- "g1", None <- "none", ChannelOf <- TextChannelsOf, Limit <- 1,
  Old <- 1, MaxMessages <- 2, Busy <- {"a"}, MaxLoads <- 2, MaxClicks <- 2, MaxFaults <- 1
U == INSTANCE SfuClient WITH
  session <- self, room <- peer, calls <- wire,
  Producer <- {"p1"}, MaxTransports <- 3, MaxFaults <- 2
B == INSTANCE StreamLink WITH link <- self, MaxFaults <- 1, MaxClicks <- 2
Y == INSTANCE StreamPopup WITH
  popup <- self,
  Stream <- {"s1", "s2"}, NoStream <- "none", MaxFaults <- 3, MaxClicks <- 2

G == INSTANCE MediaMode WITH
  client <- self, admin <- peer, gateway <- wire,
  Request <- Flows, Member <- {"m1", "m2"}, MaxClicks <- 3, MaxFaults <- 1

\* What each part has beside faults.
presenceVars == <<open, user, snap, redis, hash, names, view, misled, dirty, arrivals, errors>>
authVars == <<home, revoked, issued, spent, scope, generation, memory, stored, booting,
              loading, pending, ops, switches>>
voiceVars == <<voice, joins>>
deskVars == <<desk, picks>>
storeVars == <<voiceVars, share, watched, deskVars, cap, lite, slips>>
repairVars == <<boxes, status, lock, ill, actors, helpers, stolen, overlap>>
addressVars == <<address, env, running, file, checks, masked>>
rowVars == <<users, members, guild, founders, channels, requests, skewed>>
passVars == <<programs, wanted, control, repair, result, breaks>>
panelVars == <<panel, asked, kept>>
sharedVars == <<self, peer, wire, clicks, faults>>

Unused(v) == v = 0

ServerInit ==
  /\ Init /\ P!Init /\ M!Init /\ I!Init /\ W!Init /\ R!Init /\ J!Init /\ N!Init
  \* A part that does not run starts in one way.
  /\ part # "address" => address = "i1"
  /\ part # "repair" => wanted
  /\ part # "deploy" => ~deploy.file.cred

ClientInit ==
  /\ A!Init /\ V!Init /\ O!Init /\ L!Init /\ S!Init /\ C!Init /\ Lite!Init
  /\ part # "voice" => voice.sfu
  /\ part # "share" => share.sfu
  /\ part # "watch" => watched.sfu /\ watched.airs = {}
  /\ part # "servers" => desk.safe /\ desk.file = S!NoList
  /\ part # "lite" => \A s \in LiteServer : ~lite.store[s]

SharedInit ==
  \/ part \in {"presence", "maintenance", "address", "workspace", "auth", "sfu", "repair", "panel",
               "deploy", "voice", "share", "watch", "servers", "capture", "lite"}
     /\ Unused(self) /\ Unused(peer) /\ Unused(wire) /\ Unused(clicks)
  \/ /\ \/ part = "music" /\ Z!Init /\ Unused(clicks)
        \/ part = "mesh" /\ K!Init /\ Unused(clicks)
        \/ part = "pair" /\ D!Init /\ Unused(clicks)
        \/ part = "link" /\ B!Init
        \/ part = "popup" /\ Y!Init
     /\ Unused(peer) /\ Unused(wire)
  \/ part = "litemedia" /\ Q!Init
  \/ part = "litesfu" /\ X!Init /\ Unused(peer) /\ Unused(clicks)
  \/ part = "chat" /\ H!Init
  \/ part = "mode" /\ G!Init
  \/ part = "sfuclient" /\ U!Init /\ Unused(clicks)

PartsInit ==
  /\ part \in Parts
  /\ faults = 0
  /\ ServerInit /\ ClientInit /\ SharedInit

Server ==
  \/ /\ part = "sfu" /\ Next
     /\ UNCHANGED <<presenceVars, repairVars, addressVars, rowVars, passVars, panelVars, deploy, clicks, faults>>
  \/ /\ part = "presence" /\ P!Next
     /\ UNCHANGED <<vars, repairVars, addressVars, rowVars, passVars, panelVars, deploy, clicks, faults>>
  \/ /\ part = "maintenance" /\ M!Next
     /\ UNCHANGED <<vars, presenceVars, addressVars, rowVars, passVars, panelVars, deploy, clicks>>
  \/ /\ part = "address" /\ I!Next
     /\ UNCHANGED <<vars, presenceVars, repairVars, rowVars, passVars, panelVars, deploy, clicks>>
  \/ /\ part = "workspace" /\ W!Next
     /\ UNCHANGED <<vars, presenceVars, repairVars, addressVars, passVars, panelVars, deploy, clicks>>
  \/ /\ part = "repair" /\ R!Next
     /\ UNCHANGED <<vars, presenceVars, repairVars, addressVars, rowVars, panelVars, deploy, clicks, faults>>
  \/ /\ part = "panel" /\ J!Next
     /\ UNCHANGED <<vars, presenceVars, repairVars, addressVars, rowVars, passVars, deploy>>
  \/ /\ part = "deploy" /\ N!Next
     /\ UNCHANGED <<vars, presenceVars, repairVars, addressVars, rowVars, passVars, panelVars>>

\* The parts of the clients about which nothing is proved.
Client ==
  \/ /\ \/ part = "music" /\ Z!Next /\ UNCHANGED clicks
        \/ part = "mesh" /\ K!Next /\ UNCHANGED clicks
        \/ part = "pair" /\ D!Next /\ UNCHANGED clicks
        \/ part = "link" /\ B!Next
        \/ part = "popup" /\ Y!Next
     /\ UNCHANGED <<peer, wire>>
  \/ part = "litemedia" /\ Q!Next
  \/ part = "litesfu" /\ X!Next /\ UNCHANGED <<peer, clicks>>
  \/ part = "chat" /\ H!Next
  \/ part = "mode" /\ G!Next
  \/ part = "sfuclient" /\ U!Next /\ UNCHANGED clicks

PartsNext ==
  \/ Server /\ UNCHANGED <<part, authVars, storeVars, self, peer, wire>>
  \/ /\ \/ part = "auth" /\ A!Next /\ UNCHANGED <<storeVars, sharedVars>>
        \/ part = "voice" /\ V!Next /\ UNCHANGED <<authVars, share, watched, deskVars, cap, lite, sharedVars>>
        \/ part = "share" /\ O!Next /\ UNCHANGED <<authVars, voiceVars, watched, deskVars, cap, lite, sharedVars>>
        \/ part = "watch" /\ L!Next /\ UNCHANGED <<authVars, voiceVars, share, desk, cap, lite, sharedVars>>
        \/ part = "servers" /\ S!Next /\ UNCHANGED <<authVars, voiceVars, share, watched, cap, lite, sharedVars>>
        \/ part = "capture" /\ C!Next /\ UNCHANGED <<authVars, voiceVars, share, watched, deskVars, lite, sharedVars>>
        \/ part = "lite" /\ Lite!Next /\ UNCHANGED <<authVars, voiceVars, share, watched, desk, cap, sharedVars>>
        \/ Client /\ UNCHANGED <<authVars, storeVars>>
     /\ UNCHANGED <<part, vars, presenceVars, repairVars, addressVars, rowVars, passVars, panelVars,
                  deploy>>

\* What changes while the part runs: the variables of the others keep their first values.
Running ==
  <<part,
    CASE part = "sfu" -> <<vars>>
      [] part = "presence" -> presenceVars
      [] part = "maintenance" -> <<repairVars, faults>>
      [] part = "address" -> <<addressVars, faults>>
      [] part = "workspace" -> <<rowVars, faults>>
      [] part = "repair" -> passVars
      [] part = "panel" -> <<panelVars, clicks, faults>>
      [] part = "deploy" -> <<deploy, clicks, faults>>
      [] part = "auth" -> authVars
      [] part = "voice" -> <<voiceVars, slips>>
      [] part = "share" -> <<share, slips>>
      [] part = "watch" -> <<watched, picks, slips>>
      [] part = "servers" -> <<deskVars, slips>>
      [] part = "capture" -> <<cap, slips>>
      [] part = "lite" -> <<lite, picks, slips>>
      [] OTHER -> <<self, peer, wire, clicks, faults>> >>

PartsSpec ==
  PartsInit /\ [][PartsNext]_<<part, vars, presenceVars, authVars, storeVars, repairVars,
                              addressVars, rowVars, passVars, panelVars, deploy, sharedVars>>

-----------------------------------------------------------------------------
(* The properties of the parts; each is stated and explained in its module.*)

\* Every part's variables have their types (all the modules' TypeOK).
Types ==
  CASE part = "sfu" -> TypeOK
    [] part = "presence" -> P!TypeOK
    [] part = "auth" -> A!TypeOK
    [] part = "maintenance" -> M!TypeOK
    [] part = "address" -> I!TypeOK
    [] part = "workspace" -> W!TypeOK
    [] part = "voice" -> V!TypeOK
    [] part = "share" -> O!TypeOK
    [] part = "watch" -> L!TypeOK
    [] part = "music" -> Z!TypeOK
    [] part = "mesh" -> K!TypeOK
    [] part = "pair" -> D!TypeOK
    [] part = "servers" -> S!TypeOK
    [] part = "capture" -> C!TypeOK
    [] part = "lite" -> Lite!TypeOK
    [] part = "litemedia" -> Q!TypeOK
    [] part = "litesfu" -> X!TypeOK
    [] part = "chat" -> H!TypeOK
    [] part = "sfuclient" -> U!TypeOK
    [] part = "link" -> B!TypeOK
    [] part = "popup" -> Y!TypeOK
    [] part = "deploy" -> N!TypeOK
    [] part = "mode" -> G!TypeOK
    [] part = "repair" -> R!TypeOK
    [] part = "panel" -> J!TypeOK

\* Settled music is live and heard everywhere or nowhere.
MusicIsServed == part = "music" => Z!MusicIsServed

\* A settled room's members see and reach each other.
MeshComplete ==
  /\ part = "mesh" => K!MeshComplete
  /\ part = "pair" => D!MeshComplete

\* A client's messages, the voice it hears, its media mode and the streams it is sent
\* settle to what the server has, and so do Baker Lite's media and its SFU sessions.
ClientSettles ==
  /\ part = "mode" => G!ModeSettles
  /\ part = "chat" => H!ChatSettles
  /\ part = "sfuclient" => U!SfuClientSettles
  /\ part = "link" => B!LinkSettles
  /\ part = "popup" => Y!PopupsSettle
  /\ part = "litemedia" => Q!MediaSettles
  /\ part = "litesfu" => X!SfuSettles
=============================================================================
