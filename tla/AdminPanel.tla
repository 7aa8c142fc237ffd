----------------------------- MODULE AdminPanel -----------------------------
(***************************************************************************)
(* The administrator's page (apps/admin/src/AdminApp.tsx) and the routes   *)
(* it calls (apps/api/src/routes/system.ts).  The page keeps a copy of     *)
(* eight parts of the server's state.  A handler sends one request with    *)
(* the password of the render it was clicked in, shows the answer, and     *)
(* then, for most, reads parts again with that same password.  Handlers    *)
(* under one spinner exclude each other; the two spinners, the export, the *)
(* refresh of the update's status and the polling of health do not.        *)
(*                                                                         *)
(* A part of the server is the number of its version.                      *)
(***************************************************************************)
EXTENDS Naturals, FiniteSets

CONSTANTS
  Follow,       \* the parts that are followed, some or all of Part
  Password, Empty,
  MaxClicks, MaxFaults   \* bounds: handlers run; faults and changes made elsewhere

VARIABLES panel, calls, server, clicks, faults

vars == <<panel, calls, server, clicks, faults>>

Part == {"settings", "workspace", "deployment", "status", "health", "repair", "address",
         "proxy"}

\* A spinner each for the settings, the runtime and the export of logs.
Spinner == {"page", "runtime", "export"}
Slot == Spinner \cup {"refresh"}   \* bound: one refresh at a time

Unread == 0
Version == 0 .. MaxClicks + MaxFaults + 1

Lapse == {"crossed", "unloaded", "elsewhere", "retyped", "late"}

\* Of what a route changes and answers, a call keeps what is followed.
Route == [writes: SUBSET Follow, answers: SUBSET Follow]

CallRec == [st: {"none", "sent", "served", "refused", "reads", "unread"},
            login: BOOLEAN, pw: Password \cup {Empty}, to: Password \cup {Empty},
            route: Route, reloads: SUBSET Follow,
            held: [Follow -> Version]]   \* what was answered and is not shown yet

PanelRec == [auth: BOOLEAN, pw: Password \cup {Empty}, typed: BOOLEAN,
             busy: SUBSET Spinner, shown: [Follow -> Version], lapses: SUBSET Lapse]

ServerRec == [pw: Password, at: [Follow -> Version]]

TypeOK ==
  /\ panel \in PanelRec /\ calls \in [Slot -> CallRec] /\ server \in ServerRec
  /\ clicks \in 0 .. MaxClicks /\ faults \in 0 .. MaxFaults

Nothing == [p \in Follow |-> Unread]

NoRoute == [writes |-> {}, answers |-> {}]

NoCall == [st |-> "none", login |-> FALSE, pw |-> Empty, to |-> Empty, route |-> NoRoute,
           reloads |-> {}, held |-> Nothing]

Init ==
  /\ panel = [auth |-> FALSE, pw |-> Empty, typed |-> FALSE, busy |-> {},
              shown |-> Nothing, lapses |-> {}]
  /\ calls = [s \in Slot |-> NoCall]
  /\ server = [pw |-> CHOOSE p \in Password : TRUE, at |-> [p \in Follow |-> 1]]
  /\ clicks = 0 /\ faults = 0

-----------------------------------------------------------------------------
(* The routes: what each changes and what its answer holds.                *)

Reading(p) == [writes |-> {}, answers |-> {p}]
VersionsRoute == NoRoute
SettingsRoute == [writes |-> {"settings", "workspace"}, answers |-> {"settings"}]
ProxyRoute == [writes |-> {"proxy"}, answers |-> {"proxy"}]
UpdateRoute == [writes |-> {"status"}, answers |-> {"status"}]
DeploymentRoute == [writes |-> {"deployment"}, answers |-> {"deployment"}]
ApplyRoute == [writes |-> {"status"}, answers |-> {"status"}]
ExportRoute == NoRoute
RepairRoute == [writes |-> {"health"}, answers |-> {}]
SelfRepairRoute == [writes |-> {"repair"}, answers |-> {"repair"}]
AddressRoute == [writes |-> {"address"}, answers |-> {"address"}]
CheckRoute == [writes |-> {"address", "deployment"}, answers |-> {"address"}]
UserRoute == [writes |-> {"workspace"}, answers |-> {}]
ChannelRoute == [writes |-> {"workspace"}, answers |-> {}]

-----------------------------------------------------------------------------
(* The page sends.                                                         *)

\* The request of a handler that is to read `reloads` again.
Query(route, reloads) ==
  [NoCall EXCEPT !.st = "sent", !.pw = panel.pw, !.reloads = reloads \cap Follow,
                 !.route = [writes |-> route.writes \cap Follow,
                            answers |-> route.answers \cap Follow]]

Send(s, request) ==
  /\ calls[s].st = "none"
  /\ calls' = [calls EXCEPT ![s] = request]
  /\ UNCHANGED server

\* A click on a button that its spinner disables.
Click(s, route, reloads) ==
  /\ panel.auth /\ s \notin panel.busy /\ clicks < MaxClicks
  /\ Send(s, Query(route, reloads))
  /\ panel' = [panel EXCEPT !.busy = @ \cup {s}]
  /\ clicks' = clicks + 1
  /\ UNCHANGED faults

\* The login form: its input is not disabled while a login is under way.
Type ==
  /\ ~panel.auth
  /\ \E p \in Password : panel' = [panel EXCEPT !.pw = p, !.typed = TRUE]
  /\ UNCHANGED <<calls, server, clicks, faults>>

Login ==
  /\ ~panel.auth /\ panel.pw # Empty /\ "page" \notin panel.busy /\ clicks < MaxClicks
  /\ Send("page", [Query(NoRoute, Part) EXCEPT !.login = TRUE])
  /\ panel' = [panel EXCEPT !.busy = @ \cup {"page"}]
  /\ clicks' = clicks + 1
  /\ UNCHANGED faults

\* What is under way goes on.
SignOut ==
  /\ panel.auth
  /\ panel' = [panel EXCEPT !.auth = FALSE, !.pw = Empty, !.typed = FALSE]
  /\ UNCHANGED <<calls, server, clicks, faults>>

\* With a new password, or without.
SaveSettings ==
  /\ panel.auth /\ "page" \notin panel.busy /\ clicks < MaxClicks
  /\ \E to \in Password \cup {Empty} :
       Send("page", [Query(SettingsRoute, Part) EXCEPT !.to = to])
  /\ panel' = [panel EXCEPT !.busy = @ \cup {"page"}]
  /\ clicks' = clicks + 1
  /\ UNCHANGED faults

CheckVersions == Click("page", VersionsRoute, {})
SaveUpdateProxy == Click("page", ProxyRoute, {})
StartUpdate == Click("page", UpdateRoute, {})
SaveDeploymentSettings == Click("page", DeploymentRoute, {})
ApplyDeployment == Click("page", ApplyRoute, Part)
CreateUser == Click("page", UserRoute, Part)
CreateChannel == Click("page", ChannelRoute, Part)
SaveChannel == Click("page", ChannelRoute, Part)
DeleteChannel == Click("page", ChannelRoute, Part)

\* Mutant of RepairRuntime: health is not read again.
RepairRuntimeUnread == Click("runtime", RepairRoute, {})

RepairRuntime == Click("runtime", RepairRoute, {"health"})
SaveSelfRepair == Click("runtime", SelfRepairRoute, {})
SavePublicIp == Click("runtime", AddressRoute, {})
CheckPublicIp == Click("runtime", CheckRoute, Part)

ExportRuntimeLogs == Click("export", ExportRoute, {})

\* The refresh buttons are disabled by a spinner and turn none on.  (That of a part
\* which is not followed shows nothing.)
RefreshUpdateStatus ==
  /\ panel.auth /\ "page" \notin panel.busy /\ "status" \in Follow
  /\ Send("refresh", Query(Reading("status"), {}))
  /\ UNCHANGED <<panel, clicks, faults>>

\* Every ten seconds, and the button.
RefreshRuntimeHealth ==
  /\ panel.auth /\ "health" \in Follow
  /\ Send("refresh", Query(Reading("health"), {}))
  /\ UNCHANGED <<panel, clicks, faults>>

-----------------------------------------------------------------------------
(* The server serves.                                                      *)

\* A change of some parts overtakes an older value of one that a call holds.
Overtakes(w) == \E s \in Slot, p \in w : calls[s].held[p] # Unread

Changed(w) == [p \in Follow |-> IF p \in w THEN server.at[p] + 1 ELSE server.at[p]]

\* requireAdmin, or the check of the login's password.
Admits(c) == c.pw = server.pw

\* The route's refusals are faults.
Serve(s) ==
  LET c == calls[s] IN
  /\ c.st = "sent"
  /\ IF Admits(c)
     THEN /\ server' = [pw |-> IF c.to = Empty THEN server.pw ELSE c.to,
                        at |-> Changed(c.route.writes)]
          /\ calls' = [calls EXCEPT ![s].st = "served",
                                    ![s].held = [p \in Follow |->
                                      IF p \in c.route.answers
                                      THEN Changed(c.route.writes)[p] ELSE Unread]]
          /\ panel' = [panel EXCEPT !.lapses =
                         IF Overtakes(c.route.writes) THEN @ \cup {"crossed"} ELSE @]
     ELSE /\ calls' = [calls EXCEPT ![s].st = "refused"]
          /\ UNCHANGED <<server, panel>>
  /\ UNCHANGED <<clicks, faults>>

Refuse(s) ==
  /\ calls[s].st = "sent" /\ faults < MaxFaults
  /\ calls' = [calls EXCEPT ![s].st = "refused"]
  /\ faults' = faults + 1
  /\ UNCHANGED <<panel, server, clicks>>

\* The part as another administrator, the watchdog or an update's helper leaves it.
Elsewhere ==
  /\ faults < MaxFaults
  /\ \/ \E p \in Follow :
          server' = [server EXCEPT !.at = Changed({p})]
     \/ \E p \in Password \ {server.pw} : server' = [server EXCEPT !.pw = p]
  /\ panel' = [panel EXCEPT !.lapses = @ \cup {"elsewhere"}]
  /\ faults' = faults + 1
  /\ UNCHANGED <<calls, clicks>>

-----------------------------------------------------------------------------
(* The page goes on.                                                       *)

Shown(c) == [p \in Follow |-> IF c.held[p] = Unread THEN panel.shown[p] ELSE c.held[p]]

\* The handler's finally.
End(s) == calls' = [calls EXCEPT ![s] = NoCall]
Quieter(s) == panel.busy \ {s}

\* The answer is shown; a login and a new password take effect; the rest is read again.
Answer(s) ==
  LET c == calls[s] IN
  /\ c.st = "served"
  /\ IF c.reloads = {} THEN End(s)
     ELSE calls' = [calls EXCEPT ![s].st = "reads", ![s].held = Nothing]
  /\ panel' = [panel EXCEPT
       !.shown = Shown(c),
       !.auth = @ \/ c.login,
       !.pw = IF c.to = Empty THEN @ ELSE c.to,
       !.busy = IF c.reloads = {} THEN Quieter(s) ELSE @,
       !.lapses = @ \cup (IF c.login /\ panel.pw # c.pw THEN {"retyped"} ELSE {})
                    \cup (IF c.to # Empty /\ ~panel.auth THEN {"late"} ELSE {})]
  /\ UNCHANGED <<server, clicks, faults>>

\* One of the reads of loadDashboard or refreshRuntimeHealth is served.
ReadPart(s, p) ==
  LET c == calls[s] IN
  /\ c.st = "reads" /\ p \in c.reloads /\ c.held[p] = Unread
  /\ calls' = IF Admits(c) THEN [calls EXCEPT ![s].held[p] = server.at[p]]
              ELSE [calls EXCEPT ![s].st = "unread"]
  /\ UNCHANGED <<panel, server, clicks, faults>>

\* Promise.all has every answer.
Loaded(s) ==
  LET c == calls[s] IN
  /\ c.st = "reads" /\ \A p \in c.reloads : c.held[p] # Unread
  /\ panel' = [panel EXCEPT !.shown = Shown(c), !.busy = Quieter(s)]
  /\ End(s)
  /\ UNCHANGED <<server, clicks, faults>>

\* The handler's catch: what is shown stays.
Catch(s, lapses) ==
  /\ panel' = [panel EXCEPT !.busy = Quieter(s), !.lapses = @ \cup lapses]
  /\ End(s)

Refused(s) ==
  /\ calls[s].st \in {"refused", "unread"}
  /\ Catch(s, IF calls[s].st = "unread" THEN {"unloaded"} ELSE {})
  /\ UNCHANGED <<server, clicks, faults>>

\* What it changed is not shown when its answer is lost.
Changes(c) == c.route.writes # {} \/ c.to # Empty

\* The request or an answer is lost, or is not what the schema says.
Lost(s) ==
  LET c == calls[s] IN
  /\ c.st \in {"sent", "served", "reads"} /\ faults < MaxFaults
  /\ Catch(s, IF c.st = "reads" \/ (c.st = "served" /\ Changes(c)) THEN {"unloaded"} ELSE {})
  /\ faults' = faults + 1
  /\ UNCHANGED <<server, clicks>>

-----------------------------------------------------------------------------

Clicks ==
  \/ Login \/ SaveSettings \/ CheckVersions \/ SaveUpdateProxy \/ StartUpdate
  \/ SaveDeploymentSettings \/ ApplyDeployment \/ CreateUser \/ CreateChannel
  \/ SaveChannel \/ DeleteChannel \/ RepairRuntime \/ SaveSelfRepair \/ SavePublicIp
  \/ CheckPublicIp \/ ExportRuntimeLogs

Next ==
  \/ Type \/ SignOut \/ Clicks \/ RefreshUpdateStatus \/ RefreshRuntimeHealth \/ Elsewhere
  \/ \E s \in Slot :
       Serve(s) \/ Refuse(s) \/ Answer(s) \/ Loaded(s) \/ Refused(s) \/ Lost(s)
  \/ \E s \in Slot, p \in Follow : ReadPart(s, p)

Spec == Init /\ [][Next]_vars

-----------------------------------------------------------------------------

Quiet == \A s \in Slot : calls[s].st = "none"

\* The page settles to the server: each spinner turns while a handler under it runs,
\* and no longer (the finally of every handler, AdminApp.tsx:397); when nothing is
\* under way, a signed-in page has the server's password and shows the server's state,
\* and a signed-out one holds no password that was not typed -- unless a change
\* overtook an older answer, a read was refused or lost (the one after a change of the
\* password always is), somebody else changed the server, the password was retyped
\* during the login, or a new password was answered after the page had signed out.
PanelSettles ==
  /\ \A s \in Spinner : s \in panel.busy <=> calls[s].st # "none"
  /\ Quiet /\ panel.lapses = {} =>
       IF panel.auth THEN panel.pw = server.pw /\ panel.shown = server.at
       ELSE panel.typed \/ panel.pw = Empty
=============================================================================
