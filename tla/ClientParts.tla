----------------------------- MODULE ClientParts -----------------------------
(***************************************************************************)
(* The parts of the clients about which something is proved, each with its *)
(* own constants and variables, and what is checked (MCParts) and proved   *)
(* (ClientPartsProofs, ClientSharesProofs, StreamWatchProofs,              *)
(* DesktopProofs) of them.                                                 *)
(***************************************************************************)
EXTENDS Naturals, FiniteSets

CONSTANTS
  Scope, NoScope, Method, MaxSessions, MaxTokens, MaxSwitches, \* AuthStore
  VoiceChannel, NoVoice, MaxJoins,                             \* VoiceSession
  MaxShares, MaxCaptures,                                      \* StreamShare
  LiveStream, NoLive,                                          \* StreamWatch
  DeskServer, DeskAddress, NoDesk, MaxPicks, MaxQueue,         \* DesktopServers
  MaxWindows,                                                  \* DesktopCapture
  LiteServer, NoLite, LiteCommand, MaxRequests,                \* LiteClient
  StoreFlow, MaxSlips    \* functions under way at once, and bound: failures

VARIABLES
  home, revoked, issued, spent, scope, generation, memory, stored, booting, loading,
  pending, ops, switches,
  voice, joins,
  share,
  watched,
  desk, picks,
  cap,
  lite,
  slips

A == INSTANCE AuthStore WITH Op <- Method
V == INSTANCE VoiceSession WITH
  Channel <- VoiceChannel, NoChannel <- NoVoice, Flow <- StoreFlow,
  MaxFaults <- MaxSlips + 1, faults <- slips  \* a recovery left behind takes three
O == INSTANCE StreamShare WITH
  Flow <- StoreFlow, MaxSessions <- MaxShares, MaxFaults <- MaxSlips, faults <- slips
L == INSTANCE StreamWatch WITH
  watch <- watched, Stream <- LiveStream, NoStream <- NoLive, Flow <- StoreFlow,
  MaxClicks <- MaxPicks, MaxFaults <- MaxSlips, clicks <- picks, faults <- slips
S == INSTANCE DesktopServers WITH
  Server <- DeskServer, Address <- DeskAddress, None <- NoDesk, MaxClicks <- MaxPicks,
  MaxFaults <- MaxSlips, clicks <- picks, faults <- slips
C == INSTANCE DesktopCapture WITH
  Flow <- StoreFlow, NoFlow <- NoDesk, MaxFaults <- MaxSlips, faults <- slips
Lite == INSTANCE LiteClient WITH
  Server <- LiteServer, None <- NoLite, Command <- LiteCommand, MaxClicks <- MaxPicks,
  MaxFaults <- MaxSlips, clicks <- picks, faults <- slips

AuthAssumption ==
  /\ Scope # {} /\ NoScope \notin Scope
  /\ MaxSessions \in Nat /\ MaxTokens \in Nat /\ MaxSwitches \in Nat

VoiceAssumption == NoVoice \notin VoiceChannel

ShareAssumption == MaxShares \in Nat /\ MaxCaptures \in Nat

WatchAssumption == NoLive \notin LiveStream

\* A new server's address is another one than that of the server there is.
DeskAssumption ==
  /\ DeskServer # {} /\ NoDesk \notin DeskServer \cup DeskAddress \cup S!Kind \cup StoreFlow
  /\ \A a \in DeskAddress : DeskAddress # {a}
  /\ MaxQueue \in Nat /\ MaxWindows \in Nat

\* Choosing a server and signing in there asks for two things at once.
LiteAssumption == NoLite \notin LiteServer /\ MaxRequests \in Nat \ {0, 1}

ASSUME ClientAssumption ==
  /\ AuthAssumption /\ VoiceAssumption /\ ShareAssumption /\ WatchAssumption
  /\ DeskAssumption /\ LiteAssumption

-----------------------------------------------------------------------------
(* The properties; each is stated and explained in its module.             *)

\* A token never reaches another server's scope.
ScopeIsolation == A!ScopeIsolation

\* No method leaves a spinner behind.
QuietIsReady == A!QuietIsReady

\* An idle session holds no microphone.
MicReleased == V!MicReleased

\* A session shown as active is one.
ActiveIsServed == V!ActiveIsServed

\* Only the session being reconnected is retried.
RecoveryIsWanted == V!RecoveryIsWanted

\* No capture runs that nothing holds.
CaptureReleased == O!CaptureReleased

\* A settled livestream is live everywhere or nowhere.
SettledIsServed == O!SettledIsServed

\* A settled viewer receives what it shows, and nothing else.
WatchedIsServed == L!WatchedIsServed

\* A stream the user closed is not watched again.
ClosedStaysClosed == L!ClosedStaysClosed

\* A settled desktop shows a saved server with its own session, and captures only what is shared.
DesktopSettles == S!ServersSettle /\ C!CaptureEndsClean

\* Baker Lite settles logged out or logged in, and its tokens stay with their servers.
LiteSettles == Lite!ClientSettles /\ Lite!TokenStaysHome
=============================================================================
