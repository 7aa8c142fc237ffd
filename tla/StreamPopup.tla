---------------------------- MODULE StreamPopup ----------------------------
(***************************************************************************)
(* The windows in which a client shows the live streams it watches:        *)
(* features/stream/stream-popup-controller.ts, the effect of               *)
(* StreamPopupHost.tsx that closes the windows of streams no longer        *)
(* watched, and of stream-store.ts what makes and removes their entries.   *)
(* An action is one turn of the client's thread; the effect runs after a   *)
(* turn that changed a window or an entry, and closes no window younger    *)
(* than the grace of 250 ms.                                               *)
(*                                                                         *)
(* The streams are those of one host.  What the gateway and the media do   *)
(* (StreamWatch, StreamLink) is left out: a request is answered or fails.  *)
(***************************************************************************)
EXTENDS FiniteSetsExt, Naturals

CONSTANTS
  Stream,
  NoStream,
  MaxClicks,  \* bound: streams the user opens
  MaxFaults   \* bound: refusals, lost connections, streams that end, windows that vanish

VARIABLES
  popup,   \* the registry, the store's entries and its requests: PopupRec
  faults, clicks

popupVars == <<popup, faults, clicks>>

\* gone: closed without its listener having been run.
Window == {"none", "young", "old", "gone"}
Entry == {"none", "starting", "reconnecting", "watching", "ended"}
\* A stream.watch under way, of a click, a restore or a retry for the stream from.
RequestRec == [kind: {"none", "click", "restore", "retry"}, from: Stream \cup {NoStream}]

PopupRec == [window: [Stream -> Window],        \* popupEntries
             entry: [Stream -> Entry],          \* watchedStreamsById
             request: [Stream -> RequestRec],
             owed: SUBSET Stream,               \* recoveries that wait for their timer
             cancelled: SUBSET Stream,          \* cancelledWatchRequests
             airs: SUBSET Stream,               \* roomStateByChannel
             over: SUBSET Stream,               \* those that ended: their ids do not return
             hidden: SUBSET Stream,             \* see Hide
             passed: SUBSET Stream,             \* windows the effect left for their youth
             lapsed: BOOLEAN]                   \* two requests for a host's stream at once

NoRequest == [kind |-> "none", from |-> NoStream]

TypeOK ==
  /\ popup \in PopupRec
  /\ faults \in 0..MaxFaults
  /\ clicks \in 0..MaxClicks

Init ==
  /\ \E airs \in SUBSET Stream :
       popup = [window |-> [s \in Stream |-> "none"], entry |-> [s \in Stream |-> "none"],
                request |-> [s \in Stream |-> NoRequest], owed |-> {}, cancelled |-> {},
                airs |-> airs, over |-> {}, hidden |-> {}, passed |-> {}, lapsed |-> FALSE]
  /\ faults = 0
  /\ clicks = 0

-----------------------------------------------------------------------------

IsOpen(v, s) == v.window[s] \in {"young", "old"}

\* A stream that is watched again, or will be, when its window has been closed for
\* its missing entry, or by the user: nothing opens one, and the user's closing is
\* forgotten.
Wanted(v, s) == s \in v.owed \/ \E t \in Stream : v.request[t] = [kind |-> "retry", from |-> s]
Hide(v, closed) == [v EXCEPT !.hidden = @ \cup {s \in closed : Wanted(v, s)}]

\* unwatchStream: without an entry nothing is cancelled.
UnwatchStream(v, s) ==
  IF v.entry[s] = "none" THEN v
  ELSE [v EXCEPT !.entry[s] = "none", !.cancelled = @ \cup {s}, !.owed = @ \ {s}, !.hidden = @ \ {s}]

\* closeStreamPopup takes the window from the registry before it closes: its
\* listener finds nothing to unwatch.
ClosePopup(v, s) == [v EXCEPT !.window[s] = "none"]

\* handlePopupClosed.
PopupClosed(v, s) ==
  LET closed == ClosePopup(v, s)
  IN IF v.entry[s] = "none" THEN Hide(closed, {s}) ELSE UnwatchStream(closed, s)

\* pruneClosedPopups.
Prune(v) == FoldSet(LAMBDA s, acc : PopupClosed(acc, s), v, {s \in Stream : v.window[s] = "gone"})

\* ensureStreamPopupWindow.
EnsurePopup(v, s) ==
  LET pruned == Prune(v)
  IN IF IsOpen(pruned, s) THEN pruned ELSE [pruned EXCEPT !.window[s] = "young", !.hidden = @ \ {s}]

\* remapStreamPopupWindow.
Remap(v, from, to) ==
  IF from = to \/ v.window[to] # "none" \/ v.window[from] = "none" THEN v
  ELSE [v EXCEPT !.window[to] = v.window[from], !.window[from] = "none"]

\* watchStream until its command.
BeginWatch(v, s, kind, from) ==
  IF v.entry[s] # "none" THEN v
  ELSE [v EXCEPT !.entry[s] = "starting", !.cancelled = @ \ {s},
                 !.lapsed = @ \/ v.request[s] # NoRequest,
                 !.request[s] = [kind |-> kind, from |-> from]]

\* The effect.
AutoClose(v) ==
  LET idle == {s \in Stream : v.window[s] # "none" /\ v.entry[s] = "none"}
      closed == {s \in idle : v.window[s] # "young"}
  IN Hide([v EXCEPT !.window = [s \in Stream |-> IF s \in closed THEN "none" ELSE @[s]],
                    !.passed = idle \ closed], closed)

\* The turn ends with v.
Turn(v) ==
  popup' = IF v.window # popup.window \/ v.entry # popup.entry THEN AutoClose(v) ELSE v

\* beginWatchedGatewayRecovery: the retry watches what its host streams now.
Retried(v, s) ==
  LET target == IF s \in v.airs \/ v.airs = {} THEN s ELSE CHOOSE t \in v.airs : TRUE
      removed == [v EXCEPT !.entry[s] = "none", !.owed = @ \ {s},
                           !.lapsed = @ \/ v.request[s] # NoRequest]
      begun == BeginWatch(removed, target, "retry", s)
  \* A stream watched already is neither asked for again nor has it lost its window.
  IN IF removed.entry[target] = "none" THEN begun ELSE Remap(removed, s, target)

-----------------------------------------------------------------------------

Fault == faults < MaxFaults /\ faults' = faults + 1
NoFault == UNCHANGED faults

\* handleWatchStream of ChannelList and VoicePanel.
Open(s) ==
  /\ s \in popup.airs \/ popup.entry[s] # "none"
  /\ clicks < MaxClicks
  /\ clicks' = clicks + 1
  /\ LET opened == EnsurePopup(popup, s)
     IN Turn(IF popup.entry[s] # "none" THEN opened ELSE BeginWatch(opened, s, "click", NoStream))
  /\ NoFault

\* The window's own close, or the button in it.
Close(s) ==
  /\ IsOpen(popup, s)
  /\ Turn(PopupClosed(popup, s))
  /\ UNCHANGED <<faults, clicks>>

Vanish(s) ==
  /\ IsOpen(popup, s)
  /\ Fault
  /\ popup' = [popup EXCEPT !.window[s] = "gone"]
  /\ UNCHANGED clicks

\* The grace of a window is over.
Age(s) ==
  /\ popup.window[s] = "young"
  /\ popup' = [popup EXCEPT !.window[s] = "old"]
  /\ UNCHANGED <<faults, clicks>>

\* What follows in the function that asked: the window of a retry's stream is
\* given to the one watched now.
Answered(v, s) ==
  LET req == v.request[s]
      done == [v EXCEPT !.request[s] = NoRequest]
      \* What was hidden stays so under its new id.
      moved == [done EXCEPT !.hidden = IF req.from \in @ THEN (@ \ {req.from}) \cup {s} ELSE @]
  IN IF req.kind = "retry" THEN Remap(moved, req.from, s) ELSE done

\* watchStream after its ack.
WatchAnswered(s) ==
  /\ popup.request[s].kind # "none"
  /\ Turn(IF s \in popup.cancelled
          THEN LET over == Answered([popup EXCEPT !.entry[s] = "none", !.cancelled = @ \ {s}], s)
               IN [over EXCEPT !.hidden = @ \ {s}]
          ELSE Answered([popup EXCEPT !.entry[s] = "watching"], s))
  /\ UNCHANGED <<faults, clicks>>

\* Refused or failed: a click closes its window, a retry waits for the next, and a
\* restore begins a recovery after the turn in which the entry was removed.
WatchFails(s) ==
  /\ popup.request[s].kind # "none"
  /\ IF s \in popup.airs THEN Fault ELSE NoFault
  /\ LET req == popup.request[s]
         removed == [popup EXCEPT !.entry[s] = "none", !.cancelled = @ \ {s}, !.request[s] = NoRequest]
         ignored == IF s \in popup.cancelled THEN {s, req.from} \ {NoStream} ELSE {}
     IN Turn(CASE req.kind = "click" -> Hide(ClosePopup(removed, s), {s})
               [] req.kind = "restore" -> [removed EXCEPT !.owed = @ \cup {s}, !.hidden = @ \cup ignored]
               [] req.kind = "retry" /\ s \in popup.cancelled /\ req.from = s -> removed
               [] req.kind = "retry" /\ (s \notin popup.cancelled \/ req.from # s) ->
                    [removed EXCEPT !.owed = @ \cup {req.from}, !.hidden = @ \cup ignored])
  /\ UNCHANGED clicks

\* runRecovery of a recovery that waits, or begins.
Retry(s) ==
  /\ s \in popup.owed
  /\ Turn(Retried(popup, s))
  /\ UNCHANGED <<faults, clicks>>

\* The entries of a lost connection, or another media mode, until they are restored.
Suspend ==
  /\ Fault
  /\ \E s \in Stream : popup.entry[s] \in {"starting", "watching"}
  /\ \A s \in Stream : popup.request[s] = NoRequest
  /\ Turn([popup EXCEPT !.entry = [s \in Stream |-> IF @[s] = "watching" THEN "reconnecting" ELSE @[s]]])
  /\ UNCHANGED clicks

\* The next of handleMediaModeUpdated's loop: its entry is removed and made anew in
\* one turn.
Restore(s) ==
  /\ popup.entry[s] = "reconnecting"
  /\ \A t \in Stream : popup.request[t].kind # "restore"
  /\ Turn(BeginWatch([popup EXCEPT !.entry[s] = "none"], s, "restore", NoStream))
  /\ UNCHANGED <<faults, clicks>>

\* handleStreamStateUpdated: the host starts a stream, ends one, or another viewer
\* session of this user replaced this one.
Changed ==
  /\ Fault
  /\ \E s \in Stream :
       \/ s \notin popup.over /\ Turn([popup EXCEPT !.airs = @ \cup {s}])
       \/ Turn([popup EXCEPT !.airs = @ \ {s}, !.over = @ \cup {s}, !.entry[s] = IF @ = "watching" THEN "ended" ELSE @])
       \/ Turn([popup EXCEPT !.entry[s] = IF @ = "watching" THEN "none" ELSE @])
  /\ UNCHANGED clicks

\* Statistics, viewers, volumes: the store's entries are new, and the effect runs.
Updated ==
  /\ \E s \in Stream : popup.entry[s] # "none"
  /\ popup' = AutoClose(popup)
  /\ popup' # popup
  /\ UNCHANGED <<faults, clicks>>

\* disconnect, of a logout; what is under way goes on (StreamWatch).
Disconnect ==
  /\ Fault
  /\ popup' = [popup EXCEPT !.window = [s \in Stream |-> "none"], !.entry = [s \in Stream |-> "none"],
                            !.cancelled = {}, !.airs = {}, !.hidden = {}, !.passed = {},
                            !.lapsed = @ \/ popup.owed # {}
                                         \/ \E s \in Stream : popup.request[s] # NoRequest]
  /\ UNCHANGED clicks

\* A lapse ends the behaviour.
Next ==
  /\ ~popup.lapsed
  /\ \/ Suspend \/ Changed \/ Updated \/ Disconnect
     \/ \E s \in Stream :
          \/ Open(s) \/ Close(s) \/ Vanish(s) \/ Age(s) \/ WatchAnswered(s) \/ WatchFails(s)
          \/ Retry(s) \/ Restore(s)

Spec == Init /\ [][Next]_popupVars

-----------------------------------------------------------------------------

Settled ==
  /\ ~popup.lapsed
  /\ popup.owed = {}
  /\ \A s \in Stream : popup.request[s] = NoRequest /\ popup.entry[s] # "reconnecting"

\* Once no request is under way or waits to be retried, every stream that is watched
\* has its window, unless a retry found it closed (hidden); and a window past its grace
\* shows a stream of the store, unless nothing changed since the effect passed it
\* (stream-popup-controller.ts, the effect of StreamPopupHost.tsx).
PopupsSettle ==
  Settled => \A s \in Stream :
    /\ popup.entry[s] \in {"none", "watching", "ended"}
    /\ popup.entry[s] = "watching" => popup.window[s] # "none" \/ s \in popup.hidden
    /\ popup.entry[s] = "none" /\ popup.window[s] = "old" => s \in popup.passed
=============================================================================
