--------------------------- MODULE DesktopCapture ---------------------------
(***************************************************************************)
(* Capturing a screen or the sound of an application on the desktop client:*)
(* stream-media.ts and music-media.ts in the page, the picker windows of   *)
(* electron/main.ts, and the native helper that excluded-system-audio.ts   *)
(* starts for a screen's sound and for music, one process per capture.     *)
(*                                                                         *)
(* A Flow is one call of captureScreenStream or captureDesktopMusicStream, *)
(* from its request to the stop of the stream it made.  Constraints,       *)
(* sources, formats, chunks and levels are left out.                       *)
(*                                                                         *)
(* A reload of the page leaves its helpers running, and an exit the helpers*)
(* that have not written their header: both end a behaviour (leaked).      *)
(***************************************************************************)
EXTENDS Naturals

CONSTANTS
  Flow,         \* captures under way at once
  NoFlow,
  MaxWindows,   \* bound: picker windows opened
  MaxFaults     \* bound: failures, exits of helpers, reloads and quits

VARIABLES
  cap,      \* the page, the main process and the helpers: CapRec
  faults

captureVars == <<cap, faults>>

Kind == {"screen", "music"}
Window == 1 .. MaxWindows

FlowRec == [kind: Kind,
            at: {"idle", "listing", "picking", "filming", "starting", "wiring", "streaming"},
            sound: BOOLEAN,         \* the sound is part of the capture
            video: BOOLEAN,         \* a video track is live
            context: BOOLEAN,       \* an AudioContext is open
            helper: {"none", "spawned", "running", "gone"}]

PickerRec == [by: Flow \cup {NoFlow}, window: 0 .. MaxWindows]

CapRec == [flows: [Flow -> FlowRec],
           picker: [Kind -> PickerRec],   \* activeScreenPicker, activeMusicPicker
           windows: SUBSET Window,        \* picker windows not closed yet
           opened: 0 .. MaxWindows,
           leaked: BOOLEAN]

\* Every component has its type.
TypeOK == cap \in CapRec /\ faults \in 0 .. MaxFaults

Idle == [kind |-> "screen", at |-> "idle", sound |-> FALSE, video |-> FALSE,
         context |-> FALSE, helper |-> "none"]
NoPicker == [by |-> NoFlow, window |-> 0]

Init ==
  /\ cap = [flows |-> [f \in Flow |-> Idle], picker |-> [k \in Kind |-> NoPicker],
            windows |-> {}, opened |-> 0, leaked |-> FALSE]
  /\ faults = 0

Fault == faults < MaxFaults /\ faults' = faults + 1
At(f, where) == cap.flows[f].at = where
Become(c, f, r) == [c EXCEPT !.flows[f] = r]

-----------------------------------------------------------------------------
(* The picker.                                                             *)

\* selectScreenSource, selectMusicSource.
Ask(f, k) ==
  /\ At(f, "idle")
  /\ cap' = Become(cap, f, [Idle EXCEPT !.kind = k, !.at = "listing"])
  /\ UNCHANGED faults

\* The sources are listed; a picker that is open already is brought to the front and
\* this request is answered with nothing.
ShowPicker(f) ==
  LET k == cap.flows[f].kind
  IN /\ At(f, "listing")
     /\ \/ /\ cap.picker[k] # NoPicker
           /\ cap' = Become(cap, f, Idle) /\ UNCHANGED faults
        \/ /\ cap.picker[k] = NoPicker /\ cap.opened < MaxWindows
           /\ cap' = [Become(cap, f, [cap.flows[f] EXCEPT !.at = "picking"]) EXCEPT
                        !.picker[k] = [by |-> f, window |-> cap.opened + 1],
                        !.windows = @ \cup {cap.opened + 1}, !.opened = @ + 1]
           /\ UNCHANGED faults
        \/ \* no source, no helper
           Fault /\ cap' = Become(cap, f, Idle)

\* The window's choice answers the request, then the window closes.  A screen comes
\* with its sound or without; music is the sound of a process.
Choose(f, sound) ==
  LET k == cap.flows[f].kind
  IN /\ At(f, "picking") /\ cap.picker[k].by = f
     /\ k = "music" => sound
     /\ cap' = [Become(cap, f, [cap.flows[f] EXCEPT
                                  !.at = IF k = "music" THEN "starting" ELSE "filming",
                                  !.sound = sound])
                EXCEPT !.picker[k] = NoPicker]
     /\ UNCHANGED faults

\* The window's cancel button, or a choice that cannot be stored as a preference.
CancelPick(f) ==
  LET k == cap.flows[f].kind
  IN /\ At(f, "picking") /\ cap.picker[k].by = f
     /\ cap' = [Become(cap, f, Idle) EXCEPT !.picker[k] = NoPicker]
     /\ UNCHANGED faults

\* MUTANT: a window that closes late takes the picker that is open by then with it.
WindowClosedAny(w) ==
  /\ w \in cap.windows
  /\ cap' = [cap EXCEPT
               !.windows = @ \ {w},
               !.picker = [k \in Kind |-> NoPicker],
               !.flows = [f \in Flow |-> IF \E k \in Kind : cap.picker[k] = [by |-> f, window |-> w]
                                         THEN Idle ELSE @[f]]]
  /\ UNCHANGED faults

\* A picker window is closed, by what answered it, by the user or with its owner: the
\* request that is still open on this window is answered with nothing.
WindowClosed(w) ==
  LET open == {k \in Kind : cap.picker[k].window = w}
  IN /\ w \in cap.windows
     /\ cap' = [cap EXCEPT
                  !.windows = @ \ {w},
                  !.picker = [k \in Kind |-> IF k \in open THEN NoPicker ELSE @[k]],
                  !.flows = [f \in Flow |-> IF \E k \in open : cap.picker[k].by = f
                                            THEN Idle ELSE @[f]]]
     /\ UNCHANGED faults

-----------------------------------------------------------------------------
(* The capture.                                                            *)

\* getUserMedia gives a picture; with sound the helper is next.
Filmed(f) ==
  /\ At(f, "filming")
  /\ cap' = Become(cap, f, [cap.flows[f] EXCEPT
                              !.video = TRUE,
                              !.at = IF cap.flows[f].sound THEN "starting" ELSE "streaming"])
  /\ UNCHANGED faults

NotFilmed(f) == At(f, "filming") /\ Fault /\ cap' = Become(cap, f, Idle)

\* startAudioCapture: the process, then its header, with which it is listed.
Spawn(f) ==
  /\ At(f, "starting") /\ cap.flows[f].helper = "none"
  /\ cap' = [cap EXCEPT !.flows[f].helper = "spawned"]
  /\ UNCHANGED faults

Header(f) ==
  /\ At(f, "starting") /\ cap.flows[f].helper = "spawned"
  /\ cap' = [cap EXCEPT !.flows[f].helper = "running", !.flows[f].at = "wiring",
                        !.flows[f].context = TRUE]
  /\ UNCHANGED faults

\* stopSession: a listed helper is killed.
Killed(r) == [r EXCEPT !.helper = IF @ = "running" THEN "none" ELSE @]

\* What a capture gives up when its sound fails: the picture is stopped.
Abandoned(r) == [r EXCEPT !.at = "idle", !.sound = FALSE, !.video = FALSE, !.context = FALSE,
                          !.kind = "screen",
                          !.helper = IF @ = "gone" THEN "none" ELSE @]

\* No helper, a helper that exits or writes a header that is none: it is killed.
StartFails(f) ==
  /\ At(f, "starting") /\ Fault
  /\ cap' = Become(cap, f, [Abandoned(cap.flows[f]) EXCEPT !.helper = "none"])

Wired(f) ==
  /\ At(f, "wiring")
  /\ cap' = [cap EXCEPT !.flows[f].at = "streaming"]
  /\ UNCHANGED faults

\* The audio graph cannot be built: the helper is stopped and the error passed on.
WiringFails(f) ==
  /\ At(f, "wiring") /\ Fault
  /\ cap' = Become(cap, f, Abandoned(Killed(cap.flows[f])))

\* Nothing in the page listens to the helper's end.
HelperExits(f) ==
  /\ cap.flows[f].helper = "running" /\ Fault
  /\ cap' = [cap EXCEPT !.flows[f].helper = "gone"]

\* The tracks are stopped; the patched stop of the sound stops helper and context.
Stop(f) ==
  /\ At(f, "streaming")
  /\ cap' = Become(cap, f, Abandoned(IF cap.flows[f].sound THEN Killed(cap.flows[f])
                                     ELSE cap.flows[f]))
  /\ UNCHANGED faults

\* The page is gone without stopping a track; a picker stays open and answers nobody.
Reload ==
  /\ Fault
  /\ cap' = [cap EXCEPT
               !.flows = [f \in Flow |-> Idle],
               !.picker = [k \in Kind |-> [@[k] EXCEPT !.by = NoFlow]],
               !.leaked = \E f \in Flow : cap.flows[f].helper \in {"spawned", "running"}]

\* window-all-closed, before-quit: the listed helpers are stopped.
Quit ==
  /\ Fault
  /\ cap' = [cap EXCEPT
               !.flows = [f \in Flow |-> Idle], !.picker = [k \in Kind |-> NoPicker],
               !.windows = {},
               !.leaked = \E f \in Flow : Killed(cap.flows[f]).helper = "spawned"]

Next ==
  /\ ~cap.leaked
  /\ \/ \E f \in Flow :
          \/ \E k \in Kind : Ask(f, k)
          \/ \E b \in BOOLEAN : Choose(f, b)
          \/ ShowPicker(f) \/ CancelPick(f) \/ Filmed(f) \/ NotFilmed(f)
          \/ Spawn(f) \/ Header(f) \/ StartFails(f) \/ Wired(f) \/ WiringFails(f)
          \/ HelperExits(f) \/ Stop(f)
     \/ \E w \in Window : WindowClosed(w)
     \/ Reload \/ Quit

Spec == Init /\ [][Next]_captureVars

-----------------------------------------------------------------------------
\* Whichever step of a capture fails, and whichever windows close in between: a request
\* that waits for a choice has a window that can answer it, a capture that is over has
\* left no picture, no audio graph and no helper process, and one that is on shows what
\* was chosen.
CaptureEndsClean ==
  ~cap.leaked => \A f \in Flow : LET r == cap.flows[f]
    IN /\ r.at = "picking" => /\ cap.picker[r.kind].by = f
                              /\ cap.picker[r.kind].window \in cap.windows
       /\ r.at = "idle" => ~r.video /\ ~r.context /\ r.helper = "none"
       /\ r.at = "streaming" => /\ r.video = (r.kind = "screen")
                                /\ r.context = r.sound
                                /\ r.sound = (r.helper \in {"running", "gone"})
       /\ r.helper = "spawned" => r.at = "starting"
=============================================================================
