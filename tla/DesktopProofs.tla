--------------------------- MODULE DesktopProofs ---------------------------
(***************************************************************************)
(* What holds of the desktop client and of Baker Lite for every value of   *)
(* the constants: the server the desktop shows, the sessions it keeps and  *)
(* the captures it makes, and the sessions and sockets of Lite.            *)
(***************************************************************************)
EXTENDS ClientParts, Sequences, TLAPS

-----------------------------------------------------------------------------
(* The desktop's captures.                                                 *)

\* What a capture holds at each of its places.
CaptureOwns(r) ==
  /\ r.at \in {"idle", "listing", "picking", "filming"} => ~r.video /\ ~r.context /\ r.helper = "none"
  /\ r.at = "filming" => r.kind = "screen"
  /\ r.at \in {"starting", "wiring"} => r.sound
  /\ r.at \in {"starting", "wiring", "streaming"} => (r.video <=> r.kind = "screen")
  /\ r.at = "starting" => ~r.context /\ r.helper \in {"none", "spawned"}
  /\ r.at \in {"wiring", "streaming"} => (r.context <=> r.sound)
  /\ r.at \in {"wiring", "streaming"} => IF r.sound THEN r.helper \in {"running", "gone"} ELSE r.helper = "none"

\* A request that waits for a choice and the picker that is open for it know each other.
PickersAnswer(c) ==
  /\ \A f \in StoreFlow : c.flows[f].at = "picking" => c.picker[c.flows[f].kind].by = f
  /\ \A k \in C!Kind, f \in StoreFlow : c.picker[k].by = f =>
       c.flows[f].at = "picking" /\ c.flows[f].kind = k /\ c.picker[k].window \in c.windows

CaptureInv(c) ==
  /\ c \in C!CapRec
  /\ \A f \in StoreFlow : CaptureOwns(c.flows[f])
  /\ PickersAnswer(c)

LEMMA CaptureTypes ==
  ASSUME NEW c \in C!CapRec
  PROVE  /\ c.flows \in [StoreFlow -> C!FlowRec] /\ c.picker \in [C!Kind -> C!PickerRec]
         /\ c.windows \subseteq C!Window /\ c.opened \in 0..MaxWindows /\ c.leaked \in BOOLEAN
         /\ \A f \in StoreFlow : c.flows[f] \in C!FlowRec /\ c.flows[f].kind \in C!Kind
         /\ \A k \in C!Kind : c.picker[k] \in C!PickerRec
  BY DEF C!CapRec, C!FlowRec

\* What a flow owns is enough for what is promised of it.
LEMMA OwnedIsClean ==
  ASSUME NEW c, CaptureInv(c), NEW f \in StoreFlow
  PROVE  LET r == c.flows[f]
         IN /\ r.at = "picking" => /\ c.picker[r.kind].by = f
                                   /\ c.picker[r.kind].window \in c.windows
            /\ r.at = "idle" => ~r.video /\ ~r.context /\ r.helper = "none"
            /\ r.at = "streaming" => /\ r.video = (r.kind = "screen")
                                     /\ r.context = r.sound
                                     /\ r.sound = (r.helper \in {"running", "gone"})
            /\ r.helper = "spawned" => r.at = "starting"
  <1> DEFINE r == c.flows[f]
  <1>1. c \in C!CapRec /\ r \in C!FlowRec /\ r.kind \in C!Kind
    BY CaptureTypes DEF CaptureInv
  <1>2. r.at = "picking" => c.picker[r.kind].by = f /\ c.picker[r.kind].window \in c.windows
    BY <1>1 DEF CaptureInv, PickersAnswer
  <1>3. CaptureOwns(r)
    BY DEF CaptureInv
  <1>4. /\ r.at \in {"idle", "listing", "picking", "filming", "starting", "wiring", "streaming"}
        /\ r.video \in BOOLEAN /\ r.context \in BOOLEAN /\ r.sound \in BOOLEAN
    BY <1>1 DEF C!FlowRec
  <1> HIDE DEF r
  <1>5. r.at = "idle" => ~r.video /\ ~r.context /\ r.helper = "none"
    BY <1>3 DEF CaptureOwns
  <1>6. r.at = "streaming" => /\ r.video <=> r.kind = "screen"
                              /\ r.context <=> r.sound
                              /\ r.sound <=> r.helper \in {"running", "gone"}
    BY <1>3 DEF CaptureOwns
  <1>7. r.at = "streaming" => /\ r.video = (r.kind = "screen")
                              /\ r.context = r.sound
                              /\ r.sound = (r.helper \in {"running", "gone"})
    BY <1>4, <1>6
  <1>8. r.helper = "spawned" => r.at = "starting"
    BY <1>3, <1>4 DEF CaptureOwns
  <1> QED BY <1>2, <1>5, <1>7, <1>8 DEF r

\* One flow goes on and neither waits for a choice before nor after.
LEMMA FlowGoesOn ==
  ASSUME NEW c, CaptureInv(c), NEW u \in C!CapRec, NEW f \in StoreFlow, NEW r,
         u.flows = [c.flows EXCEPT ![f] = r], u.picker = c.picker, u.windows = c.windows,
         CaptureOwns(r), c.flows[f].at # "picking", r.at # "picking"
  PROVE  CaptureInv(u)
  BY CaptureTypes DEF CaptureInv, PickersAnswer

\* A request is answered: its picker is no longer open for it.
LEMMA RequestIsAnswered ==
  ASSUME NEW c, CaptureInv(c), NEW u \in C!CapRec, NEW f \in StoreFlow, NEW r,
         c.flows[f].at = "picking",
         u.flows = [c.flows EXCEPT ![f] = r],
         u.picker = [c.picker EXCEPT ![c.flows[f].kind] = C!NoPicker], u.windows = c.windows,
         CaptureOwns(r), r.at # "picking"
  PROVE  CaptureInv(u)
  <1>1. c \in C!CapRec
    BY DEF CaptureInv
  <1>2. u.flows[f] = r /\ \A g \in StoreFlow \ {f} : u.flows[g] = c.flows[g]
    BY <1>1, CaptureTypes
  <1>3. \A g \in StoreFlow : CaptureOwns(u.flows[g])
    BY <1>2 DEF CaptureInv
  <1> DEFINE k == c.flows[f].kind
  <1>4. /\ k \in C!Kind /\ u.picker[k].by = NoDesk
        /\ \A j \in C!Kind \ {k} : u.picker[j] = c.picker[j]
    BY <1>1, CaptureTypes DEF C!NoPicker
  <1>5. NoDesk \notin StoreFlow
    BY ClientAssumption DEF DeskAssumption
  <1>6. c.picker[k].by = f
    BY DEF CaptureInv, PickersAnswer
  <1> HIDE DEF k
  <1>7. \A j \in C!Kind, g \in StoreFlow : u.picker[j].by = g => j # k /\ g # f /\ c.picker[j].by = g
    <2> SUFFICES ASSUME NEW j \in C!Kind, NEW g \in StoreFlow, u.picker[j].by = g
                 PROVE  j # k /\ g # f /\ c.picker[j].by = g
      OBVIOUS
    <2>1. j # k
      BY <1>4, <1>5
    <2>2. c.picker[j].by = g
      BY <2>1, <1>4
    <2>3. g = f => c.flows[f].kind = j
      BY <2>2 DEF CaptureInv, PickersAnswer
    <2> QED BY <2>1, <2>2, <2>3 DEF k
  <1>8. \A g \in StoreFlow : u.flows[g].at = "picking" => g # f /\ u.picker[u.flows[g].kind].by = g
    <2> SUFFICES ASSUME NEW g \in StoreFlow, u.flows[g].at = "picking"
                 PROVE  g # f /\ u.picker[u.flows[g].kind].by = g
      OBVIOUS
    <2>1. g # f /\ c.flows[g].at = "picking" /\ u.flows[g].kind = c.flows[g].kind
      BY <1>2
    <2>2. c.picker[c.flows[g].kind].by = g /\ c.flows[g].kind \in C!Kind
      BY <2>1, <1>1, CaptureTypes DEF CaptureInv, PickersAnswer
    <2>3. c.flows[g].kind # k
      BY <2>1, <2>2, <1>6
    <2> QED BY <2>1, <2>2, <2>3, <1>4
  <1>9. PickersAnswer(u)
    BY <1>2, <1>7, <1>8 DEF CaptureInv, PickersAnswer
  <1> QED BY <1>3, <1>9 DEF CaptureInv

\* What the flow of a step may become.
LEMMA IdleIsOwned == C!Idle \in C!FlowRec /\ CaptureOwns(C!Idle) /\ C!Idle.at = "idle"
  BY DEF C!Idle, C!FlowRec, C!Kind, CaptureOwns

\* The record of a flow that steps is taken as a whole.
LEMMA FlowBecomes ==
  ASSUME NEW c \in C!CapRec, NEW f \in StoreFlow, NEW r \in C!FlowRec
  PROVE  LET u == C!Become(c, f, r)
         IN /\ u \in C!CapRec /\ u.flows = [c.flows EXCEPT ![f] = r]
            /\ u.picker = c.picker /\ u.windows = c.windows /\ u.opened = c.opened /\ u.leaked = c.leaked
  BY CaptureTypes DEF C!Become, C!CapRec

LEMMA BecomesAndGoesOn ==
  ASSUME NEW c, CaptureInv(c), NEW f \in StoreFlow, NEW r \in C!FlowRec,
         CaptureOwns(r), c.flows[f].at # "picking", r.at # "picking"
  PROVE  CaptureInv(C!Become(c, f, r))
  <1> DEFINE u == C!Become(c, f, r)
  <1>1. c \in C!CapRec
    BY DEF CaptureInv
  <1>2. /\ u \in C!CapRec /\ u.flows = [c.flows EXCEPT ![f] = r]
        /\ u.picker = c.picker /\ u.windows = c.windows
    BY <1>1, FlowBecomes
  <1> HIDE DEF u
  <1>3. CaptureInv(u)
    BY <1>2, FlowGoesOn
  <1> QED BY <1>3 DEF u

LEMMA EachFlow ==
  ASSUME NEW c, CaptureInv(c), NEW f \in StoreFlow
  PROVE  /\ c \in C!CapRec /\ c.flows[f] \in C!FlowRec /\ CaptureOwns(c.flows[f]) /\ c.flows[f].kind \in C!Kind
         /\ c.flows[f].at \in {"idle", "listing", "picking", "filming", "starting", "wiring", "streaming"}
         /\ c.flows[f].sound \in BOOLEAN /\ c.flows[f].video \in BOOLEAN /\ c.flows[f].context \in BOOLEAN
         /\ c.flows[f].helper \in {"none", "spawned", "running", "gone"}
  BY CaptureTypes DEF CaptureInv, C!FlowRec

\* An abandoned flow that has no helper left is over.
LEMMA AbandonedIsIdle ==
  ASSUME NEW r \in C!FlowRec
  PROVE  LET a == C!Abandoned(r)
         IN /\ a \in C!FlowRec /\ a.at = "idle" /\ ~a.video /\ ~a.context
            /\ r.helper \in {"none", "gone"} => a.helper = "none"
  BY DEF C!Abandoned, C!FlowRec, C!Kind

LEMMA KilledIsNotRunning ==
  ASSUME NEW r \in C!FlowRec
  PROVE  LET a == C!Killed(r)
         IN a \in C!FlowRec /\ (r.helper # "spawned" => a.helper \in {"none", "gone"})
  BY DEF C!Killed, C!FlowRec, C!Kind

\* The steps of the capture, one flow each.
LEMMA CaptureSteps ==
  ASSUME CaptureInv(cap), NEW f \in StoreFlow,
         \/ \E k \in C!Kind : C!Ask(f, k)
         \/ C!Filmed(f) \/ C!NotFilmed(f) \/ C!Spawn(f) \/ C!Header(f) \/ C!StartFails(f)
         \/ C!Wired(f) \/ C!WiringFails(f) \/ C!HelperExits(f) \/ C!Stop(f)
  PROVE  CaptureInv(cap')
  <1> DEFINE w == cap.flows[f]
  <1>1. /\ cap \in C!CapRec /\ w \in C!FlowRec /\ CaptureOwns(w) /\ w.kind \in C!Kind
        /\ w.at \in {"idle", "listing", "picking", "filming", "starting", "wiring", "streaming"}
        /\ w.sound \in BOOLEAN /\ w.video \in BOOLEAN /\ w.context \in BOOLEAN
        /\ w.helper \in {"none", "spawned", "running", "gone"}
    BY EachFlow
  \* A step that gives the flow the record r, and is none of the picker's.
  <1>2. ASSUME NEW r \in C!FlowRec, cap' = C!Become(cap, f, r), CaptureOwns(r),
               w.at # "picking", r.at # "picking"
        PROVE  CaptureInv(cap')
    BY <1>2, BecomesAndGoesOn
  <1>3. ASSUME NEW r \in C!FlowRec, cap' \in C!CapRec, cap'.flows = [cap.flows EXCEPT ![f] = r],
               cap'.picker = cap.picker, cap'.windows = cap.windows, CaptureOwns(r),
               w.at # "picking", r.at # "picking"
        PROVE  CaptureInv(cap')
    BY <1>3, FlowGoesOn
  <1>4. ASSUME NEW k \in C!Kind, C!Ask(f, k) PROVE CaptureInv(cap')
    <2> DEFINE r == [C!Idle EXCEPT !.kind = k, !.at = "listing"]
    <2>1. r \in C!FlowRec /\ CaptureOwns(r) /\ r.at # "picking"
      BY DEF C!Idle, C!FlowRec, C!Kind, CaptureOwns
    <2>2. cap' = C!Become(cap, f, r) /\ w.at # "picking"
      BY <1>4 DEF C!Ask, C!At
    <2> QED BY <1>2, <2>1, <2>2
  <1>5. CASE C!Filmed(f)
    <2> DEFINE r == [w EXCEPT !.video = TRUE, !.at = IF w.sound THEN "starting" ELSE "streaming"]
    <2>1. w.at = "filming" /\ cap' = C!Become(cap, f, r)
      BY <1>5 DEF C!Filmed, C!At
    <2>2. /\ r \in C!FlowRec /\ r.video /\ r.at = (IF w.sound THEN "starting" ELSE "streaming")
          /\ r.sound = w.sound /\ r.kind = w.kind /\ r.context = w.context /\ r.helper = w.helper
      BY <1>1 DEF C!FlowRec
    <2> HIDE DEF w, r
    <2>3. CaptureOwns(r) /\ r.at # "picking"
      BY <1>1, <2>1, <2>2 DEF CaptureOwns
    <2> QED BY <1>2, <2>1, <2>2, <2>3
  <1>6. CASE C!NotFilmed(f)
    BY <1>2, <1>6, IdleIsOwned DEF C!NotFilmed, C!At
  <1>7. CASE C!Spawn(f)
    <2> DEFINE r == [w EXCEPT !.helper = "spawned"]
    <2>1. w.at = "starting" /\ cap' = [cap EXCEPT !.flows[f].helper = "spawned"]
      BY <1>7 DEF C!Spawn, C!At
    <2>2. r \in C!FlowRec /\ r.at = w.at /\ r.video = w.video /\ r.sound = w.sound
          /\ r.kind = w.kind /\ r.context = w.context /\ r.helper = "spawned"
      BY <1>1 DEF C!FlowRec
    <2>3. cap' = C!Become(cap, f, r)
      BY <2>1, <1>1, CaptureTypes DEF C!Become, C!CapRec
    <2> HIDE DEF w, r
    <2>4. CaptureOwns(r) /\ r.at # "picking"
      BY <1>1, <2>1, <2>2 DEF CaptureOwns
    <2> QED BY <1>2, <2>1, <2>2, <2>3, <2>4
  <1>8. CASE C!Header(f)
    <2> DEFINE r == [w EXCEPT !.helper = "running", !.at = "wiring", !.context = TRUE]
    <2>1. w.at = "starting" /\ cap' = [cap EXCEPT !.flows[f].helper = "running", !.flows[f].at = "wiring",
                                                  !.flows[f].context = TRUE]
      BY <1>8 DEF C!Header, C!At
    <2>2. r \in C!FlowRec /\ r.at = "wiring" /\ r.video = w.video /\ r.sound = w.sound
          /\ r.kind = w.kind /\ r.context /\ r.helper = "running"
      BY <1>1 DEF C!FlowRec
    <2>3. cap' = C!Become(cap, f, r)
      BY <2>1, <1>1, CaptureTypes DEF C!Become, C!CapRec
    <2> HIDE DEF w, r
    <2>4. CaptureOwns(r) /\ r.at # "picking"
      BY <1>1, <2>1, <2>2 DEF CaptureOwns
    <2> QED BY <1>2, <2>1, <2>2, <2>3, <2>4
  <1>9. CASE C!StartFails(f)
    <2> DEFINE a == C!Abandoned(w)
               r == [a EXCEPT !.helper = "none"]
    <2>1. w.at = "starting" /\ cap' = C!Become(cap, f, r)
      BY <1>9 DEF C!StartFails, C!At
    <2>2. a \in C!FlowRec /\ a.at = "idle" /\ ~a.video /\ ~a.context
      BY <1>1, AbandonedIsIdle
    <2> HIDE DEF a
    <2>3. r \in C!FlowRec /\ r.at = "idle" /\ ~r.video /\ ~r.context /\ r.helper = "none"
      BY <2>2 DEF C!FlowRec
    <2> HIDE DEF r
    <2>4. CaptureOwns(r) /\ r.at # "picking"
      BY <2>3 DEF CaptureOwns
    <2> QED BY <1>2, <2>1, <2>3, <2>4
  <1>10. CASE C!Wired(f)
    <2> DEFINE r == [w EXCEPT !.at = "streaming"]
    <2>1. w.at = "wiring" /\ cap' = [cap EXCEPT !.flows[f].at = "streaming"]
      BY <1>10 DEF C!Wired, C!At
    <2>2. r \in C!FlowRec /\ r.at = "streaming" /\ r.video = w.video /\ r.sound = w.sound
          /\ r.kind = w.kind /\ r.context = w.context /\ r.helper = w.helper
      BY <1>1 DEF C!FlowRec
    <2>3. cap' = C!Become(cap, f, r)
      BY <2>1, <1>1, CaptureTypes DEF C!Become, C!CapRec
    <2> HIDE DEF w, r
    <2>4. CaptureOwns(r) /\ r.at # "picking"
      BY <1>1, <2>1, <2>2 DEF CaptureOwns
    <2> QED BY <1>2, <2>1, <2>2, <2>3, <2>4
  <1>11. CASE C!WiringFails(f)
    <2> DEFINE a == C!Killed(w)
               r == C!Abandoned(a)
    <2>1. w.at = "wiring" /\ cap' = C!Become(cap, f, r)
      BY <1>11 DEF C!WiringFails, C!At
    <2>2. w.helper # "spawned"
      BY <1>1, <2>1 DEF CaptureOwns
    <2>3. a \in C!FlowRec /\ a.helper \in {"none", "gone"}
      BY <1>1, <2>2, KilledIsNotRunning
    <2> HIDE DEF a
    <2>4. r \in C!FlowRec /\ r.at = "idle" /\ ~r.video /\ ~r.context /\ r.helper = "none"
      BY <2>3, AbandonedIsIdle
    <2> HIDE DEF r
    <2>5. CaptureOwns(r) /\ r.at # "picking"
      BY <2>4 DEF CaptureOwns
    <2> QED BY <1>2, <2>1, <2>4, <2>5
  <1>12. CASE C!HelperExits(f)
    <2> DEFINE r == [w EXCEPT !.helper = "gone"]
    <2>1. w.helper = "running" /\ cap' = [cap EXCEPT !.flows[f].helper = "gone"]
      BY <1>12 DEF C!HelperExits
    <2>2. r \in C!FlowRec /\ r.at = w.at /\ r.video = w.video /\ r.sound = w.sound
          /\ r.kind = w.kind /\ r.context = w.context /\ r.helper = "gone"
      BY <1>1 DEF C!FlowRec
    <2>3. cap' = C!Become(cap, f, r)
      BY <2>1, <1>1, CaptureTypes DEF C!Become, C!CapRec
    <2> HIDE DEF w, r
    <2>4. CaptureOwns(r) /\ r.at # "picking" /\ w.at # "picking"
      BY <1>1, <2>1, <2>2 DEF CaptureOwns
    <2> QED BY <1>2, <2>2, <2>3, <2>4
  <1>13. CASE C!Stop(f)
    <2> DEFINE a == IF w.sound THEN C!Killed(w) ELSE w
               r == C!Abandoned(a)
    <2>1. w.at = "streaming" /\ cap' = C!Become(cap, f, r)
      BY <1>13 DEF C!Stop, C!At
    <2>2. IF w.sound THEN w.helper # "spawned" ELSE w.helper = "none"
      BY <1>1, <2>1 DEF CaptureOwns
    <2>3. a \in C!FlowRec /\ a.helper \in {"none", "gone"}
      BY <1>1, <2>2, KilledIsNotRunning
    <2> HIDE DEF a
    <2>4. r \in C!FlowRec /\ r.at = "idle" /\ ~r.video /\ ~r.context /\ r.helper = "none"
      BY <2>3, AbandonedIsIdle
    <2> HIDE DEF r
    <2>5. CaptureOwns(r) /\ r.at # "picking"
      BY <2>4 DEF CaptureOwns
    <2> QED BY <1>2, <2>1, <2>4, <2>5
  <1> QED BY <1>4, <1>5, <1>6, <1>7, <1>8, <1>9, <1>10, <1>11, <1>12, <1>13

\* The steps of the picker.
LEMMA PickerSteps ==
  ASSUME CaptureInv(cap), NEW f \in StoreFlow,
         C!ShowPicker(f) \/ C!CancelPick(f) \/ \E b \in BOOLEAN : C!Choose(f, b)
  PROVE  CaptureInv(cap')
  <1> DEFINE w == cap.flows[f]
             k == w.kind
  <1>1. /\ cap \in C!CapRec /\ w \in C!FlowRec /\ CaptureOwns(w) /\ k \in C!Kind
        /\ w.at \in {"idle", "listing", "picking", "filming", "starting", "wiring", "streaming"}
        /\ w.sound \in BOOLEAN /\ w.video \in BOOLEAN /\ w.context \in BOOLEAN
        /\ w.helper \in {"none", "spawned", "running", "gone"}
    BY EachFlow
  <1>2. C!Idle \in C!FlowRec /\ CaptureOwns(C!Idle) /\ C!Idle.at # "picking"
    BY IdleIsOwned
  <1>3. NoDesk \notin StoreFlow /\ MaxWindows \in Nat
    BY ClientAssumption DEF DeskAssumption
  <1>4. CASE C!ShowPicker(f)
    <2>1. w.at = "listing"
      BY <1>4 DEF C!ShowPicker, C!At
    <2>2. CASE cap' = C!Become(cap, f, C!Idle)
      BY <1>2, <2>1, <2>2, BecomesAndGoesOn
    <2>3. CASE /\ cap.opened < MaxWindows /\ cap.picker[k] = C!NoPicker
               /\ cap' = [C!Become(cap, f, [w EXCEPT !.at = "picking"]) EXCEPT
                            !.picker[k] = [by |-> f, window |-> cap.opened + 1],
                            !.windows = @ \cup {cap.opened + 1}, !.opened = @ + 1]
      <3> DEFINE r == [w EXCEPT !.at = "picking"]
                 n == cap.opened + 1
                 p == [by |-> f, window |-> n]
                 u == C!Become(cap, f, r)
      <3>1. /\ r \in C!FlowRec /\ r.at = "picking" /\ r.kind = w.kind /\ r.video = w.video
            /\ r.context = w.context /\ r.helper = w.helper
        BY <1>1 DEF C!FlowRec
      <3>2. CaptureOwns(r)
        BY <1>1, <2>1, <3>1 DEF CaptureOwns
      <3>3. cap.opened \in 0..MaxWindows /\ n \in C!Window /\ n \in 0..MaxWindows
        BY <1>1, <1>3, <2>3, CaptureTypes DEF C!Window
      <3>4. p \in C!PickerRec /\ p.by = f /\ p.window = n
        BY <3>3 DEF C!PickerRec
      <3> HIDE DEF r, n, p
      <3>5. /\ u \in C!CapRec /\ u.flows = [cap.flows EXCEPT ![f] = r]
            /\ u.picker = cap.picker /\ u.windows = cap.windows /\ u.opened = cap.opened
        BY <1>1, <3>1, FlowBecomes
      <3> HIDE DEF u
      <3>6. cap' = [u EXCEPT !.picker[k] = p, !.windows = @ \cup {n}, !.opened = n]
        BY <2>3, <3>5 DEF u, r, n, p, C!CapRec
      <3>7. /\ cap'.flows = [cap.flows EXCEPT ![f] = r] /\ cap'.picker = [cap.picker EXCEPT ![k] = p]
            /\ cap'.windows = cap.windows \cup {n} /\ cap' \in C!CapRec
        BY <1>1, <3>3, <3>4, <3>5, <3>6 DEF C!CapRec
      <3>8. cap'.flows[f] = r /\ \A g \in StoreFlow \ {f} : cap'.flows[g] = cap.flows[g]
        BY <1>1, <3>7, CaptureTypes
      <3>9. cap'.picker[k] = p /\ \A j \in C!Kind \ {k} : cap'.picker[j] = cap.picker[j]
        BY <1>1, <3>7, CaptureTypes
      <3>10. cap.picker[k].by = NoDesk
        BY <2>3 DEF C!NoPicker
      <3>11. \A g \in StoreFlow : CaptureOwns(cap'.flows[g])
        BY <3>2, <3>8 DEF CaptureInv
      <3> HIDE DEF w, k
      <3>12. \A g \in StoreFlow : cap'.flows[g].at = "picking" => cap'.picker[cap'.flows[g].kind].by = g
        <4> SUFFICES ASSUME NEW g \in StoreFlow, cap'.flows[g].at = "picking"
                     PROVE  cap'.picker[cap'.flows[g].kind].by = g
          OBVIOUS
        <4>1. CASE g = f
          BY <4>1, <3>1, <3>4, <3>8, <3>9 DEF k
        <4>2. CASE g # f
          <5>1. cap.flows[g].at = "picking" /\ cap'.flows[g].kind = cap.flows[g].kind
            BY <4>2, <3>8
          <5>2. cap.picker[cap.flows[g].kind].by = g /\ cap.flows[g].kind \in C!Kind
            BY <5>1, EachFlow DEF CaptureInv, PickersAnswer
          <5>3. cap.flows[g].kind # k
            BY <5>2, <3>10, <1>3
          <5> QED BY <5>1, <5>2, <5>3, <3>9
        <4> QED BY <4>1, <4>2
      <3>13. ASSUME NEW j \in C!Kind, NEW g \in StoreFlow, cap'.picker[j].by = g
             PROVE  cap'.flows[g].at = "picking" /\ cap'.flows[g].kind = j /\ cap'.picker[j].window \in cap'.windows
        BY <3>1, <3>4, <3>7, <3>8, <3>9, <3>13, <2>1 DEF k, CaptureInv, PickersAnswer, w
      <3> QED BY <3>7, <3>11, <3>12, <3>13 DEF CaptureInv, PickersAnswer
    <2> QED BY <1>4, <2>2, <2>3 DEF C!ShowPicker
  <1>5. ASSUME NEW r \in C!FlowRec, w.at = "picking", CaptureOwns(r), r.at # "picking",
               cap' = [C!Become(cap, f, r) EXCEPT !.picker[k] = C!NoPicker]
        PROVE  CaptureInv(cap')
    <2> DEFINE u == C!Become(cap, f, r)
    <2>1. /\ u \in C!CapRec /\ u.flows = [cap.flows EXCEPT ![f] = r]
          /\ u.picker = cap.picker /\ u.windows = cap.windows
      BY <1>1, FlowBecomes
    <2>2. C!NoPicker \in C!PickerRec
      BY <1>3 DEF C!NoPicker, C!PickerRec
    <2> HIDE DEF u
    <2>3. cap' = [u EXCEPT !.picker[k] = C!NoPicker]
      BY <1>5 DEF u
    <2>4. /\ cap' \in C!CapRec /\ cap'.flows = [cap.flows EXCEPT ![f] = r]
          /\ cap'.picker = [cap.picker EXCEPT ![k] = C!NoPicker] /\ cap'.windows = cap.windows
      BY <1>1, <2>1, <2>2, <2>3 DEF C!CapRec
    <2> QED BY <1>5, <2>4, RequestIsAnswered, ZenonT(30)
  <1>6. CASE C!CancelPick(f)
    BY <1>2, <1>5, <1>6 DEF C!CancelPick, C!At
  <1>7. ASSUME NEW b \in BOOLEAN, C!Choose(f, b)
        PROVE  CaptureInv(cap')
    <2> DEFINE next == IF k = "music" THEN "starting" ELSE "filming"
               r == [w EXCEPT !.at = next, !.sound = b]
    <2>1. w.at = "picking" /\ (k = "music" => b) /\ cap' = [C!Become(cap, f, r) EXCEPT !.picker[k] = C!NoPicker]
      BY <1>7 DEF C!Choose, C!At
    <2>2. /\ r \in C!FlowRec /\ r.at = next /\ r.kind = w.kind /\ r.video = w.video
          /\ r.context = w.context /\ r.helper = w.helper /\ r.sound = b
      BY <1>1, <1>7 DEF C!FlowRec
    <2>3. k \in {"screen", "music"}
      BY <1>1 DEF C!Kind
    <2> HIDE DEF w, r
    <2>4. CaptureOwns(r) /\ r.at # "picking"
      BY <1>1, <2>1, <2>2, <2>3 DEF CaptureOwns
    <2> QED BY <1>5, <2>1, <2>2, <2>4
  <1> QED BY <1>4, <1>6, <1>7

\* A window closes, the page is reloaded, the program is quit.
LEMMA WindowSteps ==
  ASSUME CaptureInv(cap), C!Reload \/ C!Quit \/ \E w \in C!Window : C!WindowClosed(w)
  PROVE  CaptureInv(cap')
  <1>1. cap \in C!CapRec
    BY DEF CaptureInv
  <1>2. /\ cap.flows \in [StoreFlow -> C!FlowRec] /\ cap.picker \in [C!Kind -> C!PickerRec]
        /\ cap.windows \subseteq C!Window
        /\ \A f \in StoreFlow : cap.flows[f] \in C!FlowRec /\ cap.flows[f].kind \in C!Kind
        /\ \A k \in C!Kind : cap.picker[k] \in C!PickerRec
    BY <1>1, CaptureTypes
  <1>3. NoDesk \notin StoreFlow /\ MaxWindows \in Nat
    BY ClientAssumption DEF DeskAssumption
  <1>4. C!Idle \in C!FlowRec /\ CaptureOwns(C!Idle) /\ C!Idle.at = "idle"
    BY IdleIsOwned
  <1>5. C!NoPicker \in C!PickerRec /\ C!NoPicker.by = NoDesk
    BY <1>3 DEF C!NoPicker, C!PickerRec
  <1>6. ASSUME NEW F \in [StoreFlow -> C!FlowRec], NEW P \in [C!Kind -> C!PickerRec],
               NEW W \in SUBSET C!Window, NEW x \in BOOLEAN,
               cap' = [cap EXCEPT !.flows = F, !.picker = P, !.windows = W, !.leaked = x]
        PROVE  cap' \in C!CapRec /\ cap'.flows = F /\ cap'.picker = P /\ cap'.windows = W
    BY <1>1, <1>6 DEF C!CapRec
  <1>7. CASE C!Reload
    <2> DEFINE F == [f \in StoreFlow |-> C!Idle]
               P == [k \in C!Kind |-> [cap.picker[k] EXCEPT !.by = NoDesk]]
               x == \E f \in StoreFlow : cap.flows[f].helper \in {"spawned", "running"}
    <2>1. F \in [StoreFlow -> C!FlowRec] /\ \A f \in StoreFlow : F[f] = C!Idle
      BY <1>4
    <2>2. \A k \in C!Kind : /\ [cap.picker[k] EXCEPT !.by = NoDesk] \in C!PickerRec
                            /\ [cap.picker[k] EXCEPT !.by = NoDesk].by = NoDesk
      BY <1>2 DEF C!PickerRec
    <2>3. P \in [C!Kind -> C!PickerRec] /\ \A k \in C!Kind : P[k].by = NoDesk
      BY <2>2
    <2>4. cap' = [cap EXCEPT !.flows = F, !.picker = P, !.leaked = x] /\ x \in BOOLEAN
      BY <1>1, <1>7 DEF C!Reload, C!CapRec
    <2> HIDE DEF F, P, x
    <2>5. cap' \in C!CapRec /\ cap'.flows = F /\ cap'.picker = P
      BY <1>1, <2>1, <2>3, <2>4 DEF C!CapRec
    <2> QED BY <1>3, <1>4, <2>1, <2>3, <2>5 DEF CaptureInv, PickersAnswer
  <1>8. CASE C!Quit
    <2> DEFINE F == [f \in StoreFlow |-> C!Idle]
               P == [k \in C!Kind |-> C!NoPicker]
               x == \E f \in StoreFlow : C!Killed(cap.flows[f]).helper = "spawned"
    <2>1. F \in [StoreFlow -> C!FlowRec] /\ \A f \in StoreFlow : F[f] = C!Idle
      BY <1>4
    <2>2. P \in [C!Kind -> C!PickerRec] /\ \A k \in C!Kind : P[k].by = NoDesk
      BY <1>5
    <2>3. cap' = [cap EXCEPT !.flows = F, !.picker = P, !.windows = {}, !.leaked = x] /\ x \in BOOLEAN
      BY <1>8 DEF C!Quit
    <2> HIDE DEF F, P, x
    <2>4. cap' \in C!CapRec /\ cap'.flows = F /\ cap'.picker = P
      BY <1>6, <2>1, <2>2, <2>3
    <2> QED BY <1>3, <1>4, <2>1, <2>2, <2>4 DEF CaptureInv, PickersAnswer
  <1>9. ASSUME NEW w \in C!Window, C!WindowClosed(w)
        PROVE  CaptureInv(cap')
    <2> DEFINE open == {k \in C!Kind : cap.picker[k].window = w}
               P == [k \in C!Kind |-> IF k \in open THEN C!NoPicker ELSE cap.picker[k]]
               F == [f \in StoreFlow |-> IF \E k \in open : cap.picker[k].by = f THEN C!Idle ELSE cap.flows[f]]
               W == cap.windows \ {w}
    <2>1. F \in [StoreFlow -> C!FlowRec] /\ P \in [C!Kind -> C!PickerRec] /\ W \in SUBSET C!Window
      BY <1>2, <1>4, <1>5
    <2>2. cap' = [cap EXCEPT !.windows = W, !.picker = P, !.flows = F]
      BY <1>1, <1>2, <1>9 DEF C!WindowClosed, C!CapRec
    <2>3. \A f \in StoreFlow : \/ F[f] = C!Idle /\ \E k \in open : cap.picker[k].by = f
                               \/ F[f] = cap.flows[f] /\ \A k \in open : cap.picker[k].by # f
      OBVIOUS
    <2>4. \A k \in C!Kind : \/ k \in open /\ P[k] = C!NoPicker
                            \/ k \notin open /\ P[k] = cap.picker[k] /\ cap.picker[k].window # w
      OBVIOUS
    <2> HIDE DEF F, P, open
    <2>5. cap' \in C!CapRec /\ cap'.flows = F /\ cap'.picker = P /\ cap'.windows = W
      BY <1>1, <2>1, <2>2 DEF C!CapRec
    <2>6. \A f \in StoreFlow : CaptureOwns(cap'.flows[f])
      BY <1>4, <2>3, <2>5 DEF CaptureInv
    <2>7. ASSUME NEW f \in StoreFlow, cap'.flows[f].at = "picking"
          PROVE  cap'.picker[cap'.flows[f].kind].by = f
      BY <1>4, <2>3, <2>5, <2>7, <1>2, <2>4 DEF CaptureInv, PickersAnswer
    <2>8. ASSUME NEW k \in C!Kind, NEW f \in StoreFlow, cap'.picker[k].by = f
          PROVE  cap'.flows[f].at = "picking" /\ cap'.flows[f].kind = k /\ cap'.picker[k].window \in cap'.windows
      BY <1>3, <1>5, <2>4, <2>5, <2>8, <2>3 DEF CaptureInv, PickersAnswer, open
    <2> QED BY <2>5, <2>6, <2>7, <2>8 DEF CaptureInv, PickersAnswer
  <1> QED BY <1>7, <1>8, <1>9

CaptureWell == CaptureInv(cap)

LEMMA CaptureInvariant == C!Spec => []CaptureWell
<1>1. C!Init => CaptureWell
  <2> SUFFICES ASSUME C!Init PROVE CaptureInv(cap)
    BY DEF CaptureWell
  <2> DEFINE F == [f \in StoreFlow |-> C!Idle]
             P == [k \in C!Kind |-> C!NoPicker]
  <2>1. NoDesk \notin StoreFlow /\ MaxWindows \in Nat
    BY ClientAssumption DEF DeskAssumption
  <2>2. C!Idle \in C!FlowRec /\ CaptureOwns(C!Idle) /\ C!Idle.at = "idle"
    BY IdleIsOwned
  <2>3. C!NoPicker \in C!PickerRec /\ C!NoPicker.by = NoDesk
    BY <2>1 DEF C!NoPicker, C!PickerRec
  <2>4. F \in [StoreFlow -> C!FlowRec] /\ \A f \in StoreFlow : F[f] = C!Idle
    BY <2>2
  <2>5. P \in [C!Kind -> C!PickerRec] /\ \A k \in C!Kind : P[k].by = NoDesk
    BY <2>3
  <2>6. cap = [flows |-> F, picker |-> P, windows |-> {}, opened |-> 0, leaked |-> FALSE]
    BY DEF C!Init
  <2> HIDE DEF F, P
  <2>7. cap \in C!CapRec /\ cap.flows = F /\ cap.picker = P
    BY <2>1, <2>4, <2>5, <2>6 DEF C!CapRec
  <2> QED BY <2>1, <2>2, <2>4, <2>5, <2>7 DEF CaptureInv, PickersAnswer
<1>2. CaptureWell /\ [C!Next]_(C!captureVars) => CaptureWell'
  <2> SUFFICES ASSUME CaptureInv(cap), [C!Next]_(C!captureVars) PROVE CaptureInv(cap')
    BY DEF CaptureWell
  <2>1. CASE UNCHANGED C!captureVars
    BY <2>1 DEF C!captureVars
  <2>2. ASSUME NEW f \in StoreFlow,
               \/ \E k \in C!Kind : C!Ask(f, k)
               \/ C!Filmed(f) \/ C!NotFilmed(f) \/ C!Spawn(f) \/ C!Header(f) \/ C!StartFails(f)
               \/ C!Wired(f) \/ C!WiringFails(f) \/ C!HelperExits(f) \/ C!Stop(f)
        PROVE  CaptureInv(cap')
    BY <2>2, CaptureSteps
  <2>3. ASSUME NEW f \in StoreFlow,
               C!ShowPicker(f) \/ C!CancelPick(f) \/ \E b \in BOOLEAN : C!Choose(f, b)
        PROVE  CaptureInv(cap')
    BY <2>3, PickerSteps
  <2> QED BY <2>1, <2>2, <2>3, WindowSteps DEF C!Next
<1> QED BY <1>1, <1>2, PTL DEF C!Spec

LEMMA CaptureIsClean == CaptureWell => C!CaptureEndsClean
  BY OwnedIsClean DEF CaptureWell, C!CaptureEndsClean

-----------------------------------------------------------------------------
(* The desktop's servers.                                                  *)

Writes == {"clearing", "saving"}
DeskHas(a) == {NoDesk, a}

\* Whatever is kept of server s, or waits to be, is a session of address a.
KeptFor(d, s, a) ==
  /\ d.memory[s] \in DeskHas(a) /\ d.vault[s] \in DeskHas(a)
  /\ \A i \in 1..Len(d.queue) : d.queue[i].id = s => d.queue[i].val \in DeskHas(a)
  /\ \A l \in S!Slot : d.loads[l].at = "read" /\ d.loads[l].id = s => d.loads[l].got \in DeskHas(a)

DeskShape(d) == d \in S!DeskRec /\ Len(d.queue) <= MaxQueue

\* Before the list is read nothing is under way.
BootsClean(d) ==
  d.phase = "loading" =>
    /\ d.registry = S!NoList /\ d.shown.id = NoDesk /\ d.runtime = NoDesk /\ d.queue = <<>>
    /\ \A k \in S!Kind : d.flows[k].at = "idle"
    /\ \A l \in S!Slot : d.loads[l].at = "idle"

\* The window shows the server that is active on disk, at its address, with its session.
ShowsActive(d) ==
  /\ d.phase # "loading" => d.registry = d.file /\ d.shown.id = d.file.active
  /\ d.phase = "app" => d.shown.id # NoDesk
  /\ d.shown.id # NoDesk => d.phase = "app" /\ d.shown.at = d.file.at[d.shown.id]
  /\ d.runtime # NoDesk => d.shown.id # NoDesk /\ d.runtime = d.shown.at

LoadsMatch(d) ==
  \A l \in S!Slot : LET r == d.loads[l]
    IN /\ r.at # "idle" => r.id # NoDesk
       /\ r.fresh => r.at # "idle" /\ r.id = d.shown.id /\ (r.at = "hit" => r.got \in DeskHas(d.shown.at))

SessionsMatch(d) ==
  /\ \A s \in DeskServer : KeptFor(d, s, d.file.at[s])
  /\ \A s \in d.gone : d.file.at[s] = NoDesk

\* A validation is on the list it saw until another function starts, and one function
\* at most writes.
ProbesMatch(d) ==
  /\ d.flows["remove"].at # "probing"
  /\ \A k \in S!Kind : d.flows[k].at # "idle" => d.flows[k].id # NoDesk
  /\ \A k \in S!Kind : d.flows[k].at = "probing" => d.flows[k].rev <= d.revision
  /\ \A j, k \in S!Kind :
       /\ d.flows[j].at = "probing" /\ d.flows[k].at = "probing" /\ d.flows[j].rev = d.flows[k].rev => j = k
       /\ d.flows[j].at \in Writes /\ d.flows[k].at \in Writes => j = k
       /\ d.flows[j].at = "probing" /\ d.flows[j].rev = d.revision => d.flows[k].at \notin Writes
  /\ \A k \in S!Kind :
       \/ d.flows[k].at \in Writes
       \/ d.flows[k].at = "probing" /\ d.flows[k].rev = d.revision
       => d.flows[k].list = d.registry /\ d.flows[k].id \notin d.gone

\* A session that is being cleared is gone but for its entry in the vault, which goes
\* when the write that the flow waits for is done.
Clears(d, k) ==
  LET f == d.flows[k]
  IN /\ d.memory[f.id] = NoDesk
     /\ \A l \in S!Slot : d.loads[l].at \in {"queued", "read"} => d.loads[l].id # f.id

Saves(d, k) ==
  LET f == d.flows[k]
  IN /\ KeptFor(d, f.id, f.to)
     /\ k = "remove" /\ f.list.active = f.id =>
          d.runtime = NoDesk /\ \A l \in S!Slot : ~d.loads[l].fresh

Awaits(d, i) ==
  LET q == d.queue[i]
  IN q.by # NoDesk =>
       /\ d.flows[q.by].at = "clearing" /\ d.flows[q.by].id = q.id /\ q.val = NoDesk
       /\ \A j \in 1..Len(d.queue) : /\ d.queue[j].by = q.by => j = i
                                     /\ j > i /\ d.queue[j].id = q.id => d.queue[j].val = NoDesk

WritesMatch(d) ==
  /\ d.flows["remove"].at \in Writes => d.flows["remove"].to = NoDesk
  /\ \A k \in S!Kind : d.flows[k].at = "clearing" => Clears(d, k)
  /\ \A k \in S!Kind : d.flows[k].at = "saving" => Saves(d, k)
  /\ \A i \in 1..Len(d.queue) : Awaits(d, i)

DeskWell(d) ==
  BootsClean(d) /\ ShowsActive(d) /\ LoadsMatch(d) /\ SessionsMatch(d) /\ ProbesMatch(d) /\ WritesMatch(d)

DeskInv(d) == DeskShape(d) /\ (~d.raced => DeskWell(d))

\* A write of the vault that waits for its turn.
QueueOp == [by: S!Kind \cup {NoDesk}, id: DeskServer, val: DeskAddress \cup {NoDesk}]

LEMMA QueueElements ==
  ASSUME NEW T, NEW q \in Seq(T)
  PROVE  Len(q) \in Nat /\ \A i \in 1..Len(q) : q[i] \in T
  OBVIOUS

LEMMA QueueGrows ==
  ASSUME NEW T, NEW q \in Seq(T), NEW x \in T
  PROVE  /\ Append(q, x) \in Seq(T) /\ Len(Append(q, x)) = Len(q) + 1
         /\ Append(q, x)[Len(q) + 1] = x
         /\ \A i \in 1..Len(q) : Append(q, x)[i] = q[i]
  OBVIOUS

LEMMA QueueShrinks ==
  ASSUME NEW T, NEW q \in Seq(T), q # <<>>
  PROVE  /\ Head(q) = q[1] /\ Head(q) \in T /\ Tail(q) \in Seq(T)
         /\ Len(q) \in Nat \ {0} /\ Len(Tail(q)) = Len(q) - 1
         /\ \A i \in 1..(Len(q) - 1) : Tail(q)[i] = q[i + 1]
  OBVIOUS

LEMMA DeskTypes ==
  ASSUME NEW d \in S!DeskRec
  PROVE  /\ d.phase \in {"loading", "setup", "app"} /\ d.registry \in S!Registry /\ d.file \in S!Registry
         /\ d.shown \in [id: DeskServer \cup {NoDesk}, at: DeskAddress \cup {NoDesk}]
         /\ d.shown.id \in DeskServer \cup {NoDesk} /\ d.shown.at \in DeskAddress \cup {NoDesk}
         /\ d.runtime \in DeskAddress \cup {NoDesk} /\ d.safe \in BOOLEAN
         /\ d.memory \in [DeskServer -> DeskAddress \cup {NoDesk}]
         /\ d.vault \in [DeskServer -> DeskAddress \cup {NoDesk}]
         /\ d.queue \in Seq(QueueOp)
         /\ d.revision \in Nat /\ d.busy \in DeskServer \cup {NoDesk}
         /\ d.flows \in [S!Kind -> S!FlowRec] /\ d.loads \in [S!Slot -> S!LoadRec]
         /\ d.gone \subseteq DeskServer /\ d.raced \in BOOLEAN
  BY DEF S!DeskRec, QueueOp

LEMMA RegistryTypes ==
  ASSUME NEW r \in S!Registry
  PROVE  r.at \in [DeskServer -> DeskAddress \cup {NoDesk}] /\ r.active \in DeskServer \cup {NoDesk}
  BY DEF S!Registry

LEMMA DeskFlowTypes ==
  ASSUME NEW d \in S!DeskRec, NEW k \in S!Kind
  PROVE  LET f == d.flows[k]
         IN /\ f \in S!FlowRec /\ f.at \in {"idle", "probing", "clearing", "saving"}
            /\ f.id \in DeskServer \cup {NoDesk} /\ f.to \in DeskAddress \cup {NoDesk}
            /\ f.rev \in Nat /\ f.list \in S!Registry
            /\ f.list.at \in [DeskServer -> DeskAddress \cup {NoDesk}] /\ f.list.active \in DeskServer \cup {NoDesk}
  BY DeskTypes DEF S!FlowRec, S!Registry

LEMMA DeskLoadTypes ==
  ASSUME NEW d \in S!DeskRec, NEW l \in S!Slot
  PROVE  LET r == d.loads[l]
         IN /\ r \in S!LoadRec /\ r.at \in {"idle", "hit", "queued", "read"}
            /\ r.id \in DeskServer \cup {NoDesk} /\ r.behind \in 0..MaxQueue
            /\ r.got \in DeskAddress \cup {NoDesk} /\ r.fresh \in BOOLEAN
  BY DeskTypes DEF S!LoadRec

LEMMA DeskQueueTypes ==
  ASSUME NEW d \in S!DeskRec
  PROVE  /\ Len(d.queue) \in Nat
         /\ \A i \in 1..Len(d.queue) : LET q == d.queue[i]
            IN q.by \in S!Kind \cup {NoDesk} /\ q.id \in DeskServer /\ q.val \in DeskAddress \cup {NoDesk}
  <1>1. d.queue \in Seq(QueueOp)
    BY DeskTypes
  <1>2. Len(d.queue) \in Nat /\ \A i \in 1..Len(d.queue) : d.queue[i] \in QueueOp
    BY <1>1, QueueElements
  <1> QED BY <1>2 DEF QueueOp

LEMMA DeskConstants ==
  /\ NoDesk \notin DeskServer /\ NoDesk \notin DeskAddress /\ NoDesk \notin S!Kind
  /\ S!Kind = {"select", "connect", "remove"} /\ MaxQueue \in Nat
  BY ClientAssumption DEF DeskAssumption, S!Kind

\* What a step leaves alone.
SameLists(d, u) ==
  u.phase = d.phase /\ u.registry = d.registry /\ u.file = d.file /\ u.shown = d.shown /\ u.gone = d.gone
SameKept(d, u) == u.memory = d.memory /\ u.vault = d.vault /\ u.queue = d.queue
SameTurn(d, u) == u.flows = d.flows /\ u.revision = d.revision
SameRun(d, u) == u.runtime = d.runtime /\ u.loads = d.loads

\* The loads under way are out of date.
Staled(d, u) ==
  \A l \in S!Slot : /\ u.loads[l].at = d.loads[l].at /\ u.loads[l].id = d.loads[l].id
                    /\ u.loads[l].got = d.loads[l].got /\ ~u.loads[l].fresh

LEMMA StaleLoads ==
  ASSUME NEW d \in S!DeskRec
  PROVE  LET K == [l \in S!Slot |-> [d.loads[l] EXCEPT !.fresh = FALSE]]
         IN /\ K \in [S!Slot -> S!LoadRec]
            /\ \A l \in S!Slot : /\ K[l].at = d.loads[l].at /\ K[l].id = d.loads[l].id
                                 /\ K[l].got = d.loads[l].got /\ ~K[l].fresh
  <1>1. \A l \in S!Slot : d.loads[l] \in S!LoadRec
    BY DeskLoadTypes
  <1>2. ASSUME NEW r \in S!LoadRec
        PROVE  LET q == [r EXCEPT !.fresh = FALSE]
               IN q \in S!LoadRec /\ q.at = r.at /\ q.id = r.id /\ q.got = r.got /\ ~q.fresh
    BY DEF S!LoadRec
  <1> QED BY <1>1, <1>2

LEMMA ClearRuntimeFields ==
  ASSUME NEW d \in S!DeskRec
  PROVE  LET u == S!ClearRuntime(d)
         IN /\ u \in S!DeskRec /\ SameLists(d, u) /\ SameKept(d, u) /\ SameTurn(d, u)
            /\ u.raced = d.raced /\ u.runtime = NoDesk /\ Staled(d, u)
  <1> DEFINE K == [l \in S!Slot |-> [d.loads[l] EXCEPT !.fresh = FALSE]]
             u == S!ClearRuntime(d)
  <1>1. /\ K \in [S!Slot -> S!LoadRec]
        /\ \A l \in S!Slot : /\ K[l].at = d.loads[l].at /\ K[l].id = d.loads[l].id
                             /\ K[l].got = d.loads[l].got /\ ~K[l].fresh
    BY StaleLoads
  <1>2. u = [d EXCEPT !.runtime = NoDesk, !.loads = K]
    BY DEF S!ClearRuntime, S!DeskRec
  <1> HIDE DEF K, u
  <1>3. /\ u \in S!DeskRec /\ u.runtime = NoDesk /\ u.loads = K /\ u.raced = d.raced
        /\ u.phase = d.phase /\ u.registry = d.registry /\ u.file = d.file /\ u.shown = d.shown
        /\ u.gone = d.gone /\ u.memory = d.memory /\ u.vault = d.vault /\ u.queue = d.queue
        /\ u.flows = d.flows /\ u.revision = d.revision
    BY <1>1, <1>2 DEF S!DeskRec
  <1>4. SameLists(d, u) /\ SameKept(d, u) /\ SameTurn(d, u) /\ Staled(d, u)
    BY <1>1, <1>3 DEF SameLists, SameKept, SameTurn, Staled
  <1> QED BY <1>3, <1>4 DEF u

LEMMA EnqueueFields ==
  ASSUME NEW d \in S!DeskRec, NEW by \in S!Kind \cup {NoDesk}, NEW s \in DeskServer,
         NEW val \in DeskAddress \cup {NoDesk}
  PROVE  LET u == S!Enqueue(d, by, s, val)
         IN /\ u \in S!DeskRec /\ SameLists(d, u) /\ SameTurn(d, u) /\ SameRun(d, u)
            /\ u.memory = d.memory /\ u.vault = d.vault /\ u.raced = d.raced
            /\ u.queue = Append(d.queue, [by |-> by, id |-> s, val |-> val])
  <1> DEFINE q == [by |-> by, id |-> s, val |-> val]
             Q == Append(d.queue, q)
             u == S!Enqueue(d, by, s, val)
  <1>1. q \in QueueOp
    BY DEF QueueOp
  <1> HIDE DEF q
  <1>2. Q \in Seq(QueueOp)
    BY <1>1, DeskTypes, QueueGrows
  <1>3. u = [d EXCEPT !.queue = Q]
    BY DEF S!Enqueue, q
  <1> HIDE DEF Q, u
  <1>4. /\ u \in S!DeskRec /\ u.queue = Q /\ u.raced = d.raced
        /\ u.phase = d.phase /\ u.registry = d.registry /\ u.file = d.file /\ u.shown = d.shown
        /\ u.gone = d.gone /\ u.memory = d.memory /\ u.vault = d.vault
        /\ u.flows = d.flows /\ u.revision = d.revision /\ u.runtime = d.runtime /\ u.loads = d.loads
    BY <1>2, <1>3 DEF S!DeskRec, QueueOp
  <1>5. SameLists(d, u) /\ SameTurn(d, u) /\ SameRun(d, u)
    BY <1>4 DEF SameLists, SameTurn, SameRun
  <1> QED BY <1>4, <1>5 DEF u, Q, q

LEMMA ClearSessionFields ==
  ASSUME NEW d \in S!DeskRec, NEW by \in S!Kind \cup {NoDesk}, NEW s \in DeskServer
  PROVE  LET u == S!ClearSession(d, by, s)
         IN /\ u \in S!DeskRec /\ SameLists(d, u) /\ SameTurn(d, u) /\ SameRun(d, u)
            /\ u.memory = [d.memory EXCEPT ![s] = NoDesk] /\ u.vault = d.vault
            /\ u.raced <=> d.raced \/ S!ReadUnderWay(d, s)
            /\ u.queue = Append(d.queue, [by |-> by, id |-> s, val |-> NoDesk])
  <1> DEFINE M == [d.memory EXCEPT ![s] = NoDesk]
             x == d.raced \/ S!ReadUnderWay(d, s)
             e == [d EXCEPT !.memory = M, !.raced = x]
             u == S!ClearSession(d, by, s)
  <1>1. M \in [DeskServer -> DeskAddress \cup {NoDesk}]
    BY DeskTypes
  <1>2. x \in BOOLEAN
    BY DeskTypes DEF S!ReadUnderWay
  <1>3. u = S!Enqueue(e, by, s, NoDesk)
    BY DEF S!ClearSession, S!DeskRec
  <1> HIDE DEF M, x, u
  <1>4. /\ e \in S!DeskRec /\ e.memory = M /\ (e.raced <=> x) /\ e.queue = d.queue
        /\ e.phase = d.phase /\ e.registry = d.registry /\ e.file = d.file /\ e.shown = d.shown
        /\ e.gone = d.gone /\ e.vault = d.vault
        /\ e.flows = d.flows /\ e.revision = d.revision /\ e.runtime = d.runtime /\ e.loads = d.loads
    BY <1>1, <1>2 DEF S!DeskRec
  <1> HIDE DEF e
  <1>5. /\ u \in S!DeskRec /\ SameLists(e, u) /\ SameTurn(e, u) /\ SameRun(e, u)
        /\ u.memory = e.memory /\ u.vault = e.vault /\ u.raced = e.raced
        /\ u.queue = Append(e.queue, [by |-> by, id |-> s, val |-> NoDesk])
    BY <1>3, <1>4, EnqueueFields
  <1>6. SameLists(d, u) /\ SameTurn(d, u) /\ SameRun(d, u)
    BY <1>4, <1>5 DEF SameLists, SameTurn, SameRun
  <1>7. /\ u.memory = M /\ u.vault = d.vault /\ (u.raced <=> x)
        /\ u.queue = Append(d.queue, [by |-> by, id |-> s, val |-> NoDesk])
    BY <1>4, <1>5
  <1> QED BY <1>5, <1>6, <1>7 DEF u, M, x

LEMMA FreedFields ==
  ASSUME NEW d \in S!DeskRec, NEW k \in S!Kind
  PROVE  LET u == S!Freed(d, k)
         IN /\ u \in S!DeskRec /\ SameLists(d, u) /\ SameKept(d, u) /\ SameRun(d, u)
            /\ u.revision = d.revision /\ u.raced = d.raced
            /\ u.flows[k] = S!NoFlow /\ \A j \in S!Kind \ {k} : u.flows[j] = d.flows[j]
  <1> DEFINE F == [d.flows EXCEPT ![k] = S!NoFlow]
             b == IF d.busy = d.flows[k].id THEN NoDesk ELSE d.busy
             u == S!Freed(d, k)
  <1>1. S!NoFlow \in S!FlowRec
    BY DEF S!NoFlow, S!NoList, S!FlowRec, S!Registry
  <1>2. F \in [S!Kind -> S!FlowRec] /\ F[k] = S!NoFlow /\ \A j \in S!Kind \ {k} : F[j] = d.flows[j]
    BY <1>1, DeskTypes
  <1>3. b \in DeskServer \cup {NoDesk}
    BY DeskTypes
  <1>4. u = [d EXCEPT !.flows = F, !.busy = b]
    BY DEF S!Freed, S!DeskRec
  <1> HIDE DEF F, b, u
  <1>5. /\ u \in S!DeskRec /\ u.flows = F /\ u.raced = d.raced /\ u.revision = d.revision
        /\ u.phase = d.phase /\ u.registry = d.registry /\ u.file = d.file /\ u.shown = d.shown
        /\ u.gone = d.gone /\ u.memory = d.memory /\ u.vault = d.vault /\ u.queue = d.queue
        /\ u.runtime = d.runtime /\ u.loads = d.loads
    BY <1>2, <1>3, <1>4 DEF S!DeskRec
  <1>6. SameLists(d, u) /\ SameKept(d, u) /\ SameRun(d, u)
    BY <1>5 DEF SameLists, SameKept, SameRun
  <1> QED BY <1>2, <1>5, <1>6 DEF u

LEMMA ProbeFields ==
  ASSUME NEW d \in S!DeskRec, NEW k \in S!Kind, NEW s \in DeskServer, NEW a \in DeskAddress \cup {NoDesk}
  PROVE  LET u == S!Probe(d, k, s, a)
         IN /\ u \in S!DeskRec /\ SameLists(d, u) /\ SameKept(d, u) /\ SameRun(d, u)
            /\ u.revision = d.revision + 1 /\ (u.raced <=> d.raced \/ S!Writing(d))
            /\ u.flows[k].at = "probing" /\ u.flows[k].id = s /\ u.flows[k].rev = d.revision + 1
            /\ u.flows[k].list = d.registry
            /\ \A j \in S!Kind \ {k} : u.flows[j] = d.flows[j]
  <1> DEFINE w == [at |-> "probing", id |-> s, to |-> a, rev |-> d.revision + 1, list |-> d.registry]
             F == [d.flows EXCEPT ![k] = w]
             x == d.raced \/ S!Writing(d)
             n == d.revision + 1
             u == S!Probe(d, k, s, a)
  <1>1. w \in S!FlowRec /\ w.at = "probing" /\ w.id = s /\ w.rev = d.revision + 1 /\ w.list = d.registry
    BY DeskTypes DEF S!FlowRec
  <1>2. u = [d EXCEPT !.revision = n, !.busy = s, !.raced = x, !.flows = F]
    BY DEF S!Probe, S!DeskRec
  <1> HIDE DEF w
  <1>3. F \in [S!Kind -> S!FlowRec] /\ F[k] = w /\ \A j \in S!Kind \ {k} : F[j] = d.flows[j]
    BY <1>1, DeskTypes
  <1>4. x \in BOOLEAN /\ n \in Nat
    BY DeskTypes DEF S!Writing
  <1> HIDE DEF F, x, n, u
  <1>5. /\ u \in S!DeskRec /\ u.flows = F /\ (u.raced <=> x) /\ u.revision = n
        /\ u.phase = d.phase /\ u.registry = d.registry /\ u.file = d.file /\ u.shown = d.shown
        /\ u.gone = d.gone /\ u.memory = d.memory /\ u.vault = d.vault /\ u.queue = d.queue
        /\ u.runtime = d.runtime /\ u.loads = d.loads
    BY <1>2, <1>3, <1>4 DEF S!DeskRec
  <1>6. SameLists(d, u) /\ SameKept(d, u) /\ SameRun(d, u)
    BY <1>5 DEF SameLists, SameKept, SameRun
  <1>7. u.revision = d.revision + 1 /\ (u.raced <=> d.raced \/ S!Writing(d))
    BY <1>5 DEF n, x
  <1> QED BY <1>1, <1>3, <1>5, <1>6, <1>7 DEF u

\* A flow goes to another of its places.
FlowMoves(d, u, k, where) ==
  /\ u.flows[k].at = where /\ u.flows[k].id = d.flows[k].id /\ u.flows[k].to = d.flows[k].to
  /\ u.flows[k].rev = d.flows[k].rev /\ u.flows[k].list = d.flows[k].list
  /\ \A j \in S!Kind \ {k} : u.flows[j] = d.flows[j]

LEMMA FlowMovesFields ==
  ASSUME NEW d \in S!DeskRec, NEW k \in S!Kind, NEW where \in {"clearing", "saving"}
  PROVE  LET u == [d EXCEPT !.flows[k].at = where]
         IN /\ u \in S!DeskRec /\ SameLists(d, u) /\ SameKept(d, u) /\ SameRun(d, u)
            /\ u.revision = d.revision /\ u.raced = d.raced /\ FlowMoves(d, u, k, where)
  <1> DEFINE w == [d.flows[k] EXCEPT !.at = where]
             F == [d.flows EXCEPT ![k] = w]
             u == [d EXCEPT !.flows[k].at = where]
  <1>1. /\ w \in S!FlowRec /\ w.at = where /\ w.id = d.flows[k].id /\ w.to = d.flows[k].to
        /\ w.rev = d.flows[k].rev /\ w.list = d.flows[k].list
    BY DeskFlowTypes DEF S!FlowRec
  <1>2. u = [d EXCEPT !.flows = F]
    BY DEF S!DeskRec
  <1> HIDE DEF w
  <1>3. F \in [S!Kind -> S!FlowRec] /\ F[k] = w /\ \A j \in S!Kind \ {k} : F[j] = d.flows[j]
    BY <1>1, DeskTypes
  <1> HIDE DEF F, u
  <1>4. /\ u \in S!DeskRec /\ u.flows = F /\ u.raced = d.raced /\ u.revision = d.revision
        /\ u.phase = d.phase /\ u.registry = d.registry /\ u.file = d.file /\ u.shown = d.shown
        /\ u.gone = d.gone /\ u.memory = d.memory /\ u.vault = d.vault /\ u.queue = d.queue
        /\ u.runtime = d.runtime /\ u.loads = d.loads
    BY <1>2, <1>3 DEF S!DeskRec
  <1>5. SameLists(d, u) /\ SameKept(d, u) /\ SameRun(d, u) /\ FlowMoves(d, u, k, where)
    BY <1>1, <1>3, <1>4 DEF SameLists, SameKept, SameRun, FlowMoves
  <1> QED BY <1>4, <1>5 DEF u

LEMMA CommitFields ==
  ASSUME NEW d \in S!DeskRec, NEW k \in S!Kind
  PROVE  LET u == S!Commit(d, k)
         IN /\ u \in S!DeskRec /\ SameLists(d, u) /\ SameKept(d, u)
            /\ u.revision = d.revision /\ u.raced = d.raced /\ u.runtime = NoDesk
            /\ Staled(d, u) /\ FlowMoves(d, u, k, "saving")
  <1> DEFINE e == S!ClearRuntime(d)
             u == S!Commit(d, k)
  <1>1. /\ e \in S!DeskRec /\ SameLists(d, e) /\ SameKept(d, e) /\ SameTurn(d, e)
        /\ e.raced = d.raced /\ e.runtime = NoDesk /\ Staled(d, e)
    BY ClearRuntimeFields
  <1>2. u = [e EXCEPT !.flows[k].at = "saving"]
    BY DEF S!Commit
  <1> HIDE DEF e, u
  <1>3. /\ u \in S!DeskRec /\ SameLists(e, u) /\ SameKept(e, u) /\ SameRun(e, u)
        /\ u.revision = e.revision /\ u.raced = e.raced /\ FlowMoves(e, u, k, "saving")
    BY <1>1, <1>2, FlowMovesFields
  <1>4. SameLists(d, u) /\ SameKept(d, u)
    BY <1>1, <1>3 DEF SameLists, SameKept
  <1>5. FlowMoves(d, u, k, "saving") /\ Staled(d, u)
    BY <1>1, <1>3 DEF FlowMoves, SameTurn, SameRun, Staled
  <1>6. u.revision = d.revision /\ u.raced = d.raced /\ u.runtime = NoDesk
    BY <1>1, <1>3 DEF SameTurn, SameRun
  <1> QED BY <1>3, <1>4, <1>5, <1>6 DEF u

\* The loads after server s was activated.
Activated(d, u, s) ==
  \E l \in S!Slot :
    /\ d.loads[l].at = "idle"
    /\ u.loads[l].at \in {"hit", "queued"} /\ u.loads[l].id = s /\ u.loads[l].got = d.memory[s]
    /\ \A m \in S!Slot \ {l} : /\ u.loads[m].at = d.loads[m].at /\ u.loads[m].id = d.loads[m].id
                               /\ u.loads[m].got = d.loads[m].got /\ ~u.loads[m].fresh

LEMMA ActivateFields ==
  ASSUME NEW d, DeskShape(d), NEW s \in DeskServer, S!IdleLoad(d) # {}
  PROVE  LET u == S!Activate(d, s)
         IN /\ u \in S!DeskRec /\ SameLists(d, u) /\ SameKept(d, u) /\ SameTurn(d, u)
            /\ u.raced = d.raced /\ u.runtime = NoDesk /\ Activated(d, u, s)
  <1> DEFINE old == [l \in S!Slot |-> [d.loads[l] EXCEPT !.fresh = FALSE]]
             load == [at |-> IF d.memory[s] # NoDesk \/ ~d.safe THEN "hit" ELSE "queued",
                      id |-> s, behind |-> Len(d.queue), got |-> d.memory[s], fresh |-> TRUE]
             l == CHOOSE x \in S!IdleLoad(d) : TRUE
             K == [old EXCEPT ![l] = load]
             u == S!Activate(d, s)
  <1>1. d \in S!DeskRec /\ Len(d.queue) \in 0..MaxQueue
    BY DeskQueueTypes, DeskConstants DEF DeskShape
  <1>2. l \in S!Slot /\ d.loads[l].at = "idle"
    BY DEF S!IdleLoad
  <1>3. /\ old \in [S!Slot -> S!LoadRec]
        /\ \A m \in S!Slot : /\ old[m].at = d.loads[m].at /\ old[m].id = d.loads[m].id
                             /\ old[m].got = d.loads[m].got /\ ~old[m].fresh
    BY <1>1, StaleLoads
  <1>4. d.memory[s] \in DeskAddress \cup {NoDesk}
    BY <1>1, DeskTypes
  <1>5. load \in S!LoadRec /\ load.at \in {"hit", "queued"} /\ load.id = s /\ load.got = d.memory[s]
    BY <1>1, <1>4 DEF S!LoadRec
  <1>6. u = [d EXCEPT !.runtime = NoDesk, !.loads = K]
    BY <1>1 DEF S!Activate, S!DeskRec
  <1> HIDE DEF old, load, l
  <1>7. K \in [S!Slot -> S!LoadRec] /\ K[l] = load /\ \A m \in S!Slot \ {l} : K[m] = old[m]
    BY <1>2, <1>3, <1>5
  <1> HIDE DEF K, u
  <1>8. /\ u \in S!DeskRec /\ u.runtime = NoDesk /\ u.loads = K /\ u.raced = d.raced
        /\ u.phase = d.phase /\ u.registry = d.registry /\ u.file = d.file /\ u.shown = d.shown
        /\ u.gone = d.gone /\ u.memory = d.memory /\ u.vault = d.vault /\ u.queue = d.queue
        /\ u.flows = d.flows /\ u.revision = d.revision
    BY <1>1, <1>6, <1>7 DEF S!DeskRec
  <1>9. SameLists(d, u) /\ SameKept(d, u) /\ SameTurn(d, u)
    BY <1>8 DEF SameLists, SameKept, SameTurn
  <1>10. Activated(d, u, s)
    BY <1>2, <1>3, <1>5, <1>7, <1>8 DEF Activated
  <1> QED BY <1>8, <1>9, <1>10 DEF u

\* The server shown, and what else its display leaves alone.
ShowsServer(d, u, s) ==
  /\ u.registry = d.registry /\ u.file = d.file /\ u.gone = d.gone
  /\ SameKept(d, u) /\ SameTurn(d, u) /\ u.raced = d.raced
  /\ u.shown.id = s
  /\ IF s = NoDesk THEN u.phase = "setup" /\ u.runtime = d.runtime /\ Staled(d, u)
     ELSE /\ u.phase = "app" /\ u.shown.at = d.registry.at[s]
          /\ u.runtime = NoDesk /\ Activated(d, u, s)

LEMMA ShowFields ==
  ASSUME NEW d, DeskShape(d), NEW s \in DeskServer \cup {NoDesk}, S!IdleLoad(d) # {}
  PROVE  S!Show(d, s) \in S!DeskRec /\ ShowsServer(d, S!Show(d, s), s)
  <1> DEFINE w == [id |-> s, at |-> IF s = NoDesk THEN NoDesk ELSE d.registry.at[s]]
             p == IF s = NoDesk THEN "setup" ELSE "app"
             e == [d EXCEPT !.shown = w, !.phase = p]
             u == S!Show(d, s)
  <1>1. d \in S!DeskRec
    BY DEF DeskShape
  <1>2. /\ w \in [id: DeskServer \cup {NoDesk}, at: DeskAddress \cup {NoDesk}] /\ w.id = s
        /\ s # NoDesk => w.at = d.registry.at[s]
    BY <1>1, DeskTypes, RegistryTypes
  <1>3. p \in {"loading", "setup", "app"} /\ (s = NoDesk => p = "setup") /\ (s # NoDesk => p = "app")
    OBVIOUS
  <1>4. u = IF s = NoDesk THEN [e EXCEPT !.loads = [l \in S!Slot |-> [@[l] EXCEPT !.fresh = FALSE]]]
            ELSE S!Activate(e, s)
    BY <1>1 DEF S!Show
  <1> HIDE DEF w, p, u
  <1>5. /\ e \in S!DeskRec /\ e.shown = w /\ e.phase = p /\ e.registry = d.registry /\ e.file = d.file
        /\ e.gone = d.gone /\ e.raced = d.raced /\ e.runtime = d.runtime /\ e.loads = d.loads
        /\ e.memory = d.memory /\ e.vault = d.vault /\ e.queue = d.queue
        /\ e.flows = d.flows /\ e.revision = d.revision
    BY <1>1, <1>2, <1>3 DEF S!DeskRec
  <1> HIDE DEF e
  <1>6. SameKept(d, e) /\ SameTurn(d, e)
    BY <1>5 DEF SameKept, SameTurn
  <1>7. CASE s = NoDesk
    <2> DEFINE K == [l \in S!Slot |-> [e.loads[l] EXCEPT !.fresh = FALSE]]
    <2>1. /\ K \in [S!Slot -> S!LoadRec]
          /\ \A m \in S!Slot : /\ K[m].at = e.loads[m].at /\ K[m].id = e.loads[m].id
                               /\ K[m].got = e.loads[m].got /\ ~K[m].fresh
      BY <1>5, StaleLoads
    <2>2. u = [e EXCEPT !.loads = K]
      BY <1>4, <1>7
    <2> HIDE DEF K
    <2>3. /\ u \in S!DeskRec /\ u.loads = K /\ u.shown = e.shown /\ u.phase = e.phase
          /\ u.registry = e.registry /\ u.file = e.file
          /\ u.gone = e.gone /\ u.raced = e.raced /\ u.runtime = e.runtime
          /\ u.memory = e.memory /\ u.vault = e.vault /\ u.queue = e.queue
          /\ u.flows = e.flows /\ u.revision = e.revision
      BY <1>5, <2>1, <2>2 DEF S!DeskRec
    <2>4. Staled(d, u)
      BY <1>5, <2>1, <2>3 DEF Staled
    <2>5. SameKept(d, u) /\ SameTurn(d, u)
      BY <1>6, <2>3 DEF SameKept, SameTurn
    <2>6. ShowsServer(d, u, s)
      BY <1>2, <1>3, <1>5, <1>7, <2>3, <2>4, <2>5 DEF ShowsServer
    <2> QED BY <2>3, <2>6 DEF u
  <1>8. CASE s # NoDesk
    BY <1>4, <1>8, <1>5, ActivateFields, <1>6, <1>2, <1>3 DEF DeskShape, S!IdleLoad, SameKept,
       SameTurn, Activated, SameLists, ShowsServer, u
  <1> QED BY <1>7, <1>8

SameLoads(d, u) ==
  \A l \in S!Slot : /\ u.loads[l].at = d.loads[l].at /\ u.loads[l].id = d.loads[l].id
                    /\ u.loads[l].got = d.loads[l].got /\ (u.loads[l].fresh => d.loads[l].fresh)

LEMMA LoadsStay ==
  ASSUME NEW d, NEW u, Staled(d, u) \/ SameRun(d, u)
  PROVE  SameLoads(d, u)
  BY DEF Staled, SameRun, SameLoads

LEMMA KeptSame ==
  ASSUME NEW d, NEW u, NEW s, NEW a, SameKept(d, u), SameLoads(d, u), KeptFor(d, s, a)
  PROVE  KeptFor(u, s, a)
  BY DEF SameKept, SameLoads, KeptFor

LEMMA KeptWider ==
  ASSUME NEW d, NEW s, NEW a, NEW b, KeptFor(d, s, a), DeskHas(a) \subseteq DeskHas(b)
  PROVE  KeptFor(d, s, b)
  BY DEF KeptFor

\* Whatever the window drops of the session it had, the rest stays as it was.
LEMMA DroppedIsWell ==
  ASSUME NEW d, NEW u, DeskWell(d), SameLists(d, u), SameKept(d, u), SameTurn(d, u),
         u.runtime = NoDesk, Staled(d, u)
  PROVE  DeskWell(u)
  BY LoadsStay, KeptSame DEF DeskWell, BootsClean, SameLists, SameKept, SameTurn, SameLoads,
     ShowsActive, LoadsMatch, SessionsMatch, ProbesMatch, WritesMatch, Clears, Saves, Staled, Awaits

\* A function that ends without writing.
Ends(d, u, k) ==
  /\ SameLists(d, u) /\ SameKept(d, u) /\ SameRun(d, u) /\ u.revision = d.revision
  /\ u.flows[k] = S!NoFlow /\ \A j \in S!Kind \ {k} : u.flows[j] = d.flows[j]

LEMMA EndedIsWell ==
  ASSUME NEW d \in S!DeskRec, NEW u, NEW k \in S!Kind, DeskWell(d), Ends(d, u, k),
         \A i \in 1..Len(d.queue) : d.queue[i].by # k
  PROVE  DeskWell(u)
  <1>1. SameLoads(d, u)
    BY LoadsStay DEF Ends
  <1>2. u.flows[k].at = "idle"
    BY DEF Ends, S!NoFlow
  <1>3. \A j \in S!Kind : u.flows[j].at # "idle" => j # k /\ u.flows[j] = d.flows[j]
    BY <1>2 DEF Ends
  <1>4. BootsClean(u)
    BY <1>2, <1>3 DEF DeskWell, BootsClean, Ends, SameLists, SameKept, SameRun
  <1>5. ShowsActive(u)
    BY DEF DeskWell, ShowsActive, Ends, SameLists, SameRun
  <1>6. LoadsMatch(u)
    BY DEF DeskWell, LoadsMatch, Ends, SameLists, SameRun
  <1>7. SessionsMatch(u)
    BY <1>1, KeptSame DEF DeskWell, SessionsMatch, Ends, SameLists
  <1>8. ProbesMatch(u)
    BY <1>3 DEF Writes, S!Kind, DeskWell, ProbesMatch, Ends, SameLists
  <1>9. ASSUME NEW j \in S!Kind, u.flows[j].at = "clearing"
        PROVE  Clears(u, j)
    BY <1>3, <1>9 DEF DeskWell, WritesMatch, Clears, Ends, SameKept, SameRun
  <1>10. ASSUME NEW j \in S!Kind, u.flows[j].at = "saving"
         PROVE  Saves(u, j)
    BY <1>3, <1>10, <1>1, KeptSame DEF DeskWell, WritesMatch, Saves, Ends, SameRun
  <1>11. ASSUME NEW i \in 1..Len(u.queue)
         PROVE  Awaits(u, i)
    BY DeskQueueTypes DEF Ends, SameKept, DeskWell, WritesMatch, Awaits
  <1>12. "remove" \in S!Kind
    BY DEF S!Kind
  <1>13. WritesMatch(u)
    BY <1>2, <1>3, <1>9, <1>10, <1>11, <1>12 DEF DeskWell, WritesMatch, Writes
  <1> QED BY <1>4, <1>5, <1>6, <1>7, <1>8, <1>13 DEF DeskWell

\* A write of no function is queued, and memory follows: a session of the server's
\* address is kept, or the session is given up.
Pushes(d, u, s, m, val) ==
  /\ SameLists(d, u) /\ SameTurn(d, u) /\ u.loads = d.loads /\ u.vault = d.vault
  /\ u.memory = [d.memory EXCEPT ![s] = m]
  /\ u.queue = Append(d.queue, [by |-> NoDesk, id |-> s, val |-> val])

LEMMA PushedKeeps ==
  ASSUME NEW d \in S!DeskRec, NEW u, NEW s \in DeskServer, NEW m, NEW val \in DeskAddress \cup {NoDesk},
         Pushes(d, u, s, m, val),
         NEW x \in DeskServer, NEW a, KeptFor(d, x, a), x = s => m \in DeskHas(a) /\ val \in DeskHas(a)
  PROVE  KeptFor(u, x, a)
  <1> DEFINE q == [by |-> NoDesk, id |-> s, val |-> val]
  <1>1. q \in QueueOp /\ q.id = s /\ q.val = val
    BY DEF QueueOp
  <1>2. u.queue = Append(d.queue, q)
    BY DEF Pushes
  <1> HIDE DEF q
  <1>3. /\ Len(d.queue) \in Nat /\ Len(u.queue) = Len(d.queue) + 1 /\ u.queue[Len(d.queue) + 1] = q
        /\ \A i \in 1..Len(d.queue) : u.queue[i] = d.queue[i]
    BY <1>1, <1>2, DeskTypes, DeskQueueTypes, QueueGrows
  <1>4. ASSUME NEW i \in 1..Len(u.queue), u.queue[i].id = x
        PROVE  u.queue[i].val \in DeskHas(a)
    BY <1>1, <1>3, <1>4 DEF KeptFor
  <1>5. u.memory[x] \in DeskHas(a)
    BY DeskTypes DEF Pushes, KeptFor
  <1> QED BY <1>4, <1>5 DEF KeptFor, Pushes

LEMMA PushedAwaits ==
  ASSUME NEW d \in S!DeskRec, NEW u, NEW s \in DeskServer, NEW m, NEW val \in DeskAddress \cup {NoDesk},
         DeskWell(d), Pushes(d, u, s, m, val),
         \A k \in S!Kind : d.flows[k].at \in Writes /\ d.flows[k].id = s => val = NoDesk
  PROVE  \A i \in 1..Len(u.queue) : Awaits(u, i)
  <1> DEFINE q == [by |-> NoDesk, id |-> s, val |-> val]
             n == Len(d.queue)
  <1>1. q \in QueueOp /\ q.id = s /\ q.val = val /\ q.by = NoDesk
    BY DEF QueueOp
  <1>2. u.queue = Append(d.queue, q) /\ u.flows = d.flows
    BY DEF Pushes, SameTurn
  <1> HIDE DEF q
  <1>3. /\ n \in Nat /\ Len(u.queue) = n + 1 /\ u.queue[n + 1] = q
        /\ \A i \in 1..n : u.queue[i] = d.queue[i]
    BY <1>1, <1>2, DeskTypes, DeskQueueTypes, QueueGrows
  <1> HIDE DEF n
  <1>4. ASSUME NEW i \in 1..Len(u.queue), u.queue[i].by # NoDesk
        PROVE  /\ u.flows[u.queue[i].by].at = "clearing" /\ u.flows[u.queue[i].by].id = u.queue[i].id
               /\ u.queue[i].val = NoDesk
               /\ \A j \in 1..Len(u.queue) :
                    /\ u.queue[j].by = u.queue[i].by => j = i
                    /\ j > i /\ u.queue[j].id = u.queue[i].id => u.queue[j].val = NoDesk
    BY <1>1, <1>3, <1>4, DeskQueueTypes, <1>2 DEF DeskWell, WritesMatch, n, Awaits, Writes
  <1> QED BY <1>4 DEF Awaits

LEMMA PushedIsWell ==
  ASSUME NEW d \in S!DeskRec, NEW u, NEW s \in DeskServer, NEW m, NEW val \in DeskAddress \cup {NoDesk},
         DeskWell(d), d.phase # "loading", Pushes(d, u, s, m, val),
         m \in DeskHas(d.file.at[s]), val \in DeskHas(d.file.at[s]),
         \A k \in S!Kind : d.flows[k].at \in Writes /\ d.flows[k].id = s =>
           val = NoDesk /\ m \in {NoDesk, d.memory[s]},
         \/ u.runtime = d.runtime
         \/ /\ u.runtime = d.shown.at /\ s = d.shown.id
            /\ \A k \in S!Kind : d.flows[k].at \in Writes => d.flows[k].id # s
  PROVE  DeskWell(u)
  <1>1. BootsClean(u) /\ ShowsActive(u)
    BY DeskConstants DEF DeskWell, BootsClean, ShowsActive, Pushes, SameLists
  <1>2. LoadsMatch(u)
    BY DEF DeskWell, LoadsMatch, Pushes, SameLists
  <1>3. SessionsMatch(u)
    <2>1. \A x \in DeskServer : KeptFor(u, x, d.file.at[x])
      BY PushedKeeps DEF DeskWell, SessionsMatch
    <2> QED BY <2>1 DEF DeskWell, SessionsMatch, Pushes, SameLists
  <1>4. ProbesMatch(u)
    BY DEF DeskWell, ProbesMatch, Pushes, SameLists, SameTurn
  <1>5. ASSUME NEW k \in S!Kind, u.flows[k].at = "clearing"
        PROVE  Clears(u, k)
    BY <1>5, DeskFlowTypes, DeskTypes DEF DeskWell, WritesMatch, Pushes, SameTurn, Writes,
       ProbesMatch, Clears
  <1>6. ASSUME NEW k \in S!Kind, u.flows[k].at = "saving"
        PROVE  Saves(u, k)
    <2>1. u.flows[k] = d.flows[k] /\ Saves(d, k) /\ d.flows[k].at \in Writes
      BY <1>6 DEF DeskWell, WritesMatch, Pushes, SameTurn, Writes
    <2>2. d.flows[k].id \in DeskServer
      BY <2>1, DeskFlowTypes DEF DeskWell, ProbesMatch, Writes
    <2>3. KeptFor(d, d.flows[k].id, d.flows[k].to)
      BY <2>1 DEF Saves
    <2>6. d.memory[d.flows[k].id] \in DeskHas(d.flows[k].to)
      BY <2>3 DEF KeptFor
    <2>7. d.flows[k].id = s => m \in DeskHas(d.flows[k].to) /\ val \in DeskHas(d.flows[k].to)
      BY <2>1, <2>6 DEF DeskHas
    <2>4. KeptFor(u, d.flows[k].id, d.flows[k].to)
      BY <2>2, <2>3, <2>7, PushedKeeps
    <2>5. k = "remove" /\ d.flows[k].list.active = d.flows[k].id => u.runtime = NoDesk
      BY <2>1 DEF DeskWell, ProbesMatch, ShowsActive, Saves
    <2> QED BY <2>1, <2>4, <2>5 DEF Saves, Pushes
  <1>7. \A i \in 1..Len(u.queue) : Awaits(u, i)
    BY PushedAwaits
  <1>8. WritesMatch(u)
    BY <1>5, <1>6, <1>7 DEF DeskWell, WritesMatch, Pushes, SameTurn
  <1> QED BY <1>1, <1>2, <1>3, <1>4, <1>8 DEF DeskWell

Idles(d) == \A k \in S!Kind : d.flows[k].at \notin Writes

\* Function k gives up a session: from memory at once, from the vault in its turn.
StartsClearing(d, u, k) ==
  /\ SameLists(d, u) /\ SameRun(d, u) /\ u.vault = d.vault /\ d.revision <= u.revision
  /\ u.flows[k].at = "clearing" /\ u.flows[k].list = d.registry
  /\ u.flows[k].id \in DeskServer \ d.gone
  /\ k = "remove" => u.flows[k].to = NoDesk
  /\ \A j \in S!Kind \ {k} : /\ u.flows[j] = d.flows[j]
                             /\ d.flows[j].at = "probing" => d.flows[j].rev < u.revision
  /\ u.memory = [d.memory EXCEPT ![u.flows[k].id] = NoDesk]
  /\ u.queue = Append(d.queue, [by |-> k, id |-> u.flows[k].id, val |-> NoDesk])
  /\ ~S!ReadUnderWay(d, u.flows[k].id)

LEMMA ClearingIsWell ==
  ASSUME NEW d \in S!DeskRec, NEW u \in S!DeskRec, NEW k \in S!Kind, DeskWell(d), Idles(d),
         d.phase # "loading", StartsClearing(d, u, k)
  PROVE  DeskWell(u)
  <1> DEFINE s == u.flows[k].id
             q == [by |-> k, id |-> s, val |-> NoDesk]
             n == Len(d.queue)
  <1>1. q \in QueueOp /\ q.id = s /\ q.val = NoDesk /\ q.by = k /\ s \in DeskServer /\ s # NoDesk
    BY DeskConstants DEF QueueOp, StartsClearing
  <1>2. u.queue = Append(d.queue, q)
    BY DEF StartsClearing
  <1> HIDE DEF q, n
  <1>3. /\ n \in Nat /\ Len(u.queue) = n + 1 /\ u.queue[n + 1] = q
        /\ \A i \in 1..n : u.queue[i] = d.queue[i]
    BY <1>1, <1>2, DeskTypes, DeskQueueTypes, QueueGrows DEF n
  <1>4. u.flows[k].at = "clearing" /\ \A j \in S!Kind \ {k} : u.flows[j] = d.flows[j] /\ u.flows[j].at \notin Writes
    BY DEF StartsClearing, Idles
  <1>5. u.loads = d.loads /\ u.runtime = d.runtime /\ SameLists(d, u)
    BY DEF StartsClearing, SameRun
  <1>6. BootsClean(u) /\ ShowsActive(u) /\ LoadsMatch(u)
    BY <1>5 DEF DeskWell, BootsClean, ShowsActive, LoadsMatch, SameLists
  <1>7. \A i \in 1..n : d.queue[i].by = NoDesk
    <2> SUFFICES ASSUME NEW i \in 1..n, d.queue[i].by # NoDesk PROVE FALSE
      OBVIOUS
    <2>1. d.flows[d.queue[i].by].at = "clearing"
      BY DEF DeskWell, WritesMatch, Awaits, n
    <2>2. d.queue[i].by \in S!Kind
      BY DeskQueueTypes DEF n
    <2> QED BY <2>1, <2>2 DEF Idles, Writes
  <1>8. ASSUME NEW x \in DeskServer
        PROVE  KeptFor(u, x, d.file.at[x])
    BY DeskTypes, <1>1, <1>3, <1>5 DEF DeskWell, SessionsMatch, StartsClearing, KeptFor, DeskHas, n
  <1>9. SessionsMatch(u)
    BY <1>5, <1>8 DEF DeskWell, SessionsMatch, SameLists
  <1>10. "clearing" \in Writes /\ "probing" \notin Writes /\ "idle" \notin Writes
    BY DEF Writes
  <1>11. /\ \A j \in S!Kind : d.flows[j].at = "probing" => d.flows[j].rev \in Nat
         /\ d.revision \in Nat /\ u.revision \in Nat /\ d.revision <= u.revision
    BY DeskTypes, DeskFlowTypes DEF StartsClearing
  <1>12. u.flows[k].list = u.registry /\ s \notin u.gone
    BY <1>5 DEF StartsClearing, SameLists
  <1>13. ProbesMatch(u)
    BY <1>4, DeskConstants, <1>1, <1>11, <1>12 DEF DeskWell, ProbesMatch, StartsClearing
  <1>14. Clears(u, k)
    BY <1>1, DeskTypes, <1>5 DEF StartsClearing, S!ReadUnderWay, Clears
  <1>15. ASSUME NEW i \in 1..Len(u.queue)
         PROVE  Awaits(u, i)
    <2>1. CASE i \in 1..n
      BY <1>3, <1>7, <2>1 DEF Awaits
    <2>2. CASE i = n + 1
      <3>1. \A j \in 1..Len(u.queue) : j = i \/ j \in 1..n
        BY <1>3, <2>2
      <3>2. \A j \in 1..Len(u.queue) : u.queue[j].by = k => j = i
        BY <1>3, <1>7, <3>1, DeskConstants
      <3>3. \A j \in 1..Len(u.queue) : ~(j > i)
        BY <1>3, <2>2
      <3> QED BY <1>1, <1>3, <1>4, <2>2, <3>2, <3>3 DEF Awaits
    <2> QED BY <1>3, <2>1, <2>2
  <1>16. WritesMatch(u)
    BY <1>4, DeskConstants, <1>14, <1>15 DEF Writes, StartsClearing, WritesMatch
  <1> QED BY <1>6, <1>9, <1>13, <1>16 DEF DeskWell

\* A validated target whose session is there or not, but not another address's.
LEMMA SavingIsWell ==
  ASSUME NEW d \in S!DeskRec, NEW u, NEW k \in S!Kind, DeskWell(d), Idles(d),
         d.flows[k].at = "probing", d.flows[k].rev = d.revision,
         d.flows[k].list.at[d.flows[k].id] \in {NoDesk, d.flows[k].to},
         SameLists(d, u), SameKept(d, u), u.revision = d.revision,
         u.runtime = NoDesk, Staled(d, u), FlowMoves(d, u, k, "saving")
  PROVE  DeskWell(u)
  <1>1. SameLoads(d, u)
    BY LoadsStay
  <1>2. k # "remove" /\ d.flows[k].list = d.registry /\ d.flows[k].id \notin d.gone /\ d.flows[k].id # NoDesk
    BY DEF DeskWell, ProbesMatch
  <1>3. /\ u.flows[k].at = "saving" /\ u.flows[k].id = d.flows[k].id /\ u.flows[k].to = d.flows[k].to
        /\ u.flows[k].list = d.flows[k].list
        /\ \A j \in S!Kind \ {k} : u.flows[j] = d.flows[j] /\ u.flows[j].at \notin Writes
    BY DEF FlowMoves, Idles
  <1>4. d.phase # "loading" /\ d.registry = d.file
    BY DEF DeskWell, BootsClean, ShowsActive
  <1>5. BootsClean(u) /\ ShowsActive(u)
    BY <1>4 DEF DeskWell, BootsClean, ShowsActive, SameLists
  <1>6. LoadsMatch(u)
    BY <1>1 DEF DeskWell, LoadsMatch, SameLists, SameLoads, Staled
  <1>7. \A s \in DeskServer : KeptFor(u, s, d.file.at[s])
    BY <1>1, KeptSame DEF DeskWell, SessionsMatch
  <1>8. SessionsMatch(u)
    BY <1>7 DEF DeskWell, SessionsMatch, SameLists
  <1>9. "saving" \in Writes /\ "probing" \notin Writes /\ "idle" \notin Writes
    BY DEF Writes
  <1>10. ProbesMatch(u)
    BY <1>2, <1>3, DeskConstants DEF DeskWell, ProbesMatch, SameLists
  <1>11. Saves(u, k)
    BY <1>2, DeskFlowTypes, <1>7, <1>4, KeptWider, <1>3 DEF DeskHas, Saves
  <1>12. ASSUME NEW i \in 1..Len(u.queue)
         PROVE  Awaits(u, i)
    BY DeskQueueTypes DEF SameKept, DeskWell, WritesMatch, Awaits, Writes, Idles
  <1>13. WritesMatch(u)
    BY <1>3, <1>2, DeskConstants, <1>11, <1>12 DEF Writes, WritesMatch
  <1> QED BY <1>5, <1>6, <1>8, <1>10, <1>13 DEF DeskWell

\* The first write of the vault is done, or failed.
Pops(d, u) ==
  /\ SameLists(d, u) /\ SameTurn(d, u) /\ u.runtime = d.runtime /\ u.memory = d.memory
  /\ u.queue = Tail(d.queue)
  /\ u.vault = d.vault \/ u.vault = [d.vault EXCEPT ![d.queue[1].id] = d.queue[1].val]
  /\ SameLoads(d, u)

LEMMA PoppedQueue ==
  ASSUME NEW d \in S!DeskRec, NEW u, d.queue # <<>>, u.queue = Tail(d.queue)
  PROVE  /\ Len(d.queue) \in Nat \ {0} /\ Len(u.queue) = Len(d.queue) - 1
         /\ \A i \in 1..Len(u.queue) : i + 1 \in 1..Len(d.queue) /\ u.queue[i] = d.queue[i + 1]
         /\ 1 \in 1..Len(d.queue) /\ d.queue[1] = Head(d.queue)
  BY DeskTypes, QueueShrinks

LEMMA PoppedKeeps ==
  ASSUME NEW d \in S!DeskRec, NEW u, d.queue # <<>>, Pops(d, u),
         NEW s \in DeskServer, NEW a, KeptFor(d, s, a)
  PROVE  KeptFor(u, s, a)
  <1>1. /\ \A i \in 1..Len(u.queue) : i + 1 \in 1..Len(d.queue) /\ u.queue[i] = d.queue[i + 1]
        /\ 1 \in 1..Len(d.queue)
    BY PoppedQueue DEF Pops
  <1>2. u.vault[s] \in DeskHas(a)
    BY <1>1, DeskTypes DEF Pops, KeptFor
  <1>3. \A i \in 1..Len(u.queue) : u.queue[i].id = s => u.queue[i].val \in DeskHas(a)
    BY <1>1 DEF KeptFor
  <1> QED BY <1>2, <1>3 DEF Pops, SameLoads, KeptFor

LEMMA PoppedIsWell ==
  ASSUME NEW d \in S!DeskRec, NEW u, d.queue # <<>>, Pops(d, u), DeskWell(d)
  PROVE  DeskWell(u)
  <1>1. /\ Len(d.queue) \in Nat /\ \A i \in 1..Len(u.queue) : i \in Nat /\ i + 1 \in 1..Len(d.queue) /\ u.queue[i] = d.queue[i + 1]
        /\ 1 \in 1..Len(d.queue)
    BY PoppedQueue DEF Pops
  <1>2. SameLoads(d, u) /\ SameLists(d, u) /\ u.flows = d.flows /\ u.memory = d.memory /\ u.runtime = d.runtime
    BY DEF Pops, SameTurn
  <1>3. d.phase # "loading"
    BY DEF DeskWell, BootsClean
  <1>4. BootsClean(u) /\ ShowsActive(u) /\ LoadsMatch(u)
    BY <1>2, <1>3 DEF DeskWell, BootsClean, ShowsActive, LoadsMatch, SameLists, SameLoads
  <1>5. \A s \in DeskServer : KeptFor(u, s, d.file.at[s])
    BY PoppedKeeps DEF DeskWell, SessionsMatch
  <1>6. SessionsMatch(u)
    BY <1>2, <1>5 DEF DeskWell, SessionsMatch, SameLists
  <1>7. ProbesMatch(u)
    BY DEF DeskWell, ProbesMatch, Pops, SameLists, SameTurn
  <1>8. \A k \in S!Kind : u.flows[k].at = "clearing" => Clears(u, k)
    BY <1>2 DEF DeskWell, WritesMatch, Clears, SameLoads
  <1>9. ASSUME NEW k \in S!Kind, u.flows[k].at = "saving"
        PROVE  Saves(u, k)
    BY <1>2, <1>9, DeskFlowTypes, PoppedKeeps DEF DeskWell, WritesMatch, ProbesMatch, Saves,
       SameLoads
  <1>10. ASSUME NEW i \in 1..Len(u.queue), u.queue[i].by # NoDesk
         PROVE  /\ u.flows[u.queue[i].by].at = "clearing" /\ u.flows[u.queue[i].by].id = u.queue[i].id
                /\ u.queue[i].val = NoDesk
                /\ \A j \in 1..Len(u.queue) :
                     /\ u.queue[j].by = u.queue[i].by => j = i
                     /\ j > i /\ u.queue[j].id = u.queue[i].id => u.queue[j].val = NoDesk
    <2>1. Awaits(d, i + 1) /\ u.queue[i] = d.queue[i + 1] /\ i \in Nat
      BY <1>1 DEF DeskWell, WritesMatch
    <2>2. /\ d.flows[u.queue[i].by].at = "clearing" /\ d.flows[u.queue[i].by].id = u.queue[i].id
          /\ u.queue[i].val = NoDesk
          /\ \A j \in 1..Len(d.queue) : /\ d.queue[j].by = u.queue[i].by => j = i + 1
                                        /\ j > i + 1 /\ d.queue[j].id = u.queue[i].id => d.queue[j].val = NoDesk
      BY <1>10, <2>1 DEF Awaits
    <2>3. ASSUME NEW j \in 1..Len(u.queue)
          PROVE  /\ u.queue[j].by = u.queue[i].by => j = i
                 /\ j > i /\ u.queue[j].id = u.queue[i].id => u.queue[j].val = NoDesk
      <3>1. j + 1 \in 1..Len(d.queue) /\ u.queue[j] = d.queue[j + 1] /\ j \in Nat
        BY <1>1
      <3>2. u.queue[j].by = u.queue[i].by => j + 1 = i + 1
        BY <2>2, <3>1
      <3>3. j + 1 > i + 1 /\ u.queue[j].id = u.queue[i].id => u.queue[j].val = NoDesk
        BY <2>2, <3>1
      <3>4. (j + 1 = i + 1 => j = i) /\ (j > i => j + 1 > i + 1)
        BY <2>1, <3>1
      <3> QED BY <3>2, <3>3, <3>4
    <2> QED BY <1>2, <2>2, <2>3
  <1>11. \A i \in 1..Len(u.queue) : Awaits(u, i)
    BY <1>10 DEF Awaits
  <1>12. WritesMatch(u)
    BY <1>2, <1>8, <1>9, <1>11 DEF DeskWell, WritesMatch
  <1> QED BY <1>4, <1>6, <1>7, <1>12 DEF DeskWell

\* No other write is a function's whose write was the first.
WritesLast(d, u) ==
  LET q == d.queue[1]
  IN /\ q.by \in S!Kind /\ d.flows[q.by].at = "clearing" /\ d.flows[q.by].id = q.id /\ q.val = NoDesk
     /\ \A i \in 1..Len(u.queue) : u.queue[i].by # q.by /\ (u.queue[i].id = q.id => u.queue[i].val = NoDesk)

LEMMA PoppedLast ==
  ASSUME NEW d \in S!DeskRec, NEW u, d.queue # <<>>, u.queue = Tail(d.queue), DeskWell(d),
         d.queue[1].by # NoDesk
  PROVE  WritesLast(d, u)
  <1>1. /\ Len(d.queue) \in Nat /\ 1 \in 1..Len(d.queue)
        /\ \A i \in 1..Len(u.queue) : i \in Nat \ {0} /\ i + 1 \in 1..Len(d.queue) /\ u.queue[i] = d.queue[i + 1]
    BY PoppedQueue
  <1>2. Awaits(d, 1) /\ d.queue[1].by \in S!Kind
    BY <1>1, DeskQueueTypes DEF DeskWell, WritesMatch
  <1>3. /\ d.flows[d.queue[1].by].at = "clearing"
        /\ d.flows[d.queue[1].by].id = d.queue[1].id /\ d.queue[1].val = NoDesk
        /\ \A j \in 1..Len(d.queue) : /\ d.queue[j].by = d.queue[1].by => j = 1
                                      /\ j > 1 /\ d.queue[j].id = d.queue[1].id => d.queue[j].val = NoDesk
    BY <1>2 DEF Awaits
  <1>4. \A i \in 1..Len(u.queue) : i + 1 # 1 /\ i + 1 > 1
    BY <1>1
  <1>5. \A i \in 1..Len(u.queue) : /\ u.queue[i].by # d.queue[1].by
                                   /\ u.queue[i].id = d.queue[1].id => u.queue[i].val = NoDesk
    BY <1>1, <1>3, <1>4
  <1> QED BY <1>2, <1>3, <1>5 DEF WritesLast

\* The session is cleared: the function saves the list next.
LEMMA ClearedIsWell ==
  ASSUME NEW d \in S!DeskRec, NEW u, NEW k \in S!Kind, DeskWell(d),
         d.flows[k].at = "clearing", KeptFor(d, d.flows[k].id, NoDesk),
         \A i \in 1..Len(d.queue) : d.queue[i].by # k,
         SameLists(d, u), SameKept(d, u), u.revision = d.revision, FlowMoves(d, u, k, "saving"),
         \/ u.runtime = NoDesk /\ Staled(d, u)
         \/ SameRun(d, u) /\ ~(k = "remove" /\ d.flows[k].list.active = d.flows[k].id)
  PROVE  DeskWell(u)
  <1>1. SameLoads(d, u)
    BY LoadsStay
  <1>2. u.runtime \in {d.runtime, NoDesk}
    BY DEF SameRun
  <1>3. d.flows[k].at \in Writes /\ d.phase # "loading" /\ "saving" \in Writes
    BY DEF Writes, DeskWell, BootsClean
  <1>4. /\ u.flows[k].at = "saving" /\ u.flows[k].id = d.flows[k].id /\ u.flows[k].to = d.flows[k].to
        /\ u.flows[k].list = d.flows[k].list
        /\ \A j \in S!Kind \ {k} : u.flows[j] = d.flows[j] /\ u.flows[j].at \notin Writes
    BY <1>3 DEF FlowMoves, DeskWell, ProbesMatch
  <1>5. BootsClean(u) /\ ShowsActive(u)
    BY <1>2, <1>3, DeskConstants DEF DeskWell, BootsClean, ShowsActive, SameLists
  <1>6. LoadsMatch(u)
    BY <1>1 DEF DeskWell, LoadsMatch, SameLists, SameLoads
  <1>7. SessionsMatch(u)
    <2>1. \A s \in DeskServer : KeptFor(u, s, d.file.at[s])
      BY <1>1, KeptSame DEF DeskWell, SessionsMatch
    <2> QED BY <2>1 DEF DeskWell, SessionsMatch, SameLists
  <1>8. ProbesMatch(u)
    BY <1>4, DeskConstants, <1>3 DEF DeskWell, ProbesMatch, Writes, SameLists
  <1>9. Saves(u, k)
    BY <1>1, KeptSame, KeptWider, <1>4 DEF DeskHas, Saves, Staled
  <1>10. ASSUME NEW i \in 1..Len(u.queue)
         PROVE  Awaits(u, i)
    BY DeskQueueTypes, <1>4 DEF SameKept, DeskWell, WritesMatch, Awaits, Writes
  <1>11. WritesMatch(u)
    BY <1>4, <1>3, DeskConstants, <1>9, <1>10 DEF Writes, DeskWell, WritesMatch
  <1> QED BY <1>5, <1>6, <1>7, <1>8, <1>11 DEF DeskWell

\* The list of function k is saved, and shown.
SavesList(d, u, k) ==
  LET f == d.flows[k]
  IN /\ u.file = u.registry /\ SameKept(d, u) /\ u.revision = d.revision
     /\ u.file.at[f.id] = f.to /\ \A s \in DeskServer \ {f.id} : u.file.at[s] = d.file.at[s]
     /\ \/ u.gone = d.gone
        \/ k = "remove" /\ u.gone = d.gone \cup {f.id}
     /\ u.flows[k] = S!NoFlow /\ \A j \in S!Kind \ {k} : u.flows[j] = d.flows[j]

\* The server active in it is shown, there is none, or the one shown before goes on.
ShowsSaved(d, u, k) ==
  \/ /\ u.file.active \in DeskServer /\ u.shown.id = u.file.active /\ u.shown.at = u.file.at[u.file.active]
     /\ u.phase = "app" /\ u.runtime = NoDesk /\ Activated(d, u, u.file.active)
  \/ /\ k = "remove" /\ d.flows[k].list.active = d.flows[k].id
     /\ u.file.active = NoDesk /\ u.shown.id = NoDesk
     /\ u.phase = "setup" /\ u.runtime = d.runtime /\ Staled(d, u)
  \/ /\ d.flows[k].list.active # d.flows[k].id /\ u.file.active = d.flows[k].list.active
     /\ u.shown = d.shown /\ u.phase = d.phase /\ SameRun(d, u)

LEMMA SavedKeeps ==
  ASSUME NEW d, NEW u, NEW s, NEW a, SameKept(d, u), KeptFor(d, s, a),
         SameLoads(d, u) \/ \E x \in DeskServer : Activated(d, u, x)
  PROVE  KeptFor(u, s, a)
  BY DEF SameLoads, Activated, SameKept, KeptFor

LEMMA SavedIsWell ==
  ASSUME NEW d \in S!DeskRec, NEW u, NEW k \in S!Kind, DeskWell(d),
         d.flows[k].at = "saving", SavesList(d, u, k), ShowsSaved(d, u, k)
  PROVE  DeskWell(u)
  <1> DEFINE f == d.flows[k]
  <1>1. f.at \in Writes /\ d.phase # "loading"
    BY DEF Writes, DeskWell, BootsClean
  <1>2. /\ f.id \in DeskServer /\ f.id # NoDesk /\ f.list = d.registry /\ f.id \notin d.gone /\ d.registry = d.file
        /\ d.shown.id = d.file.active
    BY <1>1, DeskFlowTypes, DeskConstants DEF DeskWell, ProbesMatch, ShowsActive, Writes
  <1>3. /\ u.file = u.registry /\ SameKept(d, u) /\ u.revision = d.revision
        /\ u.file.at[f.id] = f.to /\ \A s \in DeskServer \ {f.id} : u.file.at[s] = d.file.at[s]
        /\ u.flows[k] = S!NoFlow /\ \A j \in S!Kind \ {k} : u.flows[j] = d.flows[j]
    BY DEF SavesList
  <1>4. u.flows[k].at = "idle"
    BY <1>3 DEF S!NoFlow
  <1>5. \A j \in S!Kind : u.flows[j].at \notin Writes
    BY <1>1, <1>3, <1>4 DEF DeskWell, ProbesMatch, Writes
  <1>6. \A j \in S!Kind : u.flows[j].at # "idle" => j # k /\ u.flows[j] = d.flows[j]
    BY <1>3, <1>4
  <1>7. Saves(d, k)
    BY DEF DeskWell, WritesMatch
  <1>8. SameLoads(d, u) \/ \E x \in DeskServer : Activated(d, u, x)
    BY LoadsStay DEF ShowsSaved
  <1>9. ASSUME NEW s \in DeskServer
        PROVE  KeptFor(u, s, u.file.at[s])
    BY <1>3, <1>7, <1>8, SavedKeeps DEF Saves, DeskWell, SessionsMatch
  <1>10. ASSUME NEW s \in u.gone
         PROVE  u.file.at[s] = NoDesk
    BY <1>2, DeskTypes, <1>3, <1>1 DEF DeskWell, SessionsMatch, SavesList, WritesMatch
  <1>11. SessionsMatch(u)
    BY <1>9, <1>10 DEF SessionsMatch
  <1>12. ProbesMatch(u)
    <2>1. u.flows["remove"].at # "probing"
      BY <1>3, <1>4, DeskConstants DEF DeskWell, ProbesMatch
    <2>2. \A j \in S!Kind : u.flows[j].at # "idle" => u.flows[j].id # NoDesk
      BY <1>6 DEF DeskWell, ProbesMatch
    <2>3. \A j \in S!Kind : u.flows[j].at = "probing" => j # k /\ u.flows[j] = d.flows[j]
      BY <1>6
    <2>4. \A j \in S!Kind : u.flows[j].at = "probing" => u.flows[j].rev <= u.revision /\ u.flows[j].rev # u.revision
      BY <1>1, <1>3, <2>3 DEF DeskWell, ProbesMatch
    <2>5. \A i, j \in S!Kind :
            u.flows[i].at = "probing" /\ u.flows[j].at = "probing" /\ u.flows[i].rev = u.flows[j].rev => i = j
      BY <2>3 DEF DeskWell, ProbesMatch
    <2> QED BY <1>5, <2>1, <2>2, <2>4, <2>5 DEF ProbesMatch
  <1>13. ASSUME NEW i \in 1..Len(u.queue)
         PROVE  Awaits(u, i)
    BY <1>3, DeskQueueTypes, <1>1 DEF SameKept, DeskWell, WritesMatch, Awaits, ProbesMatch, Writes
  <1>14. WritesMatch(u)
    BY <1>5, <1>13, DeskConstants DEF WritesMatch, Writes
  <1>15. BootsClean(u) /\ ShowsActive(u) /\ LoadsMatch(u)
    <2>1. CASE /\ u.file.active \in DeskServer /\ u.shown.id = u.file.active /\ u.shown.at = u.file.at[u.file.active]
               /\ u.phase = "app" /\ u.runtime = NoDesk /\ Activated(d, u, u.file.active)
      BY <2>1, DeskConstants, <1>3, <1>9 DEF BootsClean, ShowsActive, KeptFor, SameKept, Activated,
         DeskWell, LoadsMatch
    <2>2. CASE /\ k = "remove" /\ d.flows[k].list.active = d.flows[k].id
               /\ u.file.active = NoDesk /\ u.shown.id = NoDesk
               /\ u.phase = "setup" /\ u.runtime = d.runtime /\ Staled(d, u)
      BY <1>7, <2>2, <1>3 DEF Saves, BootsClean, ShowsActive, LoadsMatch, Staled, DeskWell
    <2>3. CASE /\ d.flows[k].list.active # d.flows[k].id /\ u.file.active = d.flows[k].list.active
               /\ u.shown = d.shown /\ u.phase = d.phase /\ SameRun(d, u)
      BY <1>2, <2>3, DeskTypes, <1>3, <1>1 DEF BootsClean, ShowsActive, DeskWell, SameRun,
         LoadsMatch
    <2> QED BY <2>1, <2>2, <2>3 DEF ShowsSaved
  <1> QED BY <1>11, <1>12, <1>14, <1>15 DEF DeskWell

\* One load goes on, and may have read what the vault holds.
LoadGoes(d, u, l) ==
  /\ SameLists(d, u) /\ SameKept(d, u) /\ SameTurn(d, u) /\ u.runtime = d.runtime
  /\ u.loads[l].id = d.loads[l].id /\ (u.loads[l].fresh => d.loads[l].fresh)
  /\ \/ u.loads[l].at = "read" /\ u.loads[l].got = d.vault[d.loads[l].id]
     \/ u.loads[l].at = "hit" /\ u.loads[l].got = NoDesk
  /\ \A m \in S!Slot \ {l} : u.loads[m] = d.loads[m]

LEMMA LoadGoesIsWell ==
  ASSUME NEW d \in S!DeskRec, NEW u, NEW l \in S!Slot, DeskWell(d), d.loads[l].at = "queued", LoadGoes(d, u, l)
  PROVE  DeskWell(u)
  <1>1. /\ SameLists(d, u) /\ SameKept(d, u) /\ SameTurn(d, u) /\ u.runtime = d.runtime
        /\ \A m \in S!Slot : u.loads[m].id = d.loads[m].id /\ (u.loads[m].fresh => d.loads[m].fresh)
        /\ \A m \in S!Slot \ {l} : u.loads[m] = d.loads[m]
    BY DEF LoadGoes
  <1>2. d.phase # "loading" /\ d.loads[l].id # NoDesk
    BY DEF DeskWell, BootsClean, LoadsMatch
  <1>3. BootsClean(u) /\ ShowsActive(u)
    BY <1>1, <1>2 DEF DeskWell, BootsClean, ShowsActive, SameLists
  <1>4. LoadsMatch(u)
    <2>1. SUFFICES ASSUME NEW m \in S!Slot
                   PROVE  /\ u.loads[m].at # "idle" => u.loads[m].id # NoDesk
                          /\ u.loads[m].fresh => /\ u.loads[m].at # "idle" /\ u.loads[m].id = u.shown.id
                                                 /\ u.loads[m].at = "hit" => u.loads[m].got \in DeskHas(u.shown.at)
      BY DEF LoadsMatch
    <2>2. /\ d.loads[m].at # "idle" => d.loads[m].id # NoDesk
          /\ d.loads[m].fresh => /\ d.loads[m].at # "idle" /\ d.loads[m].id = d.shown.id
                                 /\ d.loads[m].at = "hit" => d.loads[m].got \in DeskHas(d.shown.at)
      BY DEF DeskWell, LoadsMatch
    <2>3. u.shown = d.shown
      BY <1>1 DEF SameLists
    <2>4. CASE m = l
      BY <1>1, <2>2, <2>3, <2>4 DEF LoadGoes, DeskHas
    <2>5. CASE m # l
      BY <1>1, <2>2, <2>3, <2>5
    <2> QED BY <2>4, <2>5
  <1>5. ASSUME NEW s, NEW a, KeptFor(d, s, a)
        PROVE  KeptFor(u, s, a)
    BY <1>1, <1>5 DEF LoadGoes, KeptFor, SameKept
  <1>6. SessionsMatch(u)
    BY <1>1, <1>5 DEF DeskWell, SessionsMatch, SameLists
  <1>7. ProbesMatch(u)
    BY <1>1 DEF DeskWell, ProbesMatch, SameLists, SameTurn
  <1>8. ASSUME NEW k \in S!Kind, u.flows[k].at = "clearing"
        PROVE  Clears(u, k)
    BY <1>1, <1>8 DEF DeskWell, WritesMatch, SameTurn, Clears, SameKept
  <1>9. \A k \in S!Kind : u.flows[k].at = "saving" => Saves(u, k)
    BY <1>1, <1>5 DEF DeskWell, WritesMatch, Saves, SameTurn
  <1>10. \A i \in 1..Len(u.queue) : Awaits(u, i)
    BY <1>1 DEF DeskWell, WritesMatch, Awaits, SameKept, SameTurn
  <1>11. WritesMatch(u)
    BY <1>1, <1>8, <1>9, <1>10 DEF DeskWell, WritesMatch, SameTurn
  <1> QED BY <1>3, <1>4, <1>6, <1>7, <1>11 DEF DeskWell

\* What was loaded is kept and answered.
LoadEnds(d, u, l) ==
  /\ SameLists(d, u) /\ SameTurn(d, u) /\ u.vault = d.vault /\ u.queue = d.queue
  /\ \/ u.memory = d.memory
     \/ d.loads[l].at = "read" /\ u.memory = [d.memory EXCEPT ![d.loads[l].id] = d.loads[l].got]
  /\ u.runtime = d.runtime \/ (d.loads[l].fresh /\ u.runtime = d.loads[l].got)
  /\ u.loads[l] = S!NoLoad /\ \A m \in S!Slot \ {l} : u.loads[m] = d.loads[m]

LEMMA LoadEndsIsWell ==
  ASSUME NEW d \in S!DeskRec, NEW u, NEW l \in S!Slot, DeskWell(d),
         d.loads[l].at \in {"hit", "read"}, LoadEnds(d, u, l)
  PROVE  DeskWell(u)
  <1>1. /\ SameLists(d, u) /\ SameTurn(d, u) /\ u.vault = d.vault /\ u.queue = d.queue
        /\ u.loads[l].at = "idle" /\ ~u.loads[l].fresh
        /\ \A m \in S!Slot \ {l} : u.loads[m] = d.loads[m]
    BY DEF LoadEnds, S!NoLoad
  <1>2. d.phase # "loading" /\ d.loads[l].id # NoDesk
    BY DEF DeskWell, BootsClean, LoadsMatch
  <1>3. d.loads[l].id \in DeskServer
    BY <1>2, DeskLoadTypes
  <1>4. \A s \in DeskServer : \/ u.memory[s] = d.memory[s]
                              \/ s = d.loads[l].id /\ d.loads[l].at = "read" /\ u.memory[s] = d.loads[l].got
    BY <1>3, DeskTypes DEF LoadEnds
  <1>5. d.loads[l].fresh => d.loads[l].id = d.shown.id /\ d.loads[l].got \in DeskHas(d.shown.at)
    BY <1>3, <1>2 DEF DeskWell, LoadsMatch, SessionsMatch, KeptFor, ShowsActive
  <1>6. BootsClean(u)
    BY <1>1, <1>2 DEF BootsClean, SameLists
  <1>7. ShowsActive(u)
    BY <1>1, <1>2, <1>5 DEF DeskWell, ShowsActive, LoadEnds, DeskHas, SameLists
  <1>8. LoadsMatch(u)
    BY <1>1 DEF DeskWell, LoadsMatch, SameLists
  <1>9. ASSUME NEW s \in DeskServer, NEW a, KeptFor(d, s, a)
        PROVE  KeptFor(u, s, a)
    BY <1>4, <1>9, <1>1 DEF KeptFor
  <1>10. SessionsMatch(u)
    BY <1>1, <1>9 DEF DeskWell, SessionsMatch, SameLists
  <1>11. ProbesMatch(u)
    BY <1>1 DEF DeskWell, ProbesMatch, SameLists, SameTurn
  <1>12. ASSUME NEW k \in S!Kind, u.flows[k].at = "clearing"
         PROVE  Clears(u, k)
    <2>1. Clears(d, k) /\ u.flows[k] = d.flows[k] /\ d.flows[k].id \in DeskServer
      BY <1>1, <1>12, DeskFlowTypes DEF DeskWell, WritesMatch, ProbesMatch, SameTurn
    <2>2. u.memory[d.flows[k].id] = NoDesk
      BY <1>4, <2>1 DEF Clears
    <2>3. \A m \in S!Slot : u.loads[m].at \in {"queued", "read"} => u.loads[m] = d.loads[m]
      BY <1>1
    <2> QED BY <2>1, <2>2, <2>3 DEF Clears
  <1>13. ASSUME NEW k \in S!Kind, u.flows[k].at = "saving"
         PROVE  Saves(u, k)
    BY <1>1, <1>13, DeskFlowTypes, <1>9 DEF DeskWell, WritesMatch, ProbesMatch, SameTurn, Saves,
       LoadEnds
  <1>14. \A i \in 1..Len(u.queue) : Awaits(u, i)
    BY <1>1 DEF DeskWell, WritesMatch, Awaits, SameTurn
  <1>15. WritesMatch(u)
    BY <1>1, <1>12, <1>13, <1>14 DEF DeskWell, WritesMatch, SameTurn
  <1> QED BY <1>6, <1>7, <1>8, <1>10, <1>11, <1>15 DEF DeskWell

\* A validation starts while no function writes.
LEMMA ProbeIsWell ==
  ASSUME NEW d \in S!DeskRec, NEW u, NEW k \in S!Kind, DeskWell(d), Idles(d), d.phase # "loading",
         k # "remove", d.flows[k].at = "idle",
         SameLists(d, u), SameKept(d, u), SameRun(d, u), u.revision = d.revision + 1,
         u.flows[k].at = "probing", u.flows[k].id \in DeskServer \ d.gone,
         u.flows[k].rev = d.revision + 1, u.flows[k].list = d.registry,
         \A j \in S!Kind \ {k} : u.flows[j] = d.flows[j]
  PROVE  DeskWell(u)
  <1>1. SameLoads(d, u)
    BY LoadsStay
  <1>2. BootsClean(u) /\ ShowsActive(u) /\ LoadsMatch(u)
    BY DEF DeskWell, BootsClean, ShowsActive, LoadsMatch, SameLists, SameRun
  <1>3. SessionsMatch(u)
    BY <1>1, KeptSame DEF DeskWell, SessionsMatch, SameLists
  <1>4. \A j \in S!Kind : u.flows[j].at \notin Writes
    BY DEF Idles, Writes
  <1>5. d.revision \in Nat /\ \A j \in S!Kind : d.flows[j].rev \in Nat
    BY DeskTypes, DeskFlowTypes
  <1>6. ProbesMatch(u)
    BY DeskConstants, <1>5, <1>4 DEF DeskWell, ProbesMatch, SameLists
  <1>7. ASSUME NEW i \in 1..Len(u.queue)
        PROVE  Awaits(u, i)
    BY DeskQueueTypes DEF SameKept, DeskWell, WritesMatch, Awaits, Writes, Idles
  <1>8. WritesMatch(u)
    BY <1>4, <1>7, DeskConstants DEF WritesMatch, Writes
  <1> QED BY <1>2, <1>3, <1>6, <1>8 DEF DeskWell

-----------------------------------------------------------------------------
(* The steps.                                                              *)

LEMMA BootKeeps ==
  ASSUME DeskShape(desk), DeskWell(desk), S!Boot
  PROVE  DeskInv(desk')
  <1> DEFINE e == [desk EXCEPT !.registry = desk.file]
             a == desk.file.active
  <1>1. desk \in S!DeskRec /\ desk.phase = "loading" /\ desk' = S!Show(e, a)
    BY DEF DeskShape, S!Boot
  <1>2. /\ e \in S!DeskRec /\ e.registry = desk.file /\ e.file = desk.file /\ e.gone = desk.gone
        /\ e.memory = desk.memory /\ e.vault = desk.vault /\ e.queue = desk.queue
        /\ e.flows = desk.flows /\ e.revision = desk.revision /\ e.loads = desk.loads
        /\ e.runtime = desk.runtime
    BY <1>1 DEF S!DeskRec
  <1> HIDE DEF e
  <1>3. /\ desk.runtime = NoDesk /\ desk.queue = <<>>
        /\ \A k \in S!Kind : desk.flows[k].at = "idle"
        /\ \A l \in S!Slot : desk.loads[l].at = "idle"
    BY <1>1 DEF DeskWell, BootsClean
  <1>4. DeskShape(e) /\ S!IdleLoad(e) # {} /\ a \in DeskServer \cup {NoDesk}
    BY <1>2, <1>3, DeskConstants, <1>1, DeskTypes, RegistryTypes DEF S!IdleLoad, S!Slot, DeskShape
  <1>5. desk' \in S!DeskRec /\ ShowsServer(e, desk', a)
    BY <1>1, <1>4, ShowFields
  <1>6. /\ desk'.registry = desk.file /\ desk'.file = desk.file /\ desk'.gone = desk.gone
        /\ SameKept(desk, desk') /\ desk'.flows = desk.flows
        /\ desk'.shown.id = a
    BY <1>2, <1>5 DEF ShowsServer, SameKept, SameTurn
  <1>7. /\ a = NoDesk => desk'.phase = "setup" /\ desk'.runtime = NoDesk /\ Staled(desk, desk')
        /\ a # NoDesk => /\ desk'.phase = "app" /\ desk'.shown.at = desk.file.at[a]
                         /\ desk'.runtime = NoDesk /\ Activated(desk, desk', a)
    BY <1>2, <1>3, <1>5 DEF ShowsServer, Staled, Activated
  <1>8. SameLoads(desk, desk') \/ \E x \in DeskServer : Activated(desk, desk', x)
    BY <1>4, <1>7, LoadsStay
  <1>9. \A s \in DeskServer : KeptFor(desk', s, desk.file.at[s])
    BY <1>6, <1>8, SavedKeeps DEF DeskWell, SessionsMatch
  <1>10. SessionsMatch(desk')
    BY <1>6, <1>9 DEF DeskWell, SessionsMatch
  <1>11. BootsClean(desk') /\ ShowsActive(desk')
    BY <1>6, <1>7 DEF BootsClean, ShowsActive
  <1>12. LoadsMatch(desk')
    BY <1>3, <1>7, <1>4, <1>6, <1>9, DeskConstants DEF Staled, LoadsMatch, KeptFor, SameKept,
       Activated
  <1>13. ProbesMatch(desk')
    BY <1>3, <1>6, DeskConstants DEF ProbesMatch, Writes
  <1>14. WritesMatch(desk')
    BY <1>3, <1>6, DeskConstants DEF SameKept, WritesMatch, Writes
  <1>15. DeskShape(desk')
    BY <1>5, <1>6 DEF DeskShape, SameKept
  <1> QED BY <1>10, <1>11, <1>12, <1>13, <1>14, <1>15 DEF DeskInv, DeskWell

LEMMA ReadVaultKeeps ==
  ASSUME DeskShape(desk), DeskWell(desk), NEW l \in S!Slot, S!ReadVault(l)
  PROVE  DeskInv(desk')
  <1> DEFINE s == desk.loads[l].id
  <1>1. desk \in S!DeskRec /\ desk.loads[l].at = "queued" /\ s \in DeskServer /\ desk.phase # "loading"
    BY DeskLoadTypes DEF DeskShape, S!ReadVault, DeskWell, LoadsMatch, BootsClean
  <1>2. ASSUME NEW where \in {"read", "hit"}, NEW v \in DeskAddress \cup {NoDesk}, NEW u,
               where = "read" => v = desk.vault[s], where = "hit" => v = NoDesk,
               u = [desk EXCEPT !.loads[l].at = where, !.loads[l].got = v]
        PROVE  u \in S!DeskRec /\ LoadGoes(desk, u, l) /\ u.raced = desk.raced
    <2> DEFINE r == [desk.loads[l] EXCEPT !.at = where, !.got = v]
               K == [desk.loads EXCEPT ![l] = r]
    <2>1. r \in S!LoadRec /\ r.at = where /\ r.got = v /\ r.id = s /\ r.fresh = desk.loads[l].fresh
      BY <1>1, <1>2, DeskLoadTypes DEF S!LoadRec
    <2>2. u = [desk EXCEPT !.loads = K]
      BY <1>1, <1>2, DeskTypes DEF S!DeskRec
    <2> HIDE DEF r
    <2>3. K \in [S!Slot -> S!LoadRec] /\ K[l] = r /\ \A m \in S!Slot \ {l} : K[m] = desk.loads[m]
      BY <1>1, <2>1, DeskTypes
    <2> HIDE DEF K
    <2>4. /\ u \in S!DeskRec /\ u.loads = K /\ u.raced = desk.raced
          /\ u.phase = desk.phase /\ u.registry = desk.registry /\ u.file = desk.file /\ u.shown = desk.shown
          /\ u.gone = desk.gone /\ u.memory = desk.memory /\ u.vault = desk.vault /\ u.queue = desk.queue
          /\ u.flows = desk.flows /\ u.revision = desk.revision /\ u.runtime = desk.runtime
      BY <1>1, <2>2, <2>3 DEF S!DeskRec
    <2>5. SameLists(desk, u) /\ SameKept(desk, u) /\ SameTurn(desk, u)
      BY <2>4 DEF SameLists, SameKept, SameTurn
    <2>6. LoadGoes(desk, u, l)
      BY <1>2, <2>1, <2>3, <2>4, <2>5 DEF LoadGoes
    <2> QED BY <2>4, <2>6
  <1>3. CASE desk' = [desk EXCEPT !.loads[l].at = "read", !.loads[l].got = desk.vault[s]]
    <2>1. desk.vault[s] \in DeskAddress \cup {NoDesk}
      BY <1>1, DeskTypes
    <2>2. desk' \in S!DeskRec /\ LoadGoes(desk, desk', l)
      BY <1>2, <1>3, <2>1
    <2>3. DeskWell(desk')
      BY <1>1, <2>2, LoadGoesIsWell
    <2>4. DeskShape(desk')
      BY <2>2 DEF DeskShape, LoadGoes, SameKept
    <2> QED BY <2>3, <2>4 DEF DeskInv
  <1>4. CASE /\ S!CanQueue
             /\ desk' = S!Enqueue([desk EXCEPT !.loads[l].at = "hit", !.loads[l].got = NoDesk],
                                  NoDesk, s, NoDesk)
    <2> DEFINE e == [desk EXCEPT !.loads[l].at = "hit", !.loads[l].got = NoDesk]
    <2>1. e \in S!DeskRec /\ LoadGoes(desk, e, l)
      BY <1>2
    <2>2. desk' = S!Enqueue(e, NoDesk, s, NoDesk)
      BY <1>4
    <2> HIDE DEF e
    <2>3. DeskWell(e)
      BY <1>1, <2>1, LoadGoesIsWell
    <2>4. /\ desk' \in S!DeskRec /\ SameLists(e, desk') /\ SameTurn(e, desk') /\ SameRun(e, desk')
          /\ desk'.memory = e.memory /\ desk'.vault = e.vault
          /\ desk'.queue = Append(e.queue, [by |-> NoDesk, id |-> s, val |-> NoDesk])
      BY <1>1, <2>1, <2>2, EnqueueFields
    <2>5. desk'.memory = [e.memory EXCEPT ![s] = e.memory[s]]
      BY <1>1, <2>1, <2>4, DeskTypes
    <2>6. Pushes(e, desk', s, e.memory[s], NoDesk)
      BY <2>4, <2>5 DEF Pushes, SameRun
    <2>7. e.phase # "loading" /\ e.memory[s] \in DeskHas(e.file.at[s]) /\ NoDesk \in DeskHas(e.file.at[s])
      BY <1>1, <2>1, <2>3 DEF LoadGoes, SameLists, DeskWell, SessionsMatch, KeptFor, DeskHas
    <2>8. DeskWell(desk')
      BY <1>1, <2>1, <2>3, <2>4, <2>6, <2>7, PushedIsWell DEF SameRun
    <2>9. Len(desk'.queue) <= MaxQueue
      <3>1. e.queue = desk.queue /\ Len(desk.queue) < MaxQueue
        BY <1>4, <2>1 DEF LoadGoes, SameKept, S!CanQueue
      <3>2. [by |-> NoDesk, id |-> s, val |-> NoDesk] \in QueueOp
        BY <1>1 DEF QueueOp
      <3>3. Len(desk'.queue) = Len(desk.queue) + 1
        BY <1>1, <2>4, <3>1, <3>2, DeskTypes, QueueGrows
      <3> QED BY <1>1, <3>1, <3>3, DeskQueueTypes, DeskConstants
    <2> QED BY <2>4, <2>8, <2>9 DEF DeskInv, DeskShape
  <1> QED BY <1>3, <1>4 DEF S!ReadVault

\* What a queue that takes one write more still holds.
LEMMA QueueRoom ==
  ASSUME NEW d \in S!DeskRec, Len(d.queue) < MaxQueue, NEW u, NEW q \in QueueOp, u.queue = Append(d.queue, q)
  PROVE  Len(u.queue) <= MaxQueue
  BY DeskTypes, DeskQueueTypes, QueueGrows, DeskConstants

LEMMA LoadedKeepsDesk ==
  ASSUME DeskShape(desk), DeskWell(desk), NEW l \in S!Slot, S!Loaded(l)
  PROVE  DeskInv(desk')
  <1> DEFINE r == desk.loads[l]
             M == IF r.at = "read" /\ r.got # NoDesk THEN [desk.memory EXCEPT ![r.id] = r.got] ELSE desk.memory
             t == IF r.fresh THEN r.got ELSE desk.runtime
             K == [desk.loads EXCEPT ![l] = S!NoLoad]
  <1>1. /\ desk \in S!DeskRec /\ r.at \in {"hit", "read"}
        /\ r.got \in DeskAddress \cup {NoDesk} /\ r.fresh \in BOOLEAN
        /\ r.id \in DeskServer
    BY DeskLoadTypes DEF DeskShape, S!Loaded, DeskWell, LoadsMatch
  <1>2. M \in [DeskServer -> DeskAddress \cup {NoDesk}] /\ t \in DeskAddress \cup {NoDesk}
    BY <1>1, DeskTypes
  <1>3. S!NoLoad \in S!LoadRec
    BY DeskConstants DEF S!NoLoad, S!LoadRec
  <1>4. K \in [S!Slot -> S!LoadRec] /\ K[l] = S!NoLoad /\ \A m \in S!Slot \ {l} : K[m] = desk.loads[m]
    BY <1>1, <1>3, DeskTypes
  <1>5. desk' = [desk EXCEPT !.memory = M, !.runtime = t, !.loads = K]
    <2>1. CASE r.at = "read" /\ r.got # NoDesk
      BY <1>1, <2>1 DEF S!Loaded, S!DeskRec
    <2>2. CASE ~(r.at = "read" /\ r.got # NoDesk)
      BY <1>1, <2>2 DEF S!Loaded, S!DeskRec
    <2> QED BY <2>1, <2>2
  <1>6. M = desk.memory \/ (r.at = "read" /\ M = [desk.memory EXCEPT ![r.id] = r.got])
    OBVIOUS
  <1>7. t = desk.runtime \/ (r.fresh /\ t = r.got)
    OBVIOUS
  <1> HIDE DEF M, t, K
  <1>8. /\ desk' \in S!DeskRec /\ desk'.loads = K /\ desk'.memory = M /\ desk'.runtime = t
        /\ desk'.phase = desk.phase /\ desk'.registry = desk.registry /\ desk'.file = desk.file
        /\ desk'.shown = desk.shown /\ desk'.gone = desk.gone
        /\ desk'.vault = desk.vault /\ desk'.queue = desk.queue
        /\ desk'.flows = desk.flows /\ desk'.revision = desk.revision
    BY <1>1, <1>2, <1>4, <1>5 DEF S!DeskRec
  <1>9. SameLists(desk, desk') /\ SameTurn(desk, desk')
    BY <1>8 DEF SameLists, SameTurn
  <1>10. LoadEnds(desk, desk', l)
    BY <1>4, <1>6, <1>7, <1>8, <1>9 DEF LoadEnds
  <1>11. DeskWell(desk')
    BY <1>1, <1>10, LoadEndsIsWell
  <1> QED BY <1>8, <1>11 DEF DeskInv, DeskShape

LEMMA SaveSessionKeeps ==
  ASSUME DeskShape(desk), DeskWell(desk), ~desk.raced, S!SaveSession
  PROVE  DeskInv(desk')
  <1> DEFINE s == desk.shown.id
             a == desk.shown.at
             M == [desk.memory EXCEPT ![s] = a]
             x == desk.raced \/ S!Changing(desk)
             val == IF desk.safe THEN a ELSE NoDesk
             e == [desk EXCEPT !.runtime = a, !.memory = M, !.raced = x]
  <1>1. /\ desk \in S!DeskRec /\ desk.phase = "app" /\ Len(desk.queue) < MaxQueue
        /\ s \in DeskServer /\ a = desk.file.at[s]
    BY DeskTypes DEF DeskShape, S!SaveSession, S!CanQueue, DeskWell, ShowsActive
  <1>2. a \in DeskAddress \cup {NoDesk} /\ val \in DeskAddress \cup {NoDesk} /\ val \in DeskHas(a)
    BY <1>1, DeskTypes DEF DeskHas
  <1>3. M \in [DeskServer -> DeskAddress \cup {NoDesk}] /\ x \in BOOLEAN
    BY <1>1, <1>2, DeskTypes DEF S!Changing
  <1>4. desk' = S!Enqueue(e, NoDesk, s, val)
    BY <1>1 DEF S!SaveSession, S!DeskRec
  <1> HIDE DEF M, x, val
  <1>5. /\ e \in S!DeskRec /\ e.runtime = a /\ e.memory = M /\ (e.raced <=> x)
        /\ e.phase = desk.phase /\ e.registry = desk.registry /\ e.file = desk.file /\ e.shown = desk.shown
        /\ e.gone = desk.gone /\ e.vault = desk.vault /\ e.queue = desk.queue
        /\ e.flows = desk.flows /\ e.revision = desk.revision /\ e.loads = desk.loads
    BY <1>1, <1>2, <1>3 DEF S!DeskRec
  <1> HIDE DEF e
  <1>6. /\ desk' \in S!DeskRec /\ SameLists(e, desk') /\ SameTurn(e, desk') /\ SameRun(e, desk')
        /\ desk'.memory = e.memory /\ desk'.vault = e.vault /\ desk'.raced = e.raced
        /\ desk'.queue = Append(e.queue, [by |-> NoDesk, id |-> s, val |-> val])
    BY <1>1, <1>2, <1>4, <1>5, EnqueueFields
  <1>7. SameLists(desk, desk') /\ SameTurn(desk, desk')
    BY <1>5, <1>6 DEF SameLists, SameTurn
  <1>8. Pushes(desk, desk', s, a, val) /\ desk'.runtime = a
    BY <1>5, <1>6, <1>7 DEF Pushes, SameRun, M
  <1>9. ASSUME ~desk'.raced
        PROVE  DeskWell(desk')
    BY <1>5, <1>6, <1>9, <1>1, <1>2, <1>8, PushedIsWell DEF x, S!Changing, Writes, DeskHas
  <1>10. Len(desk'.queue) <= MaxQueue
    <2>1. [by |-> NoDesk, id |-> s, val |-> val] \in QueueOp
      BY <1>1, <1>2 DEF QueueOp
    <2> QED BY <1>1, <1>5, <1>6, <2>1, QueueRoom
  <1> QED BY <1>6, <1>9, <1>10 DEF DeskInv, DeskShape

LEMMA LogoutKeeps ==
  ASSUME DeskShape(desk), DeskWell(desk), S!Logout
  PROVE  DeskInv(desk')
  <1> DEFINE s == desk.shown.id
             e == S!ClearRuntime(desk)
  <1>1. /\ desk \in S!DeskRec /\ desk.phase # "loading" /\ Len(desk.queue) < MaxQueue /\ s \in DeskServer
    BY DeskTypes DEF DeskShape, S!Logout, S!CanQueue, DeskWell, ShowsActive, BootsClean
  <1>2. desk' = S!ClearSession(e, NoDesk, s)
    BY DEF S!Logout
  <1>3. /\ e \in S!DeskRec /\ SameLists(desk, e) /\ SameKept(desk, e) /\ SameTurn(desk, e)
        /\ e.runtime = NoDesk /\ Staled(desk, e)
    BY <1>1, ClearRuntimeFields
  <1> HIDE DEF e
  <1>4. DeskWell(e)
    BY <1>3, DroppedIsWell
  <1>5. /\ desk' \in S!DeskRec /\ SameLists(e, desk') /\ SameTurn(e, desk') /\ SameRun(e, desk')
        /\ desk'.memory = [e.memory EXCEPT ![s] = NoDesk] /\ desk'.vault = e.vault
        /\ desk'.queue = Append(e.queue, [by |-> NoDesk, id |-> s, val |-> NoDesk])
    <2>1. e \in S!DeskRec /\ s \in DeskServer /\ NoDesk \in S!Kind \cup {NoDesk}
      BY <1>1, <1>3
    <2> HIDE DEF s
    <2> QED BY ONLY <1>2, <2>1, ClearSessionFields
  <1>6. Pushes(e, desk', s, NoDesk, NoDesk) /\ desk'.runtime = e.runtime
    BY <1>5 DEF Pushes, SameRun
  <1>7. e.phase # "loading" /\ NoDesk \in DeskHas(e.file.at[s])
    BY <1>1, <1>3 DEF SameLists, DeskHas
  <1>8. DeskWell(desk')
    BY <1>1, <1>3, <1>4, <1>6, <1>7, PushedIsWell
  <1>9. Len(desk'.queue) <= MaxQueue
    BY <1>1, <1>3, <1>5, QueueRoom DEF QueueOp, SameKept
  <1> QED BY <1>5, <1>8, <1>9 DEF DeskInv, DeskShape

LEMMA NobodyWrites ==
  ASSUME NEW d \in S!DeskRec, ~S!Writing(d)
  PROVE  Idles(d)
  BY DEF S!Writing, Idles, Writes

LEMMA SelectKeeps ==
  ASSUME DeskShape(desk), DeskWell(desk), ~desk.raced, NEW s \in DeskServer, NEW k \in S!Kind \ {"remove"},
         NEW a \in DeskAddress \cup {NoDesk}, desk.flows[k].at = "idle", desk.phase # "loading", s \notin desk.gone,
         desk' = S!Probe(desk, k, s, a)
  PROVE  DeskInv(desk')
  BY ProbeFields, NobodyWrites, ProbeIsWell DEF DeskShape, SameKept, DeskInv

LEMMA ClicksKeep ==
  ASSUME DeskShape(desk), DeskWell(desk), ~desk.raced, NEW s \in DeskServer,
         S!SelectServer(s) \/ \E a \in DeskAddress : S!Connect(s, a)
  PROVE  DeskInv(desk')
  BY DeskConstants, DeskTypes, RegistryTypes, SelectKeeps DEF DeskShape, S!SelectServer, S!Listed,
     DeskWell, BootsClean, S!NoList, SessionsMatch, ShowsActive, S!Connect

\* A function whose validation is superseded or fails, or whose list cannot be saved.
LEMMA FreedKeeps ==
  ASSUME DeskShape(desk), DeskWell(desk), NEW k \in S!Kind, desk.flows[k].at # "clearing",
         desk' = S!Freed(desk, k)
  PROVE  DeskInv(desk')
  <1>1. desk \in S!DeskRec
    BY DEF DeskShape
  <1>2. /\ desk' \in S!DeskRec /\ SameLists(desk, desk') /\ SameKept(desk, desk') /\ SameRun(desk, desk')
        /\ desk'.revision = desk.revision /\ desk'.raced = desk.raced
        /\ desk'.flows[k] = S!NoFlow /\ \A j \in S!Kind \ {k} : desk'.flows[j] = desk.flows[j]
    BY <1>1, FreedFields
  <1>3. Ends(desk, desk', k)
    BY <1>2 DEF Ends
  <1>4. \A i \in 1..Len(desk.queue) : desk.queue[i].by # k
    BY DeskConstants DEF DeskWell, WritesMatch, Awaits
  <1>5. DeskWell(desk')
    BY <1>1, <1>3, <1>4, EndedIsWell
  <1>6. DeskShape(desk')
    BY <1>2 DEF DeskShape, SameKept
  <1> QED BY <1>5, <1>6 DEF DeskInv

LEMMA ValidatedKeeps ==
  ASSUME DeskShape(desk), DeskWell(desk), ~desk.raced, NEW k \in S!Kind, S!Validated(k)
  PROVE  DeskInv(desk')
  <1> DEFINE f == desk.flows[k]
             was == f.list.at[f.id]
             x == desk.raced \/ S!Writing(desk)
             d == [desk EXCEPT !.raced = x]
  <1>1. desk \in S!DeskRec /\ f.at = "probing" /\ desk.phase # "loading" /\ k # "remove"
    BY DEF DeskShape, S!Validated, DeskWell, BootsClean, ProbesMatch
  <1>2. x \in BOOLEAN
    BY <1>1, DeskTypes DEF S!Writing
  <1> HIDE DEF x
  <1>3. /\ d \in S!DeskRec /\ (d.raced <=> x)
        /\ d.phase = desk.phase /\ d.registry = desk.registry /\ d.file = desk.file /\ d.shown = desk.shown
        /\ d.gone = desk.gone /\ d.memory = desk.memory /\ d.vault = desk.vault /\ d.queue = desk.queue
        /\ d.flows = desk.flows /\ d.revision = desk.revision /\ d.runtime = desk.runtime
        /\ d.loads = desk.loads
    BY <1>1, <1>2 DEF S!DeskRec
  <1>4. CASE S!Superseded(f) /\ desk' = S!Freed(desk, k)
    BY <1>1, <1>4, FreedKeeps
  <1>5. CASE ~S!Superseded(f) /\ was \in {NoDesk, f.to} /\ desk' = S!Commit(d, k)
    <2> HIDE DEF d
    <2>1. /\ desk' \in S!DeskRec /\ SameLists(d, desk') /\ SameKept(d, desk')
          /\ desk'.revision = d.revision /\ desk'.raced = d.raced /\ desk'.runtime = NoDesk
          /\ Staled(d, desk') /\ FlowMoves(d, desk', k, "saving")
      BY <1>3, <1>5, CommitFields
    <2>2. SameLists(desk, desk') /\ SameKept(desk, desk') /\ desk'.revision = desk.revision
      BY <1>3, <2>1 DEF SameLists, SameKept
    <2>3. Staled(desk, desk') /\ FlowMoves(desk, desk', k, "saving")
      BY <1>3, <2>1 DEF Staled, FlowMoves
    <2>4. ASSUME ~desk'.raced
          PROVE  DeskWell(desk')
      BY <1>1, <1>3, <2>1, <2>4, NobodyWrites, <1>5, <2>2, <2>3, SavingIsWell DEF x, S!Superseded
    <2>5. DeskShape(desk')
      BY <2>1, <2>2 DEF DeskShape, SameKept
    <2> QED BY <2>4, <2>5 DEF DeskInv
  <1>6. CASE /\ ~S!Superseded(f) /\ S!CanQueue
             /\ desk' = S!ClearSession([d EXCEPT !.flows[k].at = "clearing"], k, f.id)
    <2> DEFINE e == [d EXCEPT !.flows[k].at = "clearing"]
    <2>1. /\ f.id \in DeskServer /\ f.list = desk.registry /\ f.id \notin desk.gone /\ f.rev = desk.revision
      BY <1>1, <1>6, DeskFlowTypes DEF S!Superseded, DeskWell, ProbesMatch
    <2>2. desk' = S!ClearSession(e, k, f.id)
      BY <1>6
    <2> HIDE DEF d
    <2>3. /\ e \in S!DeskRec /\ SameLists(d, e) /\ SameKept(d, e) /\ SameRun(d, e)
          /\ e.revision = d.revision /\ e.raced = d.raced /\ FlowMoves(d, e, k, "clearing")
      BY <1>3, FlowMovesFields
    <2> HIDE DEF e
    <2>4. /\ desk' \in S!DeskRec /\ SameLists(e, desk') /\ SameTurn(e, desk') /\ SameRun(e, desk')
          /\ desk'.memory = [e.memory EXCEPT ![f.id] = NoDesk] /\ desk'.vault = e.vault
          /\ desk'.raced <=> e.raced \/ S!ReadUnderWay(e, f.id)
          /\ desk'.queue = Append(e.queue, [by |-> k, id |-> f.id, val |-> NoDesk])
      BY <2>1, <2>2, <2>3, ClearSessionFields
    <2>5. /\ SameLists(desk, desk') /\ SameRun(desk, desk') /\ desk'.vault = desk.vault
          /\ desk'.revision = desk.revision
          /\ desk'.memory = [desk.memory EXCEPT ![f.id] = NoDesk]
          /\ desk'.queue = Append(desk.queue, [by |-> k, id |-> f.id, val |-> NoDesk])
      BY <1>3, <2>3, <2>4 DEF SameLists, SameKept, SameRun, SameTurn
    <2>6. /\ desk'.flows[k].at = "clearing" /\ desk'.flows[k].list = f.list /\ desk'.flows[k].id = f.id
          /\ \A j \in S!Kind \ {k} : desk'.flows[j] = desk.flows[j]
      BY <1>3, <2>3, <2>4 DEF SameTurn, FlowMoves
    <2>7. ASSUME ~desk'.raced
          PROVE  DeskWell(desk')
      <3>1. Idles(desk)
        BY <1>1, <1>3, <2>3, <2>4, <2>7, NobodyWrites DEF x
      <3>2. ~S!ReadUnderWay(desk, f.id)
        BY <1>3, <2>3, <2>4, <2>7 DEF S!ReadUnderWay, SameRun
      <3>3. \A j \in S!Kind \ {k} : desk.flows[j].at = "probing" =>
              desk.flows[j].rev <= desk.revision /\ desk.flows[j].rev # desk.revision
        BY <1>1, <2>1 DEF DeskWell, ProbesMatch
      <3>4. \A j \in S!Kind \ {k} : desk.flows[j].at = "probing" => desk.flows[j].rev < desk'.revision
        BY <1>1, <2>5, <3>3, DeskFlowTypes, DeskTypes
      <3>5. desk.revision <= desk'.revision
        BY <1>1, <2>5, DeskTypes
      <3>6. StartsClearing(desk, desk', k)
        BY <1>1, <2>1, <2>5, <2>6, <3>2, <3>4, <3>5 DEF StartsClearing
      <3> QED BY <1>1, <2>4, <3>1, <3>6, ClearingIsWell
    <2>8. Len(desk'.queue) <= MaxQueue
      <3>1. [by |-> k, id |-> f.id, val |-> NoDesk] \in QueueOp
        BY <2>1 DEF QueueOp
      <3> QED BY <1>1, <1>6, <2>5, <3>1, QueueRoom DEF S!CanQueue
    <2> QED BY <2>4, <2>7, <2>8 DEF DeskInv, DeskShape
  <1> QED BY <1>4, <1>5, <1>6 DEF S!Validated, x

LEMMA RemoveKeeps ==
  ASSUME DeskShape(desk), DeskWell(desk), ~desk.raced, NEW s \in DeskServer, S!Remove(s)
  PROVE  DeskInv(desk')
  <1> DEFINE w == [at |-> "clearing", id |-> s, to |-> NoDesk, rev |-> 0, list |-> desk.registry]
             F == [desk.flows EXCEPT !["remove"] = w]
             x == desk.raced \/ S!Writing(desk)
             n == desk.revision + 1
             e == [desk EXCEPT !.revision = n, !.raced = x, !.flows = F]
  <1>1. /\ desk \in S!DeskRec /\ Len(desk.queue) < MaxQueue /\ "remove" \in S!Kind
        /\ desk.registry.at[s] # NoDesk
    BY DeskConstants DEF DeskShape, S!Remove, S!CanQueue, S!Listed
  <1>2. desk.phase # "loading"
    BY <1>1 DEF DeskWell, BootsClean, S!NoList
  <1>3. s \notin desk.gone
    BY <1>1, <1>2 DEF DeskWell, SessionsMatch, ShowsActive
  <1>4. w \in S!FlowRec /\ w.at = "clearing" /\ w.id = s /\ w.to = NoDesk /\ w.list = desk.registry
    BY <1>1, DeskTypes DEF S!FlowRec
  <1>5. desk' = S!ClearSession(e, "remove", s)
    BY <1>1 DEF S!Remove, S!DeskRec
  <1> HIDE DEF w
  <1>6. F \in [S!Kind -> S!FlowRec] /\ F["remove"] = w /\ \A j \in S!Kind \ {"remove"} : F[j] = desk.flows[j]
    BY <1>1, <1>4, DeskTypes
  <1>7. x \in BOOLEAN /\ n \in Nat /\ desk.revision \in Nat /\ desk.revision < n
    BY <1>1, DeskTypes DEF S!Writing
  <1> HIDE DEF F, x, n
  <1>8. /\ e \in S!DeskRec /\ (e.raced <=> x) /\ e.flows = F /\ e.revision = n
        /\ e.phase = desk.phase /\ e.registry = desk.registry /\ e.file = desk.file /\ e.shown = desk.shown
        /\ e.gone = desk.gone /\ e.memory = desk.memory /\ e.vault = desk.vault /\ e.queue = desk.queue
        /\ e.runtime = desk.runtime /\ e.loads = desk.loads
    BY <1>1, <1>6, <1>7 DEF S!DeskRec
  <1> HIDE DEF e
  <1>9. /\ desk' \in S!DeskRec /\ SameLists(e, desk') /\ SameTurn(e, desk') /\ SameRun(e, desk')
        /\ desk'.memory = [e.memory EXCEPT ![s] = NoDesk] /\ desk'.vault = e.vault
        /\ desk'.raced <=> e.raced \/ S!ReadUnderWay(e, s)
        /\ desk'.queue = Append(e.queue, [by |-> "remove", id |-> s, val |-> NoDesk])
    <2>1. e \in S!DeskRec /\ "remove" \in S!Kind \cup {NoDesk} /\ s \in DeskServer
      BY <1>1, <1>8
    <2> QED BY ONLY <1>5, <2>1, ClearSessionFields
  <1>10. /\ SameLists(desk, desk') /\ SameRun(desk, desk') /\ desk'.vault = desk.vault
         /\ desk'.revision = n /\ desk'.flows = F
         /\ desk'.memory = [desk.memory EXCEPT ![s] = NoDesk]
         /\ desk'.queue = Append(desk.queue, [by |-> "remove", id |-> s, val |-> NoDesk])
    BY <1>8, <1>9 DEF SameLists, SameRun, SameTurn
  <1>11. ASSUME ~desk'.raced
         PROVE  DeskWell(desk')
    <2>1. Idles(desk)
      BY <1>1, <1>8, <1>9, <1>11, NobodyWrites DEF x
    <2>2. ~S!ReadUnderWay(desk, s)
      BY <1>8, <1>9, <1>11 DEF S!ReadUnderWay
    <2>3. \A j \in S!Kind : desk.flows[j].at = "probing" => desk.flows[j].rev <= desk.revision
      BY DEF DeskWell, ProbesMatch
    <2>4. \A j \in S!Kind : desk.flows[j].at = "probing" => desk.flows[j].rev < desk'.revision
      BY <1>1, <1>7, <1>10, <2>3, DeskFlowTypes
    <2>5. desk.revision <= desk'.revision
      BY <1>7, <1>10
    <2>6. StartsClearing(desk, desk', "remove")
      BY <1>3, <1>4, <1>6, <1>10, <2>2, <2>4, <2>5 DEF StartsClearing
    <2> QED BY <1>1, <1>2, <1>9, <2>1, <2>6, ClearingIsWell
  <1>12. Len(desk'.queue) <= MaxQueue
    BY <1>1, <1>10, QueueRoom DEF QueueOp
  <1> QED BY <1>9, <1>11, <1>12 DEF DeskInv, DeskShape

\* What a function that waited for the vault does next.
LEMMA ClearedKeeps ==
  ASSUME NEW d \in S!DeskRec, DeskWell(d), NEW k \in S!Kind,
         d.flows[k].at = "clearing", KeptFor(d, d.flows[k].id, NoDesk),
         \A i \in 1..Len(d.queue) : d.queue[i].by # k
  PROVE  LET u == S!Cleared(d, k)
         IN u \in S!DeskRec /\ u.queue = d.queue /\ DeskWell(u)
  <1> DEFINE u == S!Cleared(d, k)
             f == d.flows[k]
  <1>1. CASE k = "connect"
    <2>1. u = S!Commit(d, k)
      BY <1>1 DEF S!Cleared
    <2> HIDE DEF u
    <2>2. /\ u \in S!DeskRec /\ SameLists(d, u) /\ SameKept(d, u)
          /\ u.revision = d.revision /\ u.runtime = NoDesk
          /\ Staled(d, u) /\ FlowMoves(d, u, k, "saving")
      BY <2>1, CommitFields
    <2>3. DeskWell(u)
      BY <2>2, ClearedIsWell
    <2> QED BY <2>2, <2>3 DEF u, SameKept
  <1>2. CASE k # "connect"
    <2> DEFINE e == IF f.list.active = f.id THEN S!ClearRuntime(d) ELSE d
    <2>1. u = [e EXCEPT !.flows[k].at = "saving"]
      BY <1>2 DEF S!Cleared
    <2>2. /\ e \in S!DeskRec /\ SameLists(d, e) /\ SameKept(d, e) /\ SameTurn(d, e)
          /\ \/ e.runtime = NoDesk /\ Staled(d, e)
             \/ SameRun(d, e) /\ f.list.active # f.id
      BY ClearRuntimeFields DEF SameLists, SameKept, SameTurn, SameRun
    <2> HIDE DEF e, u
    <2>3. /\ u \in S!DeskRec /\ SameLists(e, u) /\ SameKept(e, u) /\ SameRun(e, u)
          /\ u.revision = e.revision /\ FlowMoves(e, u, k, "saving")
      BY <2>1, <2>2, FlowMovesFields
    <2>4. SameLists(d, u) /\ SameKept(d, u)
      BY <2>2, <2>3 DEF SameLists, SameKept
    <2>5. u.revision = d.revision /\ FlowMoves(d, u, k, "saving")
      BY <2>2, <2>3 DEF SameTurn, FlowMoves
    <2>6. \/ u.runtime = NoDesk /\ Staled(d, u)
          \/ SameRun(d, u) /\ f.list.active # f.id
      BY <2>2, <2>3 DEF SameRun, Staled
    <2>7. DeskWell(u)
      BY <2>4, <2>5, <2>6, ClearedIsWell
    <2> QED BY <2>3, <2>4, <2>7 DEF u, SameKept
  <1> QED BY <1>1, <1>2

LEMMA WriteVaultKeeps ==
  ASSUME DeskShape(desk), DeskWell(desk), S!WriteVault
  PROVE  DeskInv(desk')
  <1> DEFINE op == Head(desk.queue)
             Q == Tail(desk.queue)
             K == [l \in S!Slot |-> [desk.loads[l] EXCEPT !.behind = IF @ = 0 THEN 0 ELSE @ - 1]]
             d == [desk EXCEPT !.queue = Q, !.loads = K]
             W == [desk.vault EXCEPT ![op.id] = op.val]
             e == [d EXCEPT !.vault = W]
             after(z) == op.by # NoDesk /\ z.flows[op.by].at = "clearing"
  <1>1. desk \in S!DeskRec /\ desk.queue # <<>> /\ Len(desk.queue) <= MaxQueue
    BY DEF DeskShape, S!WriteVault
  <1>2. Q \in Seq(QueueOp) /\ op \in QueueOp /\ op = desk.queue[1] /\ Len(desk.queue) \in Nat /\ Len(Q) = Len(desk.queue) - 1
    BY <1>1, DeskTypes, QueueShrinks
  <1>3. /\ K \in [S!Slot -> S!LoadRec]
        /\ \A l \in S!Slot : /\ K[l].at = desk.loads[l].at /\ K[l].id = desk.loads[l].id
                             /\ K[l].got = desk.loads[l].got /\ K[l].fresh = desk.loads[l].fresh
    <2>1. ASSUME NEW r \in S!LoadRec
          PROVE  LET q == [r EXCEPT !.behind = IF @ = 0 THEN 0 ELSE @ - 1]
                 IN /\ q \in S!LoadRec /\ q.at = r.at /\ q.id = r.id /\ q.got = r.got /\ q.fresh = r.fresh
      <3> DEFINE b == IF r.behind = 0 THEN 0 ELSE r.behind - 1
      <3>1. r.behind \in 0..MaxQueue
        BY DEF S!LoadRec
      <3>2. b \in 0..MaxQueue
        BY <3>1, DeskConstants
      <3> HIDE DEF b
      <3>3. LET q == [r EXCEPT !.behind = b]
            IN /\ q \in S!LoadRec /\ q.at = r.at /\ q.id = r.id /\ q.got = r.got /\ q.fresh = r.fresh
        BY <3>2 DEF S!LoadRec
      <3> QED BY <3>3 DEF b
    <2>2. \A l \in S!Slot : desk.loads[l] \in S!LoadRec
      BY <1>1, DeskLoadTypes
    <2> QED BY <2>1, <2>2
  <1>4. W \in [DeskServer -> DeskAddress \cup {NoDesk}]
    BY <1>1, <1>2, DeskTypes DEF QueueOp
  <1>5. \/ desk' = IF after(e) THEN S!Cleared(e, op.by) ELSE e
        \/ desk' = IF after(d) THEN S!Freed(d, op.by) ELSE d
    BY <1>1 DEF S!DeskRec, S!WriteVault
  <1> HIDE DEF K, Q, W, op
  <1>6. /\ d \in S!DeskRec /\ d.queue = Q /\ d.loads = K
        /\ d.phase = desk.phase /\ d.registry = desk.registry /\ d.file = desk.file /\ d.shown = desk.shown
        /\ d.gone = desk.gone /\ d.memory = desk.memory /\ d.vault = desk.vault
        /\ d.flows = desk.flows /\ d.revision = desk.revision /\ d.runtime = desk.runtime
    BY <1>1, <1>2, <1>3 DEF S!DeskRec, QueueOp
  <1>7. /\ e \in S!DeskRec /\ e.queue = Q /\ e.loads = K
        /\ e.phase = desk.phase /\ e.registry = desk.registry /\ e.file = desk.file /\ e.shown = desk.shown
        /\ e.gone = desk.gone /\ e.memory = desk.memory /\ e.vault = W
        /\ e.flows = desk.flows /\ e.revision = desk.revision /\ e.runtime = desk.runtime
    BY <1>4, <1>6 DEF S!DeskRec
  <1> HIDE DEF d, e
  <1>8. Pops(desk, d) /\ Pops(desk, e)
    BY <1>3, <1>6, <1>7, <1>2 DEF SameLoads, SameLists, SameTurn, Pops, Q, W
  <1>9. DeskWell(d) /\ DeskWell(e)
    BY <1>1, <1>8, PoppedIsWell
  <1>10. op.by # NoDesk =>
           /\ op.by \in S!Kind /\ desk.flows[op.by].at = "clearing" /\ desk.flows[op.by].id = op.id /\ op.val = NoDesk
           /\ \A i \in 1..Len(Q) : Q[i].by # op.by /\ (Q[i].id = op.id => Q[i].val = NoDesk)
    <2> SUFFICES ASSUME desk.queue[1].by # NoDesk
                 PROVE  WritesLast(desk, d)
      BY <1>2, <1>6 DEF WritesLast
    <2>1. d.queue = Tail(desk.queue)
      BY <1>6 DEF Q
    <2> QED BY <1>1, <2>1, PoppedLast
  <1>11. Len(Q) <= MaxQueue
    BY <1>1, <1>2, DeskConstants
  <1>12. CASE desk' = e
    BY <1>7, <1>9, <1>11, <1>12 DEF DeskInv, DeskShape
  <1>13. CASE desk' = d
    BY <1>6, <1>9, <1>11, <1>13 DEF DeskInv, DeskShape
  <1>14. CASE op.by # NoDesk /\ desk' = S!Cleared(e, op.by)
    <2> DEFINE k == op.by
    <2>1. k \in S!Kind /\ e.flows[k].at = "clearing" /\ e.flows[k].id = op.id /\ op.id \in DeskServer
      BY <1>2, <1>7, <1>10, <1>14 DEF QueueOp
    <2>2. \A i \in 1..Len(e.queue) : e.queue[i].by # k
      BY <1>7, <1>10, <1>14
    <2>3. KeptFor(e, op.id, NoDesk)
      BY <1>9, <2>1, <1>1, <1>7, <1>10, <1>14, DeskTypes DEF DeskWell, WritesMatch, Clears, W,
         KeptFor, DeskHas
    <2> HIDE DEF k
    <2>4. desk' \in S!DeskRec /\ desk'.queue = e.queue /\ DeskWell(desk')
      BY <1>14, <2>1, <2>3, <1>7, <1>9, <2>2, ClearedKeeps DEF k
    <2> QED BY <1>7, <1>11, <2>4 DEF DeskInv, DeskShape
  <1>15. CASE op.by # NoDesk /\ desk' = S!Freed(d, op.by)
    <2> DEFINE k == op.by
    <2>1. k \in S!Kind /\ \A i \in 1..Len(d.queue) : d.queue[i].by # k
      BY <1>6, <1>10, <1>15
    <2>2. desk' = S!Freed(d, k)
      BY <1>15
    <2> HIDE DEF k
    <2>3. /\ desk' \in S!DeskRec /\ SameLists(d, desk') /\ SameKept(d, desk') /\ SameRun(d, desk')
          /\ desk'.revision = d.revision
          /\ desk'.flows[k] = S!NoFlow /\ \A j \in S!Kind \ {k} : desk'.flows[j] = d.flows[j]
      BY <1>6, <2>1, <2>2, FreedFields
    <2>4. DeskWell(desk')
      BY <1>6, <1>9, <2>1, <2>3, EndedIsWell DEF Ends
    <2> QED BY <1>6, <1>11, <2>3, <2>4 DEF DeskInv, DeskShape, SameKept
  <1> QED BY <1>5, <1>12, <1>13, <1>14, <1>15

\* The list is saved, the function is done, and the window shows what it did.
Listing(d, u, k, list, ids) ==
  /\ u.file = list /\ u.registry = list /\ u.gone = ids
  /\ u.shown = d.shown /\ u.phase = d.phase /\ u.revision = d.revision
  /\ SameKept(d, u) /\ SameRun(d, u)
  /\ u.flows[k] = S!NoFlow /\ \A j \in S!Kind \ {k} : u.flows[j] = d.flows[j]

LEMMA ListingFields ==
  ASSUME NEW d \in S!DeskRec, NEW k \in S!Kind, NEW list \in S!Registry, NEW ids \in SUBSET DeskServer
  PROVE  LET u == S!Freed([d EXCEPT !.file = list, !.registry = list, !.gone = ids], k)
         IN u \in S!DeskRec /\ Listing(d, u, k, list, ids)
  <1> DEFINE e == [d EXCEPT !.file = list, !.registry = list, !.gone = ids]
             u == S!Freed(e, k)
  <1>1. /\ e \in S!DeskRec /\ e.file = list /\ e.registry = list /\ e.gone = ids
        /\ e.phase = d.phase /\ e.shown = d.shown /\ e.flows = d.flows /\ e.revision = d.revision
        /\ e.memory = d.memory /\ e.vault = d.vault /\ e.queue = d.queue
        /\ e.runtime = d.runtime /\ e.loads = d.loads
    BY DEF S!DeskRec
  <1> HIDE DEF e
  <1>2. /\ u \in S!DeskRec /\ SameLists(e, u) /\ SameKept(e, u) /\ SameRun(e, u) /\ u.revision = e.revision
        /\ u.flows[k] = S!NoFlow /\ \A j \in S!Kind \ {k} : u.flows[j] = e.flows[j]
    BY <1>1, FreedFields
  <1> HIDE DEF u
  <1>3. SameKept(d, u) /\ SameRun(d, u)
    BY <1>1, <1>2 DEF SameKept, SameRun
  <1>4. Listing(d, u, k, list, ids)
    BY <1>1, <1>2, <1>3 DEF Listing, SameLists
  <1> QED BY <1>2, <1>4 DEF e, u

\* The server active in the list is shown, or there is none.
ListingShown(d, u, k, list, ids) ==
  /\ u.file = list /\ u.registry = list /\ u.gone = ids
  /\ SameKept(d, u) /\ u.revision = d.revision /\ u.shown.id = list.active
  /\ u.flows[k] = S!NoFlow /\ \A j \in S!Kind \ {k} : u.flows[j] = d.flows[j]
  /\ list.active = NoDesk => u.phase = "setup" /\ u.runtime = d.runtime /\ Staled(d, u)
  /\ list.active # NoDesk => /\ u.phase = "app" /\ u.shown.at = list.at[list.active]
                             /\ u.runtime = NoDesk /\ Activated(d, u, list.active)

LEMMA ListedIsShown ==
  ASSUME NEW d, DeskShape(d), S!IdleLoad(d) # {}, NEW k \in S!Kind, NEW list \in S!Registry, NEW ids,
         NEW h \in S!DeskRec, Listing(d, h, k, list, ids), NEW u, u = S!Show(h, list.active)
  PROVE  u \in S!DeskRec /\ ListingShown(d, u, k, list, ids)
  <1>1. DeskShape(h) /\ S!IdleLoad(h) # {}
    BY DEF DeskShape, S!IdleLoad, Listing, SameKept, SameRun
  <1>2. u \in S!DeskRec /\ ShowsServer(h, u, list.active)
    BY <1>1, RegistryTypes, ShowFields
  <1>3. SameKept(d, u)
    BY <1>2 DEF ShowsServer, Listing, SameKept
  <1>4. u.flows = h.flows /\ u.revision = h.revision
    BY <1>2 DEF ShowsServer, SameTurn
  <1>5. list.active = NoDesk => u.phase = "setup" /\ u.runtime = d.runtime /\ Staled(d, u)
    BY <1>2 DEF ShowsServer, Listing, SameRun, Staled
  <1>6. list.active # NoDesk =>
          /\ u.phase = "app" /\ u.shown.at = list.at[list.active]
          /\ u.runtime = NoDesk /\ Activated(d, u, list.active)
    BY <1>2 DEF ShowsServer, Listing, SameRun, SameKept, Activated
  <1>7. u.file = list /\ u.registry = list /\ u.gone = ids /\ u.shown.id = list.active
    BY <1>2 DEF ShowsServer, Listing
  <1> QED BY <1>2, <1>3, <1>4, <1>5, <1>6, <1>7 DEF Listing, ListingShown

LEMMA SaveListKeeps ==
  ASSUME DeskShape(desk), DeskWell(desk), NEW k \in S!Kind, S!SaveList(k)
  PROVE  DeskInv(desk')
  <1> DEFINE f == desk.flows[k]
  <1>1. /\ desk \in S!DeskRec /\ f.at = "saving" /\ f.at \in Writes /\ S!IdleLoad(desk) # {}
    BY DEF DeskShape, S!SaveList, Writes
  <1>2. /\ f.id \in DeskServer /\ f.to \in DeskAddress \cup {NoDesk} /\ f.list = desk.registry
        /\ f.list.at \in [DeskServer -> DeskAddress \cup {NoDesk}] /\ f.list.active \in DeskServer \cup {NoDesk}
    BY <1>1, DeskFlowTypes DEF DeskWell, ProbesMatch
  <1>3. desk.registry = desk.file /\ desk.gone \subseteq DeskServer
    BY <1>1, DeskTypes DEF DeskWell, BootsClean, ShowsActive
  <1>4. CASE desk' = S!Freed(desk, k)
    BY <1>1, <1>4, FreedKeeps
  <1>5. ASSUME NEW list \in S!Registry, NEW ids \in SUBSET DeskServer, NEW h \in S!DeskRec,
               Listing(desk, h, k, list, ids),
               list.at = [f.list.at EXCEPT ![f.id] = f.to],
               \/ ids = desk.gone /\ list.active = f.id
               \/ k = "remove" /\ ids = desk.gone \cup {f.id},
               \/ desk' = S!Show(h, list.active) /\ (list.active = NoDesk => k = "remove" /\ f.list.active = f.id)
               \/ desk' = h /\ f.list.active # f.id /\ list.active = f.list.active
        PROVE  DeskInv(desk')
    <2>1. list.at[f.id] = f.to /\ \A s \in DeskServer \ {f.id} : list.at[s] = desk.file.at[s]
      BY <1>2, <1>3, <1>5
    <2>2. list.active \in DeskServer \cup {NoDesk}
      BY RegistryTypes
    <2>3. /\ desk' \in S!DeskRec /\ desk'.file = list /\ desk'.registry = list /\ desk'.gone = ids
          /\ SameKept(desk, desk') /\ desk'.revision = desk.revision
          /\ desk'.flows[k] = S!NoFlow /\ \A j \in S!Kind \ {k} : desk'.flows[j] = desk.flows[j]
          /\ ShowsSaved(desk, desk', k)
      BY <1>1, <1>5, ListedIsShown, <2>2 DEF ShowsSaved, ListingShown, Listing
    <2>4. desk'.gone = desk.gone \/ (k = "remove" /\ desk'.gone = desk.gone \cup {f.id})
      BY <1>5, <2>3
    <2>5. SavesList(desk, desk', k)
      BY <2>1, <2>3, <2>4 DEF SavesList
    <2>6. DeskWell(desk')
      BY <1>1, <2>3, <2>5, SavedIsWell
    <2> QED BY <2>3, <2>6 DEF DeskInv, DeskShape, SameKept
  <1>6. ASSUME NEW a \in DeskServer \cup {NoDesk}, NEW list, NEW t \in DeskAddress \cup {NoDesk},
               list = [at |-> [f.list.at EXCEPT ![f.id] = t], active |-> a]
        PROVE  list \in S!Registry /\ list.at = [f.list.at EXCEPT ![f.id] = t] /\ list.active = a
    BY <1>2, <1>6 DEF S!Registry
  <1>7. ASSUME k # "remove", NEW list, list = S!Upserted(f),
               desk' = S!Show(S!Freed([desk EXCEPT !.file = list, !.registry = list], k), f.id)
        PROVE  DeskInv(desk')
    <2> DEFINE h == S!Freed([desk EXCEPT !.file = list, !.registry = list, !.gone = desk.gone], k)
    <2>1. list \in S!Registry /\ list.at = [f.list.at EXCEPT ![f.id] = f.to] /\ list.active = f.id
      BY <1>2, <1>6, <1>7 DEF S!Upserted
    <2>2. desk.gone \in SUBSET DeskServer
      BY <1>3
    <2>3. h \in S!DeskRec /\ Listing(desk, h, k, list, desk.gone)
      BY <1>1, <2>1, <2>2, ListingFields
    <2>4. [desk EXCEPT !.file = list, !.registry = list]
            = [desk EXCEPT !.file = list, !.registry = list, !.gone = desk.gone]
      BY <1>1 DEF S!DeskRec
    <2>5. desk' = S!Show(h, list.active)
      BY <1>7, <2>1, <2>4
    <2> HIDE DEF h
    <2>6. f.id # NoDesk
      BY <1>2, DeskConstants
    <2> QED BY <1>5, <2>1, <2>2, <2>3, <2>5, <2>6
  <1>8. ASSUME k = "remove", NEW list \in S!Without(f), NEW d,
               d = S!Freed([desk EXCEPT !.file = list, !.registry = list, !.gone = @ \cup {f.id}], k),
               desk' = IF f.list.active = f.id THEN S!Show(d, list.active) ELSE d
        PROVE  DeskInv(desk')
    <2> DEFINE left == [f.list.at EXCEPT ![f.id] = NoDesk]
               rest == {s \in DeskServer : left[s] # NoDesk}
               ids == desk.gone \cup {f.id}
    <2>1. PICK a \in IF f.list.active # f.id THEN {f.list.active} ELSE IF rest = {} THEN {NoDesk} ELSE rest :
            list = [at |-> left, active |-> a]
      BY <1>8 DEF S!Without
    <2>2. a \in DeskServer \cup {NoDesk} /\ (f.list.active # f.id => a = f.list.active)
      BY <1>2, <2>1
    <2>3. f.to = NoDesk
      BY <1>1, <1>8 DEF DeskWell, WritesMatch
    <2>4. list \in S!Registry /\ list.at = [f.list.at EXCEPT ![f.id] = f.to] /\ list.active = a
      BY <1>2, <1>6, <2>1, <2>2, <2>3
    <2>5. ids \in SUBSET DeskServer
      BY <1>2, <1>3
    <2>6. d = S!Freed([desk EXCEPT !.file = list, !.registry = list, !.gone = ids], k)
      BY <1>1, <1>8, SMTT(30) DEF S!DeskRec
    <2> HIDE DEF ids
    <2>7. d \in S!DeskRec /\ Listing(desk, d, k, list, ids)
      BY <1>1, <2>4, <2>5, <2>6, ListingFields
    <2>8. \/ desk' = S!Show(d, list.active) /\ (list.active = NoDesk => k = "remove" /\ f.list.active = f.id)
          \/ desk' = d /\ f.list.active # f.id /\ list.active = f.list.active
      BY <1>8, <2>2, <2>4
    <2>9. k = "remove" /\ ids = desk.gone \cup {f.id}
      BY <1>8 DEF ids
    <2> QED BY <1>5, <2>4, <2>5, <2>7, <2>8, <2>9
  <1> QED BY <1>4, <1>7, <1>8 DEF S!SaveList

LEMMA ProbeFailsKeeps ==
  ASSUME DeskShape(desk), DeskWell(desk), NEW k \in S!Kind, S!ProbeFails(k)
  PROVE  DeskInv(desk')
  BY FreedKeeps DEF S!ProbeFails

\* What the disk holds when the application starts.
StartsClean(d) ==
  /\ d.phase = "loading" /\ d.registry = S!NoList /\ d.shown = [id |-> NoDesk, at |-> NoDesk]
  /\ d.runtime = NoDesk /\ d.memory = S!Nobody /\ d.queue = <<>> /\ d.revision = 0 /\ d.busy = NoDesk
  /\ \A k \in S!Kind : d.flows[k] = S!NoFlow
  /\ \A l \in S!Slot : d.loads[l] = S!NoLoad
  /\ \A s \in DeskServer : d.vault[s] \in DeskHas(d.file.at[s])
  /\ \A s \in d.gone : d.file.at[s] = NoDesk

LEMMA StartIsWell ==
  ASSUME NEW d, StartsClean(d)
  PROVE  DeskWell(d) /\ Len(d.queue) = 0
  BY DeskConstants DEF StartsClean, S!NoFlow, S!NoLoad, BootsClean, ShowsActive, LoadsMatch,
     S!Nobody, KeptFor, DeskHas, SessionsMatch, Writes, ProbesMatch, WritesMatch, DeskWell

\* Where every part of the window starts.
LEMMA StartTypes ==
  LET F == [k \in S!Kind |-> S!NoFlow]
      K == [l \in S!Slot |-> S!NoLoad]
      w == [id |-> NoDesk, at |-> NoDesk]
  IN /\ F \in [S!Kind -> S!FlowRec] /\ \A k \in S!Kind : F[k] = S!NoFlow
     /\ K \in [S!Slot -> S!LoadRec] /\ \A l \in S!Slot : K[l] = S!NoLoad
     /\ w \in [id: DeskServer \cup {NoDesk}, at: DeskAddress \cup {NoDesk}]
     /\ S!NoList \in S!Registry /\ S!Nobody \in [DeskServer -> DeskAddress \cup {NoDesk}]
     /\ <<>> \in Seq(QueueOp)
  <1>1. S!NoList \in S!Registry /\ S!Nobody \in [DeskServer -> DeskAddress \cup {NoDesk}]
    BY DEF S!NoList, S!Nobody, S!Registry
  <1>2. S!NoFlow \in S!FlowRec
    BY <1>1 DEF S!NoFlow, S!FlowRec
  <1>3. S!NoLoad \in S!LoadRec
    BY DeskConstants DEF S!NoLoad, S!LoadRec
  <1>4. <<>> \in Seq(QueueOp)
    OBVIOUS
  <1> HIDE DEF S!NoFlow, S!NoLoad
  <1> QED BY <1>1, <1>2, <1>3, <1>4

LEMMA QuitKeeps ==
  ASSUME DeskShape(desk), DeskWell(desk), S!Quit
  PROVE  DeskInv(desk')
  <1> DEFINE F == [k \in S!Kind |-> S!NoFlow]
             K == [l \in S!Slot |-> S!NoLoad]
             w == [id |-> NoDesk, at |-> NoDesk]
             N == S!NoList
             M == S!Nobody
             Q == <<>>
  <1>1. desk \in S!DeskRec
    BY DEF DeskShape
  <1>2. desk' = [desk EXCEPT !.phase = "loading", !.registry = N, !.shown = w, !.runtime = NoDesk,
                             !.memory = M, !.queue = Q, !.revision = 0, !.busy = NoDesk,
                             !.flows = F, !.loads = K]
    BY DEF S!Quit
  <1>3. /\ F \in [S!Kind -> S!FlowRec] /\ \A k \in S!Kind : F[k] = S!NoFlow
        /\ K \in [S!Slot -> S!LoadRec] /\ \A l \in S!Slot : K[l] = S!NoLoad
        /\ w \in [id: DeskServer \cup {NoDesk}, at: DeskAddress \cup {NoDesk}]
        /\ N \in S!Registry /\ M \in [DeskServer -> DeskAddress \cup {NoDesk}]
        /\ Q \in Seq(QueueOp)
    BY StartTypes
  <1> HIDE DEF F, K, w, N, M, Q
  <1>4. /\ desk' \in S!DeskRec
        /\ desk'.phase = "loading" /\ desk'.registry = N /\ desk'.shown = w /\ desk'.runtime = NoDesk
        /\ desk'.memory = M /\ desk'.queue = Q /\ desk'.revision = 0 /\ desk'.busy = NoDesk
        /\ desk'.flows = F /\ desk'.loads = K
        /\ desk'.file = desk.file /\ desk'.vault = desk.vault /\ desk'.gone = desk.gone
    BY <1>1, <1>2, <1>3 DEF S!DeskRec, QueueOp
  <1>5. \A s \in DeskServer : desk.vault[s] \in DeskHas(desk.file.at[s])
    BY DEF DeskWell, SessionsMatch, KeptFor
  <1>6. \A s \in desk.gone : desk.file.at[s] = NoDesk
    BY DEF DeskWell, SessionsMatch
  <1>7. StartsClean(desk')
    BY <1>3, <1>4, <1>5, <1>6 DEF StartsClean, w, N, M, Q
  <1>8. DeskWell(desk') /\ Len(desk'.queue) = 0
    BY <1>7, StartIsWell
  <1> QED BY <1>4, <1>8, DeskConstants DEF DeskInv, DeskShape

\* The list on the disk at the start, and the window before it is read.
StartList(a, two, fresh) ==
  LET s == CHOOSE x \in DeskServer : TRUE
  IN IF fresh THEN S!NoList
     ELSE [at |-> [x \in DeskServer |-> IF x = s THEN a
                                        ELSE IF two THEN CHOOSE b \in DeskAddress : b # a ELSE NoDesk],
           active |-> s]

StartDesk(list, safe) ==
  [phase |-> "loading", registry |-> S!NoList, file |-> list,
   shown |-> [id |-> NoDesk, at |-> NoDesk], runtime |-> NoDesk, safe |-> safe,
   memory |-> S!Nobody, vault |-> IF safe THEN list.at ELSE S!Nobody,
   queue |-> <<>>, revision |-> 0, busy |-> NoDesk,
   flows |-> [k \in S!Kind |-> S!NoFlow], loads |-> [l \in S!Slot |-> S!NoLoad],
   gone |-> {}, raced |-> FALSE]

LEMMA DeskStarts ==
  ASSUME S!Init
  PROVE  DeskInv(desk)
  <1> DEFINE F == [k \in S!Kind |-> S!NoFlow]
             K == [l \in S!Slot |-> S!NoLoad]
             w == [id |-> NoDesk, at |-> NoDesk]
             N == S!NoList
             M == S!Nobody
             Q == <<>>
             s == CHOOSE x \in DeskServer : TRUE
             b(a) == CHOOSE y \in DeskAddress : y # a
  <1>1. s \in DeskServer /\ \A a \in DeskAddress : b(a) \in DeskAddress
    BY ClientAssumption DEF DeskAssumption
  <1>2. PICK a \in DeskAddress, two \in BOOLEAN, safe \in BOOLEAN, fresh \in BOOLEAN :
          (fresh => two) /\ desk = StartDesk(StartList(a, two, fresh), safe)
    BY Zenon DEF S!Init, StartList, StartDesk
  <1> DEFINE T == StartList(a, two, fresh)
             W == IF safe THEN T.at ELSE M
  <1>3. T \in S!Registry
    <2>1. CASE fresh
      BY <2>1, StartTypes DEF StartList
    <2>2. CASE ~fresh
      <3> DEFINE g == [x \in DeskServer |-> IF x = s THEN a ELSE IF two THEN b(a) ELSE NoDesk]
      <3>1. g \in [DeskServer -> DeskAddress \cup {NoDesk}]
        BY <1>1
      <3>2. T = [at |-> g, active |-> s]
        BY <2>2 DEF StartList
      <3> HIDE DEF g, s, T
      <3> QED BY <1>1, <3>1, <3>2 DEF S!Registry
    <2> QED BY <2>1, <2>2
  <1>4. /\ F \in [S!Kind -> S!FlowRec] /\ \A k \in S!Kind : F[k] = S!NoFlow
        /\ K \in [S!Slot -> S!LoadRec] /\ \A l \in S!Slot : K[l] = S!NoLoad
        /\ w \in [id: DeskServer \cup {NoDesk}, at: DeskAddress \cup {NoDesk}]
        /\ N \in S!Registry /\ M \in [DeskServer -> DeskAddress \cup {NoDesk}]
        /\ Q \in Seq(QueueOp)
    BY StartTypes
  <1>5. desk = [phase |-> "loading", registry |-> N, file |-> T,
                shown |-> w, runtime |-> NoDesk, safe |-> safe, memory |-> M, vault |-> W,
                queue |-> Q, revision |-> 0, busy |-> NoDesk, flows |-> F, loads |-> K,
                gone |-> {}, raced |-> FALSE]
    BY <1>2 DEF StartDesk
  <1> HIDE DEF T
  <1>6. W \in [DeskServer -> DeskAddress \cup {NoDesk}] /\ \A x \in DeskServer : W[x] \in DeskHas(T.at[x])
    BY <1>3, RegistryTypes, <1>4 DEF DeskHas, S!Nobody
  <1> HIDE DEF F, K, w, N, M, Q, W
  <1>7. /\ desk \in S!DeskRec
        /\ desk.phase = "loading" /\ desk.registry = N /\ desk.shown = w /\ desk.runtime = NoDesk
        /\ desk.memory = M /\ desk.queue = Q /\ desk.revision = 0 /\ desk.busy = NoDesk
        /\ desk.flows = F /\ desk.loads = K
        /\ desk.file = T /\ desk.vault = W /\ desk.gone = {}
    BY <1>3, <1>4, <1>5, <1>6 DEF S!DeskRec, QueueOp
  <1>8. StartsClean(desk)
    BY <1>4, <1>6, <1>7 DEF StartsClean, w, N, M, Q
  <1>9. DeskWell(desk) /\ Len(desk.queue) = 0
    BY <1>8, StartIsWell
  <1> QED BY <1>7, <1>9, DeskConstants DEF DeskInv, DeskShape

LEMMA DeskNextKeeps ==
  ASSUME DeskInv(desk), [S!Next]_S!deskVars
  PROVE  DeskInv(desk')
  BY BootKeeps, SaveSessionKeeps, LogoutKeeps, WriteVaultKeeps, QuitKeeps, ReadVaultKeeps,
     LoadedKeepsDesk, ClicksKeep, RemoveKeeps, ValidatedKeeps, ProbeFailsKeeps, SaveListKeeps DEF
     S!deskVars, S!Next, DeskInv

DeskKept == DeskInv(desk)

LEMMA DeskInvariant == S!Spec => []DeskKept
<1>1. S!Init => DeskKept
  BY DeskStarts DEF DeskKept
<1>2. DeskKept /\ [S!Next]_S!deskVars => DeskKept'
  BY DeskNextKeeps DEF DeskKept
<1> QED BY <1>1, <1>2, PTL DEF S!Spec

\* A quiet window is what the invariant makes of it.
LEMMA DeskIsSettled == DeskKept => S!ServersSettle
  <1> SUFFICES ASSUME DeskKept, S!Quiet, ~desk.raced
               PROVE  /\ desk.registry = desk.file
                      /\ desk.shown.id = desk.file.active
                      /\ desk.shown.id # NoDesk => desk.shown.at = desk.file.at[desk.shown.id]
                      /\ desk.runtime \in {NoDesk, desk.shown.at}
                      /\ desk.gone \cap S!Listed(desk.file) = {}
                      /\ \A s \in DeskServer : {desk.memory[s], desk.vault[s]} \subseteq {NoDesk, desk.file.at[s]}
    BY DEF S!ServersSettle
  <1>1. DeskWell(desk) /\ desk.phase # "loading"
    BY DEF DeskKept, DeskInv, S!Quiet
  <1>2. /\ desk.registry = desk.file /\ desk.shown.id = desk.file.active
        /\ desk.shown.id # NoDesk => desk.shown.at = desk.file.at[desk.shown.id]
        /\ desk.runtime \in {NoDesk, desk.shown.at}
    BY <1>1 DEF DeskWell, ShowsActive
  <1>3. desk.gone \cap S!Listed(desk.file) = {}
    BY <1>1 DEF DeskWell, SessionsMatch, S!Listed
  <1>4. \A s \in DeskServer : {desk.memory[s], desk.vault[s]} \subseteq {NoDesk, desk.file.at[s]}
    BY <1>1 DEF DeskWell, SessionsMatch, KeptFor, DeskHas
  <1> QED BY <1>2, <1>3, <1>4

\* Whichever selections superseded each other, whichever probe or write failed and
\* wherever the application ended: once nothing is under way, the window shows the
\* server active on disk with its own session, no removed server is back, and no
\* session outlives its server or its address (DesktopApp.tsx, electron/main.ts).  A
\* behaviour in which a click, a validation, a saved session or a read from disk overlaps
\* another function's write is over there (raced): the code may bring a server back.
THEOREM ServersSettleTheorem == S!Spec => []S!ServersSettle
<1>1. S!Spec => []DeskKept
  BY DeskInvariant
<1>2. DeskKept => S!ServersSettle
  BY DeskIsSettled
<1> QED BY <1>1, <1>2, PTL

\* Whichever step of a capture fails, and whichever picker windows close in between:
\* a request that waits for a choice has a window that can answer it, a capture that is
\* over left no picture, no audio graph and no helper process, and one that is on shows
\* what was chosen (stream-media.ts, music-media.ts, excluded-system-audio.ts).
THEOREM CaptureEndsCleanTheorem == C!Spec => []C!CaptureEndsClean
<1>1. C!Spec => []CaptureWell
  BY CaptureInvariant
<1>2. CaptureWell => C!CaptureEndsClean
  BY CaptureIsClean
<1> QED BY <1>1, <1>2, PTL

\* The desktop client keeps both: its servers settle, as long as no action has overlapped
\* another's write (raced), and its captures end clean, but for what a reload or a quit
\* leaves running (leaked).
THEOREM DesktopSettlesTheorem == S!Spec /\ C!Spec => []DesktopSettles
<1>1. S!Spec => []S!ServersSettle
  BY ServersSettleTheorem
<1>2. C!Spec => []C!CaptureEndsClean
  BY CaptureEndsCleanTheorem
<1> QED BY <1>1, <1>2, PTL DEF DesktopSettles

-----------------------------------------------------------------------------
(* Baker Lite.                                                             *)

\* The types of the fields (LiteRec), each on its own.
LiteFields ==
  {"url", "probe", "requests", "data", "auth", "access", "refresh", "stale", "remembered", "store",
   "timer", "owed", "untimed", "want", "left", "gate", "again", "wait", "socket", "peer", "greeted",
   "asked", "offered", "refused", "commands"}
LiteTyped(l) ==
  /\ DOMAIN l = LiteFields
  /\ l.url \in LiteServer \cup {NoLite} /\ l.probe \in BOOLEAN
  /\ l.requests \in [Lite!Slot -> Lite!RequestRec] /\ l.data \in LiteServer \cup {NoLite}
  /\ l.auth \in {"LoggedOut", "Authenticating", "Authenticated", "Refreshing"}
  /\ l.access \in LiteServer \cup {NoLite} /\ l.refresh \in LiteServer \cup {NoLite}
  /\ l.stale \in BOOLEAN /\ l.remembered \in BOOLEAN /\ l.store \in [LiteServer -> BOOLEAN]
  /\ l.timer \in BOOLEAN /\ l.owed \in BOOLEAN /\ l.untimed \in BOOLEAN
  /\ l.want \in BOOLEAN /\ l.left \in BOOLEAN
  /\ l.gate \in {"Disconnected", "Connecting", "Connected", "Authenticating", "Ready", "Reconnecting"}
  /\ l.again \in BOOLEAN /\ l.wait \in BOOLEAN
  /\ l.socket \in {"none", "opening", "open", "closing"} /\ l.peer \in LiteServer \cup {NoLite}
  /\ l.greeted \in BOOLEAN /\ l.asked \in {"none", "queued", "sent"}
  /\ l.offered \in LiteServer \cup {NoLite} /\ l.refused \in BOOLEAN
  /\ l.commands \in [LiteCommand -> {"none", "queued", "sent"}]

\* The connection: a socket that is up is wanted, reaches the address in use and has greeted
\* before it is ready; one that is down is waited for when it is wanted.
LiteSocket(l) ==
  /\ l.want => l.url # NoLite
  /\ l.socket = "none" =>
       /\ ~l.greeted /\ l.asked = "none" /\ l.gate \in {"Disconnected", "Reconnecting"}
       /\ l.want => l.wait
       /\ ~l.want => l.gate = "Disconnected"
  /\ l.socket # "none" \/ ~l.want => ~l.wait
  /\ l.socket \in {"opening", "open"} => l.want /\ l.peer = l.url
  /\ l.socket = "opening" => ~l.greeted
  /\ l.asked = "queued" => l.socket = "closing"
  /\ l.asked = "sent" => l.socket = "open" /\ l.offered = l.peer
  /\ \A c \in LiteCommand :
       /\ ~l.want => l.commands[c] = "none"
       /\ l.socket = "open" /\ l.gate = "Ready" => l.commands[c] # "queued"

\* Only a refresh that is owed or a refusal ends an authentication that is not accepted.
LiteGreeted(l) ==
  l.socket = "open" /\ l.greeted /\ l.asked = "none" => l.gate = "Ready" \/ l.refused \/ l.owed

\* The session: what it holds is of the address in use.
LiteTokens(l) ==
  /\ l.access \in {NoLite, l.url} /\ l.refresh \in {NoLite, l.url} /\ l.data \in {NoLite, l.url}
  /\ \A i \in Lite!Slot : LET r == l.requests[i]
                          IN /\ r.kind # "none" => r.at = l.url /\ l.url # NoLite
                             /\ r.token \in {NoLite, r.at}

LiteHeld(l) ==
  /\ l.access # NoLite => l.refresh # NoLite /\ (l.want \/ l.left) /\ (l.store[l.url] => l.remembered)
  /\ l.access = NoLite => ~l.want /\ ~l.timer

LiteAsks(l, kinds) == \E i \in Lite!Slot : l.requests[i].kind \in kinds

\* What is shown of the session is what is held, or asked for.
LiteShown(l) ==
  /\ l.auth = "LoggedOut" => l.access = NoLite
  /\ l.auth = "Authenticated" => l.access # NoLite /\ (l.timer \/ l.untimed)
  /\ l.auth = "Authenticating" => LiteAsks(l, {"login"})
  /\ l.auth = "Refreshing" => LiteAsks(l, {"restore", "refresh"})

LiteGood(l) ==
  LiteTyped(l) /\ LiteSocket(l) /\ LiteGreeted(l) /\ LiteTokens(l) /\ LiteHeld(l) /\ LiteShown(l)

LiteInv == LiteGood(lite)

-----------------------------------------------------------------------------

LiteSameHeld(l, r) ==
  /\ r.url = l.url /\ r.probe = l.probe /\ r.data = l.data /\ r.auth = l.auth /\ r.access = l.access
  /\ r.refresh = l.refresh /\ r.stale = l.stale /\ r.remembered = l.remembered
  /\ r.store = l.store /\ r.timer = l.timer /\ r.owed = l.owed /\ r.untimed = l.untimed

LiteSameSession(l, r) == LiteSameHeld(l, r) /\ r.requests = l.requests

LiteSameSocket(l, r) ==
  /\ r.want = l.want /\ r.left = l.left /\ r.gate = l.gate /\ r.again = l.again /\ r.wait = l.wait
  /\ r.socket = l.socket /\ r.peer = l.peer /\ r.greeted = l.greeted /\ r.asked = l.asked
  /\ r.offered = l.offered /\ r.refused = l.refused /\ r.commands = l.commands

\* When nothing is under way, the invariant says what is promised.
LEMMA LiteInvSettles ==
  ASSUME LiteAssumption, LiteInv
  PROVE  LiteSettles
<1> USE DEF LiteInv, LiteGood
<1> DEFINE l == lite
<1>1. /\ l.auth \in {"LoggedOut", "Authenticating", "Authenticated", "Refreshing"}
      /\ l.socket \in {"none", "opening", "open", "closing"}
      /\ l.url \in LiteServer \cup {NoLite} /\ l.access \in LiteServer \cup {NoLite}
      /\ l.want \in BOOLEAN /\ l.left \in BOOLEAN /\ l.timer \in BOOLEAN /\ l.untimed \in BOOLEAN
      /\ l.store \in [LiteServer -> BOOLEAN]
      /\ l.greeted \in BOOLEAN /\ l.wait \in BOOLEAN
  BY DEF LiteTyped, LiteFields
<1>2. Lite!TokenStaysHome
  BY DEF Lite!TokenStaysHome, LiteTokens, LiteSocket
<1>3. ASSUME Lite!Quiet, l.auth = "LoggedOut"
      PROVE  /\ ~l.want /\ l.socket = "none" /\ l.gate = "Disconnected"
             /\ l.access = NoLite /\ ~l.timer
             /\ \A c \in LiteCommand : l.commands[c] = "none"
  BY <1>3, <1>1 DEF LiteShown, LiteHeld, Lite!Quiet, LiteSocket
<1>4. ASSUME Lite!Quiet, l.auth = "Authenticated"
      PROVE  /\ l.want \/ l.left
             /\ l.timer \/ l.untimed
             /\ l.want => l.gate = "Ready" \/ l.refused \/ l.owed
             /\ l.gate = "Ready" => \A c \in LiteCommand : l.commands[c] # "queued"
             /\ l.store[l.url] => l.remembered
  BY <1>4, <1>1 DEF LiteShown, LiteHeld, Lite!Quiet, LiteSocket, LiteGreeted
<1>5. ASSUME Lite!Quiet PROVE l.auth \in {"LoggedOut", "Authenticated"}
  BY <1>1, <1>5 DEF Lite!Quiet, LiteShown, LiteAsks
<1>6. Lite!ClientSettles
  BY <1>3, <1>4, <1>5 DEF Lite!ClientSettles
<1> QED BY <1>2, <1>6 DEF LiteSettles

\* The connection depends on its own fields and the address.
LEMMA LiteSocketFrame ==
  ASSUME NEW l, NEW r, LiteSocket(l), LiteSameSocket(l, r), r.url = l.url
  PROVE  LiteSocket(r)
BY DEF LiteSocket, LiteSameSocket

\* No command waits, and nothing is asked of the gateway.
LEMMA LiteUnqueues ==
  ASSUME LiteAssumption, NEW l, LiteTyped(l)
  PROVE  LET u == Lite!Unqueued(l)
         IN /\ LiteTyped(u) /\ LiteSameSession(l, u) /\ u.left = l.left /\ u.want = l.want
            /\ u.asked = "none" /\ \A c \in LiteCommand : u.commands[c] = "none"
            /\ u.gate = l.gate /\ u.socket = l.socket /\ u.greeted = l.greeted /\ u.peer = l.peer
            /\ u.wait = l.wait
<1> DEFINE u == Lite!Unqueued(l)
           none == [c \in LiteCommand |-> "none"]
<1>1. none \in [LiteCommand -> {"none", "queued", "sent"}]
  OBVIOUS
<1>2. \A c \in LiteCommand : none[c] = "none"
  OBVIOUS
<1>3. u = [l EXCEPT !.commands = none, !.asked = "none", !.offered = NoLite]
  BY DEF Lite!Unqueued
<1> HIDE DEF none, u
<1>4. LiteTyped(u)
  BY <1>1, <1>3 DEF LiteTyped, LiteFields
<1>5. /\ LiteSameSession(l, u) /\ u.left = l.left /\ u.want = l.want
      /\ u.asked = "none" /\ u.commands = none
      /\ u.gate = l.gate /\ u.socket = l.socket /\ u.greeted = l.greeted /\ u.peer = l.peer
      /\ u.wait = l.wait
  BY <1>3 DEF LiteTyped, LiteFields, LiteSameSession, LiteSameHeld
<1> QED BY <1>2, <1>4, <1>5 DEF u

\* What is left of a connection that nobody wants any more.
LEMMA LiteDisconnects ==
  ASSUME LiteAssumption, NEW l, LiteTyped(l), LiteSocket(l)
  PROVE  LET r == Lite!DisconnectFromServer(l)
         IN /\ LiteTyped(r) /\ LiteSameSession(l, r)
            /\ LiteSocket(r) /\ LiteGreeted(r) /\ ~r.want /\ r.left = l.left
<1> DEFINE r == Lite!DisconnectFromServer(l)
           u == Lite!Unqueued(l)
           w == [u EXCEPT !.want = FALSE, !.wait = FALSE]
<1>1. /\ LiteTyped(u) /\ LiteSameSession(l, u) /\ u.left = l.left
      /\ u.asked = "none" /\ \A c \in LiteCommand : u.commands[c] = "none"
      /\ u.gate = l.gate /\ u.socket = l.socket /\ u.greeted = l.greeted
  BY LiteUnqueues
<1>2. r = IF l.socket = "none" THEN [w EXCEPT !.gate = "Disconnected"] ELSE [w EXCEPT !.socket = "closing"]
  BY DEF Lite!DisconnectFromServer
<1> HIDE DEF r, u
<1>3. LiteTyped(w)
  BY <1>1 DEF LiteTyped, LiteFields
<1>4. /\ w.want = FALSE /\ w.wait = FALSE /\ w.left = l.left /\ LiteSameSession(l, w)
      /\ w.asked = "none" /\ \A c \in LiteCommand : w.commands[c] = "none"
      /\ w.gate = l.gate /\ w.socket = l.socket /\ w.greeted = l.greeted
  BY <1>1 DEF LiteTyped, LiteFields, LiteSameSession, LiteSameHeld
<1> HIDE DEF w
<1>5. CASE l.socket = "none"
  BY <1>2, <1>5, <1>3, <1>4 DEF LiteTyped, LiteFields, LiteSameSession, LiteSameHeld, LiteSocket,
     LiteGreeted, r
<1>6. CASE l.socket # "none"
  BY <1>2, <1>6, <1>3, <1>4 DEF LiteTyped, LiteFields, LiteSameSession, LiteSameHeld, LiteSocket,
     LiteGreeted, r
<1> QED BY <1>5, <1>6 DEF r

\* What is left of a socket that went down.
LEMMA LiteWentDown ==
  ASSUME LiteAssumption, NEW l, LiteTyped(l), l.want => l.url # NoLite
  PROVE  LET r == Lite!HandleDisconnected(l)
         IN /\ LiteTyped(r) /\ LiteSameSession(l, r)
            /\ LiteSocket(r) /\ LiteGreeted(r) /\ r.want = l.want /\ r.left = l.left
<1> DEFINE r == Lite!HandleDisconnected(l)
           u == Lite!Unqueued(l)
           gate == IF l.want THEN "Reconnecting" ELSE "Disconnected"
           again == l.again \/ l.want
           want == l.want
<1>1. gate \in {"Disconnected", "Reconnecting"} /\ again \in BOOLEAN /\ want \in BOOLEAN
  BY DEF LiteTyped
<1>2. /\ LiteTyped(u) /\ LiteSameSession(l, u) /\ u.left = l.left /\ u.want = l.want
      /\ u.asked = "none" /\ \A c \in LiteCommand : u.commands[c] = "none"
  BY LiteUnqueues
<1>3. r = [u EXCEPT !.socket = "none", !.peer = NoLite, !.greeted = FALSE, !.refused = FALSE,
                    !.gate = gate, !.again = again, !.wait = want]
  BY DEF Lite!HandleDisconnected
<1> HIDE DEF gate, again, want, r, u
<1>4. LiteTyped(r)
  BY <1>1, <1>2, <1>3 DEF LiteTyped, LiteFields
<1>5. /\ r.commands = u.commands /\ r.asked = u.asked /\ r.socket = "none" /\ r.greeted = FALSE
      /\ r.gate = gate /\ r.wait = want
      /\ LiteSameSession(u, r) /\ r.left = u.left /\ r.want = u.want
  BY <1>2, <1>3 DEF LiteTyped, LiteFields, LiteSameSession, LiteSameHeld
<1>6. LiteSameSession(l, r)
  BY <1>2, <1>5 DEF LiteSameSession, LiteSameHeld
<1>7. r.wait = l.want /\ r.want = l.want /\ r.gate = IF l.want THEN "Reconnecting" ELSE "Disconnected"
  BY <1>2, <1>5 DEF gate, want
<1>8. l.want \in BOOLEAN /\ r.url = l.url
  BY <1>6 DEF LiteTyped, LiteSameSession, LiteSameHeld
<1>9. LiteSocket(r) /\ LiteGreeted(r)
  BY <1>2, <1>5, <1>7, <1>8 DEF LiteSocket, LiteGreeted
<1> QED BY <1>2, <1>4, <1>5, <1>6, <1>7, <1>9 DEF r

LEMMA LiteOpens ==
  ASSUME LiteAssumption, NEW l, LiteTyped(l), l.want, l.url # NoLite, ~l.wait, l.asked = "none"
  PROVE  LET r == Lite!OpenSocket(l)
         IN /\ LiteTyped(r) /\ LiteSameSession(l, r)
            /\ LiteSocket(r) /\ LiteGreeted(r) /\ r.want = l.want /\ r.left = l.left
<1> DEFINE r == Lite!OpenSocket(l)
           gate == IF l.again THEN "Reconnecting" ELSE "Connecting"
           url == l.url
<1>a. url \in LiteServer \cup {NoLite} /\ gate \in {"Connecting", "Reconnecting"}
  BY DEF LiteTyped
<1> HIDE DEF gate, url
<1>1. r = [l EXCEPT !.gate = gate,
                    !.socket = "opening", !.peer = url, !.greeted = FALSE, !.refused = FALSE]
  BY DEF Lite!OpenSocket, gate, url
<1> HIDE DEF r
<1>2. LiteTyped(r)
  BY <1>a, <1>1, ZenonT(30) DEF LiteTyped, LiteFields
<1>3. /\ r.commands = l.commands /\ r.asked = "none" /\ r.socket = "opening" /\ r.greeted = FALSE
      /\ r.peer = l.url /\ r.wait = l.wait
      /\ LiteSameSession(l, r) /\ r.left = l.left /\ r.want = l.want
  BY <1>1 DEF LiteTyped, LiteFields, LiteSameSession, LiteSameHeld, url
<1>4. l.want \in BOOLEAN /\ r.url = l.url
  BY <1>3 DEF LiteTyped, LiteFields, LiteSameSession, LiteSameHeld
<1>5. LiteSocket(r) /\ LiteGreeted(r)
  BY <1>3, <1>4 DEF LiteSocket, LiteGreeted
<1> QED BY <1>2, <1>3, <1>5 DEF r

\* Connecting wants a socket, and opens one where there is none.
LEMMA LiteConnects ==
  ASSUME LiteAssumption, NEW l, LiteTyped(l), LiteSocket(l), LiteGreeted(l), l.url # NoLite
  PROVE  LET r == Lite!ConnectToServer(l)
         IN /\ LiteTyped(r) /\ LiteSameSession(l, r)
            /\ LiteSocket(r) /\ LiteGreeted(r) /\ r.want
<1> DEFINE r == Lite!ConnectToServer(l)
           w == [l EXCEPT !.want = TRUE, !.left = FALSE]
           o == [w EXCEPT !.wait = FALSE, !.again = FALSE]
<1>1. /\ LiteTyped(w) /\ LiteSameSession(l, w) /\ w.want = TRUE /\ w.socket = l.socket
      /\ w.gate = l.gate /\ w.wait = l.wait /\ w.peer = l.peer /\ w.greeted = l.greeted
      /\ w.asked = l.asked /\ w.offered = l.offered /\ w.commands = l.commands /\ w.refused = l.refused
  BY DEF LiteTyped, LiteFields, LiteSameSession, LiteSameHeld
<1>2. /\ LiteTyped(o) /\ LiteSameSession(l, o) /\ o.want = TRUE /\ o.wait = FALSE
      /\ o.asked = l.asked
  BY DEF LiteTyped, LiteFields, LiteSameSession, LiteSameHeld
<1>3. r = IF l.socket # "none" \/ l.gate \in {"Connecting", "Connected", "Authenticating", "Ready"}
          THEN w ELSE Lite!OpenSocket(o)
  BY DEF Lite!ConnectToServer
<1> HIDE DEF w, o, r
<1>4. CASE l.socket # "none"
  BY <1>1, <1>4, <1>3 DEF LiteSocket, LiteGreeted, LiteSameSession, LiteSameHeld, r
<1>5. CASE l.socket = "none"
  BY <1>5, <1>3, <1>2, LiteOpens DEF LiteSocket, LiteSameSession, LiteSameHeld, r
<1> QED BY <1>4, <1>5

\* Reconnecting leaves a socket that is opening, or none and a timer.
LEMMA LiteReconnects ==
  ASSUME LiteAssumption, NEW l, LiteTyped(l), LiteSocket(l), l.url # NoLite
  PROVE  LET r == Lite!ReconnectNow(l)
         IN /\ LiteTyped(r) /\ LiteSameSession(l, r)
            /\ LiteSocket(r) /\ LiteGreeted(r) /\ r.want
<1> DEFINE r == Lite!ReconnectNow(l)
           w == [l EXCEPT !.want = TRUE, !.left = FALSE, !.wait = FALSE, !.again = FALSE]
<1>1. /\ LiteTyped(w) /\ LiteSameSession(l, w) /\ w.want = TRUE /\ w.wait = FALSE
      /\ w.asked = l.asked
  BY DEF LiteTyped, LiteFields, LiteSameSession, LiteSameHeld
<1>2. r = IF l.socket = "none" THEN Lite!OpenSocket(w) ELSE Lite!HandleDisconnected(w)
  BY DEF Lite!ReconnectNow
<1> HIDE DEF w, r
<1>3. w.url # NoLite
  BY <1>1 DEF LiteSameSession, LiteSameHeld
<1>4. /\ LiteTyped(r) /\ LiteSameSession(w, r)
      /\ LiteSocket(r) /\ LiteGreeted(r) /\ r.want
  BY <1>1, <1>2, <1>3, LiteOpens, LiteWentDown DEF LiteSocket
<1>5. LiteSameSession(l, r)
  BY <1>1, <1>4 DEF LiteSameSession, LiteSameHeld
<1> QED BY <1>4, <1>5 DEF r

-----------------------------------------------------------------------------

\* The types of the session's fields.
LEMMA LiteFieldTypes ==
  ASSUME NEW l, LiteTyped(l)
  PROVE  /\ l.requests \in [Lite!Slot -> Lite!RequestRec]
         /\ \A i \in Lite!Slot : /\ l.requests[i] \in Lite!RequestRec
                                 /\ l.requests[i].at \in LiteServer \cup {NoLite}
                                 /\ l.requests[i].keep \in BOOLEAN
BY DEF LiteTyped, Lite!RequestRec

LiteKeepsAsking(l, r) == \A K : "none" \notin K /\ LiteAsks(l, K) => LiteAsks(r, K)

\* What is sent is of the address in use.
LEMMA LiteSends ==
  ASSUME LiteAssumption, NEW l, LiteTyped(l), Lite!Room(l), LiteTokens(l), l.url # NoLite,
         NEW kind \in {"health", "login", "restore", "refresh", "logout"},
         NEW token \in {NoLite, l.url}, NEW keep \in BOOLEAN
  PROVE  LET r == Lite!Send(l, kind, token, keep)
         IN /\ LiteTyped(r) /\ LiteSameHeld(l, r) /\ LiteSameSocket(l, r)
            /\ LiteTokens(r) /\ LiteKeepsAsking(l, r)
            /\ \A K : kind \in K => LiteAsks(r, K)
            /\ \E i \in Lite!Free(l) :
                 \A j \in Lite!Slot \ {i} : r.requests[j] = l.requests[j]
<1> DEFINE r == Lite!Send(l, kind, token, keep)
           i == CHOOSE n \in Lite!Free(l) : TRUE
           new == [kind |-> kind, at |-> l.url, token |-> token, keep |-> keep]
           rs == [l.requests EXCEPT ![i] = new]
<1>1. i \in Lite!Free(l) /\ i \in Lite!Slot /\ l.requests[i].kind = "none"
  BY DEF Lite!Room, Lite!Free
<1>2. new \in Lite!RequestRec /\ new.kind = kind /\ new.at = l.url /\ new.token = token
  BY DEF Lite!RequestRec, LiteTyped
<1>3. r = [l EXCEPT !.requests = rs]
  BY DEF Lite!Send
<1> HIDE DEF i, new
<1>4. /\ rs \in [Lite!Slot -> Lite!RequestRec] /\ rs[i] = new
      /\ \A j \in Lite!Slot \ {i} : rs[j] = l.requests[j]
  BY <1>1, <1>2, LiteFieldTypes
<1> HIDE DEF rs, r
<1>5. LiteTyped(r) /\ r.requests = rs
  BY <1>3, <1>4 DEF LiteTyped, LiteFields
<1>6. LiteSameHeld(l, r) /\ LiteSameSocket(l, r)
  BY <1>3 DEF LiteTyped, LiteFields, LiteSameHeld, LiteSameSocket
<1>7. LiteTokens(r)
  BY <1>2, <1>4, <1>5, <1>6 DEF LiteTokens, LiteSameHeld
<1>8. \A K : kind \in K => LiteAsks(r, K)
  BY <1>1, <1>2, <1>4, <1>5 DEF LiteAsks
<1>9. LiteKeepsAsking(l, r)
  BY <1>1, <1>4, <1>5 DEF LiteAsks, LiteKeepsAsking
<1> QED BY <1>1, <1>4, <1>5, <1>6, <1>7, <1>8, <1>9 DEF r

\* An answer takes its request away.
LEMMA LiteAnswers ==
  ASSUME LiteAssumption, NEW l, LiteTyped(l), LiteTokens(l), NEW i \in Lite!Slot
  PROVE  LET r == Lite!Answered(l, i)
         IN /\ LiteTyped(r) /\ LiteSameHeld(l, r) /\ LiteSameSocket(l, r)
            /\ LiteTokens(r) /\ Lite!Room(r)
            /\ \A K : l.requests[i].kind \notin K /\ LiteAsks(l, K) => LiteAsks(r, K)
<1> DEFINE r == Lite!Answered(l, i)
           none == Lite!NoRequest
           rs == [l.requests EXCEPT ![i] = none]
<1>1. none \in Lite!RequestRec /\ none.kind = "none" /\ none.token = NoLite
  BY DEF Lite!NoRequest, Lite!RequestRec
<1>2. r = [l EXCEPT !.requests = rs]
  BY DEF Lite!Answered
<1> HIDE DEF none
<1>3. /\ rs \in [Lite!Slot -> Lite!RequestRec] /\ rs[i] = none
      /\ \A j \in Lite!Slot \ {i} : rs[j] = l.requests[j]
  BY <1>1, LiteFieldTypes
<1> HIDE DEF rs, r
<1>4. LiteTyped(r) /\ r.requests = rs
  BY <1>2, <1>3 DEF LiteTyped, LiteFields
<1>5. LiteSameHeld(l, r) /\ LiteSameSocket(l, r)
  BY <1>2 DEF LiteTyped, LiteFields, LiteSameHeld, LiteSameSocket
<1>6. LiteTokens(r)
  BY <1>1, <1>3, <1>4, <1>5 DEF LiteTokens, LiteSameHeld
<1>7. Lite!Room(r)
  BY <1>1, <1>3, <1>4 DEF Lite!Room, Lite!Free
<1>8. \A K : l.requests[i].kind \notin K /\ LiteAsks(l, K) => LiteAsks(r, K)
  BY <1>3, <1>4 DEF LiteAsks
<1> QED BY <1>4, <1>5, <1>6, <1>7, <1>8 DEF r

\* A session that is cleared.
LEMMA LiteClears ==
  ASSUME LiteAssumption, NEW l, LiteTyped(l), LiteTokens(l), NEW forget \in BOOLEAN
  PROVE  LET r == Lite!ClearLocalSession(l, forget)
         IN /\ LiteTyped(r) /\ LiteSameSocket(l, r) /\ LiteTokens(r)
            /\ r.url = l.url /\ r.requests = l.requests
            /\ r.access = NoLite /\ ~r.timer /\ r.auth = "LoggedOut"
<1> DEFINE r == Lite!ClearLocalSession(l, forget)
           store == IF forget /\ l.refresh # NoLite THEN [l.store EXCEPT ![l.url] = FALSE] ELSE l.store
<1>1. store \in [LiteServer -> BOOLEAN]
  BY DEF LiteTyped
<1>2. r = [l EXCEPT !.store = store, !.auth = "LoggedOut", !.access = NoLite, !.refresh = NoLite,
                    !.stale = FALSE, !.remembered = FALSE, !.timer = FALSE, !.owed = FALSE,
                    !.untimed = FALSE]
  BY DEF Lite!ClearLocalSession
<1> HIDE DEF store, r
<1>3. LiteTyped(r)
  BY <1>1, <1>2, ZenonT(30) DEF LiteTyped, LiteFields
<1>4. /\ LiteSameSocket(l, r) /\ r.url = l.url /\ r.requests = l.requests /\ r.data = l.data
      /\ r.access = NoLite /\ r.refresh = NoLite /\ r.timer = FALSE /\ r.auth = "LoggedOut"
  BY <1>2 DEF LiteTyped, LiteFields, LiteSameSocket
<1>5. LiteTokens(r)
  BY <1>4 DEF LiteTokens
<1> QED BY <1>3, <1>4, <1>5 DEF r

\* Signed out: nothing is held and nothing wanted.
LEMMA LiteSignsOut ==
  ASSUME LiteAssumption, NEW l, LiteTyped(l), LiteSocket(l), LiteTokens(l)
  PROVE  LiteGood(Lite!SignedOut(l))
<1> DEFINE c == Lite!ClearLocalSession(l, TRUE)
           r == Lite!DisconnectFromServer(c)
<1>1. /\ LiteTyped(c) /\ LiteSameSocket(l, c) /\ LiteTokens(c)
      /\ c.url = l.url /\ c.requests = l.requests
      /\ c.access = NoLite /\ ~c.timer /\ c.auth = "LoggedOut"
  BY LiteClears
<1> HIDE DEF c
<1>2. LiteSocket(c)
  BY <1>1, LiteSocketFrame
<1>3. /\ LiteTyped(r) /\ LiteSameSession(c, r)
      /\ LiteSocket(r) /\ LiteGreeted(r) /\ ~r.want
  BY <1>1, <1>2, LiteDisconnects
<1> HIDE DEF r
<1>4. LiteTokens(r)
  BY <1>1, <1>3 DEF LiteTokens, LiteSameSession, LiteSameHeld
<1>5. LiteHeld(r) /\ LiteShown(r)
  BY <1>1, <1>3 DEF LiteHeld, LiteShown, LiteSameSession, LiteSameHeld
<1> QED BY <1>3, <1>4, <1>5 DEF LiteGood, Lite!SignedOut, r, c

\* A refresh asks, or does nothing.
LEMMA LiteRefreshes ==
  ASSUME LiteAssumption, NEW l, LiteTyped(l), LiteTokens(l), Lite!Room(l),
         l.access # NoLite => l.refresh # NoLite,
         l.auth = "LoggedOut" => l.access = NoLite,
         l.auth = "Authenticated" => l.access # NoLite,
         l.auth = "Authenticating" => LiteAsks(l, {"login"}),
         l.auth = "Refreshing" => LiteAsks(l, {"restore", "refresh"})
  PROVE  LET r == Lite!RefreshNow(l)
         IN /\ LiteTyped(r) /\ LiteTokens(r) /\ LiteSameSocket(l, r) /\ LiteShown(r)
            /\ r.url = l.url /\ r.access = l.access /\ r.refresh = l.refresh /\ r.owed = l.owed
            /\ r.store = l.store /\ r.remembered = l.remembered
            /\ r.timer => l.timer
<1> DEFINE r == Lite!RefreshNow(l)
           m == [l EXCEPT !.timer = FALSE, !.auth = "Refreshing"]
<1>0. l.auth \in {"LoggedOut", "Authenticating", "Authenticated", "Refreshing"}
  BY DEF LiteTyped
<1>1. CASE l.refresh = NoLite \/ l.auth \in {"Refreshing", "Authenticating"}
  BY <1>1, <1>0 DEF Lite!RefreshNow, LiteShown, LiteSameSocket
<1>2. CASE ~(l.refresh = NoLite \/ l.auth \in {"Refreshing", "Authenticating"})
  <2>1. r = Lite!Send(m, "refresh", l.refresh, l.remembered)
    BY <1>2 DEF Lite!RefreshNow
  <2> HIDE DEF m, r
  <2>2. LiteTyped(m)
    BY DEF m, LiteTyped, LiteFields
  <2>3. /\ LiteSameSocket(l, m) /\ m.timer = FALSE /\ m.auth = "Refreshing"
        /\ m.url = l.url /\ m.access = l.access /\ m.refresh = l.refresh /\ m.owed = l.owed
        /\ m.store = l.store /\ m.remembered = l.remembered /\ m.requests = l.requests
        /\ m.data = l.data
    BY DEF m, LiteTyped, LiteFields, LiteSameSocket
  <2>4. LiteTokens(m) /\ Lite!Room(m)
    BY <2>3 DEF LiteTokens, Lite!Room, Lite!Free
  <2>5. m.url # NoLite /\ l.refresh \in {NoLite, m.url} /\ l.remembered \in BOOLEAN
    BY <1>2, <2>3 DEF LiteTokens, LiteTyped
  <2>6. /\ LiteTyped(r) /\ LiteSameHeld(m, r) /\ LiteSameSocket(m, r)
        /\ LiteTokens(r) /\ \A K : "refresh" \in K => LiteAsks(r, K)
    BY <2>1, <2>2, <2>4, <2>5, LiteSends
  <2>7. LiteShown(r)
    BY <2>3, <2>6 DEF LiteShown, LiteSameHeld
  <2>8. LiteSameSocket(l, r)
    BY <2>3, <2>6 DEF LiteSameSocket
  <2> QED BY <2>3, <2>6, <2>7, <2>8 DEF LiteSameHeld, r
<1> QED BY <1>1, <1>2

\* Another server: nothing of the one before is left, and there is room to ask again.
LEMMA LiteConfigures ==
  ASSUME LiteAssumption, NEW l, LiteTyped(l), LiteSocket(l), LiteTokens(l),
         NEW s \in LiteServer, NEW probe \in BOOLEAN
  PROVE  LET r == Lite!ConfigureServer(l, s, probe)
         IN LiteGood(r) /\ Lite!Room(r) /\ r.url = s /\ r.auth = "LoggedOut"
<1> DEFINE d == Lite!DisconnectFromServer(l)
           c == Lite!ClearLocalSession(d, FALSE)
           none == [i \in Lite!Slot |-> Lite!NoRequest]
           e == [c EXCEPT !.requests = none, !.data = NoLite]
           m == [e EXCEPT !.url = s, !.probe = probe]
           r == Lite!Send(m, "health", NoLite, FALSE)
<1>0. r = Lite!ConfigureServer(l, s, probe)
  BY DEF Lite!ConfigureServer, Lite!AbortAll
<1>1. none \in [Lite!Slot -> Lite!RequestRec] /\ \A i \in Lite!Slot : none[i] = Lite!NoRequest
  BY DEF Lite!NoRequest, Lite!RequestRec
<1>2. Lite!NoRequest.kind = "none" /\ Lite!NoRequest.token = NoLite
  BY DEF Lite!NoRequest
<1> HIDE DEF none
<1>3. LiteTyped(d) /\ LiteSameSession(l, d) /\ LiteSocket(d) /\ ~d.want
  BY LiteDisconnects
<1> HIDE DEF d
<1>4. LiteTokens(d)
  BY <1>3 DEF LiteTokens, LiteSameSession, LiteSameHeld
<1>5. /\ LiteTyped(c) /\ LiteSameSocket(d, c) /\ c.url = d.url
      /\ c.access = NoLite /\ ~c.timer /\ c.auth = "LoggedOut"
  BY <1>3, <1>4, LiteClears
<1>x. c.refresh = NoLite
  BY <1>3 DEF c, Lite!ClearLocalSession, LiteTyped, LiteFields
<1> HIDE DEF c
<1>6. LiteTyped(e)
  BY <1>1, <1>5 DEF LiteTyped, LiteFields
<1>7. /\ LiteSameSocket(c, e) /\ e.requests = none /\ e.data = NoLite /\ e.access = NoLite
      /\ e.refresh = NoLite /\ ~e.timer /\ e.auth = "LoggedOut"
  BY <1>5, <1>x DEF LiteTyped, LiteFields, LiteSameSocket
<1> HIDE DEF e
<1>8. LiteTyped(m)
  BY <1>6 DEF LiteTyped, LiteFields
<1>9. /\ LiteSameSocket(e, m) /\ m.requests = none /\ m.data = NoLite /\ m.access = NoLite
      /\ m.refresh = NoLite /\ ~m.timer /\ m.auth = "LoggedOut" /\ m.url = s
  BY <1>6, <1>7 DEF LiteTyped, LiteFields, LiteSameSocket
<1> HIDE DEF m
<1>10. ~m.want /\ m.socket \in {"none", "closing"} /\ LiteSocket(m)
  BY <1>5, <1>7, <1>9, <1>3 DEF LiteSameSocket, LiteSocket, LiteTyped
<1>11. LiteTokens(m)
  BY <1>1, <1>2, <1>9 DEF LiteTokens
<1>12. 1 \in Lite!Slot /\ 2 \in Lite!Slot
  BY DEF LiteAssumption, Lite!Slot
<1>13. Lite!Free(m) = Lite!Slot /\ Lite!Room(m)
  BY <1>1, <1>2, <1>9, <1>12 DEF Lite!Free, Lite!Room
<1>14. m.url # NoLite
  BY <1>9 DEF LiteAssumption
<1>15. /\ LiteTyped(r) /\ LiteSameHeld(m, r) /\ LiteSameSocket(m, r)
       /\ LiteTokens(r)
       /\ \E i \in Lite!Free(m) : \A j \in Lite!Slot \ {i} : r.requests[j] = m.requests[j]
  <2>1. /\ "health" \in {"health", "login", "restore", "refresh", "logout"}
        /\ NoLite \in {NoLite, m.url} /\ FALSE \in BOOLEAN
    OBVIOUS
  <2>2. LiteTyped(m) /\ Lite!Room(m) /\ LiteTokens(m) /\ m.url # NoLite
    BY <1>8, <1>11, <1>13, <1>14
  <2> QED BY ONLY LiteAssumption, <2>1, <2>2, LiteSends
<1> HIDE DEF r
<1>16. Lite!Room(r)
  <2>1. PICK i \in Lite!Slot : \A j \in Lite!Slot \ {i} : r.requests[j] = m.requests[j]
    BY <1>13, <1>15
  <2>2. PICK j \in Lite!Slot : j # i
    BY <1>12
  <2> QED BY <1>1, <1>2, <1>9, <2>1, <2>2 DEF Lite!Room, Lite!Free
<1>17. LiteSocket(r) /\ LiteGreeted(r)
  BY <1>10, <1>15 DEF LiteSocket, LiteGreeted, LiteSameSocket, LiteSameHeld
<1>18. LiteHeld(r) /\ LiteShown(r)
  BY <1>9, <1>10, <1>15 DEF LiteHeld, LiteShown, LiteSameSocket, LiteSameHeld
<1> QED BY <1>0, <1>9, <1>15, <1>16, <1>17, <1>18 DEF LiteGood, LiteSameHeld

\* A session that is granted is connected, on a new socket when a refresh was owed.
LEMMA LiteBegins ==
  ASSUME LiteAssumption, NEW l, LiteTyped(l), LiteSocket(l), LiteGreeted(l), LiteTokens(l),
         l.url # NoLite, NEW keep \in BOOLEAN
  PROVE  LiteGood(Lite!Begun(Lite!ApplySession(l, l.url, keep)))
<1> DEFINE url == l.url
           store == [l.store EXCEPT ![url] = keep]
           a == Lite!ApplySession(l, url, keep)
           c == Lite!ConnectToServer(a)
           d == Lite!LoadCommunity(c)
           e == [d EXCEPT !.owed = FALSE]
           r == Lite!Begun(a)
<1>14. r = IF a.owed THEN Lite!ReconnectNow(e) ELSE d
  <2> HIDE DEF a
  <2> QED BY DEF Lite!Begun
<1>1. /\ store \in [LiteServer -> BOOLEAN] /\ url \in LiteServer /\ url # NoLite /\ store[url] = keep
  BY DEF LiteTyped
<1>2. a = [l EXCEPT !.access = url, !.refresh = url, !.stale = FALSE, !.remembered = keep,
                    !.auth = "Authenticated", !.store = store, !.timer = TRUE, !.untimed = FALSE]
  BY DEF Lite!ApplySession
<1>3. url \in LiteServer \cup {NoLite} /\ l.url = url
  BY <1>1
<1> HIDE DEF url, store, a
<1>4. LiteTyped(a)
  BY <1>1, <1>2, <1>3 DEF LiteTyped, LiteFields
<1>5. /\ LiteSameSocket(l, a) /\ a.url = l.url /\ a.requests = l.requests /\ a.data = l.data
      /\ a.access = url /\ a.refresh = url /\ a.auth = "Authenticated" /\ a.timer = TRUE
      /\ a.store = store /\ a.remembered = keep /\ a.owed = l.owed
  BY <1>2 DEF LiteTyped, LiteFields, LiteSameSocket
<1>6. LiteSocket(a) /\ LiteGreeted(a)
  BY <1>5 DEF LiteSocket, LiteGreeted, LiteSameSocket
<1>7. /\ LiteTyped(c) /\ LiteSameSession(a, c) /\ LiteSocket(c) /\ LiteGreeted(c) /\ c.want
  BY <1>3, <1>4, <1>5, <1>6, LiteConnects
<1>8. /\ c.url = url /\ c.requests = l.requests /\ c.access = url /\ c.refresh = url
      /\ c.auth = "Authenticated" /\ c.timer = TRUE /\ c.store = store /\ c.remembered = keep
  BY <1>3, <1>5, <1>7 DEF LiteSameSession, LiteSameHeld
<1>9. d = [c EXCEPT !.data = url]
  BY <1>8 DEF Lite!LoadCommunity
<1> HIDE DEF c, d
<1>10. LiteTyped(d)
  BY <1>3, <1>7, <1>9 DEF LiteTyped, LiteFields
<1>11. /\ LiteSameSocket(c, d) /\ d.url = c.url /\ d.requests = c.requests /\ d.access = c.access
       /\ d.refresh = c.refresh /\ d.auth = c.auth /\ d.timer = c.timer /\ d.store = c.store
       /\ d.remembered = c.remembered /\ d.data = url /\ d.owed = c.owed
  BY <1>7, <1>9 DEF LiteTyped, LiteFields, LiteSameSocket
<1>12. LiteTyped(e)
  BY <1>10 DEF LiteTyped, LiteFields
<1>13. LiteSameSocket(d, e) /\ e.url = d.url /\ e.requests = d.requests /\ e.access = d.access
       /\ e.refresh = d.refresh /\ e.auth = d.auth /\ e.timer = d.timer /\ e.store = d.store
       /\ e.remembered = d.remembered /\ e.data = d.data
  BY <1>10 DEF LiteTyped, LiteFields, LiteSameSocket
<1> HIDE DEF e, r
<1>15. ASSUME NEW x, LiteTyped(x), LiteSocket(x), LiteGreeted(x), x.want,
              x.url = url, x.requests = l.requests, x.access = url,
              x.refresh = url, x.auth = "Authenticated", x.timer = TRUE, x.store = store,
              x.remembered = keep, x.data = url
       PROVE  LiteGood(x)
  BY <1>3, <1>15, <1>1 DEF LiteTokens, LiteHeld, LiteShown, LiteGood
<1>16. CASE ~a.owed
  <2>1. LiteSocket(d) /\ LiteGreeted(d) /\ d.want
    BY <1>7, <1>11 DEF LiteSocket, LiteGreeted, LiteSameSocket, LiteSameSession, LiteSameHeld
  <2> QED BY <1>8, <1>10, <1>11, <1>14, <1>15, <1>16, <2>1 DEF r, a, url
<1>17. CASE a.owed
  <2>1. LiteSocket(e)
    BY <1>7, <1>11, <1>13 DEF LiteSocket, LiteSameSocket
  <2>2. /\ LiteTyped(r) /\ LiteSameSession(e, r) /\ LiteSocket(r) /\ LiteGreeted(r) /\ r.want
    BY <1>1, <1>8, <1>11, <1>12, <1>13, <1>14, <1>17, <2>1, LiteReconnects
  <2>3. /\ r.url = url /\ r.requests = l.requests /\ r.access = url
        /\ r.refresh = url /\ r.auth = "Authenticated" /\ r.timer = TRUE /\ r.store = store
        /\ r.remembered = keep /\ r.data = url
    BY <1>8, <1>11, <1>13, <2>2 DEF LiteSameSession, LiteSameHeld
  <2> QED BY <1>15, <2>2, <2>3 DEF r, a, url
<1> QED BY <1>16, <1>17

-----------------------------------------------------------------------------

\* The start: every disk is one to start from.
LEMMA LiteInitGood ==
  ASSUME LiteAssumption, Lite!Init
  PROVE  LiteInv
<1>1. PICK store \in [LiteServer -> BOOLEAN] :
       lite = [url |-> NoLite, probe |-> FALSE, requests |-> [i \in Lite!Slot |-> Lite!NoRequest],
               data |-> NoLite, auth |-> "LoggedOut", access |-> NoLite, refresh |-> NoLite,
               stale |-> FALSE, remembered |-> FALSE, store |-> store, timer |-> FALSE,
               owed |-> FALSE, untimed |-> FALSE, want |-> FALSE, left |-> FALSE, gate |-> "Disconnected",
               again |-> FALSE, wait |-> FALSE, socket |-> "none", peer |-> NoLite,
               greeted |-> FALSE, asked |-> "none", offered |-> NoLite, refused |-> FALSE,
               commands |-> [c \in LiteCommand |-> "none"]]
  BY DEF Lite!Init
<1> DEFINE rs == [i \in Lite!Slot |-> Lite!NoRequest]
           cs == [c \in LiteCommand |-> "none"]
<1>2. /\ rs \in [Lite!Slot -> Lite!RequestRec]
      /\ \A i \in Lite!Slot : rs[i].kind = "none" /\ rs[i].token = NoLite
  BY DEF Lite!NoRequest, Lite!RequestRec
<1>3. cs \in [LiteCommand -> {"none", "queued", "sent"}] /\ \A c \in LiteCommand : cs[c] = "none"
  OBVIOUS
<1> HIDE DEF rs, cs
<1>4. /\ DOMAIN lite = LiteFields
      /\ lite.url = NoLite /\ lite.probe = FALSE /\ lite.requests = rs /\ lite.data = NoLite
      /\ lite.auth = "LoggedOut" /\ lite.access = NoLite /\ lite.refresh = NoLite
      /\ lite.stale = FALSE /\ lite.remembered = FALSE /\ lite.store = store /\ lite.timer = FALSE
      /\ lite.owed = FALSE /\ lite.untimed = FALSE /\ lite.want = FALSE /\ lite.left = FALSE
      /\ lite.gate = "Disconnected" /\ lite.again = FALSE /\ lite.wait = FALSE
      /\ lite.socket = "none" /\ lite.peer = NoLite /\ lite.greeted = FALSE /\ lite.asked = "none"
      /\ lite.offered = NoLite /\ lite.refused = FALSE /\ lite.commands = cs
  BY <1>1 DEF LiteFields, rs, cs
<1>5. LiteTyped(lite)
  BY <1>2, <1>3, <1>4 DEF LiteTyped
<1>6. LiteSocket(lite) /\ LiteGreeted(lite)
  BY <1>3, <1>4 DEF LiteSocket, LiteGreeted
<1>7. LiteTokens(lite) /\ LiteHeld(lite) /\ LiteShown(lite)
  BY <1>2, <1>4 DEF LiteTokens, LiteHeld, LiteShown
<1> QED BY <1>5, <1>6, <1>7 DEF LiteInv, LiteGood

-----------------------------------------------------------------------------

\* The session is as it was where only the connection changed.
LEMMA LiteSessionFrame ==
  ASSUME NEW l, NEW r, LiteTokens(l), LiteShown(l), LiteSameSession(l, r)
  PROVE  LiteTokens(r) /\ LiteShown(r)
BY DEF LiteTokens, LiteShown, LiteAsks, LiteSameSession, LiteSameHeld

\* An answer that the session does not wait for changes nothing else.
LEMMA LiteAnswersGood ==
  ASSUME LiteAssumption, NEW l, LiteGood(l), NEW i \in Lite!Slot,
         l.requests[i].kind \notin {"login", "restore", "refresh"}
  PROVE  LiteGood(Lite!Answered(l, i)) /\ Lite!Room(Lite!Answered(l, i))
<1> DEFINE r == Lite!Answered(l, i)
<1>1. LiteTyped(l) /\ LiteSocket(l) /\ LiteGreeted(l) /\ LiteTokens(l) /\ LiteHeld(l) /\ LiteShown(l)
  BY DEF LiteGood
<1>2. /\ LiteTyped(r) /\ LiteSameHeld(l, r) /\ LiteSameSocket(l, r)
      /\ LiteTokens(r) /\ Lite!Room(r)
      /\ \A K : l.requests[i].kind \notin K /\ LiteAsks(l, K) => LiteAsks(r, K)
  BY <1>1, LiteAnswers
<1> HIDE DEF r
<1>3. LiteSocket(r) /\ LiteGreeted(r)
  BY <1>1, <1>2 DEF LiteSocket, LiteGreeted, LiteSameSocket, LiteSameHeld
<1>4. LiteHeld(r)
  BY <1>1, <1>2 DEF LiteHeld, LiteSameSocket, LiteSameHeld
<1>5. /\ LiteAsks(l, {"login"}) => LiteAsks(r, {"login"})
      /\ LiteAsks(l, {"restore", "refresh"}) => LiteAsks(r, {"restore", "refresh"})
  BY <1>2
<1>6. LiteShown(r)
  BY <1>1, <1>2, <1>5 DEF LiteShown, LiteSameHeld
<1> QED BY <1>2, <1>3, <1>4, <1>6 DEF LiteGood, r

\* Signing in asks for a login.
LEMMA LiteLogsIn ==
  ASSUME LiteAssumption, NEW l, LiteGood(l), Lite!Room(l), l.url # NoLite, NEW keep \in BOOLEAN
  PROVE  LiteGood(Lite!SendLogin(l, keep))
<1> DEFINE m == [l EXCEPT !.auth = "Authenticating"]
           r == Lite!Send(m, "login", NoLite, keep)
<1>1. LiteTyped(l) /\ LiteSocket(l) /\ LiteGreeted(l) /\ LiteTokens(l) /\ LiteHeld(l)
  BY DEF LiteGood
<1>2. LiteTyped(m)
  BY <1>1 DEF LiteTyped, LiteFields
<1>3. /\ LiteSameSocket(l, m) /\ m.auth = "Authenticating" /\ m.url = l.url /\ m.owed = l.owed
      /\ m.access = l.access /\ m.refresh = l.refresh /\ m.data = l.data /\ m.timer = l.timer
      /\ m.store = l.store /\ m.remembered = l.remembered /\ m.requests = l.requests
  BY <1>1 DEF LiteTyped, LiteFields, LiteSameSocket
<1> HIDE DEF m
<1>4. LiteTokens(m) /\ Lite!Room(m) /\ m.url # NoLite
  BY <1>1, <1>3 DEF LiteTokens, Lite!Room, Lite!Free
<1>5. /\ LiteTyped(r) /\ LiteSameHeld(m, r) /\ LiteSameSocket(m, r)
      /\ LiteTokens(r) /\ \A K : "login" \in K => LiteAsks(r, K)
  BY <1>2, <1>4, LiteSends
<1> HIDE DEF r
<1>6. LiteSocket(r) /\ LiteGreeted(r)
  BY <1>1, <1>3, <1>5 DEF LiteSocket, LiteGreeted, LiteSameSocket, LiteSameHeld
<1>7. LiteHeld(r) /\ LiteShown(r)
  BY <1>1, <1>3, <1>5 DEF LiteHeld, LiteShown, LiteSameSocket, LiteSameHeld
<1> QED BY <1>5, <1>6, <1>7 DEF LiteGood, Lite!SendLogin, r, m

\* Restoring asks with the stored token of this address.
LEMMA LiteRestores ==
  ASSUME LiteAssumption, NEW l, LiteGood(l), Lite!Room(l), l.url # NoLite
  PROVE  LiteGood(Lite!Restored(l))
<1> DEFINE url == l.url
           m == [l EXCEPT !.remembered = TRUE, !.refresh = url, !.auth = "Refreshing"]
           r == Lite!Send(m, "restore", l.url, TRUE)
<1>1. LiteTyped(l) /\ LiteSocket(l) /\ LiteGreeted(l) /\ LiteTokens(l) /\ LiteHeld(l)
  BY DEF LiteGood
<1>a. url \in LiteServer \cup {NoLite}
  BY <1>1 DEF LiteTyped
<1>b. r = Lite!Restored(l)
  BY DEF Lite!Restored
<1>c. url # NoLite /\ url = l.url
  OBVIOUS
<1> HIDE DEF url
<1>2. LiteTyped(m)
  BY <1>1, <1>a DEF LiteTyped, LiteFields
<1>3. /\ LiteSameSocket(l, m) /\ m.auth = "Refreshing" /\ m.url = l.url /\ m.owed = l.owed
      /\ m.access = l.access /\ m.refresh = url /\ m.data = l.data /\ m.timer = l.timer
      /\ m.store = l.store /\ m.remembered = TRUE /\ m.requests = l.requests
  BY <1>1 DEF LiteTyped, LiteFields, LiteSameSocket
<1> HIDE DEF m
<1>4. LiteTokens(m) /\ Lite!Room(m) /\ m.url # NoLite
  BY <1>1, <1>3, <1>c DEF LiteTokens, Lite!Room, Lite!Free
<1>5. /\ LiteTyped(r) /\ LiteSameHeld(m, r) /\ LiteSameSocket(m, r)
      /\ LiteTokens(r) /\ \A K : "restore" \in K => LiteAsks(r, K)
  <2>1. /\ "restore" \in {"health", "login", "restore", "refresh", "logout"}
        /\ l.url \in {NoLite, m.url} /\ TRUE \in BOOLEAN
    BY <1>3
  <2> QED BY <1>2, <1>4, <2>1, LiteSends
<1> HIDE DEF r
<1>6. LiteSocket(r) /\ LiteGreeted(r)
  BY <1>1, <1>3, <1>5 DEF LiteSocket, LiteGreeted, LiteSameSocket, LiteSameHeld
<1>7. LiteHeld(r) /\ LiteShown(r)
  BY <1>1, <1>3, <1>5, <1>c DEF LiteHeld, LiteShown, LiteSameSocket, LiteSameHeld
<1> QED BY <1>b, <1>5, <1>6, <1>7 DEF LiteGood

\* A refresh keeps what a session that shows nothing wrong has.
LEMMA LiteRefreshesGood ==
  ASSUME LiteAssumption, NEW l, LiteTyped(l), LiteSocket(l), LiteGreeted(l), LiteTokens(l), LiteHeld(l),
         Lite!Room(l),
         l.auth = "LoggedOut" => l.access = NoLite,
         l.auth = "Authenticated" => l.access # NoLite,
         l.auth = "Authenticating" => LiteAsks(l, {"login"}),
         l.auth = "Refreshing" => LiteAsks(l, {"restore", "refresh"})
  PROVE  LiteGood(Lite!RefreshNow(l))
<1> DEFINE r == Lite!RefreshNow(l)
<1>0. l.access # NoLite => l.refresh # NoLite
  BY DEF LiteHeld
<1>1. /\ LiteTyped(r) /\ LiteTokens(r) /\ LiteSameSocket(l, r) /\ LiteShown(r)
      /\ r.url = l.url /\ r.access = l.access /\ r.refresh = l.refresh /\ r.owed = l.owed
      /\ r.store = l.store /\ r.remembered = l.remembered
      /\ r.timer => l.timer
  BY <1>0, LiteRefreshes
<1> HIDE DEF r
<1>2. LiteSocket(r) /\ LiteGreeted(r)
  BY <1>1 DEF LiteSocket, LiteGreeted, LiteSameSocket
<1>3. LiteHeld(r)
  BY <1>1 DEF LiteHeld, LiteSameSocket
<1> QED BY <1>1, <1>2, <1>3 DEF LiteGood, r

-----------------------------------------------------------------------------
(* Every step keeps the invariant.                                         *)

LEMMA LiteConnect ==
  ASSUME LiteAssumption, LiteInv, NEW s \in LiteServer, Lite!Connect(s)
  PROVE  LiteInv'
<1>1. LiteGood(Lite!ConfigureServer(lite, s, TRUE))
  BY LiteConfigures DEF LiteInv, LiteGood
<1> QED BY <1>1 DEF LiteInv, Lite!Connect

LEMMA LiteLogin ==
  ASSUME LiteAssumption, LiteInv, NEW s \in LiteServer, NEW keep \in BOOLEAN, Lite!Login(s, keep)
  PROVE  LiteInv'
<1>1. s # NoLite
  BY DEF LiteAssumption
<1>2. CASE s # lite.url
  <2> DEFINE c == Lite!ConfigureServer(lite, s, FALSE)
  <2>1. LiteGood(c) /\ Lite!Room(c) /\ c.url = s
    BY LiteConfigures DEF LiteInv, LiteGood
  <2>2. LiteGood(Lite!SendLogin(c, keep))
    <3> HIDE DEF c
    <3> QED BY <1>1, <2>1, LiteLogsIn
  <2>3. lite' = Lite!SendLogin(c, keep)
    BY <1>2 DEF Lite!Login
  <2> QED BY <2>2, <2>3 DEF LiteInv
<1>3. CASE s = lite.url
  BY <1>3, <1>1, LiteLogsIn DEF Lite!Login, LiteInv
<1> QED BY <1>2, <1>3

LEMMA LiteLogout ==
  ASSUME LiteAssumption, LiteInv, Lite!Logout
  PROVE  LiteInv'
<1>1. LiteTyped(lite) /\ LiteSocket(lite) /\ LiteTokens(lite)
  BY DEF LiteInv, LiteGood
<1>2. CASE lite.access = NoLite
  BY <1>2, <1>1, LiteSignsOut DEF Lite!Logout, LiteInv
<1>3. CASE lite.access # NoLite
  <2> DEFINE m == Lite!Send(lite, "logout", lite.access, FALSE)
  <2>1. lite' = Lite!SignedOut(m) /\ Lite!Room(lite) /\ lite.url # NoLite
    BY <1>3 DEF Lite!Logout
  <2>2. /\ "logout" \in {"health", "login", "restore", "refresh", "logout"}
        /\ lite.access \in {NoLite, lite.url} /\ FALSE \in BOOLEAN
    BY <1>1 DEF LiteTokens
  <2>3. LiteTyped(m) /\ LiteSameHeld(lite, m) /\ LiteSameSocket(lite, m) /\ LiteTokens(m)
    BY <1>1, <2>1, <2>2, LiteSends
  <2> HIDE DEF m
  <2>4. LiteSocket(m)
    BY <1>1, <2>3, LiteSocketFrame DEF LiteSameHeld
  <2>5. LiteGood(Lite!SignedOut(m))
    BY <2>3, <2>4, LiteSignsOut
  <2> QED BY <2>1, <2>5 DEF LiteInv
<1> QED BY <1>2, <1>3

LEMMA LiteDisconnect ==
  ASSUME LiteAssumption, LiteInv, Lite!Disconnect
  PROVE  LiteInv'
<1> DEFINE d == Lite!DisconnectFromServer(lite)
           r == [d EXCEPT !.left = TRUE]
<1>1. LiteGood(lite)
  BY DEF LiteInv
<1>2. /\ LiteTyped(d) /\ LiteSameSession(lite, d) /\ LiteSocket(d) /\ LiteGreeted(d) /\ ~d.want
  BY <1>1, LiteDisconnects DEF LiteGood
<1>3. lite' = r
  BY DEF Lite!Disconnect
<1> HIDE DEF d
<1>4. LiteTyped(r)
  BY <1>2 DEF LiteTyped, LiteFields
<1>5. /\ LiteSameSession(d, r) /\ r.left = TRUE /\ r.want = d.want /\ r.wait = d.wait
      /\ r.gate = d.gate /\ r.socket = d.socket /\ r.peer = d.peer /\ r.greeted = d.greeted
      /\ r.asked = d.asked /\ r.offered = d.offered /\ r.refused = d.refused /\ r.commands = d.commands
  BY <1>2 DEF LiteTyped, LiteFields, LiteSameSession, LiteSameHeld
<1> HIDE DEF r
<1>6. LiteSocket(r) /\ LiteGreeted(r)
  BY <1>2, <1>5 DEF LiteSocket, LiteGreeted, LiteSameSession, LiteSameHeld
<1>7. LiteSameSession(lite, r)
  BY <1>2, <1>5 DEF LiteSameSession, LiteSameHeld
<1>8. LiteTokens(r) /\ LiteShown(r)
  BY <1>1, <1>7, LiteSessionFrame DEF LiteGood
<1>9. LiteHeld(r)
  BY <1>1, <1>2, <1>5, <1>7 DEF LiteGood, LiteHeld, LiteSameSession, LiteSameHeld
<1> QED BY <1>3, <1>4, <1>6, <1>8, <1>9 DEF LiteInv, LiteGood

LEMMA LiteHealthPassed ==
  ASSUME LiteAssumption, LiteInv, NEW i \in Lite!Slot, NEW auto \in BOOLEAN, Lite!HealthPassed(i, auto)
  PROVE  LiteInv'
<1> DEFINE l == Lite!Answered(lite, i)
<1>1. LiteGood(lite) /\ lite.requests[i].kind = "health"
  BY DEF LiteInv, Lite!HealthPassed
<1>2. lite.url # NoLite
  BY <1>1 DEF LiteGood, LiteTokens
<1>3. LiteGood(l) /\ Lite!Room(l)
  BY <1>1, LiteAnswersGood
<1>4. l.url = lite.url
  BY <1>1, LiteAnswers DEF LiteGood, LiteSameHeld
<1>5. lite' = IF ~l.probe THEN l
              ELSE IF l.store[l.url] THEN Lite!Restored(l)
              ELSE IF auto /\ Lite!CanLogin(l) THEN Lite!SendLogin(l, TRUE)
              ELSE l
  BY DEF Lite!HealthPassed
<1> HIDE DEF l
<1>6. LiteGood(Lite!Restored(l))
  BY <1>2, <1>3, <1>4, LiteRestores
<1>7. LiteGood(Lite!SendLogin(l, TRUE))
  BY <1>2, <1>3, <1>4, LiteLogsIn
<1>8. lite' \in {l, Lite!Restored(l), Lite!SendLogin(l, TRUE)}
  BY <1>5
<1> QED BY <1>3, <1>6, <1>7, <1>8 DEF LiteInv

LEMMA LiteHealthFailed ==
  ASSUME LiteAssumption, LiteInv, NEW i \in Lite!Slot, Lite!HealthFailed(i) \/ Lite!LoggedOut(i)
  PROVE  LiteInv'
BY LiteAnswersGood DEF Lite!HealthFailed, Lite!LoggedOut, LiteInv

LEMMA LiteGranted ==
  ASSUME LiteAssumption, LiteInv, NEW i \in Lite!Slot, Lite!Granted(i)
  PROVE  LiteInv'
<1> DEFINE l == Lite!Answered(lite, i)
           keep == lite.requests[i].keep
<1>1. /\ LiteTyped(lite) /\ LiteSocket(lite) /\ LiteGreeted(lite) /\ LiteTokens(lite)
      /\ lite.requests[i].kind # "none"
  BY DEF LiteInv, LiteGood, Lite!Granted
<1>2. lite.requests[i].at = lite.url /\ lite.url # NoLite /\ keep \in BOOLEAN
  BY <1>1, LiteFieldTypes DEF LiteTokens
<1>3. /\ LiteTyped(l) /\ LiteSameHeld(lite, l) /\ LiteSameSocket(lite, l) /\ LiteTokens(l)
  BY <1>1, LiteAnswers
<1>4. lite' = Lite!Begun(Lite!ApplySession(l, lite.requests[i].at, keep))
  BY DEF Lite!Granted
<1> HIDE DEF l, keep
<1>5. LiteSocket(l) /\ LiteGreeted(l) /\ l.url = lite.url
  BY <1>1, <1>3 DEF LiteSocket, LiteGreeted, LiteSameSocket, LiteSameHeld
<1>6. LiteGood(Lite!Begun(Lite!ApplySession(l, l.url, keep)))
  BY <1>2, <1>3, <1>5, LiteBegins
<1> QED BY <1>2, <1>4, <1>5, <1>6 DEF LiteInv

\* A failed login leaves what there was, of which the timer may be gone.
LEMMA LiteLoginFailed ==
  ASSUME LiteAssumption, LiteInv, NEW i \in Lite!Slot, Lite!LoginFailed(i)
  PROVE  LiteInv'
<1> DEFINE l == Lite!Answered(lite, i)
           untimed == ~lite.timer
<1>1. LiteTyped(lite) /\ LiteSocket(lite) /\ LiteGreeted(lite) /\ LiteTokens(lite) /\ LiteHeld(lite)
  BY DEF LiteInv, LiteGood
<1>2. /\ LiteTyped(l) /\ LiteSameHeld(lite, l) /\ LiteSameSocket(lite, l) /\ LiteTokens(l)
  BY <1>1, LiteAnswers
<1>3. lite' = IF lite.access = NoLite THEN [l EXCEPT !.auth = "LoggedOut"]
              ELSE [l EXCEPT !.auth = "Authenticated", !.untimed = untimed]
  BY DEF Lite!LoginFailed
<1>4. untimed \in BOOLEAN /\ lite.timer \in BOOLEAN /\ (lite.timer \/ untimed)
  BY <1>1 DEF LiteTyped
<1> HIDE DEF l, untimed
<1>5. LiteSocket(l) /\ LiteGreeted(l) /\ LiteHeld(l) /\ l.access = lite.access /\ l.timer = lite.timer
  BY <1>1, <1>2 DEF LiteSocket, LiteGreeted, LiteHeld, LiteSameSocket, LiteSameHeld
<1>6. ASSUME NEW r, LiteTyped(r), LiteSameSocket(l, r), LiteShown(r), r.url = l.url, r.owed = l.owed,
             r.access = l.access, r.refresh = l.refresh, r.data = l.data, r.timer = l.timer,
             r.store = l.store, r.remembered = l.remembered, r.requests = l.requests
      PROVE  LiteGood(r)
  BY <1>5, <1>6, <1>2 DEF LiteSocket, LiteGreeted, LiteSameSocket, LiteTokens, LiteHeld, LiteGood
<1>7. CASE lite.access = NoLite
  <2> DEFINE r == [l EXCEPT !.auth = "LoggedOut"]
  <2>1. LiteTyped(r)
    BY <1>2 DEF LiteTyped, LiteFields
  <2>2. /\ LiteSameSocket(l, r) /\ r.auth = "LoggedOut" /\ r.url = l.url /\ r.owed = l.owed
        /\ r.access = l.access /\ r.refresh = l.refresh /\ r.data = l.data /\ r.timer = l.timer
        /\ r.store = l.store /\ r.remembered = l.remembered /\ r.requests = l.requests
    BY <1>2 DEF LiteTyped, LiteFields, LiteSameSocket
  <2>3. lite' = r
    BY <1>3, <1>7
  <2> HIDE DEF r
  <2>4. LiteShown(r)
    BY <1>5, <1>7, <2>2 DEF LiteShown
  <2> QED BY <1>6, <2>1, <2>2, <2>3, <2>4 DEF LiteInv
<1>8. CASE lite.access # NoLite
  <2> DEFINE r == [l EXCEPT !.auth = "Authenticated", !.untimed = untimed]
  <2>1. LiteTyped(r)
    BY <1>2, <1>4 DEF LiteTyped, LiteFields
  <2>2. /\ LiteSameSocket(l, r) /\ r.auth = "Authenticated" /\ r.url = l.url /\ r.owed = l.owed
        /\ r.access = l.access /\ r.refresh = l.refresh /\ r.data = l.data /\ r.timer = l.timer
        /\ r.store = l.store /\ r.remembered = l.remembered /\ r.requests = l.requests
        /\ r.untimed = untimed
    BY <1>2 DEF LiteTyped, LiteFields, LiteSameSocket
  <2>3. lite' = r
    BY <1>3, <1>8
  <2> HIDE DEF r
  <2>4. LiteShown(r)
    BY <1>4, <1>5, <1>8, <2>2 DEF LiteShown
  <2> QED BY <1>6, <2>1, <2>2, <2>3, <2>4 DEF LiteInv
<1> QED BY <1>7, <1>8

\* What changes the session alone, and what changes the connection alone.
LEMMA LiteSessionChanges ==
  ASSUME NEW l, NEW r, LiteSocket(l), LiteGreeted(l), LiteTokens(l), LiteHeld(l),
         LiteTyped(r), LiteSameSocket(l, r), LiteShown(r), r.url = l.url, r.owed = l.owed,
         r.access = l.access, r.refresh = l.refresh, r.data \in {NoLite, r.url},
         r.timer => l.timer \/ l.access # NoLite,
         r.store = l.store, r.remembered = l.remembered, r.requests = l.requests
  PROVE  LiteGood(r)
BY DEF LiteSocket, LiteGreeted, LiteSameSocket, LiteTokens, LiteHeld, LiteGood

LEMMA LiteConnectionChanges ==
  ASSUME NEW l, NEW r, LiteGood(l), LiteTyped(r), LiteSameSession(l, r), LiteSocket(r), LiteGreeted(r),
         l.access # NoLite => r.want \/ r.left,
         l.access = NoLite => ~r.want
  PROVE  LiteGood(r)
BY LiteSessionFrame DEF LiteGood, LiteHeld, LiteSameSession, LiteSameHeld

LEMMA LiteRefreshFailed ==
  ASSUME LiteAssumption, LiteInv, NEW i \in Lite!Slot, NEW terminal \in BOOLEAN,
         Lite!RefreshFailed(i, terminal)
  PROVE  LiteInv'
<1> DEFINE l == Lite!Answered(lite, i)
           r == [l EXCEPT !.auth = "Authenticated", !.timer = TRUE]
<1>1. LiteTyped(lite) /\ LiteSocket(lite) /\ LiteGreeted(lite) /\ LiteTokens(lite) /\ LiteHeld(lite)
  BY DEF LiteInv, LiteGood
<1>2. /\ LiteTyped(l) /\ LiteSameHeld(lite, l) /\ LiteSameSocket(lite, l) /\ LiteTokens(l)
  BY <1>1, LiteAnswers
<1>3. lite' = IF terminal \/ l.access = NoLite \/ l.stale THEN Lite!SignedOut(l) ELSE r
  BY DEF Lite!RefreshFailed
<1> HIDE DEF l
<1>4. LiteSocket(l) /\ LiteGreeted(l) /\ LiteHeld(l)
  BY <1>1, <1>2 DEF LiteSocket, LiteGreeted, LiteHeld, LiteSameSocket, LiteSameHeld
<1>5. LiteGood(Lite!SignedOut(l))
  BY <1>2, <1>4, LiteSignsOut
<1>6. CASE l.access # NoLite /\ lite' = r
  <2>1. LiteTyped(r)
    BY <1>2 DEF LiteTyped, LiteFields
  <2>2. /\ LiteSameSocket(l, r) /\ r.auth = "Authenticated" /\ r.url = l.url /\ r.owed = l.owed
        /\ r.access = l.access /\ r.refresh = l.refresh /\ r.data = l.data /\ r.timer = TRUE
        /\ r.store = l.store /\ r.remembered = l.remembered /\ r.requests = l.requests
    BY <1>2 DEF LiteTyped, LiteFields, LiteSameSocket
  <2>3. l.data \in {NoLite, l.url}
    BY <1>2 DEF LiteTokens
  <2> HIDE DEF r
  <2>4. LiteShown(r)
    BY <1>6, <2>2 DEF LiteShown
  <2>5. LiteGood(r)
    BY <1>2, <1>4, <1>6, <2>1, <2>2, <2>3, <2>4, LiteSessionChanges
  <2> QED BY <1>6, <2>5 DEF LiteInv
<1> QED BY <1>3, <1>5, <1>6 DEF LiteInv

LEMMA LiteDataAnswered ==
  ASSUME LiteAssumption, LiteInv, Lite!DataAnswered
  PROVE  LiteInv'
<1> DEFINE l == [lite EXCEPT !.data = NoLite]
<1>1. /\ LiteTyped(lite) /\ LiteSocket(lite) /\ LiteGreeted(lite) /\ LiteTokens(lite) /\ LiteHeld(lite)
      /\ LiteShown(lite)
  BY DEF LiteInv, LiteGood
<1>2. LiteTyped(l)
  BY <1>1 DEF LiteTyped, LiteFields
<1>3. /\ LiteSameSocket(lite, l) /\ l.auth = lite.auth /\ l.url = lite.url /\ l.owed = lite.owed
      /\ l.access = lite.access /\ l.refresh = lite.refresh /\ l.data = NoLite /\ l.timer = lite.timer
      /\ l.store = lite.store /\ l.remembered = lite.remembered /\ l.requests = lite.requests
      /\ l.untimed = lite.untimed
  BY <1>1 DEF LiteTyped, LiteFields, LiteSameSocket
<1>4. IF l.stale /\ l.auth = "Authenticated" THEN Lite!Room(lite) /\ lite' = Lite!RefreshNow(l)
      ELSE lite' = l
  BY DEF Lite!DataAnswered, Lite!Room, Lite!Free
<1> HIDE DEF l
<1>5. LiteShown(l)
  BY <1>1, <1>3 DEF LiteShown, LiteAsks
<1>6. LiteGood(l)
  BY <1>1, <1>2, <1>3, <1>5, LiteSessionChanges
<1>7. CASE lite' = Lite!RefreshNow(l) /\ Lite!Room(lite)
  BY <1>3, <1>7, <1>6, LiteRefreshesGood DEF Lite!Room, Lite!Free, LiteGood, LiteShown, LiteInv
<1> QED BY <1>4, <1>6, <1>7 DEF LiteInv

LEMMA LiteRefreshTimer ==
  ASSUME LiteAssumption, LiteInv, Lite!RefreshTimer
  PROVE  LiteInv'
<1> DEFINE l == [lite EXCEPT !.timer = FALSE]
<1>1. /\ LiteTyped(lite) /\ LiteSocket(lite) /\ LiteGreeted(lite) /\ LiteTokens(lite) /\ LiteHeld(lite)
      /\ LiteShown(lite)
  BY DEF LiteInv, LiteGood
<1>2. LiteTyped(l)
  BY <1>1 DEF LiteTyped, LiteFields
<1>3. /\ LiteSameSocket(lite, l) /\ l.auth = lite.auth /\ l.url = lite.url /\ l.owed = lite.owed
      /\ l.access = lite.access /\ l.refresh = lite.refresh /\ l.data = lite.data /\ l.timer = FALSE
      /\ l.store = lite.store /\ l.remembered = lite.remembered /\ l.requests = lite.requests
  BY <1>1 DEF LiteTyped, LiteFields, LiteSameSocket
<1>4. Lite!Room(lite) /\ lite' = Lite!RefreshNow(l)
  BY DEF Lite!RefreshTimer
<1> HIDE DEF l
<1>5. LiteSocket(l) /\ LiteGreeted(l) /\ LiteTokens(l) /\ LiteHeld(l) /\ Lite!Room(l)
  BY <1>1, <1>3, <1>4
    DEF LiteSocket, LiteGreeted, LiteTokens, LiteHeld, LiteSameSocket, Lite!Room, Lite!Free
<1>6. /\ l.auth = "LoggedOut" => l.access = NoLite
      /\ l.auth = "Authenticated" => l.access # NoLite
      /\ l.auth = "Authenticating" => LiteAsks(l, {"login"})
      /\ l.auth = "Refreshing" => LiteAsks(l, {"restore", "refresh"})
  BY <1>1, <1>3 DEF LiteShown, LiteAsks
<1>7. LiteGood(Lite!RefreshNow(l))
  BY <1>2, <1>5, <1>6, LiteRefreshesGood
<1> QED BY <1>4, <1>7 DEF LiteInv

LEMMA LiteExpire ==
  ASSUME LiteAssumption, LiteInv, Lite!Expire
  PROVE  LiteInv'
<1> DEFINE l == [lite EXCEPT !.stale = TRUE]
<1>1. /\ LiteTyped(lite) /\ LiteSocket(lite) /\ LiteGreeted(lite) /\ LiteTokens(lite) /\ LiteHeld(lite)
      /\ LiteShown(lite)
  BY DEF LiteInv, LiteGood
<1>2. LiteTyped(l)
  BY <1>1 DEF LiteTyped, LiteFields
<1>3. /\ LiteSameSocket(lite, l) /\ l.auth = lite.auth /\ l.url = lite.url /\ l.owed = lite.owed
      /\ l.access = lite.access /\ l.refresh = lite.refresh /\ l.data = lite.data /\ l.timer = lite.timer
      /\ l.store = lite.store /\ l.remembered = lite.remembered /\ l.requests = lite.requests
      /\ l.untimed = lite.untimed
  BY <1>1 DEF LiteTyped, LiteFields, LiteSameSocket
<1>4. lite' = l
  BY DEF Lite!Expire
<1> HIDE DEF l
<1>5. LiteShown(l) /\ l.data \in {NoLite, l.url}
  BY <1>1, <1>3 DEF LiteShown, LiteAsks, LiteTokens
<1>6. LiteGood(l)
  BY <1>1, <1>2, <1>3, <1>5, LiteSessionChanges
<1> QED BY <1>4, <1>6 DEF LiteInv

LEMMA LiteResync ==
  ASSUME LiteAssumption, LiteInv, Lite!Resync
  PROVE  LiteInv'
<1> DEFINE access == lite.access
           l == [lite EXCEPT !.data = access]
<1>1. /\ LiteTyped(lite) /\ LiteSocket(lite) /\ LiteGreeted(lite) /\ LiteTokens(lite) /\ LiteHeld(lite)
      /\ LiteShown(lite)
  BY DEF LiteInv, LiteGood
<1>a. access \in LiteServer \cup {NoLite} /\ access \in {NoLite, lite.url}
  BY <1>1 DEF LiteTyped, LiteTokens
<1>4. lite' = l
  BY DEF Lite!Resync, Lite!LoadCommunity
<1> HIDE DEF access
<1>2. LiteTyped(l)
  BY <1>1, <1>a DEF LiteTyped, LiteFields
<1>3. /\ LiteSameSocket(lite, l) /\ l.auth = lite.auth /\ l.url = lite.url /\ l.owed = lite.owed
      /\ l.access = lite.access /\ l.refresh = lite.refresh /\ l.data = access /\ l.timer = lite.timer
      /\ l.store = lite.store /\ l.remembered = lite.remembered /\ l.requests = lite.requests
      /\ l.untimed = lite.untimed
  BY <1>1 DEF LiteTyped, LiteFields, LiteSameSocket
<1> HIDE DEF l
<1>5. LiteShown(l) /\ l.data \in {NoLite, l.url}
  BY <1>1, <1>3, <1>a DEF LiteShown, LiteAsks
<1>6. LiteGood(l)
  BY <1>1, <1>2, <1>3, <1>5, LiteSessionChanges
<1> QED BY <1>4, <1>6 DEF LiteInv

LEMMA LiteSocketOpens ==
  ASSUME LiteAssumption, LiteInv, Lite!Connected
  PROVE  LiteInv'
<1> DEFINE r == [lite EXCEPT !.socket = "open", !.gate = "Connected", !.wait = FALSE]
<1>1. /\ LiteGood(lite) /\ LiteTyped(lite) /\ LiteSocket(lite) /\ LiteHeld(lite)
  BY DEF LiteInv, LiteGood
<1>2. lite' = r /\ lite.socket = "opening"
  BY DEF Lite!Connected
<1>3. LiteTyped(r)
  BY <1>1 DEF LiteTyped, LiteFields
<1>4. /\ LiteSameSession(lite, r) /\ r.socket = "open" /\ r.gate = "Connected" /\ r.wait = FALSE
      /\ r.want = lite.want /\ r.left = lite.left /\ r.peer = lite.peer /\ r.greeted = lite.greeted
      /\ r.asked = lite.asked /\ r.offered = lite.offered /\ r.commands = lite.commands
  BY <1>1 DEF LiteTyped, LiteFields, LiteSameSession, LiteSameHeld
<1> HIDE DEF r
<1>5. LiteSocket(r) /\ LiteGreeted(r)
  BY <1>1, <1>2, <1>4 DEF LiteSocket, LiteGreeted, LiteSameSession, LiteSameHeld
<1>6. LiteGood(r)
  BY <1>1, <1>3, <1>4, <1>5, LiteConnectionChanges DEF LiteHeld
<1> QED BY <1>2, <1>6 DEF LiteInv


\* A greeting is answered with the session's token, if there is one and it is wanted.
LEMMA LiteGreets ==
  ASSUME LiteAssumption, LiteInv, Lite!Greeted
  PROVE  LiteInv'
<1> DEFINE access == lite.access
           asked == IF lite.socket = "open" THEN "sent" ELSE "queued"
           l == [lite EXCEPT !.greeted = TRUE]
           m == [l EXCEPT !.gate = "Authenticating"]
           a == [m EXCEPT !.asked = asked, !.offered = access]
<1>1. /\ LiteGood(lite) /\ LiteTyped(lite) /\ LiteSocket(lite) /\ LiteHeld(lite) /\ LiteTokens(lite)
      /\ lite.socket \in {"open", "closing"}
  BY DEF LiteInv, LiteGood, Lite!Greeted
<1>2. access \in LiteServer \cup {NoLite} /\ access \in {NoLite, lite.url} /\ lite.access = access
      /\ asked \in {"sent", "queued"} /\ lite.want \in BOOLEAN
  BY <1>1 DEF LiteTyped, LiteTokens
<1>3. LiteTyped(l)
  BY <1>1 DEF LiteTyped, LiteFields
<1>4. /\ LiteSameSession(lite, l) /\ l.socket = lite.socket /\ l.gate = lite.gate /\ l.wait = lite.wait
      /\ l.want = lite.want /\ l.left = lite.left /\ l.peer = lite.peer /\ l.greeted = TRUE
      /\ l.asked = lite.asked /\ l.offered = lite.offered /\ l.commands = lite.commands
  BY <1>1 DEF LiteTyped, LiteFields, LiteSameSession, LiteSameHeld
<1>5. /\ l.access = NoLite => lite' = Lite!DisconnectFromServer(l)
      /\ l.access # NoLite /\ ~l.want => lite' = m
      /\ l.access # NoLite /\ l.want => lite' = a
  BY <1>4 DEF Lite!Greeted, Lite!CanWrite, LiteSameSession, LiteSameHeld
<1>6. l.access = access
  BY <1>2, <1>4 DEF LiteSameSession, LiteSameHeld
<1> HIDE DEF l, access, asked
<1>7. LiteTyped(m)
  BY <1>3 DEF LiteTyped, LiteFields
<1>8. /\ LiteSameSession(l, m) /\ m.socket = l.socket /\ m.gate = "Authenticating" /\ m.wait = l.wait
      /\ m.want = l.want /\ m.left = l.left /\ m.peer = l.peer /\ m.greeted = TRUE
      /\ m.asked = l.asked /\ m.offered = l.offered /\ m.commands = l.commands
  BY <1>3, <1>4 DEF LiteTyped, LiteFields, LiteSameSession, LiteSameHeld
<1> HIDE DEF m
<1>9. LiteTyped(a)
  BY <1>2, <1>7 DEF LiteTyped, LiteFields
<1>10. /\ LiteSameSession(m, a) /\ a.socket = m.socket /\ a.gate = m.gate /\ a.wait = m.wait
       /\ a.want = m.want /\ a.left = m.left /\ a.peer = m.peer
       /\ a.asked = asked /\ a.offered = access /\ a.commands = m.commands
  BY <1>7 DEF LiteTyped, LiteFields, LiteSameSession, LiteSameHeld
<1> HIDE DEF a
<1>11. CASE access = NoLite
  <2> DEFINE r == Lite!DisconnectFromServer(l)
  <2>1. ~lite.want /\ lite.socket = "closing"
    BY <1>1, <1>2, <1>11 DEF LiteHeld, LiteSocket
  <2>2. LiteSocket(l)
    BY <1>1, <1>4, <2>1 DEF LiteSocket, LiteSameSession, LiteSameHeld
  <2>3. /\ LiteTyped(r) /\ LiteSameSession(l, r) /\ LiteSocket(r) /\ LiteGreeted(r) /\ ~r.want
    BY <1>3, <2>2, LiteDisconnects
  <2> HIDE DEF r
  <2>4. LiteSameSession(lite, r)
    BY <1>4, <2>3 DEF LiteSameSession, LiteSameHeld
  <2>5. LiteGood(r)
    BY <1>1, <1>2, <1>11, <2>3, <2>4, LiteConnectionChanges
  <2> QED BY <1>5, <1>6, <1>11, <2>5 DEF LiteInv, r
<1>12. CASE access # NoLite /\ ~lite.want
  BY <1>1, <1>12, <1>4, <1>8, <1>2, <1>7, LiteConnectionChanges, <1>5, <1>6 DEF LiteSocket,
     LiteGreeted, LiteSameSession, LiteSameHeld, LiteHeld, LiteInv
<1>13. CASE access # NoLite /\ lite.want
  <2>1. asked = IF lite.socket = "open" THEN "sent" ELSE "queued"
    BY DEF asked
  <2>2. LiteSameSession(lite, a)
    BY <1>4, <1>8, <1>10 DEF LiteSameSession, LiteSameHeld
  <2>3. a.url = lite.url
    BY <2>2 DEF LiteSameSession, LiteSameHeld
  <2>4. LiteSocket(a) /\ LiteGreeted(a)
    BY <1>1, <1>2, <1>4, <1>8, <1>10, <1>13, <2>1, <2>3 DEF LiteSocket, LiteGreeted
  <2>5. LiteGood(a)
    BY <1>1, <1>2, <1>4, <1>8, <1>9, <1>10, <1>13, <2>2, <2>4, LiteConnectionChanges DEF LiteHeld
  <2> QED BY <1>4, <1>5, <1>6, <1>13, <2>5 DEF LiteInv
<1> QED BY <1>2, <1>11, <1>12, <1>13

\* Accepted: what is queued is sent.
LEMMA LiteAuthenticated ==
  ASSUME LiteAssumption, LiteInv, Lite!Authenticated
  PROVE  LiteInv'
<1> DEFINE cs == [c \in LiteCommand |-> IF lite.commands[c] = "queued" THEN "sent" ELSE lite.commands[c]]
           r == [lite EXCEPT !.asked = "none", !.offered = NoLite, !.again = FALSE, !.gate = "Ready",
                             !.commands = cs]
<1>1. /\ LiteGood(lite) /\ LiteTyped(lite) /\ LiteSocket(lite) /\ LiteHeld(lite)
      /\ lite.asked = "sent"
  BY DEF LiteInv, LiteGood, Lite!Authenticated
<1>2. /\ cs \in [LiteCommand -> {"none", "queued", "sent"}]
      /\ \A c \in LiteCommand : cs[c] # "queued"
  BY <1>1 DEF LiteTyped
<1>3. lite' = r
  BY DEF Lite!Authenticated
<1> HIDE DEF cs
<1>4. LiteTyped(r)
  BY <1>1, <1>2 DEF LiteTyped, LiteFields
<1>5. /\ LiteSameSession(lite, r) /\ r.socket = lite.socket /\ r.gate = "Ready" /\ r.wait = lite.wait
      /\ r.want = lite.want /\ r.left = lite.left /\ r.peer = lite.peer /\ r.greeted = lite.greeted
      /\ r.asked = "none" /\ r.commands = cs
  BY <1>1 DEF LiteTyped, LiteFields, LiteSameSession, LiteSameHeld
<1> HIDE DEF r
<1>6. lite.socket = "open" /\ lite.want
  BY <1>1 DEF LiteSocket
<1>7. LiteSocket(r) /\ LiteGreeted(r)
  BY <1>1, <1>2, <1>5, <1>6 DEF LiteSocket, LiteGreeted, LiteSameSession, LiteSameHeld
<1>8. LiteGood(r)
  BY <1>1, <1>4, <1>5, <1>7, LiteConnectionChanges DEF LiteHeld
<1> QED BY <1>3, <1>8 DEF LiteInv

\* Expired: a refresh is owed to the gateway.
LEMMA LiteTokenExpired ==
  ASSUME LiteAssumption, LiteInv, Lite!TokenExpired
  PROVE  LiteInv'
<1> DEFINE l == [lite EXCEPT !.asked = "none", !.offered = NoLite, !.owed = TRUE]
<1>1. /\ LiteTyped(lite) /\ LiteSocket(lite) /\ LiteTokens(lite) /\ LiteHeld(lite) /\ LiteShown(lite)
      /\ lite.asked = "sent" /\ Lite!Room(lite) /\ lite' = Lite!RefreshNow(l)
  BY DEF LiteInv, LiteGood, Lite!TokenExpired
<1>2. LiteTyped(l)
  BY <1>1 DEF LiteTyped, LiteFields
<1>3. /\ l.socket = lite.socket /\ l.gate = lite.gate /\ l.wait = lite.wait
      /\ l.want = lite.want /\ l.left = lite.left /\ l.peer = lite.peer /\ l.greeted = lite.greeted
      /\ l.asked = "none" /\ l.commands = lite.commands /\ l.owed = TRUE
      /\ l.url = lite.url /\ l.data = lite.data /\ l.auth = lite.auth /\ l.access = lite.access
      /\ l.refresh = lite.refresh /\ l.store = lite.store /\ l.remembered = lite.remembered
      /\ l.timer = lite.timer /\ l.requests = lite.requests
  BY <1>1 DEF LiteTyped, LiteFields
<1> HIDE DEF l
<1>4. LiteSocket(l) /\ LiteGreeted(l)
  BY <1>1, <1>3 DEF LiteSocket, LiteGreeted
<1>5. LiteTokens(l) /\ LiteHeld(l) /\ Lite!Room(l)
  BY <1>1, <1>3 DEF LiteTokens, LiteHeld, Lite!Room, Lite!Free
<1>6. /\ l.auth = "LoggedOut" => l.access = NoLite
      /\ l.auth = "Authenticated" => l.access # NoLite
      /\ l.auth = "Authenticating" => LiteAsks(l, {"login"})
      /\ l.auth = "Refreshing" => LiteAsks(l, {"restore", "refresh"})
  BY <1>1, <1>3 DEF LiteShown, LiteAsks
<1>7. LiteGood(Lite!RefreshNow(l))
  BY <1>2, <1>4, <1>5, <1>6, LiteRefreshesGood
<1> QED BY <1>1, <1>7 DEF LiteInv

LEMMA LiteRefused ==
  ASSUME LiteAssumption, LiteInv, Lite!Refused
  PROVE  LiteInv'
<1> DEFINE r == [lite EXCEPT !.asked = "none", !.offered = NoLite, !.refused = TRUE]
<1>1. /\ LiteGood(lite) /\ LiteTyped(lite) /\ LiteSocket(lite) /\ LiteHeld(lite)
      /\ lite.asked = "sent" /\ lite' = r
  BY DEF LiteInv, LiteGood, Lite!Refused
<1>2. LiteTyped(r)
  BY <1>1 DEF LiteTyped, LiteFields
<1>3. /\ LiteSameSession(lite, r) /\ r.socket = lite.socket /\ r.gate = lite.gate /\ r.wait = lite.wait
      /\ r.want = lite.want /\ r.left = lite.left /\ r.peer = lite.peer /\ r.greeted = lite.greeted
      /\ r.asked = "none" /\ r.commands = lite.commands /\ r.refused = TRUE
  BY <1>1 DEF LiteTyped, LiteFields, LiteSameSession, LiteSameHeld
<1> HIDE DEF r
<1>4. LiteSocket(r) /\ LiteGreeted(r)
  BY <1>1, <1>3 DEF LiteSocket, LiteGreeted, LiteSameSession, LiteSameHeld
<1>5. LiteGood(r)
  BY <1>1, <1>2, <1>3, <1>4, LiteConnectionChanges DEF LiteHeld
<1> QED BY <1>1, <1>5 DEF LiteInv

LEMMA LiteDropped ==
  ASSUME LiteAssumption, LiteInv, Lite!Dropped \/ Lite!Closed
  PROVE  LiteInv'
<1> DEFINE r == Lite!HandleDisconnected(lite)
<1>1. LiteGood(lite) /\ LiteTyped(lite) /\ LiteSocket(lite) /\ LiteHeld(lite) /\ lite' = r
  BY DEF LiteInv, LiteGood, Lite!Dropped, Lite!Closed
<1>2. lite.want => lite.url # NoLite
  BY <1>1 DEF LiteSocket
<1>3. /\ LiteTyped(r) /\ LiteSameSession(lite, r)
      /\ LiteSocket(r) /\ LiteGreeted(r) /\ r.want = lite.want /\ r.left = lite.left
  BY <1>1, <1>2, LiteWentDown
<1> HIDE DEF r
<1>4. LiteGood(r)
  BY <1>1, <1>3, LiteConnectionChanges DEF LiteHeld
<1> QED BY <1>1, <1>4 DEF LiteInv

LEMMA LiteReconnectTimer ==
  ASSUME LiteAssumption, LiteInv, Lite!ReconnectTimer
  PROVE  LiteInv'
<1> DEFINE l == [lite EXCEPT !.wait = FALSE]
           r == Lite!OpenSocket(l)
<1>1. /\ LiteGood(lite) /\ LiteTyped(lite) /\ LiteSocket(lite) /\ LiteHeld(lite)
      /\ lite.wait /\ lite' = r
  BY DEF LiteInv, LiteGood, Lite!ReconnectTimer
<1>2. lite.want /\ lite.socket = "none" /\ lite.url # NoLite /\ lite.asked = "none"
  BY <1>1 DEF LiteSocket
<1>3. LiteTyped(l)
  BY <1>1 DEF LiteTyped, LiteFields
<1>4. /\ LiteSameSession(lite, l) /\ l.want = lite.want /\ l.left = lite.left /\ l.wait = FALSE
      /\ l.asked = lite.asked /\ l.url = lite.url
  BY <1>1 DEF LiteTyped, LiteFields, LiteSameSession, LiteSameHeld
<1> HIDE DEF l
<1>5. /\ LiteTyped(r) /\ LiteSameSession(l, r)
      /\ LiteSocket(r) /\ LiteGreeted(r) /\ r.want = l.want /\ r.left = l.left
  BY <1>2, <1>3, <1>4, LiteOpens
<1> HIDE DEF r
<1>6. LiteSameSession(lite, r) /\ r.want = lite.want /\ r.left = lite.left
  BY <1>4, <1>5 DEF LiteSameSession, LiteSameHeld
<1>7. LiteGood(r)
  BY <1>1, <1>5, <1>6, LiteConnectionChanges DEF LiteHeld
<1> QED BY <1>1, <1>7 DEF LiteInv

\* A command waits for an authentication that is under way, or for its answer.
LEMMA LiteSubmits ==
  ASSUME LiteAssumption, LiteInv, NEW c \in LiteCommand, Lite!Submit(c) \/ Lite!Settled(c)
  PROVE  LiteInv'
<1> DEFINE now == IF Lite!Submit(c) THEN IF lite.socket = "open" /\ lite.gate = "Ready" THEN "sent" ELSE "queued"
                  ELSE "none"
           cs == [lite.commands EXCEPT ![c] = now]
           r == [lite EXCEPT !.commands = cs]
<1>1. /\ LiteGood(lite) /\ LiteTyped(lite) /\ LiteSocket(lite) /\ LiteGreeted(lite) /\ LiteHeld(lite)
  BY DEF LiteInv, LiteGood
<1>2. lite' = r
  BY DEF Lite!Submit, Lite!Settled, Lite!CanWrite
<1>3. /\ now \in {"none", "queued", "sent"}
      /\ now # "none" => lite.want
      /\ lite.socket = "open" /\ lite.gate = "Ready" => now # "queued"
  BY DEF Lite!Submit
<1> HIDE DEF now
<1>4. /\ cs \in [LiteCommand -> {"none", "queued", "sent"}] /\ cs[c] = now
      /\ \A d \in LiteCommand \ {c} : cs[d] = lite.commands[d]
  BY <1>1, <1>3 DEF LiteTyped
<1> HIDE DEF cs
<1>5. LiteTyped(r)
  BY <1>1, <1>4 DEF LiteTyped, LiteFields
<1>6. /\ LiteSameSession(lite, r) /\ r.socket = lite.socket /\ r.gate = lite.gate /\ r.wait = lite.wait
      /\ r.want = lite.want /\ r.left = lite.left /\ r.peer = lite.peer /\ r.greeted = lite.greeted
      /\ r.asked = lite.asked /\ r.offered = lite.offered /\ r.commands = cs /\ r.refused = lite.refused
  BY <1>1 DEF LiteTyped, LiteFields, LiteSameSession, LiteSameHeld
<1> HIDE DEF r
<1>7. \A d \in LiteCommand : /\ ~lite.want => cs[d] = "none"
                             /\ lite.socket = "open" /\ lite.gate = "Ready" => cs[d] # "queued"
  BY <1>1, <1>3, <1>4 DEF LiteSocket
<1>8. LiteSocket(r) /\ LiteGreeted(r)
  BY <1>1, <1>6, <1>7 DEF LiteSocket, LiteGreeted, LiteSameSession, LiteSameHeld
<1>9. LiteGood(r)
  BY <1>1, <1>5, <1>6, <1>8, LiteConnectionChanges DEF LiteHeld
<1> QED BY <1>2, <1>9 DEF LiteInv

LEMMA LiteNextGood ==
  ASSUME LiteAssumption, LiteInv, Lite!Next
  PROVE  LiteInv'
BY LiteConnect, LiteLogin, LiteLogout, LiteDisconnect, LiteHealthPassed, LiteHealthFailed, LiteGranted,
   LiteLoginFailed, LiteRefreshFailed, LiteDataAnswered, LiteRefreshTimer, LiteExpire, LiteSocketOpens,
   LiteGreets, LiteAuthenticated, LiteTokenExpired, LiteRefused, LiteDropped, LiteReconnectTimer,
   LiteResync, LiteSubmits
   DEF Lite!Next

\* Whatever the user, the requests, the socket and the timers do, in whatever order: when nothing
\* is under way Baker Lite (AuthSession.cpp, GatewayClient.cpp, ApplicationController.cpp) is
\* logged out with nothing connected, or logged in with its gateway ready or a reason why not; and
\* a token only travels to the server that issued it, a late answer of another server included.
THEOREM LiteSettlesTheorem ==
  ASSUME LiteAssumption
  PROVE  Lite!Spec => []LiteSettles
<1>1. Lite!Init => LiteInv
  BY LiteInitGood
<1>2. LiteInv /\ [Lite!Next]_<<lite, picks, slips>> => LiteInv'
  BY LiteNextGood DEF LiteInv
<1>3. LiteInv => LiteSettles
  BY LiteInvSettles
<1> QED BY <1>1, <1>2, <1>3, PTL DEF Lite!Spec
=============================================================================
