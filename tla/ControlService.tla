--------------------------- MODULE ControlService ---------------------------
(***************************************************************************)
(* The control service (internal/control/service.go).  Every HTTP, MCP and *)
(* FUSE handler runs in a goroutine of its own and calls the one service,  *)
(* which has no lock: it turns a command into a sequence of calls to the   *)
(* input and output backends, sleeping between them.  A step here is the   *)
(* code between two backend calls together with the second call, so the    *)
(* steps of concurrent requests interleave at every call.                  *)
(*                                                                         *)
(* A backend call may succeed or return an error.  A call that returns an  *)
(* error may still have had its effect on the remote desktop: a command    *)
(* that timed out, for instance, may have injected its event before.       *)
(***************************************************************************)
EXTENDS Integers, Sequences

CONSTANTS
  Clients,   (* the goroutines that serve requests                         *)
  Keys,      (* key names a chord may contain                              *)
  Buttons,   (* mouse button names                                         *)
  Left,      (* the button a drag holds                                    *)
  TextKeys,  (* the keys (modifiers) a backend's TypeText may touch        *)
  Points,    (* points in screenshot space                                 *)
  Frames,    (* frame sizes the output backend may report                  *)
  Commands   (* the commands the requests carry                            *)

Ops == {"click", "double", "drag", "move", "scroll", "key", "type", "wait", "shot"}

Inputs == Keys \union Buttons

(* A command holds the arguments of every operation; each operation reads *)
(* its own.  "parsed" says whether the checks a handler makes of its      *)
(* button, chord, text or duration accept it.                             *)
Command ==
  [op: Ops, parsed: BOOLEAN, button: Buttons, path: Seq(Points), chord: Seq(Keys),
   wheel: SUBSET {"x", "y"}, crop: BOOLEAN]

ASSUME ServiceAssumption ==
  /\ Left \in Buttons
  /\ TextKeys \subseteq Keys
  /\ Frames # {}
  /\ Commands # {} /\ Commands \subseteq Command
  /\ \A m \in Commands :
       /\ m.op \in {"click", "double", "move", "scroll"} => Len(m.path) = 1
       /\ m.op = "key" /\ m.parsed => Len(m.chord) > 0
       /\ m.op = "drag" => m.button = Left

VARIABLES
  req,       (* the request each goroutine serves: a record, see Request   *)
  answer,    (* what the last request of this client answered              *)
  frame,     (* the frame size the output backend's Status() reports       *)
  held       (* the keys and buttons that are down on the remote desktop   *)

(* Observation only: no handler reads these. *)
VARIABLES
  sent,      (* the position of each client's last pointer event           *)
  suspect,   (* inputs whose last event returned an error to its caller    *)
  blamed,    (* whether a backend call of the request returned an error    *)
  alone      (* no other request since this one started, and no error yet  *)

hist == <<sent, suspect, blamed, alone>>
vars == <<req, answer, frame, held, hist>>

NoTarget == <<>>
Targets  == Points \X Frames

PCs == {"idle", "map", "move", "down", "drag", "abort", "up", "wheelY", "wheelX",
        "press", "release", "text", "wait", "crop", "full"}

Request ==
  [pc: PCs,               (* the call it makes next                        *)
   cmd: Commands,
   target: Seq(Targets),  (* the points mapped into input space so far     *)
   step: Nat,             (* drag: index of the point reached;             *)
                          (* double click: the number of the click         *)
   depth: Nat,            (* chord: the first depth keys are "pressed"     *)
   err: BOOLEAN]          (* chord: whether an error is to be returned     *)

NewRequest(m) ==
  [pc |-> "idle", cmd |-> m, target |-> <<>>, step |-> 1, depth |-> 0, err |-> FALSE]

NoRequest == NewRequest(CHOOSE m \in Commands : TRUE)

TypeOK ==
  /\ req \in [Clients -> Request]
  /\ answer \in [Clients -> {"none", "ok", "error"}]
  /\ frame \in Frames
  /\ held \subseteq Inputs
  /\ sent \in [Clients -> Targets \union {NoTarget}]
  /\ suspect \subseteq Inputs
  /\ blamed \in [Clients -> BOOLEAN]
  /\ alone \in [Clients -> BOOLEAN]

-----------------------------------------------------------------------------
(* Helpers. *)

At(c, label) == req[c].pc = label

Goto(c, label) ==
  req' = [req EXCEPT ![c].pc = label] /\ UNCHANGED answer

(* The handler returns; its local variables are gone. *)
Answer(c, ok) ==
  /\ req' = [req EXCEPT ![c] = NoRequest]
  /\ answer' = [answer EXCEPT ![c] = IF ok THEN "ok" ELSE "error"]

(* A call of c to a backend returned, with an error unless ok. *)
Returned(c, ok) ==
  /\ blamed' = [blamed EXCEPT ![c] = @ \/ ~ok]
  /\ alone'  = [alone EXCEPT ![c] = @ /\ ok]

(* A key or button event. *)
SendInput(c, i, down, ok) ==
  LET after == IF down THEN held \union {i} ELSE held \ {i}
  IN  /\ \/ held' = after
         \/ ~ok /\ held' = held
      /\ suspect' = IF ok THEN suspect \ {i} ELSE suspect \union {i}
      /\ Returned(c, ok)

SendKey(c, key, down, ok) == SendInput(c, key, down, ok) /\ UNCHANGED sent

SendMouseButton(c, point, down, ok) ==
  /\ SendInput(c, req[c].cmd.button, down, ok)
  /\ sent' = [sent EXCEPT ![c] = point]

(* MoveMouse and SendMouseWheel: they hold nothing. *)
SendPointer(c, point, ok) ==
  /\ sent' = [sent EXCEPT ![c] = point]
  /\ Returned(c, ok)
  /\ UNCHANGED <<held, suspect>>

(* The inputs a request has pressed and still has to release. *)
OwnedBy(r) ==
  CASE r.pc \in {"press", "release"}    -> {r.cmd.chord[k] : k \in 1..r.depth}
    [] r.pc \in {"drag", "abort", "up"} -> {r.cmd.button}
    [] OTHER -> {}

Owned == UNION {OwnedBy(req[c]) : c \in Clients}

KeysOf(chord) == {chord[k] : k \in 1..Len(chord)}

-----------------------------------------------------------------------------
Init ==
  /\ req = [c \in Clients |-> NoRequest]
  /\ answer = [c \in Clients |-> "none"]
  /\ frame \in Frames
  /\ held = {}
  /\ sent = [c \in Clients |-> NoTarget]
  /\ suspect = {}
  /\ blamed = [c \in Clients |-> FALSE]
  /\ alone = [c \in Clients |-> FALSE]

(* The checks made before any backend is called. *)
Accepts(m) ==
  /\ m.parsed
  /\ m.op = "drag" => Len(m.path) >= 2
  /\ m.op = "scroll" => m.wheel # {}

FirstCall(m) ==
  CASE m.op \in {"click", "double", "drag", "move", "scroll"} -> "map"
    [] m.op = "key"  -> "press"
    [] m.op = "type" -> "text"
    [] m.op = "wait" -> "wait"
    [] m.op = "shot" -> IF m.crop THEN "crop" ELSE "full"

(* A handler enters the service. *)
Start(c, m) ==
  /\ At(c, "idle")
  /\ \/ /\ Accepts(m)
        /\ req' = [req EXCEPT ![c] = [NewRequest(m) EXCEPT !.pc = FirstCall(m)]]
        /\ answer' = [answer EXCEPT ![c] = "none"]
     \/ ~Accepts(m) /\ Answer(c, FALSE)
  /\ sent' = [sent EXCEPT ![c] = NoTarget]
  /\ blamed' = [blamed EXCEPT ![c] = FALSE]
  /\ alone' = [d \in Clients |->
                 /\ d = c
                 /\ \A e \in Clients : At(e, "idle")
                 /\ held = {} /\ suspect = {}]
  /\ UNCHANGED <<frame, held, suspect>>

(* mapInputPoint, once per point: it reads the output's size each time. *)
MapPoint(c) ==
  /\ At(c, "map")
  /\ \/ LET m == req[c].cmd
            k == Len(req[c].target) + 1
            next == IF k < Len(m.path) THEN "map"
                    ELSE IF m.op # "scroll" THEN "move"
                    ELSE IF "y" \in m.wheel THEN "wheelY" ELSE "wheelX"
        IN  /\ req' = [req EXCEPT ![c].target = Append(@, <<m.path[k], frame>>),
                                  ![c].pc = next]
            /\ UNCHANGED <<answer, blamed, alone>>
     \/ Answer(c, FALSE) /\ Returned(c, FALSE)
  /\ UNCHANGED <<frame, held, sent, suspect>>

(* The first MoveMouse of Click, Drag and Move. *)
MoveToStart(c) ==
  /\ At(c, "move")
  /\ \E ok \in BOOLEAN :
       /\ SendPointer(c, req[c].target[1], ok)
       /\ IF ok /\ req[c].cmd.op # "move" THEN Goto(c, "down") ELSE Answer(c, ok)
  /\ UNCHANGED frame

ButtonDown(c) ==
  /\ At(c, "down")
  /\ \E ok \in BOOLEAN :
       /\ SendMouseButton(c, req[c].target[1], TRUE, ok)
       /\ IF ok
            THEN Goto(c, IF req[c].cmd.op = "drag" THEN "drag" ELSE "up")
            ELSE Answer(c, FALSE)
  /\ UNCHANGED frame

DragMoveOr(c, failure) ==
  LET k == req[c].step + 1
  IN  /\ At(c, "drag")
      /\ \/ /\ SendPointer(c, req[c].target[k], TRUE)
            /\ req' = [req EXCEPT ![c].step = k,
                                  ![c].pc = IF k < Len(req[c].target) THEN "drag" ELSE "up"]
            /\ UNCHANGED answer
         \/ SendPointer(c, req[c].target[k], FALSE) /\ failure
      /\ UNCHANGED frame

DragMoveKeepsButton(c) == DragMoveOr(c, Answer(c, FALSE))

(* One iteration of Drag's loop over path[1:]. *)
DragMove(c) ==
  DragMoveOr(c, /\ req' = [req EXCEPT ![c].step = @ + 1, ![c].pc = "abort"]
                /\ UNCHANGED answer)

(* The release after a failed move: its own error is dropped. *)
DragAbort(c) ==
  /\ At(c, "abort")
  /\ \E ok \in BOOLEAN : SendMouseButton(c, req[c].target[req[c].step], FALSE, ok)
  /\ Answer(c, FALSE)
  /\ UNCHANGED frame

ReleaseAt(c, point) ==
  /\ At(c, "up")
  /\ \E ok \in BOOLEAN :
       /\ SendMouseButton(c, point, FALSE, ok)
       /\ IF ok /\ req[c].cmd.op = "double" /\ req[c].step = 1
            THEN /\ req' = [req EXCEPT ![c].pc = "map", ![c].step = 2, ![c].target = <<>>]
                 /\ UNCHANGED answer
            ELSE Answer(c, ok)
  /\ UNCHANGED frame

ButtonUpAtStart(c) == ReleaseAt(c, req[c].target[1])

(* The last call of Click and Drag; DoubleClick then clicks once more. *)
ButtonUp(c) == ReleaseAt(c, req[c].target[Len(req[c].target)])

-----------------------------------------------------------------------------
(* Scroll: the vertical wheel first, then the horizontal one. *)
WheelY(c) ==
  /\ At(c, "wheelY")
  /\ \E ok \in BOOLEAN :
       /\ SendPointer(c, req[c].target[1], ok)
       /\ IF ok /\ "x" \in req[c].cmd.wheel THEN Goto(c, "wheelX") ELSE Answer(c, ok)
  /\ UNCHANGED frame

WheelX(c) ==
  /\ At(c, "wheelX")
  /\ \E ok \in BOOLEAN : SendPointer(c, req[c].target[1], ok) /\ Answer(c, ok)
  /\ UNCHANGED frame

-----------------------------------------------------------------------------
(* Keypress: sendKeyChord, whose loop presses, and releaseKeys. *)
PressUpTo(c, last) ==
  LET k == req[c].depth + 1
  IN  /\ At(c, "press")
      /\ \/ /\ SendKey(c, req[c].cmd.chord[k], TRUE, TRUE)
            /\ req' = [req EXCEPT ![c].depth = k,
                                  ![c].pc = IF k < last THEN "press" ELSE "release"]
         \/ /\ SendKey(c, req[c].cmd.chord[k], TRUE, FALSE)
            /\ req' = [req EXCEPT ![c].err = TRUE, ![c].pc = "release"]
      /\ UNCHANGED <<answer, frame>>

PressAllButLastKey(c) == PressUpTo(c, Len(req[c].cmd.chord) - 1)

(* A failed press ends the loop; the keys pressed so far are released. *)
PressKey(c) == PressUpTo(c, Len(req[c].cmd.chord))

ReleaseTopKey(c, ok) ==
  /\ At(c, "release") /\ req[c].depth > 0
  /\ SendKey(c, req[c].cmd.chord[req[c].depth], FALSE, ok)
  /\ UNCHANGED <<answer, frame>>

ReleaseKeyKeepsLastError(c) ==
  \E ok \in BOOLEAN :
    /\ ReleaseTopKey(c, ok)
    /\ req' = [req EXCEPT ![c].depth = @ - 1, ![c].err = ~ok]

(* One iteration of releaseKeys, last key first: it goes on after an error *)
(* and joins the errors.                                                   *)
ReleaseKey(c) ==
  \E ok \in BOOLEAN :
    /\ ReleaseTopKey(c, ok)
    /\ req' = [req EXCEPT ![c].depth = @ - 1, ![c].err = @ \/ ~ok]

KeysReleased(c) ==
  /\ At(c, "release") /\ req[c].depth = 0
  /\ Answer(c, ~req[c].err)
  /\ UNCHANGED <<frame, held, hist>>

-----------------------------------------------------------------------------
(* TypeText is one call of the backend.  The RDP backend lifts the         *)
(* modifiers before it types, and one that fails half way may leave some   *)
(* of them down.                                                           *)
TypeText(c) ==
  /\ At(c, "text")
  /\ \E ok \in BOOLEAN, touched \in SUBSET TextKeys :
       /\ held' = IF ok THEN held \ touched ELSE held \union touched
       /\ suspect' = IF ok THEN suspect \ touched ELSE suspect \union touched
       /\ Returned(c, ok)
       /\ Answer(c, ok)
  /\ UNCHANGED <<frame, sent>>

(* Wait only sleeps. *)
WaitDone(c) ==
  /\ At(c, "wait")
  /\ Answer(c, TRUE)
  /\ UNCHANGED <<frame, held, hist>>

(* Screenshot with a crop asks a backend that can crop first; only "cropped *)
(* output unavailable", or a backend that cannot crop, leads to a full      *)
(* capture.                                                                 *)
NativeCrop(c) ==
  /\ At(c, "crop")
  /\ \/ \E ok \in BOOLEAN : Answer(c, ok) /\ Returned(c, ok)
     \/ Goto(c, "full") /\ UNCHANGED <<blamed, alone>>
  /\ UNCHANGED <<frame, held, sent, suspect>>

(* Screenshot, cropImage and encodePNG.  A capture sets the size that the  *)
(* status of a capturing backend reports from then on.                     *)
FullCapture(c) ==
  /\ At(c, "full")
  /\ \E ok \in BOOLEAN : Answer(c, ok) /\ Returned(c, ok)
  /\ frame' \in Frames
  /\ UNCHANGED <<held, sent, suspect>>

(* A session backend's frame size also changes by itself. *)
Resize ==
  /\ frame' \in Frames \ {frame}
  /\ UNCHANGED <<req, answer, held, hist>>

-----------------------------------------------------------------------------
Step(c) ==
  \/ MapPoint(c) \/ MoveToStart(c) \/ ButtonDown(c) \/ DragMove(c) \/ DragAbort(c)
  \/ ButtonUp(c) \/ WheelY(c) \/ WheelX(c)
  \/ PressKey(c) \/ ReleaseKey(c) \/ KeysReleased(c)
  \/ TypeText(c) \/ WaitDone(c) \/ NativeCrop(c) \/ FullCapture(c)

Next == Resize \/ \E c \in Clients : Step(c) \/ \E m \in Commands : Start(c, m)

Spec == Init /\ [][Next]_vars

-----------------------------------------------------------------------------
(* Properties. *)

InRange(r) ==
  /\ r.pc = "map" => Len(r.target) < Len(r.cmd.path)
  /\ r.pc \in {"move", "down", "drag", "abort", "up", "wheelX", "wheelY"}
       => Len(r.target) = Len(r.cmd.path) /\ Len(r.target) > 0
  /\ r.pc = "drag" => r.step \in 1..Len(r.target) - 1
  /\ r.pc = "abort" => r.step \in 1..Len(r.target)
  /\ r.depth <= Len(r.cmd.chord)
  /\ r.pc = "press" => r.depth < Len(r.cmd.chord)

(* No handler indexes past the end of its path or of its chord, which      *)
(* would panic: Drag's path[0] and path[1:], the end point, releaseKeys'   *)
(* keys[i] and the point that mapInputPath fills in next.                  *)
IndicesInRange == \A c \in Clients : InRange(req[c])

(* However the requests interleave and whichever calls fail, a key or      *)
(* button that is down on the remote desktop either belongs to a request   *)
(* that is still to release it, or its last event returned an error to a   *)
(* caller.  Nothing stays down that nobody was told about: Drag's release  *)
(* on a failed move and releaseKeys' going on after an error are what it   *)
(* takes.                                                                  *)
NothingSilentlyHeld == held \subseteq Owned \union suspect

(* A request answers "ok" only if none of the backend calls it made        *)
(* failed: no error is lost on the way, although a chord goes on releasing *)
(* after one.                                                              *)
OkMeansNoFailure ==
  \A c \in Clients : answer[c] = "ok" => ~blamed[c]

(* A request that has the service for itself puts on the remote desktop    *)
(* exactly what it says: all the keys of its chord are down together       *)
(* before the first is released, its button is down from the press to the  *)
(* release, nothing else ever is, and nothing is when it has answered.     *)
AloneMeansExact ==
  [][\A c \in Clients : alone'[c] =>
       /\ held' \subseteq OwnedBy(req'[c])
       /\ req[c].pc = "press" /\ req'[c].pc = "release" => held' = KeysOf(req[c].cmd.chord)
       /\ req'[c].pc \in {"drag", "up"} => held' = {req[c].cmd.button}]_vars

(* A button goes up where the request's pointer last went: a click at the  *)
(* point it pressed, a drag at the end of its path, or at the point it     *)
(* could not reach, although the frame size that input coordinates are     *)
(* mapped with may change in between.                                      *)
ReleasedWhereItWent ==
  [][\A c \in Clients :
       req[c].pc \in {"up", "abort"} /\ req'[c] # req[c] => sent'[c] = sent[c]]_vars
=============================================================================
