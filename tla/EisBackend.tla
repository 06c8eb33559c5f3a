------------------------------ MODULE EisBackend ------------------------------
(***************************************************************************)
(* The KWin EIS input backend (internal/kwineis/backend.go).  KWin offers  *)
(* devices over a libei connection and takes them away again; the backend  *)
(* keeps one device for each of four kinds of input, and the regions of    *)
(* its absolute pointer, which screenshot coordinates are mapped into.     *)
(*                                                                         *)
(* Four kinds of goroutines meet here: New, which waits for the devices,   *)
(* run, which handles KWin's events with b.mu held, the callers of the     *)
(* input operations, and Close.                                            *)
(*                                                                         *)
(* KWin and libei are external.  The size that points are mapped with is   *)
(* the output's: internal/kwin/backend.go, which does not know its frame   *)
(* before the first full screenshot.                                       *)
(***************************************************************************)
EXTENDS Integers, Sequences, FiniteSets, FiniteSetsExt

CONSTANTS
  Devices,
  Caps,       (* the kinds of input each device is for                     *)
  RegionsOf,  (* the regions of each device                                *)
  Callers,    (* goroutines that call the input operations                 *)
  Points,     (* the points that they are asked for                        *)
  Frames,     (* the sizes of screenshots                                  *)
  Den,        (* coordinates are float64: here, 1/Den of a pixel           *)
  MaxQueue,   (* bound: events that KWin has sent and libei has not read   *)
  None, NoFrame

Slots == {"pointerAbs", "button", "scroll", "keyboard"}
Region == [x : Nat, y : Nat, w : Nat, h : Nat]   (* libei: uint32_t *)

ASSUME EisAssumption ==
  /\ Caps \in [Devices -> SUBSET Slots]
  /\ RegionsOf \in [Devices -> SUBSET Region]
  /\ \A d \in Devices : IsFiniteSet(RegionsOf[d])
  /\ Points \subseteq [x : Int, y : Int]
  /\ Frames \subseteq [w : Nat \ {0}, h : Nat \ {0}]
  /\ Den \in Nat \ {0} /\ MaxQueue \in Nat \ {0}
  /\ None \notin Devices /\ NoFrame \notin Frames

VARIABLES
  slot, regions,     (* b.pointerAbs ... b.keyboard and b.regions          *)
  ready, up, err,    (* b.status.Ready, Connected and Active, b.runErr     *)
  closing, done, readyCh, (* b.closing with b.stop; closed channels        *)
  ei,                (* b.ei # nil                                         *)
  run, batch,        (* the event loop, and what libei has read for it     *)
  boot, close,       (* New and Close                                      *)
  call,              (* each caller                                        *)
  shot               (* the frame size in the output's status              *)

(* External: KWin's end of the connection. *)
VARIABLES link, there, queue

(* Observation only. *)
VARIABLES
  resumed,  (* devices whose last handled event was EI_EVENT_DEVICE_RESUMED *)
  stray     (* the last loss of Ready was for a device that filled no slot *)

devices == <<slot, regions>>
status  == <<ready, up, err>>
chans   == <<closing, done, readyCh>>
kwin    == <<link, there, queue>>
seen    == <<resumed, stray>>
vars == <<devices, status, chans, ei, run, batch, boot, close, call, shot, kwin, seen>>

Errors == {"none", "disconnected", "lost", "poll"}

DeviceEvent == [type : {"resumed", "paused", "removed"}, dev : Devices]
Event == DeviceEvent \union [type : {"connect", "disconnect"}, dev : {None}]
Position == [x : Int, y : Int]

(* A call is refused for what it asks; an error is about the devices.      *)
Failed == {"error", "refused"}

Call == [pc : {"idle", "move", "act"}, op : Slots, answer : {"none", "ok"} \union Failed,
         at : Position, used : SUBSET Region]

(* Every variable keeps its type; the libei context lives as long as the   *)
(* event loop, and Close has waited for the loop.                          *)
TypeOK ==
  /\ slot \in [Slots -> Devices \union {None}] /\ regions \in SUBSET Region
  /\ ready \in BOOLEAN /\ up \in BOOLEAN /\ err \in Errors
  /\ closing \in BOOLEAN /\ done \in BOOLEAN /\ readyCh \in BOOLEAN /\ ei \in BOOLEAN
  /\ run \in {"check", "poll", "drain", "hangup", "cleanup", "ended"}
  /\ batch \in Seq(Event)
  /\ boot \in {"waiting", "up", "closing", "failed"}
  /\ close \in {"no", "wait", "closed"}
  /\ call \in [Callers -> Call]
  /\ shot \in Frames \union {NoFrame}
  /\ link \in {"new", "up", "gone", "cut"}
  /\ there \in [Devices -> {"absent", "resumed", "paused"}]
  /\ queue \in Seq(Event)
  /\ resumed \subseteq Devices /\ stray \in BOOLEAN
  /\ ei <=> run # "ended"
  /\ close = "closed" => run = "ended"

-----------------------------------------------------------------------------
(* Helpers. *)

(* b.mu is held across steps only by run, while it drains a batch. *)
Unlocked == run \notin {"drain", "hangup"}

Complete(slots) == \A s \in Slots : slots[s] # None

(* regionUnion: NoRegion when there is none, or none with an area. *)
NoRegion == None
Union(rs) ==
  LET minX == Min({r.x : r \in rs})
      minY == Min({r.y : r \in rs})
      maxX == Max({r.x + r.w : r \in rs})
      maxY == Max({r.y + r.h : r \in rs})
  IN  IF rs = {} \/ maxX <= minX \/ maxY <= minY THEN NoRegion
      ELSE [x |-> minX, y |-> minY, w |-> maxX - minX, h |-> maxY - minY]

Clamp(v, low, high) == IF v < low THEN low ELSE IF v > high THEN high ELSE v

(* One axis of MapInputPoint: a pixel of a frame of this size goes to the  *)
(* union, which begins at low and is length long.                          *)
ScaleAxis(low, length, size, v) == low * Den + (v * length * Den) \div size
MapAxis(low, length, size, v) ==
  Clamp(ScaleAxis(low, length, size, v), low * Den, (low + length - 1) * Den)

Unmapped(p) == [x |-> p.x * Den, y |-> p.y * Den]

MapIntoUnclamped(u, frame, p) ==
  [x |-> ScaleAxis(u.x, u.w, frame.w, p.x), y |-> ScaleAxis(u.y, u.h, frame.h, p.y)]

MapInto(u, frame, p) ==
  [x |-> MapAxis(u.x, u.w, frame.w, p.x), y |-> MapAxis(u.y, u.h, frame.h, p.y)]

NoCall == [pc |-> "idle", op |-> "keyboard", answer |-> "none",
           at |-> [x |-> 0, y |-> 0], used |-> {}]

Answer(c, a) == call' = [call EXCEPT ![c] = [NoCall EXCEPT !.answer = a]]

-----------------------------------------------------------------------------
Init ==
  /\ slot = [s \in Slots |-> None] /\ regions = {}
  /\ ready = FALSE /\ up = TRUE /\ err = "none"
  /\ closing = FALSE /\ done = FALSE /\ readyCh = FALSE /\ ei = TRUE
  /\ run = "check" /\ batch = <<>>
  /\ boot = "waiting" /\ close = "no"
  /\ call = [c \in Callers |-> NoCall]
  /\ shot = NoFrame
  /\ link = "new" /\ there = [d \in Devices |-> "absent"] /\ queue = <<>>
  /\ resumed = {} /\ stray = FALSE

-----------------------------------------------------------------------------
(* KWin, external: the connection comes up, devices are offered, paused    *)
(* and removed in any order, and at any moment KWin disconnects or the     *)
(* connection is cut.                                                      *)

KwinConnects ==
  /\ link = "new"
  /\ link' = "up" /\ queue' = <<[type |-> "connect", dev |-> None]>>
  /\ UNCHANGED <<there, devices, status, chans, ei, run, batch, boot, close, call, shot, seen>>

KwinSends(d, type) ==
  /\ link = "up" /\ Len(queue) < MaxQueue
  /\ there[d] \in (CASE type = "resumed" -> {"absent", "paused"}
                      [] type = "paused"  -> {"resumed"}
                      [] type = "removed" -> {"resumed", "paused"})
  /\ there' = [there EXCEPT ![d] = IF type = "removed" THEN "absent" ELSE type]
  /\ queue' = Append(queue, [type |-> type, dev |-> d])
  /\ UNCHANGED <<link, devices, status, chans, ei, run, batch, boot, close, call, shot, seen>>

KwinDisconnects ==
  /\ link \in {"new", "up"}
  /\ link' = "gone" /\ queue' = Append(queue, [type |-> "disconnect", dev |-> None])
  /\ there' = [d \in Devices |-> "absent"]
  /\ UNCHANGED <<devices, status, chans, ei, run, batch, boot, close, call, shot, seen>>

LinkCut ==
  /\ link \in {"new", "up"}
  /\ link' = "cut" /\ there' = [d \in Devices |-> "absent"]
  /\ UNCHANGED <<queue, devices, status, chans, ei, run, batch, boot, close, call, shot, seen>>

(* The output backend: a full screenshot sets the size in its status. *)
FullScreenshot ==
  /\ shot' \in Frames
  /\ UNCHANGED <<devices, status, chans, ei, run, batch, boot, close, call, kwin, seen>>

-----------------------------------------------------------------------------
(* The event loop. *)

(* finish. *)
Finish(e) ==
  /\ err' = e /\ up' = FALSE /\ ready' = FALSE
  /\ done' = TRUE /\ UNCHANGED <<closing, readyCh>>

(* The top of the loop: has Close been called? *)
CheckStop ==
  /\ run = "check" /\ run' = IF closing THEN "cleanup" ELSE "poll"
  /\ UNCHANGED <<devices, status, chans, ei, batch, boot, close, call, shot, kwin, seen>>

(* Poll times out after 100 ms. *)
PollTimeout ==
  /\ run = "poll" /\ queue = <<>> /\ link # "cut"
  /\ run' = "check"
  /\ UNCHANGED <<devices, status, chans, ei, batch, boot, close, call, shot, kwin, seen>>

PollFails ==
  /\ run = "poll" /\ run' = "cleanup"
  /\ Finish("poll")
  /\ UNCHANGED <<devices, ei, batch, boot, close, call, shot, kwin, seen>>

(* ei_dispatch reads what has come, and b.mu is kept until all of it is    *)
(* handled.  On a connection that was cut libei may say so by an event.    *)
Dispatch ==
  /\ run = "poll" /\ (queue # <<>> \/ link = "cut")
  /\ run' = IF link = "cut" THEN "hangup" ELSE "drain"
  /\ \/ batch' = queue
     \/ link = "cut" /\ batch' = Append(queue, [type |-> "disconnect", dev |-> None])
  /\ queue' = <<>>
  /\ UNCHANGED <<link, there, devices, status, chans, ei, boot, close, call, shot, seen>>

AddDeviceFor(d, needed, isReady) ==
  /\ slot' = [s \in Slots |-> IF s \in Caps[d] THEN d ELSE slot[s]]
  /\ regions' = IF "pointerAbs" \in Caps[d] THEN RegionsOf[d] ELSE regions
  /\ IF \A s \in needed : slot'[s] # None
     THEN /\ ready' = isReady /\ err' = "none" /\ readyCh' = TRUE /\ stray' = FALSE
          /\ UNCHANGED <<up, closing, done>>
     ELSE UNCHANGED <<status, chans, stray>>

AddDeviceTooEarly(d) == AddDeviceFor(d, Slots \ {"scroll"}, TRUE)

(* addDeviceLocked. *)
AddDevice(d) == AddDeviceFor(d, Slots, TRUE)

RemoveDeviceAnd(d, left, stillReady) ==
  /\ slot' = [s \in Slots |-> IF slot[s] = d THEN None ELSE slot[s]]
  /\ regions' = left
  /\ ready' = stillReady /\ UNCHANGED <<up, err, chans>>
  /\ stray' = (stray \/ \A s \in Slots : slot[s] # d)

(* removeDeviceLocked. *)
RemoveDevice(d) ==
  RemoveDeviceAnd(d, IF slot["pointerAbs"] \in {d, None} THEN {} ELSE regions, FALSE)

HandleTo(type, d, onDisconnect) ==
  CASE type = "connect" ->
         /\ err' = "none"
         /\ UNCHANGED <<ready, up, chans, devices, stray>>
    [] type = "disconnect" ->
         /\ Finish(onDisconnect) /\ UNCHANGED <<devices, stray>>
    [] type = "resumed" -> AddDevice(d)
    [] type \in {"paused", "removed"} -> RemoveDevice(d)

HandleForgetsError(type, d) == HandleTo(type, d, "none")

HandleNotPaused(type, d) ==
  IF type = "paused" THEN UNCHANGED <<devices, status, chans, stray>>
  ELSE HandleTo(type, d, IF closing THEN "none" ELSE "disconnected")

(* handleEventLocked. *)
Handle(type, d) == HandleTo(type, d, IF closing THEN "none" ELSE "disconnected")

HandleEvent ==
  /\ run \in {"drain", "hangup"} /\ batch # <<>>
  /\ Handle(Head(batch).type, Head(batch).dev)
  /\ batch' = Tail(batch)
  /\ resumed' = CASE Head(batch).type = "resumed" -> resumed \union {Head(batch).dev}
                  [] OTHER -> resumed \ {Head(batch).dev}
  /\ UNCHANGED <<ei, run, boot, close, call, shot, kwin>>

DrainedIf(hungUp) ==
  /\ run \in {"drain", "hangup"} /\ batch = <<>>
  /\ \/ /\ done /\ run' = "cleanup"
        /\ UNCHANGED <<status, chans>>
     \/ /\ ~done /\ hungUp /\ run' = "cleanup"
        /\ Finish("lost")
     \/ /\ ~done /\ ~hungUp /\ run' = "check"
        /\ UNCHANGED <<status, chans>>
  /\ UNCHANGED <<devices, ei, batch, boot, close, call, shot, kwin, seen>>

DrainedByEventOnly == DrainedIf(FALSE)

(* The batch is handled: unlock, and go on, or end. *)
Drained == DrainedIf(run = "hangup")

CleanUp ==
  /\ run = "cleanup" /\ run' = "ended"
  /\ slot' = [s \in Slots |-> None] /\ regions' = {} /\ ei' = FALSE
  /\ done' = TRUE
  /\ UNCHANGED <<status, closing, readyCh, batch, boot, close, call, shot, kwin, seen>>

RunStep ==
  CheckStop \/ PollTimeout \/ Dispatch \/ HandleEvent \/ Drained \/ CleanUp

-----------------------------------------------------------------------------
(* Close. *)
CloseBegin == close = "no" /\ close' = "wait" /\ closing' = TRUE

CloseByServer ==
  /\ boot = "up" /\ CloseBegin
  /\ UNCHANGED <<devices, status, done, readyCh, ei, run, batch, boot, call, shot, kwin, seen>>

CloseOnce(loopEnded) ==
  /\ close = "wait" /\ loopEnded
  /\ close' = "closed"
  /\ up' = FALSE /\ ready' = FALSE /\ done' = TRUE
  /\ UNCHANGED <<devices, err, closing, readyCh, ei, run, batch, boot, call, shot, kwin, seen>>

CloseAtOnce == CloseOnce(TRUE)

(* The event loop has ended: say so, and tell KWin to disconnect. *)
CloseEnd == CloseOnce(run = "ended")

(* New waits for the devices, for the end of the loop, or five seconds. *)
BootReady ==
  /\ boot = "waiting" /\ readyCh /\ boot' = "up"
  /\ UNCHANGED <<devices, status, chans, ei, run, batch, close, call, shot, kwin, seen>>

BootDone ==
  /\ boot = "waiting" /\ done /\ boot' = "failed"
  /\ UNCHANGED <<devices, status, chans, ei, run, batch, close, call, shot, kwin, seen>>

BootTimeout ==
  /\ boot = "waiting" /\ CloseBegin /\ boot' = "closing"
  /\ UNCHANGED <<devices, status, done, readyCh, ei, run, batch, call, shot, kwin, seen>>

BootTimedOut ==
  /\ boot = "closing" /\ close = "closed" /\ boot' = "failed"
  /\ UNCHANGED <<devices, status, chans, ei, run, batch, close, call, shot, kwin, seen>>

Boot == BootReady \/ BootDone \/ BootTimeout \/ BootTimedOut

-----------------------------------------------------------------------------
(* The input operations. *)

(* MapInputPoint.  Before there is a screenshot, or without regions, the   *)
(* point stays as it is.                                                   *)
MapInputPoint(c, p) ==
  /\ boot = "up" /\ call[c].pc = "idle"
  /\ IF p.x < 0 \/ p.y < 0 THEN Answer(c, "refused")
     ELSE /\ shot # NoFrame => Unlocked
          /\ LET u == IF shot = NoFrame THEN NoRegion ELSE Union(regions)
             IN  call' = [call EXCEPT ![c] =
                   [NoCall EXCEPT
                     !.pc = "move",
                     !.at = IF u = NoRegion THEN Unmapped(p) ELSE MapInto(u, shot, p),
                     !.used = IF u = NoRegion THEN {} ELSE regions]]
  /\ UNCHANGED <<devices, status, chans, ei, run, batch, boot, close, shot, kwin, seen>>

(* MoveMouse, alone or as the first thing that a button or a wheel does:   *)
(* a point that was mapped is not negative.                                *)
MoveMouse(c, op) ==
  /\ call[c].pc = "move" /\ Unlocked
  /\ \/ /\ ei /\ slot["pointerAbs"] # None
        /\ IF op = "pointerAbs" THEN Answer(c, "ok")
           ELSE call' = [call EXCEPT ![c] = [NoCall EXCEPT !.pc = "act", !.op = op]]
     \/ /\ ~ei \/ slot["pointerAbs"] = None
        /\ Answer(c, "error")
  /\ UNCHANGED <<devices, status, chans, ei, run, batch, boot, close, shot, kwin, seen>>

(* SendMouseWheel refuses a delta of zero before it moves the pointer. *)
RefuseZero(c) ==
  /\ call[c].pc = "move" /\ Answer(c, "refused")
  /\ UNCHANGED <<devices, status, chans, ei, run, batch, boot, close, shot, kwin, seen>>

(* SendKey and TypeText go to the keyboard without a point.  TypeText      *)
(* looks every rune up first, and refuses a text with one that has no key. *)
StartKey(c) ==
  /\ boot = "up" /\ call[c].pc = "idle"
  /\ \/ call' = [call EXCEPT ![c] = [NoCall EXCEPT !.pc = "act", !.op = "keyboard"]]
     \/ Answer(c, "refused")
  /\ UNCHANGED <<devices, status, chans, ei, run, batch, boot, close, shot, kwin, seen>>

(* withDevice: the button, the wheel or the keys. *)
WithDevice(c) ==
  /\ call[c].pc = "act" /\ Unlocked
  /\ Answer(c, IF ei /\ slot[call[c].op] # None THEN "ok" ELSE "error")
  /\ UNCHANGED <<devices, status, chans, ei, run, batch, boot, close, shot, kwin, seen>>

Input(c) ==
  \/ \E p \in Points : MapInputPoint(c, p)
  \/ \E op \in Slots \ {"keyboard"} : MoveMouse(c, op)
  \/ RefuseZero(c) \/ StartKey(c) \/ WithDevice(c)

Kwin ==
  \/ KwinConnects \/ KwinDisconnects \/ LinkCut
  \/ \E d \in Devices, type \in {"resumed", "paused", "removed"} : KwinSends(d, type)

Next ==
  \/ Kwin \/ FullScreenshot
  \/ RunStep \/ PollFails
  \/ CloseByServer \/ CloseEnd \/ Boot
  \/ \E c \in Callers : Input(c)

Spec == Init /\ [][Next]_vars

(* The event loop's goroutine runs, as does Close once the loop has ended, *)
(* and New's timer expires.  KWin may stay silent.                         *)
Fairness == WF_vars(RunStep) /\ WF_vars(CloseEnd) /\ WF_vars(Boot)

FairSpec == Spec /\ Fairness

-----------------------------------------------------------------------------
(* Properties. *)

(* What a slot holds can be used: KWin has resumed that device and neither *)
(* paused nor removed it since, as far as its events were handled.         *)
SlotsHoldResumed ==
  \A s \in Slots : slot[s] # None => slot[s] \in resumed /\ s \in Caps[slot[s]]

(* Points are mapped into the regions of the device that will move: when   *)
(* one absolute pointer replaces another, or goes away, so do its regions. *)
RegionsAreThePointers ==
  regions = IF slot["pointerAbs"] = None THEN {} ELSE RegionsOf[slot["pointerAbs"]]

(* Together: whoever sends through a slot, or maps a point, does so for a  *)
(* device that KWin has not taken away, in any order of its events.        *)
DevicesUsable == SlotsHoldResumed /\ RegionsAreThePointers

(* The status says ready only while there is a device for every kind of    *)
(* input.                                                                  *)
ReadyMeansComplete == ready /\ ~done => Complete(slot)

(* And it says so again when they are all back.  The one exception is that *)
(* KWin takes away a device that had already been replaced: that clears    *)
(* Ready although nothing is missing, until a device is resumed again.     *)
CompleteMeansReady == Complete(slot) /\ ~done => ready \/ stray

(* Together: the status is right about whether input can be sent.          *)
ReadyIsExact == ReadyMeansComplete /\ CompleteMeansReady

(* A motion whose point was mapped into the regions of the device that     *)
(* makes it stays inside them, wherever outside the screenshot the caller  *)
(* pointed: libei would drop it silently.                                  *)
Inside(at, u) ==
  /\ u.x * Den <= at.x /\ at.x <= (u.x + u.w - 1) * Den
  /\ u.y * Den <= at.y /\ at.y <= (u.y + u.h - 1) * Den
MovesInside(c) ==
  call[c].pc = "move" /\ call'[c].pc # "move" /\ call'[c].answer \notin Failed =>
    LET u == Union(RegionsOf[slot["pointerAbs"]])
    IN  u # NoRegion => Inside(call[c].at, u)
MappedMotionsInside ==
  [][\A c \in Callers : call[c].used = regions => MovesInside(c)]_vars

(* An input call that is not refused for what it asks fails only when the  *)
(* backend says that it is not ready, or has ended.                        *)
ErrorMeansNotReady ==
  [][\A c \in Callers :
       call[c].pc # "idle" /\ call'[c].answer = "error" => ~ready \/ done]_vars

(* Together: what happens to an input call is what the regions and the     *)
(* status of the moment make a caller expect.                              *)
CallsAreSound == MappedMotionsInside /\ ErrorMeansNotReady

(* A backend that ends without being asked to has an error to show for it, *)
(* at the moment its done channel is closed: the Composite looks then.     *)
UnexpectedEndHasError == done /\ ~closing => err # "none"

(* And it keeps the promises of desktop.Resource, on which the Composite   *)
(* relies when it reads the error once: whatever KWin sends before and     *)
(* after, the error comes with Done and is final, and Close returns later. *)
Promise == INSTANCE Resource WITH ended <- done, error <- (err # "none"), closed <- (close = "closed")
EndsAsPromised == [][UnexpectedEndHasError']_vars /\ Promise!Spec

(* Close returns, whatever KWin does meanwhile. *)
CloseReturns == close = "wait" ~> close = "closed"

(* A connection that is lost ends the backend. *)
LostLinkEnds == link \in {"gone", "cut"} ~> done

(* A failed New leaves no goroutine and no libei context behind. *)
FailedStartCleansUp == boot = "failed" ~> run = "ended" /\ ~ei

(* Together: whatever KWin does meanwhile, nobody waits for the backend's  *)
(* end in vain, and nothing of it is left behind.                          *)
EndsWhenItMust == CloseReturns /\ LostLinkEnds /\ FailedStartCleansUp
=============================================================================
