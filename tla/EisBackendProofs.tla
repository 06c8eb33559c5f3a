--------------------------- MODULE EisBackendProofs ---------------------------
(***************************************************************************)
(* Proofs about EisBackend: what the device slots and the status say, that *)
(* an unexpected end leaves an error, and what comes of the calls that are *)
(* on their way meanwhile, for any devices, any order of KWin's events and *)
(* any number of callers.                                                  *)
(***************************************************************************)
EXTENDS EisBackend, FiniteSetTheorems, SequenceTheorems, WellFoundedInduction,
        NaturalsInduction, TLAPS

(* The types these proofs need. *)
Types ==
  /\ slot \in [Slots -> Devices \union {None}]
  /\ ready \in BOOLEAN /\ done \in BOOLEAN /\ closing \in BOOLEAN
  /\ queue \in Seq(Event) /\ batch \in Seq(Event)
  /\ run \in {"check", "poll", "drain", "hangup", "cleanup", "ended"}

(* The device slots and what is said of them. *)
DevicesOK == SlotsHoldResumed /\ RegionsAreThePointers /\ ReadyMeansComplete

(* Nothing follows a disconnect: not in what libei has read, and not in    *)
(* what it has not read yet.                                               *)
LastIsDisconnect(events) ==
  \A i \in 1..Len(events) : events[i].type = "disconnect" => i = Len(events)

Disconnected(events) == \E i \in 1..Len(events) : events[i].type = "disconnect"

EventsOK ==
  /\ LastIsDisconnect(queue) /\ LastIsDisconnect(batch)
  /\ Disconnected(queue) => link = "gone"

(* Why an error stays once the backend has ended: no event is handled any  *)
(* more.                                                                   *)
EndOK ==
  /\ done => run \notin {"check", "poll"}
  /\ done => batch = <<>>
  /\ batch # <<>> => run \in {"drain", "hangup"}
  /\ run \in {"cleanup", "ended"} => done \/ closing
  /\ close # "no" => closing
  /\ UnexpectedEndHasError

IInv == Types /\ DevicesOK /\ EventsOK /\ EndOK

(* The initial states satisfy the inductive invariant. *)
THEOREM InitIInv == Init => IInv
<1> SUFFICES ASSUME Init PROVE IInv
  OBVIOUS
<1>1. Types
  <2>1. slot \in [Slots -> Devices \union {None}]
    BY DEF Init
  <2>2. queue = <<>> /\ batch = <<>> /\ <<>> \in Seq(Event)
    BY EmptySeq DEF Init
  <2>3. ready \in BOOLEAN /\ done \in BOOLEAN /\ closing \in BOOLEAN
    BY DEF Init
  <2>4. QED
    BY <2>1, <2>2, <2>3 DEF Init, Types
<1>2. DevicesOK
  BY DEF Init, DevicesOK, SlotsHoldResumed, RegionsAreThePointers, ReadyMeansComplete, Slots
<1>3. EventsOK
  BY DEF Init, EventsOK, LastIsDisconnect, Disconnected
<1>4. EndOK
  BY DEF Init, EndOK, UnexpectedEndHasError
<1>5. QED
  BY <1>1, <1>2, <1>3, <1>4 DEF IInv

-----------------------------------------------------------------------------
(* The steps that touch neither the devices, nor what KWin sent, nor the   *)
(* end of the backend.                                                     *)
LEMMA Untouched ==
  ASSUME IInv, UNCHANGED <<devices, status, chans, run, batch, link, queue, resumed, close>>
  PROVE  IInv'
<1>1. Types'
  BY DEF IInv, Types, devices, status, chans
<1>2. DevicesOK'
  BY DEF IInv, DevicesOK, SlotsHoldResumed, RegionsAreThePointers, ReadyMeansComplete,
         Complete, devices, status, chans
<1>3. EventsOK'
  BY DEF IInv, EventsOK, LastIsDisconnect, Disconnected
<1>4. EndOK'
  BY DEF IInv, EndOK, UnexpectedEndHasError, status, chans
<1>5. QED
  BY <1>1, <1>2, <1>3, <1>4 DEF IInv

(* Steps that leave the devices and the status as they are. *)
LEMMA SameDevices ==
  ASSUME DevicesOK, UNCHANGED <<devices, resumed>>,
         ready' => ready, done => done'
  PROVE  DevicesOK'
BY DEF DevicesOK, SlotsHoldResumed, RegionsAreThePointers, ReadyMeansComplete, Complete, devices

(* An event at the end of a queue in which there is no disconnect yet. *)
LEMMA AppendEvent ==
  ASSUME NEW q \in Seq(Event), NEW e \in Event, ~Disconnected(q)
  PROVE  /\ Append(q, e) \in Seq(Event)
         /\ LastIsDisconnect(Append(q, e))
         /\ Disconnected(Append(q, e)) => e.type = "disconnect"
<1>1. /\ Append(q, e) \in Seq(Event) /\ Len(q) \in Nat
      /\ Len(Append(q, e)) = Len(q) + 1
      /\ \A i \in 1..Len(q) : Append(q, e)[i] = q[i]
      /\ Append(q, e)[Len(q) + 1] = e
  OBVIOUS
<1>2. \A i \in 1..Len(q) + 1 : i \in 1..Len(q) \/ i = Len(q) + 1
  BY <1>1
<1>3. \A i \in 1..Len(q) : Append(q, e)[i].type # "disconnect"
  BY <1>1 DEF Disconnected
<1>4. QED
  BY <1>1, <1>2, <1>3 DEF LastIsDisconnect, Disconnected

(* What is left of a batch after its first event. *)
LEMMA TailEvents ==
  ASSUME NEW q \in Seq(Event), q # <<>>, LastIsDisconnect(q)
  PROVE  /\ Head(q) \in Event /\ Tail(q) \in Seq(Event)
         /\ LastIsDisconnect(Tail(q))
         /\ Head(q).type = "disconnect" => Tail(q) = <<>>
<1>1. /\ Head(q) \in Event /\ Tail(q) \in Seq(Event)
      /\ Len(Tail(q)) = Len(q) - 1 /\ \A i \in 1..Len(Tail(q)) : Tail(q)[i] = q[i + 1]
  BY HeadTailProperties
<1>2. Len(q) \in Nat \ {0} /\ Head(q) = q[1]
  BY EmptySeq
<1>3. ASSUME NEW i \in 1..Len(Tail(q)), Tail(q)[i].type = "disconnect"
      PROVE  i = Len(Tail(q))
  <2>1. i + 1 \in 1..Len(q) /\ q[i + 1].type = "disconnect"
    BY <1>1, <1>2, <1>3
  <2>2. i + 1 = Len(q)
    BY <2>1 DEF LastIsDisconnect
  <2>3. \A m, n \in Int : i + 1 = n /\ m = n - 1 => i = m
    BY <1>1, <1>2
  <2>4. Len(q) \in Int /\ Len(Tail(q)) \in Int
    BY <1>1, <1>2
  <2>5. QED
    BY <1>1, <2>2, <2>3, <2>4
<1>4. ASSUME Head(q).type = "disconnect" PROVE Tail(q) = <<>>
  <2>1. Len(q) = 1
    <3>1. 1 \in 1..Len(q) /\ q[1].type = "disconnect"
      BY <1>2, <1>4
    <3>2. QED
      BY <3>1 DEF LastIsDisconnect
  <2>2. Len(Tail(q)) = 0
    BY <1>1, <2>1
  <2>3. QED
    BY <1>1, <2>2, EmptySeq
<1>5. QED
  BY <1>1, <1>3, <1>4 DEF LastIsDisconnect

-----------------------------------------------------------------------------
LEMMA KwinStep ==
  ASSUME IInv, Kwin
  PROVE  IInv'
<1>1. /\ UNCHANGED <<devices, status, chans, run, batch, resumed, close>>
      /\ \/ queue' = queue /\ link \in {"new", "up"} /\ link' = "cut"
         \/ link = "new" /\ queue' = <<[type |-> "connect", dev |-> None]>>
         \/ /\ link = "up" /\ link' = link
            /\ \E d \in Devices, type \in {"resumed", "paused", "removed"} :
                 queue' = Append(queue, [type |-> type, dev |-> d])
         \/ /\ link \in {"new", "up"} /\ link' = "gone"
            /\ queue' = Append(queue, [type |-> "disconnect", dev |-> None])
  BY DEF Kwin, KwinConnects, KwinSends, KwinDisconnects, LinkCut, seen
<1>2. queue \in Seq(Event) /\ (link # "gone" => ~Disconnected(queue)) /\ LastIsDisconnect(queue)
  BY DEF IInv, Types, EventsOK
<1>3. queue' \in Seq(Event) /\ LastIsDisconnect(queue)' /\ (Disconnected(queue)' => link' = "gone")
  <2>1. CASE queue' = queue /\ link \in {"new", "up"} /\ link' = "cut"
    BY <1>2, <2>1 DEF Disconnected, LastIsDisconnect
  <2>2. CASE link = "new" /\ queue' = <<[type |-> "connect", dev |-> None]>>
    <3> DEFINE e == [type |-> "connect", dev |-> None]
    <3>1. e \in Event /\ e.type # "disconnect"
      BY DEF Event
    <3> HIDE DEF e
    <3>2. <<e>> \in Seq(Event) /\ Len(<<e>>) = 1 /\ <<e>>[1] = e
      BY <3>1
    <3>3. \A i \in 1..Len(<<e>>) : <<e>>[i].type # "disconnect"
      BY <3>1, <3>2
    <3>4. queue' = <<e>>
      BY <2>2 DEF e
    <3>5. QED
      BY <3>2, <3>3, <3>4 DEF Disconnected, LastIsDisconnect
  <2>3. CASE /\ link = "up" /\ link' = link
             /\ \E d \in Devices, type \in {"resumed", "paused", "removed"} :
                  queue' = Append(queue, [type |-> type, dev |-> d])
    <3>1. PICK d \in Devices, type \in {"resumed", "paused", "removed"} :
            queue' = Append(queue, [type |-> type, dev |-> d])
      BY <2>3
    <3> DEFINE e == [type |-> type, dev |-> d]
    <3>2. e \in Event /\ e.type # "disconnect"
      BY DEF Event, DeviceEvent
    <3>3. queue' = Append(queue, e)
      BY <3>1
    <3> HIDE DEF e
    <3>4. QED
      BY <1>2, <2>3, <3>2, <3>3, AppendEvent DEF Disconnected, LastIsDisconnect
  <2>4. CASE /\ link \in {"new", "up"} /\ link' = "gone"
             /\ queue' = Append(queue, [type |-> "disconnect", dev |-> None])
    <3>1. [type |-> "disconnect", dev |-> None] \in Event
      BY DEF Event
    <3>2. QED
      BY <1>2, <2>4, <3>1, AppendEvent DEF Disconnected, LastIsDisconnect
  <2>5. QED
    BY <1>1, <2>1, <2>2, <2>3, <2>4
<1>4. Types'
  BY <1>1, <1>3 DEF IInv, Types, devices, status, chans
<1>5. DevicesOK'
  BY <1>1, SameDevices DEF IInv, status, chans
<1>6. EventsOK'
  BY <1>1, <1>3 DEF IInv, EventsOK, Disconnected, LastIsDisconnect
<1>7. EndOK'
  BY <1>1 DEF IInv, EndOK, UnexpectedEndHasError, status, chans
<1>8. QED
  BY <1>4, <1>5, <1>6, <1>7 DEF IInv

(* finish. *)
LEMMA FinishStep ==
  ASSUME IInv, NEW e \in Errors \ {"none"}, Finish(e),
         UNCHANGED <<devices, link, resumed, close>>,
         run' = "cleanup", queue' = queue, batch' = batch, batch = <<>>
  PROVE  IInv'
<1>1. ready' = FALSE /\ done' = TRUE /\ closing' = closing /\ err' = e
  BY DEF Finish
<1>2. Types'
  BY <1>1 DEF IInv, Types, devices
<1>3. DevicesOK'
  BY <1>1, SameDevices DEF IInv
<1>4. EventsOK'
  BY DEF IInv, EventsOK, Disconnected, LastIsDisconnect
<1>5. EndOK'
  BY <1>1 DEF IInv, EndOK, UnexpectedEndHasError
<1>6. QED
  BY <1>2, <1>3, <1>4, <1>5 DEF IInv

LEMMA CheckStopStep ==
  ASSUME IInv, CheckStop
  PROVE  IInv'
<1>1. /\ run = "check" /\ run' = IF closing THEN "cleanup" ELSE "poll"
      /\ UNCHANGED <<devices, status, chans, batch, link, queue, resumed, close>>
  BY DEF CheckStop, kwin, seen
<1>2. Types'
  BY <1>1 DEF IInv, Types, devices, status, chans
<1>3. DevicesOK'
  BY <1>1, SameDevices DEF IInv, status, chans
<1>4. EventsOK'
  BY <1>1 DEF IInv, EventsOK, Disconnected, LastIsDisconnect
<1>5. EndOK'
  BY <1>1 DEF IInv, EndOK, UnexpectedEndHasError, status, chans
<1>6. QED
  BY <1>2, <1>3, <1>4, <1>5 DEF IInv

LEMMA PollTimeoutStep ==
  ASSUME IInv, PollTimeout
  PROVE  IInv'
<1>1. /\ run = "poll" /\ run' = "check"
      /\ UNCHANGED <<devices, status, chans, batch, link, queue, resumed, close>>
  BY DEF PollTimeout, kwin, seen
<1>2. Types'
  BY <1>1 DEF IInv, Types, devices, status, chans
<1>3. DevicesOK'
  BY <1>1, SameDevices DEF IInv, status, chans
<1>4. EventsOK'
  BY <1>1 DEF IInv, EventsOK, Disconnected, LastIsDisconnect
<1>5. EndOK'
  BY <1>1 DEF IInv, EndOK, UnexpectedEndHasError, status, chans
<1>6. QED
  BY <1>2, <1>3, <1>4, <1>5 DEF IInv

LEMMA PollFailsStep ==
  ASSUME IInv, PollFails
  PROVE  IInv'
<1>1. /\ run = "poll" /\ run' = "cleanup" /\ Finish("poll")
      /\ UNCHANGED <<devices, batch, link, queue, resumed, close>>
  BY DEF PollFails, kwin, seen
<1>2. batch = <<>>
  BY <1>1 DEF IInv, EndOK
<1>3. "poll" \in Errors \ {"none"}
  BY DEF Errors
<1>4. QED
  BY <1>1, <1>2, <1>3, FinishStep

LEMMA DispatchStep ==
  ASSUME IInv, Dispatch
  PROVE  IInv'
<1> DEFINE e == [type |-> "disconnect", dev |-> None]
<1>1. /\ run = "poll" /\ run' \in {"drain", "hangup"} /\ queue' = <<>>
      /\ batch' = queue \/ (link = "cut" /\ batch' = Append(queue, e))
      /\ UNCHANGED <<devices, status, chans, link, resumed, close>>
  BY DEF Dispatch, seen
<1>2. queue \in Seq(Event) /\ LastIsDisconnect(queue) /\ (link = "cut" => ~Disconnected(queue))
  BY DEF IInv, Types, EventsOK
<1>3. e \in Event
  BY DEF Event
<1> HIDE DEF e
<1>4. batch' \in Seq(Event) /\ LastIsDisconnect(batch)'
  BY <1>1, <1>2, <1>3, AppendEvent DEF LastIsDisconnect
<1>5. <<>> \in Seq(Event) /\ LastIsDisconnect(<<>>) /\ ~Disconnected(<<>>)
  BY DEF LastIsDisconnect, Disconnected
<1>6. Types'
  BY <1>1, <1>4, <1>5 DEF IInv, Types, devices, status, chans
<1>7. DevicesOK'
  BY <1>1, SameDevices DEF IInv, status, chans
<1>8. EventsOK'
  BY <1>1, <1>4, <1>5 DEF EventsOK, Disconnected, LastIsDisconnect
<1>9. EndOK'
  BY <1>1 DEF IInv, EndOK, UnexpectedEndHasError, status, chans
<1>10. QED
  BY <1>6, <1>7, <1>8, <1>9 DEF IInv

LEMMA AddDeviceKeepsDevices ==
  ASSUME Types, DevicesOK, NEW d \in Devices, AddDevice(d), resumed' = resumed \union {d}
  PROVE  slot' \in [Slots -> Devices \union {None}] /\ ready' \in BOOLEAN /\ DevicesOK'
<1>1. /\ slot' = [s \in Slots |-> IF s \in Caps[d] THEN d ELSE slot[s]]
      /\ regions' = IF "pointerAbs" \in Caps[d] THEN RegionsOf[d] ELSE regions
      /\ done' = done
  BY DEF AddDevice, AddDeviceFor, chans
<1>2. slot' \in [Slots -> Devices \union {None}]
  BY <1>1 DEF Types
<1>3. /\ \/ ready' = TRUE /\ \A s \in Slots : slot'[s] # None
         \/ ready' = ready
  BY DEF AddDevice, AddDeviceFor, status
<1>4. d # None /\ "pointerAbs" \in Slots
  BY EisAssumption DEF Slots
<1>5. SlotsHoldResumed'
  BY <1>1, <1>4 DEF DevicesOK, SlotsHoldResumed
<1>6. RegionsAreThePointers'
  BY <1>1, <1>4 DEF DevicesOK, RegionsAreThePointers
<1>7. ReadyMeansComplete'
  BY <1>1, <1>3, <1>4 DEF DevicesOK, ReadyMeansComplete, Complete
<1>8. QED
  BY <1>2, <1>3, <1>5, <1>6, <1>7 DEF DevicesOK, Types

LEMMA RemoveDeviceKeepsDevices ==
  ASSUME Types, DevicesOK, NEW d \in Devices, RemoveDevice(d), resumed' = resumed \ {d}
  PROVE  slot' \in [Slots -> Devices \union {None}] /\ ready' \in BOOLEAN /\ DevicesOK'
<1>1. /\ slot' = [s \in Slots |-> IF slot[s] = d THEN None ELSE slot[s]]
      /\ regions' = IF slot["pointerAbs"] \in {d, None} THEN {} ELSE regions
      /\ ready' = FALSE
  BY DEF RemoveDevice, RemoveDeviceAnd
<1>2. slot' \in [Slots -> Devices \union {None}]
  BY <1>1 DEF Types
<1>3. d # None /\ "pointerAbs" \in Slots
  BY EisAssumption DEF Slots
<1>4. SlotsHoldResumed'
  BY <1>1 DEF DevicesOK, SlotsHoldResumed
<1>5. RegionsAreThePointers'
  BY <1>1, <1>3 DEF DevicesOK, RegionsAreThePointers
<1>6. QED
  BY <1>1, <1>2, <1>4, <1>5 DEF DevicesOK, ReadyMeansComplete

LEMMA HandleEventStep ==
  ASSUME IInv, HandleEvent
  PROVE  IInv'
<1> DEFINE type == Head(batch).type
           d == Head(batch).dev
<1>1. /\ run \in {"drain", "hangup"} /\ batch # <<>> /\ batch' = Tail(batch)
      /\ HandleTo(type, d, IF closing THEN "none" ELSE "disconnected")
      /\ resumed' = IF type = "resumed" THEN resumed \union {d} ELSE resumed \ {d}
      /\ UNCHANGED <<run, link, queue, close>>
  BY DEF HandleEvent, Handle, kwin
<1>2. /\ batch \in Seq(Event) /\ LastIsDisconnect(batch) /\ ~done
      /\ Types /\ DevicesOK
  BY <1>1 DEF IInv, Types, EventsOK, EndOK
<1>3. /\ Head(batch) \in Event /\ Tail(batch) \in Seq(Event) /\ LastIsDisconnect(Tail(batch))
      /\ type = "disconnect" => Tail(batch) = <<>>
  BY <1>1, <1>2, TailEvents
<1>4. \/ type \in {"resumed", "paused", "removed"} /\ d \in Devices
      \/ type \in {"connect", "disconnect"} /\ d = None
  BY <1>3 DEF Event, DeviceEvent
<1> HIDE DEF type, d
<1>5. EventsOK'
  BY <1>1, <1>3 DEF IInv, EventsOK, LastIsDisconnect, Disconnected
<1>6. ASSUME slot' \in [Slots -> Devices \union {None}], ready' \in BOOLEAN, DevicesOK',
             done' \in BOOLEAN, closing' = closing,
             done' => type = "disconnect" /\ (~closing => err' # "none")
      PROVE  IInv'
  <2>1. Types'
    BY <1>1, <1>2, <1>3, <1>6 DEF Types
  <2>2. EndOK'
    BY <1>1, <1>2, <1>3, <1>6 DEF IInv, EndOK, UnexpectedEndHasError
  <2>3. QED
    BY <1>5, <1>6, <2>1, <2>2 DEF IInv
<1>7. CASE type = "connect"
  <2>1. UNCHANGED <<ready, done, closing, devices>> /\ resumed' = resumed \ {None}
    BY <1>1, <1>4, <1>7 DEF HandleTo, chans
  <2>2. DevicesOK'
    <3>1. SlotsHoldResumed'
      BY <1>2, <2>1 DEF DevicesOK, SlotsHoldResumed, devices
    <3>2. QED
      BY <1>2, <2>1, <3>1 DEF DevicesOK, RegionsAreThePointers, ReadyMeansComplete, Complete, devices
  <2>3. QED
    BY <1>2, <1>6, <2>1, <2>2 DEF Types, devices
<1>8. CASE type = "disconnect"
  <2>1. /\ ready' = FALSE /\ done' = TRUE /\ closing' = closing
        /\ err' = IF closing THEN "none" ELSE "disconnected"
        /\ UNCHANGED devices /\ resumed' = resumed \ {None}
    BY <1>1, <1>4, <1>8 DEF HandleTo, Finish
  <2>2. DevicesOK'
    <3>1. SlotsHoldResumed'
      BY <1>2, <2>1 DEF DevicesOK, SlotsHoldResumed, devices
    <3>2. QED
      BY <1>2, <2>1, <3>1 DEF DevicesOK, RegionsAreThePointers, ReadyMeansComplete, devices
  <2>3. QED
    BY <1>2, <1>6, <1>8, <2>1, <2>2 DEF Types, devices
<1>9. CASE type = "resumed"
  <2>1. AddDevice(d) /\ d \in Devices /\ resumed' = resumed \union {d}
    BY <1>1, <1>4, <1>9 DEF HandleTo
  <2>2. slot' \in [Slots -> Devices \union {None}] /\ ready' \in BOOLEAN /\ DevicesOK'
    BY <1>2, <2>1, AddDeviceKeepsDevices
  <2>3. done' = done /\ closing' = closing
    BY <2>1 DEF AddDevice, AddDeviceFor, chans
  <2>4. QED
    BY <1>2, <1>6, <2>2, <2>3 DEF Types
<1>10. CASE type \in {"paused", "removed"}
  <2>1. RemoveDevice(d) /\ d \in Devices /\ resumed' = resumed \ {d}
    BY <1>1, <1>4, <1>10 DEF HandleTo
  <2>2. slot' \in [Slots -> Devices \union {None}] /\ ready' \in BOOLEAN /\ DevicesOK'
    BY <1>2, <2>1, RemoveDeviceKeepsDevices
  <2>3. done' = done /\ closing' = closing
    BY <2>1 DEF RemoveDevice, RemoveDeviceAnd, chans
  <2>4. QED
    BY <1>2, <1>6, <2>2, <2>3 DEF Types
<1>11. QED
  BY <1>4, <1>7, <1>8, <1>9, <1>10

LEMMA DrainedStep ==
  ASSUME IInv, Drained
  PROVE  IInv'
<1>1. /\ run \in {"drain", "hangup"} /\ batch = <<>>
      /\ UNCHANGED <<devices, batch, link, queue, resumed, close>>
      /\ \/ done /\ run' = "cleanup" /\ UNCHANGED <<status, chans>>
         \/ run' = "cleanup" /\ Finish("lost")
         \/ ~done /\ run' = "check" /\ UNCHANGED <<status, chans>>
  BY DEF Drained, DrainedIf, kwin, seen
<1>2. CASE run' = "cleanup" /\ Finish("lost")
  <2>1. "lost" \in Errors \ {"none"}
    BY DEF Errors
  <2>2. QED
    BY <1>1, <1>2, <2>1, FinishStep
<1>3. CASE UNCHANGED <<status, chans>> /\ (\/ done /\ run' = "cleanup"
                                           \/ ~done /\ run' = "check")
  <2>1. Types'
    BY <1>1, <1>3 DEF IInv, Types, devices, status, chans
  <2>2. DevicesOK'
    BY <1>1, <1>3, SameDevices DEF IInv, status, chans
  <2>3. EventsOK'
    BY <1>1 DEF IInv, EventsOK, Disconnected, LastIsDisconnect
  <2>4. EndOK'
    BY <1>1, <1>3 DEF IInv, EndOK, UnexpectedEndHasError, status, chans
  <2>5. QED
    BY <2>1, <2>2, <2>3, <2>4 DEF IInv
<1>4. QED
  BY <1>1, <1>2, <1>3

LEMMA CleanUpStep ==
  ASSUME IInv, CleanUp
  PROVE  IInv'
<1>1. /\ run = "cleanup" /\ run' = "ended" /\ done' = TRUE
      /\ slot' = [s \in Slots |-> None] /\ regions' = {}
      /\ UNCHANGED <<ready, err, closing, batch, link, queue, close>>
  BY DEF CleanUp, status, kwin
<1>2. Types'
  BY <1>1 DEF IInv, Types
<1>3. DevicesOK'
  BY <1>1 DEF DevicesOK, SlotsHoldResumed, RegionsAreThePointers, ReadyMeansComplete, Slots
<1>4. EventsOK'
  BY <1>1 DEF IInv, EventsOK, Disconnected, LastIsDisconnect
<1>5. EndOK'
  BY <1>1 DEF IInv, EndOK, UnexpectedEndHasError
<1>6. QED
  BY <1>2, <1>3, <1>4, <1>5 DEF IInv

LEMMA CloseStep ==
  ASSUME IInv, CloseByServer \/ BootTimeout \/ CloseEnd
  PROVE  IInv'
<1>1. /\ UNCHANGED <<devices, err, run, batch, link, queue, resumed>>
      /\ \/ closing' = TRUE /\ UNCHANGED <<ready, done>>
         \/ /\ close # "no" /\ run = "ended" /\ ready' = FALSE /\ done' = TRUE
            /\ UNCHANGED closing
  BY DEF CloseByServer, BootTimeout, CloseEnd, CloseOnce, CloseBegin, kwin, seen, status
<1>2. Types'
  BY <1>1 DEF IInv, Types, devices
<1>3. DevicesOK'
  BY <1>1, SameDevices DEF IInv
<1>4. EventsOK'
  BY <1>1 DEF IInv, EventsOK, Disconnected, LastIsDisconnect
<1>5. EndOK'
  BY <1>1 DEF IInv, EndOK, UnexpectedEndHasError
<1>6. QED
  BY <1>2, <1>3, <1>4, <1>5 DEF IInv

(* Every step keeps the inductive invariant. *)
THEOREM NextIInv == IInv /\ [Next]_vars => IInv'
<1> SUFFICES ASSUME IInv, [Next]_vars PROVE IInv'
  OBVIOUS
<1>1. CASE Kwin
  BY <1>1, KwinStep
<1>2. CASE CheckStop \/ PollTimeout
  BY <1>2, CheckStopStep, PollTimeoutStep
<1>3. CASE Dispatch \/ HandleEvent
  BY <1>3, DispatchStep, HandleEventStep
<1>4. CASE Drained \/ CleanUp
  BY <1>4, DrainedStep, CleanUpStep
<1>5. CASE PollFails
  BY <1>5, PollFailsStep
<1>6. CASE CloseByServer \/ BootTimeout \/ CloseEnd
  BY <1>6, CloseStep
<1>7. CASE FullScreenshot \/ BootReady \/ BootDone \/ BootTimedOut
  <2>1. UNCHANGED <<devices, status, chans, run, batch, link, queue, resumed, close>>
    BY <1>7 DEF FullScreenshot, BootReady, BootDone, BootTimedOut, kwin, seen
  <2>2. QED
    BY <2>1, Untouched
<1>8. CASE \E c \in Callers : Input(c)
  <2>1. UNCHANGED <<devices, status, chans, run, batch, link, queue, resumed, close>>
    BY <1>8 DEF Input, MapInputPoint, MoveMouse, RefuseZero, StartKey, WithDevice, kwin, seen
  <2>2. QED
    BY <2>1, Untouched
<1>9. CASE UNCHANGED vars
  <2>1. UNCHANGED <<devices, status, chans, run, batch, link, queue, resumed, close>>
    BY <1>9 DEF vars, kwin, seen
  <2>2. QED
    BY <2>1, Untouched
<1>10. QED
  BY <1>1, <1>2, <1>3, <1>4, <1>5, <1>6, <1>7, <1>8, <1>9 DEF Next, RunStep, Boot

(* The inductive invariant holds of every behaviour. *)
THEOREM Invariance == Spec => []IInv
BY InitIInv, NextIInv, PTL DEF Spec

(* What a slot holds is a device that KWin has resumed and not taken away  *)
(* since, as far as its events were handled, and points are mapped into    *)
(* the regions of the device that will move the pointer.                   *)
THEOREM DevicesStayUsable == Spec => []DevicesUsable
<1>1. IInv => DevicesUsable
  BY DEF IInv, DevicesOK, DevicesUsable
<1>2. QED
  BY <1>1, Invariance, PTL

(* Ready goes only when a device of some slot goes, or when one that had   *)
(* been replaced does.                                                     *)
LEMMA NextComplete == IInv /\ CompleteMeansReady /\ [Next]_vars => CompleteMeansReady'
<1> SUFFICES ASSUME IInv, CompleteMeansReady, [Next]_vars PROVE CompleteMeansReady'
  OBVIOUS
<1>1. CASE UNCHANGED <<slot, ready, stray>> /\ (done => done')
  BY <1>1 DEF CompleteMeansReady, Complete
<1>2. CASE done'
  BY <1>2 DEF CompleteMeansReady
<1>3. CASE HandleEvent
  <2> DEFINE type == Head(batch).type
             d == Head(batch).dev
  <2>1. HandleTo(type, d, IF closing THEN "none" ELSE "disconnected")
    BY <1>3 DEF HandleEvent, Handle
  <2>2. /\ batch \in Seq(Event) /\ batch # <<>> /\ LastIsDisconnect(batch)
        /\ slot \in [Slots -> Devices \union {None}]
    BY <1>3 DEF HandleEvent, IInv, Types, EventsOK
  <2>3. \/ type \in {"resumed", "paused", "removed"} /\ d \in Devices
        \/ type \in {"connect", "disconnect"}
    BY <2>2, TailEvents DEF Event, DeviceEvent
  <2> HIDE DEF type, d
  <2>4. CASE type = "resumed"
    <3>1. AddDeviceFor(d, Slots, TRUE)
      BY <2>1, <2>4 DEF HandleTo, AddDevice
    <3>2. CASE \A s \in Slots : slot'[s] # None
      BY <3>1, <3>2 DEF AddDeviceFor, CompleteMeansReady
    <3>3. CASE ~(\A s \in Slots : slot'[s] # None)
      BY <3>3 DEF CompleteMeansReady, Complete
    <3>4. QED
      BY <3>2, <3>3
  <2>5. CASE type \in {"paused", "removed"}
    <3>1. /\ slot' = [s \in Slots |-> IF slot[s] = d THEN None ELSE slot[s]]
          /\ stray' = (stray \/ \A s \in Slots : slot[s] # d)
      BY <2>1, <2>5 DEF HandleTo, RemoveDevice, RemoveDeviceAnd
    <3>2. CASE \A s \in Slots : slot[s] # d
      BY <3>1, <3>2 DEF CompleteMeansReady
    <3>3. CASE \E s \in Slots : slot[s] = d
      BY <3>1, <3>3 DEF CompleteMeansReady, Complete
    <3>4. QED
      BY <3>2, <3>3
  <2>6. CASE type = "connect"
    <3>1. UNCHANGED <<slot, ready, stray, done>>
      BY <2>1, <2>6 DEF HandleTo, devices, chans
    <3>2. QED
      BY <3>1, <1>1
  <2>7. CASE type = "disconnect"
    <3>1. done'
      BY <2>1, <2>7 DEF HandleTo, Finish
    <3>2. QED
      BY <3>1, <1>2
  <2>8. QED
    BY <2>3, <2>4, <2>5, <2>6, <2>7
<1>4. CASE Kwin \/ FullScreenshot \/ CheckStop \/ PollTimeout \/ Dispatch
  BY <1>1, <1>4 DEF Kwin, KwinConnects, KwinDisconnects, LinkCut, KwinSends, FullScreenshot,
    CheckStop, PollTimeout, Dispatch, devices, status, chans, seen
<1>5. CASE Drained
  <2>1. done' \/ UNCHANGED <<slot, ready, stray, done>>
    BY <1>5 DEF Drained, DrainedIf, Finish, devices, status, chans, seen
  <2>2. QED
    BY <2>1, <1>1, <1>2
<1>6. CASE CleanUp \/ PollFails \/ CloseEnd
  BY <1>2, <1>6 DEF CleanUp, PollFails, Finish, CloseEnd, CloseOnce
<1>7. CASE CloseByServer \/ Boot
  BY <1>1, <1>7 DEF CloseByServer, Boot, BootReady, BootDone, BootTimeout, BootTimedOut,
    CloseBegin, devices, status, chans, seen
<1>8. CASE \E c \in Callers : Input(c)
  <2>1. UNCHANGED <<devices, status, chans, seen>>
    BY <1>8 DEF Input, MapInputPoint, MoveMouse, RefuseZero, StartKey, WithDevice
  <2>2. QED
    BY <2>1, <1>1 DEF devices, status, chans, seen
<1>9. CASE UNCHANGED vars
  BY <1>1, <1>9 DEF vars, devices, status, chans, seen
<1>10. QED
  BY <1>3, <1>4, <1>5, <1>6, <1>7, <1>8, <1>9 DEF Next, RunStep

(* The status says ready exactly while every slot is filled, but for the   *)
(* device that goes after it was replaced.                                 *)
THEOREM StatusIsExact == Spec => []ReadyIsExact
<1>1. Init => CompleteMeansReady
  BY DEF Init, CompleteMeansReady, Complete, Slots
<1>2. IInv => ReadyMeansComplete
  BY DEF IInv, DevicesOK
<1>3. ReadyMeansComplete /\ CompleteMeansReady => ReadyIsExact
  BY DEF ReadyIsExact
<1>4. QED
  BY <1>1, <1>2, <1>3, Invariance, NextComplete, PTL DEF Spec

(* A backend that ends without Close has an error when its done channel is *)
(* closed, and keeps it.                                                   *)
THEOREM EndHasError == Spec => []UnexpectedEndHasError
<1>1. IInv => UnexpectedEndHasError
  BY DEF IInv, EndOK
<1>2. QED
  BY <1>1, Invariance, PTL

-----------------------------------------------------------------------------
(* A set of natural numbers that is not empty has a least one, and if it   *)
(* is finite a greatest one: Min and Max, in regionUnion.                  *)
LEMMA LeastNatural ==
  ASSUME NEW S \in SUBSET Nat, S # {}
  PROVE  Min(S) \in S /\ \A y \in S : Min(S) <= y
<1> DEFINE Less == {p \in Nat \X Nat : p[1] < p[2]}
<1>1. IsWellFoundedOn(Less, Nat)
  BY NatLessThanWellFounded DEF OpToRel
<1>2. S \subseteq Nat
  OBVIOUS
<1> HIDE DEF Less
<1>3. PICK x \in S : \A y \in S : <<y, x>> \notin Less
  BY <1>1, <1>2, WFMin, Zenon
<1>4. \A y \in S : <<y, x>> \in Less <=> y < x
  BY DEF Less
<1>5. \A y \in S : ~(y < x)
  BY <1>3, <1>4
<1>6. \A y \in S : x <= y
  BY <1>5
<1>7. QED
  BY <1>3, <1>6 DEF Min

LEMMA FiniteIsBounded ==
  ASSUME NEW S \in SUBSET Nat, IsFiniteSet(S)
  PROVE  \E b \in Nat : \A y \in S : y <= b
<1>1. PICK s \in Seq(S) : \A y \in S : \E i \in 1..Len(s) : s[i] = y
  BY DEF IsFiniteSet
<1> DEFINE Bounded(m) == \E b \in Nat : \A i \in 1..Len(s) : i <= m => s[i] <= b
           T == {m \in Nat : ~Bounded(m)}
<1>2. Len(s) \in Nat /\ \A i \in 1..Len(s) : s[i] \in Nat
  <2>1. Len(s) \in Nat /\ \A i \in 1..Len(s) : s[i] \in S
    OBVIOUS
  <2>2. QED
    BY <2>1
<1>3. Bounded(0)
  BY <1>2
<1>4. ASSUME NEW m \in Nat, Bounded(m) PROVE Bounded(m + 1)
  <2>1. PICK b \in Nat : \A i \in 1..Len(s) : i <= m => s[i] <= b
    BY <1>4
  <2>2. CASE m + 1 \in 1..Len(s)
    <3>1. b + s[m + 1] \in Nat /\ b <= b + s[m + 1] /\ s[m + 1] <= b + s[m + 1]
      BY <1>2, <2>2
    <3>2. \A i \in 1..Len(s) : i <= m + 1 => s[i] <= b + s[m + 1]
      <4>1. \A i \in 1..Len(s) : i <= m + 1 => i <= m \/ i = m + 1
        BY <1>2
      <4>2. QED
        BY <1>2, <2>1, <2>2, <3>1, <4>1
    <3>3. QED
      BY <3>1, <3>2
  <2>3. CASE m + 1 \notin 1..Len(s)
    <3>1. \A i \in 1..Len(s) : i <= m + 1 => i <= m
      BY <1>2, <2>3
    <3>2. QED
      BY <2>1, <3>1
  <2>4. QED
    BY <2>2, <2>3
<1> HIDE DEF Bounded
<1>5. T = {}
  <2> SUFFICES ASSUME T # {} PROVE FALSE
    OBVIOUS
  <2>1. T \in SUBSET Nat
    OBVIOUS
  <2>2. PICK x \in T : \A y \in T : x <= y
    BY <2>1, LeastNatural
  <2>3. x \in Nat /\ ~Bounded(x) /\ x # 0
    BY <1>3, <2>2
  <2>4. x - 1 \in Nat /\ x - 1 \notin T
    BY <2>2, <2>3
  <2>5. Bounded((x - 1) + 1) /\ (x - 1) + 1 = x
    BY <1>4, <2>3, <2>4
  <2>6. QED
    BY <2>3, <2>5
<1>6. Bounded(Len(s))
  BY <1>2, <1>5
<1>7. PICK b \in Nat : \A i \in 1..Len(s) : i <= Len(s) => s[i] <= b
  BY <1>6 DEF Bounded
<1>8. \A i \in 1..Len(s) : i <= Len(s)
  BY <1>2
<1>9. QED
  BY <1>1, <1>7, <1>8

LEMMA GreatestNatural ==
  ASSUME NEW S \in SUBSET Nat, S # {}, IsFiniteSet(S)
  PROVE  Max(S) \in S /\ \A y \in S : Max(S) >= y
<1> DEFINE Above == {b \in Nat : \A y \in S : y <= b}
<1>1. Above \in SUBSET Nat /\ Above # {}
  BY FiniteIsBounded
<1>2. PICK x \in Above : \A b \in Above : x <= b
  BY <1>1, LeastNatural
<1>3. x \in Nat /\ \A y \in S : y <= x
  BY <1>2
<1>4. ASSUME x \notin S PROVE FALSE
  <2>1. \A y \in S : y <= x - 1
    BY <1>3, <1>4
  <2>2. x - 1 \in Nat
    <3>1. PICK y \in S : TRUE
      OBVIOUS
    <3>2. QED
      BY <1>3, <2>1, <3>1
  <2>3. x - 1 \in Above
    BY <2>1, <2>2
  <2>4. QED
    BY <1>2, <1>3, <2>3
<1>5. \A y \in S : x >= y
  BY <1>3
<1>6. QED
  BY <1>4, <1>5 DEF Max
-----------------------------------------------------------------------------
(* regionUnion: what it returns is a region of at least one pixel.         *)
LEMMA RegionUnion ==
  ASSUME NEW rs \in SUBSET Region, IsFiniteSet(rs), Union(rs) # NoRegion
  PROVE  /\ Union(rs).x \in Nat /\ Union(rs).y \in Nat
         /\ Union(rs).w \in Nat \ {0} /\ Union(rs).h \in Nat \ {0}
<1> DEFINE xs == {r.x : r \in rs}
           ys == {r.y : r \in rs}
           rights == {r.x + r.w : r \in rs}
           bottoms == {r.y + r.h : r \in rs}
<1>1. rs # {}
  BY DEF Union
<1>2. \A r \in rs : r.x \in Nat /\ r.y \in Nat /\ r.x + r.w \in Nat /\ r.y + r.h \in Nat
  BY DEF Region
<1>3. xs \in SUBSET Nat /\ xs # {} /\ ys \in SUBSET Nat /\ ys # {}
  BY <1>1, <1>2
<1>4. rights \in SUBSET Nat /\ rights # {} /\ bottoms \in SUBSET Nat /\ bottoms # {}
  BY <1>1, <1>2
<1>5. IsFiniteSet(rights) /\ IsFiniteSet(bottoms)
  <2> DEFINE f == [r \in rs |-> r.x + r.w]
             g == [r \in rs |-> r.y + r.h]
  <2>1. /\ f \in [rs -> rights] /\ \A y \in rights : \E r \in rs : f[r] = y
        /\ g \in [rs -> bottoms] /\ \A y \in bottoms : \E r \in rs : g[r] = y
    OBVIOUS
  <2>2. f \in Surjection(rs, rights) /\ g \in Surjection(rs, bottoms)
    BY <2>1 DEF Surjection
  <2> HIDE DEF f, g, rights, bottoms
  <2>3. QED
    BY <2>2, FS_Surjection
<1> DEFINE minX == Min(xs)  minY == Min(ys)  maxX == Max(rights)  maxY == Max(bottoms)
<1>6. minX \in Nat /\ minY \in Nat
  <2> HIDE DEF xs, ys
  <2>1. QED
    BY <1>3, LeastNatural
<1>7. maxX \in Nat /\ maxY \in Nat
  <2> HIDE DEF rights, bottoms
  <2>1. QED
    BY <1>4, <1>5, GreatestNatural
<1>8. Union(rs) = IF rs = {} \/ maxX <= minX \/ maxY <= minY THEN NoRegion
                  ELSE [x |-> minX, y |-> minY, w |-> maxX - minX, h |-> maxY - minY]
  BY DEF Union
<1> HIDE DEF minX, minY, maxX, maxY, xs, ys, rights, bottoms
<1>9. /\ ~(maxX <= minX) /\ ~(maxY <= minY)
      /\ Union(rs) = [x |-> minX, y |-> minY, w |-> maxX - minX, h |-> maxY - minY]
  BY <1>8
<1>10. maxX - minX \in Nat \ {0} /\ maxY - minY \in Nat \ {0}
  BY <1>6, <1>7, <1>9
<1>11. QED
  BY <1>6, <1>9, <1>10

(* One axis of a mapped point lies between the two ends of the union.      *)
LEMMA AxisInside ==
  ASSUME NEW low \in Nat, NEW length \in Nat \ {0}, NEW size \in Nat \ {0}, NEW v \in Int
  PROVE  /\ MapAxis(low, length, size, v) \in Int
         /\ low * Den <= MapAxis(low, length, size, v)
         /\ MapAxis(low, length, size, v) <= (low + length - 1) * Den
<1>1. Den \in Nat \ {0}
  BY EisAssumption
<1> DEFINE a == low * Den
           b == (low + length - 1) * Den
           s == ScaleAxis(low, length, size, v)
<1>2. a \in Int /\ b \in Int
  BY <1>1
<1>3. a <= b
  <2>1. \A m, n \in Nat : m * n >= 0
    OBVIOUS
  <2>2. length - 1 \in Nat /\ (length - 1) * Den >= 0
    BY <1>1, <2>1
  <2>3. b = a + (length - 1) * Den
    BY <1>1
  <2>4. QED
    BY <1>1, <1>2, <2>2, <2>3
<1>4. s \in Int
  <2>1. v * length * Den \in Int
    BY <1>1
  <2>2. \A n \in Int : n \div size \in Int
    OBVIOUS
  <2>3. (v * length * Den) \div size \in Int
    BY <2>1, <2>2
  <2>4. QED
    BY <1>2, <2>3 DEF ScaleAxis
<1>5. MapAxis(low, length, size, v) = Clamp(s, a, b)
  BY DEF MapAxis
<1> HIDE DEF a, b, s
<1>6. Clamp(s, a, b) \in Int /\ a <= Clamp(s, a, b) /\ Clamp(s, a, b) <= b
  BY <1>2, <1>3, <1>4 DEF Clamp
<1>7. QED
  BY <1>5, <1>6 DEF a, b

(* MapInputPoint: a point is mapped into the union, wherever it was.       *)
LEMMA MappedInside ==
  ASSUME NEW rs \in SUBSET Region, IsFiniteSet(rs), Union(rs) # NoRegion,
         NEW frame \in Frames, NEW p \in Points
  PROVE  /\ MapInto(Union(rs), frame, p) \in Position
         /\ Inside(MapInto(Union(rs), frame, p), Union(rs))
<1> DEFINE u == Union(rs)
<1>1. u.x \in Nat /\ u.y \in Nat /\ u.w \in Nat \ {0} /\ u.h \in Nat \ {0}
  BY RegionUnion
<1>2. frame.w \in Nat \ {0} /\ frame.h \in Nat \ {0} /\ p.x \in Int /\ p.y \in Int
  BY EisAssumption
<1> HIDE DEF u
<1> DEFINE ax == MapAxis(u.x, u.w, frame.w, p.x)
           ay == MapAxis(u.y, u.h, frame.h, p.y)
<1>3. /\ ax \in Int /\ u.x * Den <= ax /\ ax <= (u.x + u.w - 1) * Den
      /\ ay \in Int /\ u.y * Den <= ay /\ ay <= (u.y + u.h - 1) * Den
  BY <1>1, <1>2, AxisInside
<1>4. MapInto(u, frame, p) = [x |-> ax, y |-> ay]
  BY DEF MapInto
<1> HIDE DEF ax, ay
<1>5. MapInto(u, frame, p) \in Position /\ Inside(MapInto(u, frame, p), u)
  BY <1>3, <1>4 DEF Position, Inside
<1>6. QED
  BY <1>5 DEF u
-----------------------------------------------------------------------------
(* What a caller is told and where it goes: an error is told only when the *)
(* call is over, a point that was mapped into regions lies inside them, and*)
(* the backend has ended when its loop has.                                *)
CallOK(k) ==
  /\ k.pc # "idle" => k.answer = "none"
  /\ k.pc = "move" /\ Union(k.used) # NoRegion => Inside(k.at, Union(k.used))

CallsOK == (run = "ended" => done) /\ \A c \in Callers : CallOK(call[c])

-----------------------------------------------------------------------------
(* The actions by what they change of the status and the channels. *)
LEMMA StatusTypes ==
  ASSUME IInv, TypeOK, [Next]_vars
  PROVE  /\ up' \in BOOLEAN /\ err' \in Errors /\ readyCh' \in BOOLEAN
         /\ resumed' \subseteq Devices /\ stray' \in BOOLEAN
<1>1. CASE UNCHANGED <<up, err, readyCh, resumed, stray>>
  BY <1>1 DEF TypeOK
<1>2. CASE \E e \in Errors : Finish(e) /\ UNCHANGED seen
  BY <1>2 DEF Finish, TypeOK, seen
<1>3. CASE HandleEvent
  <2> DEFINE type == Head(batch).type
             d == Head(batch).dev
             e == IF closing THEN "none" ELSE "disconnected"
  <2>1. /\ HandleTo(type, d, e)
        /\ resumed' = IF type = "resumed" THEN resumed \union {d} ELSE resumed \ {d}
        /\ batch # <<>>
    BY <1>3 DEF HandleEvent, Handle
  <2>2. Head(batch) \in Event
    BY <2>1, TailEvents DEF IInv, Types, EventsOK
  <2>3. \/ type \in {"resumed", "paused", "removed"} /\ d \in Devices
        \/ type \in {"connect", "disconnect"}
    BY <2>2 DEF Event, DeviceEvent
  <2>4. e \in Errors /\ "none" \in Errors
    BY DEF Errors
  <2> HIDE DEF type, d, e
  <2>5. resumed' \subseteq Devices
    BY <2>1, <2>3 DEF TypeOK
  <2>6. CASE type = "connect"
    BY <2>1, <2>4, <2>5, <2>6 DEF HandleTo, TypeOK, chans
  <2>7. CASE type = "disconnect"
    BY <2>1, <2>4, <2>5, <2>7 DEF HandleTo, Finish, TypeOK
  <2>8. CASE type = "resumed"
    <3>1. AddDeviceFor(d, Slots, TRUE)
      BY <2>1, <2>8 DEF HandleTo, AddDevice
    <3>2. \/ err' = "none" /\ readyCh' = TRUE /\ stray' = FALSE /\ UNCHANGED up
          \/ UNCHANGED <<up, err, readyCh, stray>>
      BY <3>1 DEF AddDeviceFor, status, chans
    <3>3. QED
      BY <2>4, <2>5, <3>2 DEF TypeOK
  <2>9. CASE type \in {"paused", "removed"}
    <3>1. /\ UNCHANGED <<up, err, readyCh>>
          /\ stray' = (stray \/ \A s \in Slots : slot[s] # d)
      BY <2>1, <2>9 DEF HandleTo, RemoveDevice, RemoveDeviceAnd, chans
    <3>2. stray' \in BOOLEAN
      BY <3>1
    <3>3. QED
      BY <2>5, <3>1, <3>2 DEF TypeOK
  <2>10. QED
    BY <2>3, <2>6, <2>7, <2>8, <2>9
<1>4. CASE Kwin
  BY <1>1, <1>4 DEF Kwin, KwinConnects, KwinSends, KwinDisconnects, LinkCut, status, chans, seen
<1>5. CASE FullScreenshot \/ CheckStop \/ PollTimeout \/ Dispatch \/ CleanUp
  BY <1>1, <1>5 DEF FullScreenshot, CheckStop, PollTimeout, Dispatch, CleanUp, status, chans, seen
<1>6. CASE PollFails \/ Drained
  <2>1. "poll" \in Errors /\ "lost" \in Errors
    BY DEF Errors
  <2>2. QED
    BY <1>1, <1>2, <1>6, <2>1 DEF PollFails, Drained, DrainedIf, status, chans, seen
<1>7. CASE CloseEnd
  BY <1>7 DEF CloseEnd, CloseOnce, TypeOK, seen
<1>8. CASE CloseByServer \/ Boot
  BY <1>1, <1>8 DEF CloseByServer, Boot, BootReady, BootDone, BootTimeout, BootTimedOut,
    CloseBegin, status, chans, seen
<1>9. CASE \E c \in Callers : Input(c)
  BY <1>1, <1>9 DEF Input, MapInputPoint, MoveMouse, RefuseZero, StartKey, WithDevice, status, chans, seen
<1>10. CASE UNCHANGED vars
  BY <1>1, <1>10 DEF vars, status, chans, seen
<1>11. QED
  BY <1>3, <1>4, <1>5, <1>6, <1>7, <1>8, <1>9, <1>10 DEF Next, RunStep

(* The life of New, Close, the loop and its libei context, and what is     *)
(* outside: KWin's end of the connection and the output.                   *)
LEMMA LifeTypes ==
  ASSUME IInv, TypeOK, (run = "ended" => done), [Next]_vars
  PROVE  /\ ei' \in BOOLEAN
         /\ boot' \in {"waiting", "up", "closing", "failed"}
         /\ close' \in {"no", "wait", "closed"}
         /\ shot' \in Frames \union {NoFrame}
         /\ link' \in {"new", "up", "gone", "cut"}
         /\ there' \in [Devices -> {"absent", "resumed", "paused"}]
         /\ ei' <=> run' # "ended"
         /\ close' = "closed" => run' = "ended"
         /\ run' = "ended" => done'
<1>1. CASE Kwin
  <2>1. UNCHANGED <<ei, boot, close, shot, run, done>>
    BY <1>1 DEF Kwin, KwinConnects, KwinSends, KwinDisconnects, LinkCut, chans
  <2>2. link' \in {"new", "up", "gone", "cut"}
    BY <1>1 DEF Kwin, KwinConnects, KwinSends, KwinDisconnects, LinkCut, TypeOK
  <2>3. there' \in [Devices -> {"absent", "resumed", "paused"}]
    BY <1>1 DEF Kwin, KwinConnects, KwinSends, KwinDisconnects, LinkCut, TypeOK
  <2>4. QED
    BY <2>1, <2>2, <2>3 DEF TypeOK
<1>2. CASE FullScreenshot
  BY <1>2 DEF FullScreenshot, TypeOK, chans, kwin
<1>3. CASE CheckStop \/ PollTimeout \/ Dispatch \/ PollFails \/ Drained
  <2>1. UNCHANGED <<ei, boot, close, shot, link, there>>
    BY <1>3 DEF CheckStop, PollTimeout, Dispatch, PollFails, Drained, DrainedIf, kwin
  <2>2. run # "ended" /\ run' # "ended"
    BY <1>3 DEF CheckStop, PollTimeout, Dispatch, PollFails, Drained, DrainedIf
  <2>3. QED
    BY <2>1, <2>2 DEF TypeOK
<1>4. CASE HandleEvent
  BY <1>4 DEF HandleEvent, TypeOK, kwin
<1>5. CASE CleanUp
  BY <1>5 DEF CleanUp, TypeOK, kwin
<1>6. CASE CloseEnd
  BY <1>6 DEF CloseEnd, CloseOnce, TypeOK, kwin
<1>7. CASE CloseByServer \/ Boot
  <2>1. /\ UNCHANGED <<ei, shot, link, there, run, done>>
        /\ boot' \in {"waiting", "up", "closing", "failed"}
        /\ close' = close \/ (close = "no" /\ close' = "wait")
    BY <1>7 DEF CloseByServer, Boot, BootReady, BootDone, BootTimeout, BootTimedOut,
      CloseBegin, TypeOK, chans, kwin
  <2>2. QED
    BY <2>1 DEF TypeOK
<1>8. CASE UNCHANGED vars \/ \E c \in Callers : Input(c)
  <2>1. UNCHANGED <<ei, boot, close, shot, link, there, run, done>>
    BY <1>8 DEF Input, MapInputPoint, MoveMouse, RefuseZero, StartKey, WithDevice, vars, chans, kwin
  <2>2. QED
    BY <2>1 DEF TypeOK
<1>9. QED
  BY <1>1, <1>2, <1>3, <1>4, <1>5, <1>6, <1>7, <1>8 DEF Next, RunStep
-----------------------------------------------------------------------------
(* Replacing what one caller does. *)
LEMMA OneCall ==
  ASSUME TypeOK, NEW c \in Callers, NEW k \in Call, call' = [call EXCEPT ![c] = k]
  PROVE  /\ call' \in [Callers -> Call]
         /\ call'[c] = k /\ \A d \in Callers \ {c} : call'[d] = call[d]
BY DEF TypeOK

LEMMA NoCallType == NoCall \in Call /\ NoCall.pc = "idle" /\ NoCall.answer = "none"
<1>1. [x |-> 0, y |-> 0] \in Position
  BY DEF Position
<1>2. QED
  BY <1>1 DEF NoCall, Call, Slots

(* A call that is over. *)
LEMMA AnswerCall ==
  ASSUME TypeOK, NEW c \in Callers, NEW a \in {"ok"} \union Failed, Answer(c, a)
  PROVE  /\ call' \in [Callers -> Call] /\ CallOK(call'[c]) /\ call'[c].answer = a
         /\ \A d \in Callers \ {c} : call'[d] = call[d]
<1> DEFINE k == [NoCall EXCEPT !.answer = a]
<1>1. k \in Call /\ k.pc = "idle" /\ k.answer = a
  BY NoCallType DEF Call
<1>2. call' = [call EXCEPT ![c] = k]
  BY DEF Answer
<1> HIDE DEF k
<1>3. QED
  BY <1>1, <1>2, OneCall DEF CallOK, Failed

(* The regions that points are mapped into are those of one device.        *)
LEMMA RegionsType ==
  ASSUME IInv
  PROVE  regions \in SUBSET Region /\ IsFiniteSet(regions)
<1>1. slot["pointerAbs"] \in Devices \union {None}
  BY DEF IInv, Types, Slots
<1>2. IsFiniteSet({})
  BY FS_EmptySet
<1>3. QED
  BY <1>1, <1>2, EisAssumption DEF IInv, DevicesOK, RegionsAreThePointers

(* What one call of an input operation does: it is told an error only when *)
(* a device is missing or the libei context is gone.                       *)
CallStep(c) ==
  /\ call' \in [Callers -> Call]
  /\ \A d \in Callers \ {c} : call'[d] = call[d]
  /\ CallOK(call'[c])
  /\ call[c].pc # "idle" /\ call'[c].answer = "error"
       => ~ei \/ \E s \in Slots : slot[s] = None
  /\ call[c].pc = "move" /\ call'[c].answer \notin Failed => slot["pointerAbs"] # None

LEMMA MapCall ==
  ASSUME IInv, TypeOK, NEW c \in Callers, NEW p \in Points, MapInputPoint(c, p)
  PROVE  CallStep(c)
<1>1. call[c].pc = "idle"
  BY DEF MapInputPoint
<1>2. CASE Answer(c, "refused")
  BY <1>1, <1>2, AnswerCall DEF CallStep, Failed
<1>3. CASE ~(p.x < 0 \/ p.y < 0)
  <2> DEFINE u == IF shot = NoFrame THEN NoRegion ELSE Union(regions)
             at == IF u = NoRegion THEN Unmapped(p) ELSE MapInto(u, shot, p)
             used == IF u = NoRegion THEN {} ELSE regions
  <2>1. call' = [call EXCEPT ![c] = [NoCall EXCEPT !.pc = "move", !.at = at, !.used = used]]
    BY <1>3 DEF MapInputPoint
  <2>2. used \in SUBSET Region
    BY RegionsType
  <2>3. at \in Position /\ (u # NoRegion => Inside(at, Union(regions)))
    <3>1. CASE u = NoRegion
      <4>1. p.x \in Int /\ p.y \in Int /\ Den \in Int
        BY EisAssumption
      <4>2. Unmapped(p) \in Position
        BY <4>1 DEF Unmapped, Position
      <4>3. QED
        BY <3>1, <4>2
    <3>2. CASE u # NoRegion
      <4>1. shot # NoFrame /\ u = Union(regions) /\ at = MapInto(Union(regions), shot, p)
        BY <3>2
      <4>2. shot \in Frames
        BY <4>1 DEF TypeOK
      <4>3. QED
        BY <3>2, <4>1, <4>2, RegionsType, MappedInside
    <3>3. QED
      BY <3>1, <3>2
  <2>4. Union(used) # NoRegion => Inside(at, Union(used))
    <3>1. Union({}) = NoRegion
      BY DEF Union
    <3> HIDE DEF at
    <3>2. QED
      BY <2>3, <3>1
  <2> HIDE DEF at, used
  <2> DEFINE k == [NoCall EXCEPT !.pc = "move", !.at = at, !.used = used]
  <2>5. k \in Call /\ k.pc = "move" /\ k.answer = "none" /\ k.at = at /\ k.used = used
    BY <2>2, <2>3, NoCallType DEF Call, Position
  <2>6. call' = [call EXCEPT ![c] = k]
    BY <2>1
  <2> HIDE DEF k
  <2>7. CallOK(k)
    BY <2>4, <2>5 DEF CallOK
  <2>8. QED
    BY <1>1, <2>5, <2>6, <2>7, OneCall DEF CallStep
<1>4. QED
  BY <1>2, <1>3 DEF MapInputPoint

LEMMA SendCall ==
  ASSUME IInv, TypeOK, NEW c \in Callers,
         RefuseZero(c) \/ StartKey(c) \/ WithDevice(c) \/ \E op \in Slots \ {"keyboard"} : MoveMouse(c, op)
  PROVE  CallStep(c)
<1>1. ASSUME NEW o \in Slots, call' = [call EXCEPT ![c] = [NoCall EXCEPT !.pc = "act", !.op = o]]
      PROVE  /\ call' \in [Callers -> Call] /\ CallOK(call'[c]) /\ call'[c].answer = "none"
             /\ \A d \in Callers \ {c} : call'[d] = call[d]
  <2> DEFINE k == [NoCall EXCEPT !.pc = "act", !.op = o]
  <2>1. k \in Call /\ k.pc = "act" /\ k.answer = "none"
    BY NoCallType DEF Call
  <2>2. call' = [call EXCEPT ![c] = k]
    BY <1>1
  <2> HIDE DEF k
  <2>3. QED
    BY <2>1, <2>2, OneCall DEF CallOK
<1>2. CASE StartKey(c)
  <2>1. "keyboard" \in Slots
    BY DEF Slots
  <2>2. QED
    BY <1>1, <1>2, <2>1, AnswerCall DEF StartKey, CallStep, Failed
<1>3. CASE WithDevice(c)
  <2>1. call[c].op \in Slots /\ call[c].pc = "act"
    BY <1>3 DEF WithDevice, TypeOK, Call
  <2>2. CASE ei /\ slot[call[c].op] # None
    <3>1. Answer(c, "ok")
      BY <1>3, <2>2 DEF WithDevice
    <3>2. QED
      BY AnswerCall, <2>1, <3>1 DEF CallStep
  <2>3. CASE ~(ei /\ slot[call[c].op] # None)
    <3>1. Answer(c, "error")
      BY <1>3, <2>3 DEF WithDevice
    <3>2. QED
      BY AnswerCall, <2>1, <2>3, <3>1 DEF CallStep, Failed
  <2>4. QED
    BY <2>2, <2>3
<1>4. CASE \E op \in Slots \ {"keyboard"} : MoveMouse(c, op)
  <2>1. PICK op \in Slots : MoveMouse(c, op)
    BY <1>4
  <2>2. "pointerAbs" \in Slots
    BY DEF Slots
  <2>3. CASE slot["pointerAbs"] # None /\ Answer(c, "ok")
    BY AnswerCall, <2>3 DEF CallStep
  <2>4. CASE /\ slot["pointerAbs"] # None
             /\ call' = [call EXCEPT ![c] = [NoCall EXCEPT !.pc = "act", !.op = op]]
    BY <1>1, <2>4 DEF CallStep
  <2>5. CASE (~ei \/ slot["pointerAbs"] = None) /\ Answer(c, "error")
    BY AnswerCall, <2>2, <2>5 DEF CallStep, Failed
  <2>6. QED
    BY <2>1, <2>3, <2>4, <2>5 DEF MoveMouse
<1>5. CASE RefuseZero(c)
  BY <1>5, AnswerCall DEF RefuseZero, CallStep, Failed
<1>6. QED
  BY <1>2, <1>3, <1>4, <1>5

LEMMA InputStep ==
  ASSUME IInv, TypeOK, NEW c \in Callers, Input(c)
  PROVE  CallStep(c) /\ UNCHANGED <<devices, status, chans, ei>>
<1>1. CallStep(c)
  BY MapCall, SendCall DEF Input
<1>2. QED
  BY <1>1 DEF Input, MapInputPoint, MoveMouse, RefuseZero, StartKey, WithDevice

LEMMA OtherSteps ==
  ASSUME [Next]_vars, ~\E c \in Callers : Input(c)
  PROVE  UNCHANGED call
<1>1. CASE Kwin
  BY <1>1 DEF Kwin, KwinConnects, KwinSends, KwinDisconnects, LinkCut
<1>2. QED
  BY <1>1 DEF Next, RunStep, FullScreenshot, CheckStop, PollTimeout, Dispatch, PollFails, Drained,
    DrainedIf, HandleEvent, CleanUp, CloseEnd, CloseOnce, CloseByServer, Boot, BootReady,
    BootDone, BootTimeout, BootTimedOut, vars

(* All of it together. *)
Invariants == IInv /\ TypeOK /\ CallsOK

LEMMA NextInvariants == Invariants /\ [Next]_vars => Invariants'
<1> SUFFICES ASSUME IInv, TypeOK, CallsOK, [Next]_vars PROVE Invariants'
  BY DEF Invariants
<1>1. IInv'
  BY NextIInv
<1>2. call' \in [Callers -> Call] /\ \A c \in Callers : CallOK(call'[c])
  <2>1. ASSUME NEW c \in Callers, Input(c)
        PROVE  call' \in [Callers -> Call] /\ \A d \in Callers : CallOK(call'[d])
    <3>1. CallStep(c)
      BY <2>1, InputStep
    <3>2. QED
      BY <3>1 DEF CallStep, CallsOK
  <2>2. CASE UNCHANGED call
    BY <2>2 DEF CallsOK, TypeOK
  <2>3. QED
    BY <2>1, <2>2, OtherSteps
<1>3. TypeOK'
  <2>1. Types' /\ regions' \in SUBSET Region
    <3>1. Types' /\ RegionsAreThePointers'
      BY <1>1 DEF IInv, DevicesOK
    <3>2. slot'["pointerAbs"] \in Devices \union {None}
      BY <3>1 DEF Types, Slots
    <3>3. QED
      BY <3>1, <3>2, EisAssumption DEF RegionsAreThePointers
  <2>2. QED
    BY <1>2, <2>1, StatusTypes, LifeTypes DEF TypeOK, Types, CallsOK
<1>4. CallsOK'
  BY <1>2, LifeTypes DEF CallsOK
<1>5. QED
  BY <1>1, <1>3, <1>4 DEF Invariants

(* The initial states have no call, and an event loop that runs. *)
LEMMA InitInvariants == Init => Invariants
<1> SUFFICES ASSUME Init PROVE Invariants
  OBVIOUS
<1>1. IInv
  BY InitIInv
<1>2. NoCall \in Call /\ CallOK(NoCall)
  <2>1. [x |-> 0, y |-> 0] \in Position
    BY DEF Position
  <2>2. NoCall \in Call
    BY <2>1 DEF NoCall, Call, Slots
  <2>3. NoCall.pc = "idle"
    BY DEF NoCall
  <2>4. QED
    BY <2>2, <2>3 DEF CallOK
<1>3. TypeOK
  <2>1. call \in [Callers -> Call]
    BY <1>2 DEF Init
  <2>2. Types
    BY <1>1 DEF IInv
  <2> HIDE DEF IInv
  <2>3. QED
    BY <2>1, <2>2 DEF Init, TypeOK, Types, Errors
<1>4. CallsOK
  BY <1>2 DEF Init, CallsOK
<1>5. QED
  BY <1>1, <1>3, <1>4 DEF Invariants

LEMMA CallInvariance == Spec => []Invariants
BY InitInvariants, NextInvariants, PTL DEF Spec

(* The variables keep their types; the libei context lives as long as the  *)
(* event loop, and Close returns after it.                                 *)
THEOREM TypeCorrect == Spec => []TypeOK
<1>1. Invariants => TypeOK
  BY DEF Invariants
<1>2. QED
  BY <1>1, CallInvariance, PTL

(* However devices come and go while a call is on its way: a motion whose  *)
(* point was mapped into the regions of the device that makes it stays     *)
(* inside them, and a call is told an error only when the backend says     *)
(* that it is not ready, or has ended.                                     *)
THEOREM CallsSound == Spec => CallsAreSound
<1> DEFINE MotionsInside == \A c \in Callers : call[c].used = regions => MovesInside(c)
           Told == \A c \in Callers :
             call[c].pc # "idle" /\ call'[c].answer = "error" => ~ready \/ done
<1>1. Invariants /\ [Next]_vars => MotionsInside /\ Told
  <2> SUFFICES ASSUME Invariants, [Next]_vars, NEW c \in Callers
               PROVE  /\ call[c].used = regions => MovesInside(c)
                      /\ call[c].pc # "idle" /\ call'[c].answer = "error" => ~ready \/ done
    OBVIOUS
  <2>1. IInv /\ TypeOK /\ CallsOK /\ CallOK(call[c])
    BY DEF Invariants, CallsOK
  <2>2. CASE call'[c] = call[c]
    <3>1. MovesInside(c)
      BY <2>2 DEF MovesInside
    <3>2. ~(call[c].pc # "idle" /\ call'[c].answer = "error")
      BY <2>1, <2>2 DEF CallOK
    <3>3. QED
      BY <3>1, <3>2
  <2>3. CASE CallStep(c)
    <3>1. call[c].pc # "idle" /\ call'[c].answer = "error" => ~ready \/ done
      <4>1. ReadyMeansComplete /\ (~ei => done)
        BY <2>1 DEF IInv, DevicesOK, TypeOK, CallsOK
      <4>2. QED
        BY <2>3, <4>1 DEF CallStep, ReadyMeansComplete, Complete
    <3>2. ASSUME call[c].used = regions PROVE MovesInside(c)
      <4> SUFFICES ASSUME call[c].pc = "move", call'[c].answer \notin Failed,
                          Union(RegionsOf[slot["pointerAbs"]]) # NoRegion
                   PROVE  Inside(call[c].at, Union(RegionsOf[slot["pointerAbs"]]))
        BY DEF MovesInside
      <4>1. slot["pointerAbs"] # None
        BY <2>3 DEF CallStep
      <4>2. call[c].used = RegionsOf[slot["pointerAbs"]]
        BY <2>1, <3>2, <4>1 DEF IInv, DevicesOK, RegionsAreThePointers
      <4>3. QED
        BY <2>1, <4>2 DEF CallOK
    <3>3. QED
      BY <3>1, <3>2
  <2>4. call'[c] = call[c] \/ CallStep(c)
    <3>1. ASSUME NEW d \in Callers, Input(d) PROVE call'[c] = call[c] \/ CallStep(c)
      <4>1. CallStep(d)
        BY <2>1, <3>1, InputStep
      <4>2. QED
        BY <4>1 DEF CallStep
    <3>2. QED
      BY <3>1, OtherSteps
  <2>5. QED
    BY <2>2, <2>3, <2>4
<1>2. Invariants /\ [Next]_vars => [MotionsInside]_vars /\ [Told]_vars
  BY <1>1
<1>3. QED
  BY <1>2, CallInvariance, PTL
     DEF Spec, CallsAreSound, MappedMotionsInside, ErrorMeansNotReady

-----------------------------------------------------------------------------
(* The refinement of Resource: the loop that ends is End, CloseEnd is      *)
(* Close, and the rest changes nothing that Resource speaks of.  For this, *)
(* no error is set before the end.                                         *)
NoErrorYet == done \/ err = "none"

LEMMA InitPromise == Init => NoErrorYet /\ Promise!Init
BY DEF Init, NoErrorYet, Promise!Init

LEMMA HandlePromise ==
  ASSUME Invariants, NoErrorYet, HandleEvent
  PROVE  NoErrorYet' /\ [Promise!Next]_(Promise!view)
<1> DEFINE type == Head(batch).type
           d == Head(batch).dev
           e == IF closing THEN "none" ELSE "disconnected"
<1>1. HandleTo(type, d, e) /\ batch # <<>> /\ close' = close
  BY DEF HandleEvent, Handle
<1>2. ~done /\ err = "none" /\ Head(batch) \in Event
  <2>1. batch \in Seq(Event) /\ LastIsDisconnect(batch) /\ ~done
    BY <1>1 DEF Invariants, IInv, Types, EventsOK, EndOK
  <2>2. QED
    BY <1>1, <2>1, TailEvents DEF NoErrorYet
<1>3. type \in {"resumed", "paused", "removed", "connect", "disconnect"}
  BY <1>2 DEF Event, DeviceEvent
<1> HIDE DEF type, d, e
<1>4. CASE type = "disconnect"
  <2>1. done' = TRUE /\ err' = e
    BY <1>1, <1>4 DEF HandleTo, Finish
  <2>2. (err' # "none") \in {err # "none", TRUE}
    BY <1>2
  <2>3. Promise!End
    BY <1>1, <1>2, <2>1, <2>2 DEF Promise!End
  <2>4. QED
    BY <2>1, <2>3 DEF NoErrorYet, Promise!Next
<1>5. CASE type \in {"connect", "resumed", "paused", "removed"}
  <2>1. done' = done /\ err' = "none"
    <3>1. CASE type = "connect"
      BY <1>1, <3>1 DEF HandleTo, chans
    <3>2. CASE type = "resumed"
      BY <1>1, <1>2, <3>2 DEF HandleTo, AddDevice, AddDeviceFor, status, chans
    <3>3. CASE type \in {"paused", "removed"}
      BY <1>1, <1>2, <3>3 DEF HandleTo, RemoveDevice, RemoveDeviceAnd, chans
    <3>4. QED
      BY <1>5, <3>1, <3>2, <3>3
  <2>2. QED
    BY <1>1, <1>2, <2>1 DEF NoErrorYet, Promise!view
<1>6. QED
  BY <1>3, <1>4, <1>5

LEMMA NextPromise ==
  Invariants /\ NoErrorYet /\ [Next]_vars => NoErrorYet' /\ [Promise!Next]_(Promise!view)
<1> SUFFICES ASSUME Invariants, NoErrorYet, [Next]_vars
             PROVE  NoErrorYet' /\ [Promise!Next]_(Promise!view)
  OBVIOUS
<1>1. CASE UNCHANGED <<done, err>> /\ (close' = "closed" <=> close = "closed")
  BY <1>1 DEF NoErrorYet, Promise!view
<1>2. ASSUME NEW e \in Errors \ {"none"}, Finish(e), ~done, UNCHANGED close
      PROVE  NoErrorYet' /\ [Promise!Next]_(Promise!view)
  <2>1. done' = TRUE /\ (err' # "none") = TRUE
    BY <1>2 DEF Finish
  <2>2. Promise!End
    BY <1>2, <2>1 DEF Promise!End
  <2>3. QED
    BY <2>1, <2>2 DEF NoErrorYet, Promise!Next
<1>3. CASE PollFails \/ Drained
  <2>1. "poll" \in Errors \ {"none"} /\ "lost" \in Errors \ {"none"}
    BY DEF Errors
  <2>2. run = "poll" => ~done
    BY DEF Invariants, IInv, EndOK
  <2>3. \/ UNCHANGED <<done, err, close>>
        \/ ~done /\ UNCHANGED close /\ \E e \in Errors \ {"none"} : Finish(e)
    BY <1>3, <2>1, <2>2 DEF PollFails, Drained, DrainedIf, status, chans
  <2>4. QED
    BY <1>1, <1>2, <2>3
<1>4. CASE CleanUp
  <2>1. done' = TRUE /\ UNCHANGED <<err, close>>
    BY <1>4 DEF CleanUp, status
  <2>2. CASE done
    BY <1>1, <2>1, <2>2
  <2>3. CASE ~done
    <3>1. Promise!End
      BY <2>1, <2>3 DEF Promise!End
    <3>2. QED
      BY <2>1, <3>1 DEF NoErrorYet, Promise!Next
  <2>4. QED
    BY <2>2, <2>3
<1>5. CASE CloseEnd
  <2>1. run = "ended" /\ close = "wait" /\ close' = "closed" /\ done' = TRUE /\ err' = err
    BY <1>5 DEF CloseEnd, CloseOnce
  <2>2. done
    BY <2>1 DEF Invariants, CallsOK
  <2>3. Promise!Close
    BY <2>1, <2>2 DEF Promise!Close
  <2>4. QED
    BY <2>1, <2>3 DEF NoErrorYet, Promise!Next
<1>6. CASE CloseByServer \/ Boot
  <2>1. UNCHANGED <<done, err>> /\ (close' = close \/ (close = "no" /\ close' = "wait"))
    BY <1>6 DEF CloseByServer, Boot, BootReady, BootDone, BootTimeout, BootTimedOut,
      CloseBegin, status, chans
  <2>2. QED
    BY <1>1, <2>1
<1>7. CASE Kwin
  BY <1>1, <1>7 DEF Kwin, KwinConnects, KwinSends, KwinDisconnects, LinkCut, status, chans
<1>8. CASE FullScreenshot \/ CheckStop \/ PollTimeout \/ Dispatch
  BY <1>1, <1>8 DEF FullScreenshot, CheckStop, PollTimeout, Dispatch, status, chans
<1>9. CASE \E c \in Callers : Input(c)
  <2>1. UNCHANGED <<done, err, close>>
    BY <1>9 DEF Input, MapInputPoint, MoveMouse, RefuseZero, StartKey, WithDevice, status, chans
  <2>2. QED
    BY <1>1, <2>1
<1>10. CASE UNCHANGED vars
  BY <1>1, <1>10 DEF vars, status, chans
<1>11. QED
  BY <1>3, <1>4, <1>5, <1>6, <1>7, <1>8, <1>9, <1>10, HandlePromise DEF Next, RunStep

(* The backend implements Resource, and ends with an error unless it was   *)
(* closed: its error comes with Done and is final, Close returns later,    *)
(* whatever KWin sends and whoever calls what meanwhile.                   *)
THEOREM KeepsPromises == Spec => EndsAsPromised
<1>1. Invariants /\ NoErrorYet /\ [Next]_vars => NoErrorYet' /\ [Promise!Next]_(Promise!view)
  BY NextPromise
<1>2. Spec => Promise!Spec
  BY <1>1, InitPromise, CallInvariance, PTL DEF Spec, Promise!Spec
<1>3. QED
  BY <1>2, EndHasError, PTL DEF EndsAsPromised
=============================================================================
