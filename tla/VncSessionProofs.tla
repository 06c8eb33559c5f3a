--------------------------- MODULE VncSessionProofs ---------------------------
(***************************************************************************)
(* Proofs about VncSession, for any handlers, texts and screens: who may   *)
(* use the client, who has the connection to write to, and that the        *)
(* session keeps the promises of Resource.                                 *)
(***************************************************************************)
EXTENDS VncSession, TLAPS

(* The client, the goroutine that reads with it, and Close agree; the      *)
(* error is there before the end is told.                                  *)
Owner ==
  /\ loop = "off" <=> serve = "off"
  /\ loop = "off" => mem = "none" /\ close = "no"
  /\ loop # "off" /\ close # "closed" => mem = "live" /\ handle = "live"
  /\ mem = "freed" <=> close = "closed"
  /\ err <=> loop \in {"down", "ended"}
  /\ done <=> loop = "ended"
  /\ close = "closed" => done

(* Handlers are at work only while the server is open, or draining, or     *)
(* gave up: then Close came late.                                          *)
Turn ==
  /\ close # "no" => serve = "draining" /\ (Busy => late)
  /\ uaf => mem = "freed" /\ late

(* Whoever is sending has the input lock. *)
Locked ==
  /\ loop = "request" => lock = "loop"
  /\ \A h \in Handlers : call[h].pc = "send" => lock = h

IInv == TypeOK /\ Owner /\ Turn /\ Locked

LEMMA CallTypes ==
  /\ \A pc \in {"idle", "between"} : [NoCall EXCEPT !.pc = pc] \in Call
  /\ NoCall \in Call
  /\ \A op \in Ops : [pc |-> "lock", op |-> op, left |-> Sends(op)] \in Call
BY VncAssumption DEF NoCall, Call, Ops, Sends

(* The initial states satisfy the inductive invariant. *)
THEOREM InitIInv == Init => IInv
<1> SUFFICES ASSUME Init PROVE IInv
  OBVIOUS
<1>1. TypeOK
  <2>1. call \in [Handlers -> Call]
    BY CallTypes DEF Init
  <2>2. 0 \in 0..MaxScreen /\ 1 \in 1..MaxScreen
    BY VncAssumption
  <2>3. QED
    BY <2>1, <2>2 DEF Init, TypeOK
<1>2. Owner /\ Turn /\ Locked
  BY DEF Init, Owner, Turn, Busy, Locked, NoCall
<1>3. QED
  BY <1>1, <1>2 DEF IInv

(***************************************************************************)
(* The goroutine that reads, and StartSession.                             *)
(***************************************************************************)
LEMMA StartStep ==
  ASSUME IInv, Connects \/ StartFails \/ ServerStops
  PROVE  IInv'
<1> USE DEF IInv
<1>1. TypeOK'
  BY DEF TypeOK, Connects, StartFails, ServerStops, client, thread, status, remote
<1>2. Owner' /\ Turn' /\ Locked'
  BY DEF TypeOK, Owner, Turn, Locked, Busy, Connects, StartFails, ServerStops,
         client, thread, status, remote
<1>3. QED
  BY <1>1, <1>2

LEMMA LoopStep ==
  ASSUME IInv, Tick \/ Loop
  PROVE  IInv'
<1> USE DEF IInv
<1>1. CASE Tick
  BY <1>1 DEF TypeOK, Owner, Turn, Locked, Busy, Tick, client, thread, status, remote
<1>2. CASE LockForRequest
  BY <1>2, VncAssumption
     DEF TypeOK, Owner, Turn, Locked, Busy, LockForRequest, client, thread, status, remote
<1>3. CASE RequestFrame
  <2>1. TypeOK'
    <3>1. lock' \in Handlers \union {"free", "loop"} /\ asked' \in BOOLEAN
      BY <1>3 DEF TypeOK, RequestFrame
    <3>2. loop' \in {"select", "failed"}
      BY <1>3 DEF RequestFrame
    <3>3. QED
      BY <1>3, <3>1, <3>2 DEF TypeOK, RequestFrame, client, status
  <2>2. Owner' /\ Turn' /\ Locked'
    BY <1>3, VncAssumption
       DEF TypeOK, Owner, Turn, Locked, Busy, RequestFrame, client, thread, status, remote
  <2>3. QED
    BY <2>1, <2>2
<1>4. CASE WaitForMessage
  BY <1>4 DEF TypeOK, Owner, Turn, Locked, Busy, WaitForMessage, client, thread, status, remote
<1>5. CASE HandleMessage
  <2>1. asked' \in BOOLEAN
    BY <1>5 DEF TypeOK, HandleMessage, HandleUpdate
  <2>2. frame' \in 0..MaxScreen /\ update' \in 0..MaxScreen
    BY <1>5, VncAssumption DEF TypeOK, HandleMessage, HandleUpdate
  <2>3. TypeOK'
    BY <1>5, <2>1, <2>2 DEF TypeOK, HandleMessage, HandleUpdate, client
  <2>4. Owner' /\ Turn' /\ Locked'
    BY <1>5 DEF Owner, Turn, Locked, Busy, HandleMessage, HandleUpdate, client
  <2>5. QED
    BY <2>3, <2>4
<1>6. CASE ReadFails
  BY <1>6 DEF TypeOK, Owner, Turn, Locked, Busy, ReadFails, client, thread, status, remote
<1>7. CASE SetErr
  BY <1>7 DEF TypeOK, Owner, Turn, Locked, Busy, SetErr, client, thread, status, remote
<1>8. CASE End
  BY <1>8 DEF TypeOK, Owner, Turn, Locked, Busy, End, client, thread, status, remote
<1>9. QED
  BY <1>1, <1>2, <1>3, <1>4, <1>5, <1>6, <1>7, <1>8 DEF Loop

(***************************************************************************)
(* The handlers.                                                           *)
(***************************************************************************)
LEMMA InputStep ==
  ASSUME IInv, NEW h \in Handlers, NEW op \in Ops, Input(h, op)
  PROVE  IInv'
<1> USE DEF IInv
<1>1. call' \in [Handlers -> Call]
  BY CallTypes DEF TypeOK, Input
<1>2. TypeOK'
  BY <1>1 DEF TypeOK, Input, client, thread, status, remote
<1>3. close # "no" => serve = "draining" /\ late
  BY DEF Turn, Busy, Input
<1>4. \A g \in Handlers : call'[g].pc = "send" => call[g].pc = "send"
  BY DEF TypeOK, Input
<1>5. Owner' /\ Turn' /\ Locked'
  BY <1>3, <1>4 DEF Owner, Turn, Locked, Input, client, thread, status, remote
<1>6. QED
  BY <1>2, <1>5

LEMMA LockInputStep ==
  ASSUME IInv, NEW h \in Handlers, LockInput(h)
  PROVE  IInv'
<1> USE DEF IInv
<1>1. [call[h] EXCEPT !.pc = "send"] \in Call
  BY DEF TypeOK, Call
<1>2. call' \in [Handlers -> Call]
  BY <1>1 DEF TypeOK, LockInput
<1>3. TypeOK'
  BY <1>2 DEF TypeOK, LockInput, client, thread, status, remote
<1>4. \A g \in Handlers : g # h => call'[g] = call[g]
  BY DEF TypeOK, LockInput
<1>5. Busy
  BY DEF Busy, LockInput
<1>6. Locked'
  BY <1>4, VncAssumption DEF Locked, LockInput, thread
<1>7. Owner' /\ Turn'
  BY <1>5 DEF Owner, Turn, LockInput, client, thread, status, remote
<1>8. QED
  BY <1>3, <1>6, <1>7

LEMMA SendStep ==
  ASSUME IInv, NEW h \in Handlers, Send(h)
  PROVE  IInv'
<1> USE DEF IInv
<1>1. call[h] \in Call /\ lock = h
  BY DEF TypeOK, Locked, Send
<1>2. call[h].left > 1 => [call[h] EXCEPT !.left = @ - 1] \in Call
  BY <1>1, VncAssumption DEF Call
<1>3. call' \in [Handlers -> Call] /\ lock' \in {lock, "free"}
  BY <1>2, CallTypes DEF TypeOK, Send
<1>4. TypeOK'
  BY <1>3 DEF TypeOK, Send, client, thread, status, remote
<1>5. Busy
  BY DEF Busy, Send
<1>6. \A g \in Handlers : g # h => call'[g] = call[g] /\ call[g].pc # "send"
  BY <1>1 DEF TypeOK, Locked, Send
<1>7. Locked'
  <2>1. \A g \in Handlers : g # h => call'[g].pc # "send"
    BY <1>6
  <2>2. call'[h].pc = "send" => lock' = h
    BY <1>1 DEF TypeOK, Send, NoCall
  <2>3. loop' # "request"
    BY <1>1, VncAssumption DEF Locked, Send, thread
  <2>4. QED
    BY <2>1, <2>2, <2>3 DEF Locked
<1>8. Owner' /\ Turn'
  BY <1>5 DEF Owner, Turn, Send, client, thread, status, remote
<1>9. QED
  BY <1>4, <1>7, <1>8

(***************************************************************************)
(* Close, the VNC server and the network.                                  *)
(***************************************************************************)
LEMMA CloseStep ==
  ASSUME IInv, CloseBegin \/ CloseEnd
  PROVE  IInv'
<1> USE DEF IInv
<1>1. CASE CloseBegin
  BY <1>1 DEF TypeOK, Owner, Turn, Locked, Busy, CloseBegin, client, thread, status, remote
<1>2. CASE CloseEnd
  BY <1>2 DEF TypeOK, Owner, Turn, Locked, Busy, CloseEnd, CloseWhen,
              client, thread, status, remote
<1>3. QED
  BY <1>1, <1>2

LEMMA OutsideStep ==
  ASSUME IInv, ScreenChanges \/ SendUpdate \/ LinkCut
  PROVE  IInv'
<1> USE DEF IInv
<1>1. TypeOK'
  <2>1. screen' \in 1..MaxScreen
    BY VncAssumption DEF TypeOK, ScreenChanges, SendUpdate, LinkCut, remote
  <2>2. shown' \in 0..MaxScreen /\ update' \in 0..MaxScreen
    BY VncAssumption DEF TypeOK, ScreenChanges, SendUpdate, LinkCut, remote
  <2>3. asked' \in BOOLEAN
    BY DEF TypeOK, ScreenChanges, SendUpdate, LinkCut, remote
  <2>4. sock' \in {"none", "up", "cut", "shut"}
    BY DEF TypeOK, ScreenChanges, SendUpdate, LinkCut, client
  <2>5. QED
    BY <2>1, <2>2, <2>3, <2>4
       DEF TypeOK, ScreenChanges, SendUpdate, LinkCut, client, thread, status
<1>2. Owner' /\ Turn' /\ Locked'
  BY DEF Owner, Turn, Locked, Busy, ScreenChanges, SendUpdate, LinkCut,
         client, thread, status, remote
<1>3. QED
  BY <1>1, <1>2

(* Every step keeps the inductive invariant. *)
THEOREM NextIInv == IInv /\ [Next]_vars => IInv'
<1> SUFFICES ASSUME IInv, [Next]_vars PROVE IInv'
  OBVIOUS
<1>1. CASE Connects \/ StartFails \/ ServerStops
  BY <1>1, StartStep
<1>2. CASE Tick \/ Loop
  BY <1>2, LoopStep
<1>3. CASE \E h \in Handlers : LockInput(h) \/ Send(h) \/ \E op \in Ops : Input(h, op)
  BY <1>3, LockInputStep, SendStep, InputStep
<1>4. CASE CloseBegin \/ CloseEnd
  BY <1>4, CloseStep
<1>5. CASE ScreenChanges \/ SendUpdate \/ LinkCut
  BY <1>5, OutsideStep
<1>6. CASE UNCHANGED vars
  BY <1>6 DEF IInv, TypeOK, Owner, Turn, Locked, Busy, vars, client, thread, status, remote
<1>7. QED
  BY <1>1, <1>2, <1>3, <1>4, <1>5, <1>6 DEF Next

(* The inductive invariant holds. *)
THEOREM Invariance == Spec => []IInv
<1>1. QED
  BY InitIInv, NextIInv, PTL DEF Spec

(* The variables keep their types. *)
THEOREM TypeCorrect == Spec => []TypeOK
<1>1. IInv => TypeOK
  BY DEF IInv
<1>2. QED
  BY <1>1, Invariance, PTL

(* The client outlives the goroutine that reads with it and, unless the    *)
(* server gave up waiting, every handler: Close waits for the one, the     *)
(* server for the others.                                                  *)
THEOREM ClientOutlivesUsers == Spec => []NoUseAfterFree
<1>1. IInv => NoUseAfterFree
  BY DEF IInv, Owner, Turn, NoUseAfterFree
<1>2. QED
  BY <1>1, Invariance, PTL

(* One call at a time writes to the connection, from its first message to  *)
(* its last, whatever the calls and however many handlers: the ticker's    *)
(* requests take the same lock.                                            *)
THEOREM OneWriter == Spec => []CallsDoNotMix
<1>1. IInv => CallsDoNotMix
  BY VncAssumption DEF IInv, Locked, CallsDoNotMix, Midway
<1>2. QED
  BY <1>1, Invariance, PTL

-----------------------------------------------------------------------------
(* The refinement: SetErr is Fail, End is End, CloseEnd is Close, and all  *)
(* the rest changes nothing that Resource speaks of.                       *)
LEMMA InitPromise == Init => Promise!Init
BY DEF Init, Promise!Init

LEMMA NextPromise == IInv /\ [Next]_vars => [Promise!Next]_(Promise!view)
<1> SUFFICES ASSUME IInv, [Next]_vars PROVE [Promise!Next]_(Promise!view)
  OBVIOUS
<1> USE DEF Promise!view
<1>1. CASE SetErr
  <2>1. ~done
    BY <1>1 DEF IInv, Owner, SetErr
  <2>2. Promise!Fail
    BY <1>1, <2>1 DEF SetErr, Promise!Fail
  <2>3. QED
    BY <2>2 DEF Promise!Next
<1>2. CASE End
  <2>1. ~done /\ err
    BY <1>2 DEF IInv, Owner, End
  <2>2. Promise!End
    BY <1>2, <2>1 DEF End, Promise!End
  <2>3. QED
    BY <2>2 DEF Promise!Next
<1>3. CASE CloseEnd
  <2>1. Promise!Close
    BY <1>3 DEF CloseEnd, CloseWhen, thread, Promise!Close
  <2>2. QED
    BY <2>1 DEF Promise!Next
<1>4. CASE CloseBegin
  BY <1>4 DEF CloseBegin, thread
<1>5. CASE \/ Connects \/ StartFails \/ ServerStops \/ Tick
           \/ LockForRequest \/ RequestFrame \/ WaitForMessage \/ HandleMessage \/ ReadFails
           \/ ScreenChanges \/ SendUpdate \/ LinkCut
  BY <1>5 DEF Connects, StartFails, ServerStops, Tick, LockForRequest, RequestFrame,
              WaitForMessage, HandleMessage, HandleUpdate, ReadFails,
              ScreenChanges, SendUpdate, LinkCut, thread
<1>6. CASE \E h \in Handlers : LockInput(h) \/ Send(h) \/ \E op \in Ops : Input(h, op)
  BY <1>6 DEF LockInput, Send, Input, thread
<1>7. CASE UNCHANGED vars
  BY <1>7 DEF vars, thread
<1>8. QED
  BY <1>1, <1>2, <1>3, <1>4, <1>5, <1>6, <1>7 DEF Next, Loop

(* The session implements Resource: its error is final before Done is      *)
(* told, and Close returns after that, whoever calls what meanwhile.       *)
THEOREM KeepsPromises == Spec => ImplementsResource
<1>1. IInv /\ [Next]_vars => [Promise!Next]_(Promise!view)
  BY NextPromise
<1>2. QED
  BY <1>1, InitPromise, Invariance, PTL DEF Spec, ImplementsResource, Promise!Spec
=============================================================================
