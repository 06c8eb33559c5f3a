------------------------ MODULE ControlServiceProofs ------------------------
(***************************************************************************)
(* Proofs about ControlService, for any number of clients, any chords and  *)
(* paths, and any interleaving of the requests.                            *)
(***************************************************************************)
EXTENDS ControlService, TLAPS

(* What the program counter says of the request: which operations reach    *)
(* which call, that the handler's checks have passed, and that a drag      *)
(* starts at the first point of its path.                                  *)
FitsOp(r) ==
  /\ r.pc # "idle" => Accepts(r.cmd)
  /\ r.pc = "map" => r.cmd.op \in {"click", "double", "drag", "move", "scroll"}
  /\ r.pc = "move" => r.cmd.op \in {"click", "double", "drag", "move"}
  /\ r.pc \in {"down", "up"} => r.cmd.op \in {"click", "double", "drag"}
  /\ r.pc \in {"map", "move", "down"} /\ r.cmd.op = "drag" => r.step = 1
  /\ r.pc \in {"drag", "abort"} => r.cmd.op = "drag"

(* The state of one goroutine, and the inductive invariant: IndicesInRange *)
(* alone is not inductive, since what bounds an index is the operation and *)
(* the checks its handler made.                                            *)
ReqOK(r) == r \in Request /\ InRange(r) /\ FitsOp(r)

IInv == TypeOK /\ \A c \in Clients : ReqOK(req[c])

-----------------------------------------------------------------------------
(* A request that has just been read, or that has ended, is well typed. *)
LEMMA NewRequestType ==
  ASSUME NEW m \in Commands
  PROVE  /\ NewRequest(m) \in Request
         /\ \A label \in PCs : [NewRequest(m) EXCEPT !.pc = label] \in Request
<1>1. <<>> \in Seq(Targets)
  OBVIOUS
<1>2. NewRequest(m) \in Request
  BY <1>1 DEF NewRequest, Request, PCs
<1>3. ASSUME NEW r \in Request, NEW label \in PCs
      PROVE  [r EXCEPT !.pc = label] \in Request
  BY DEF Request
<1>4. QED
  BY <1>2, <1>3

LEMMA NoRequestType == /\ NoRequest \in Request
                       /\ NoRequest.pc = "idle"
                       /\ NoRequest.depth = 0
                       /\ NoRequest.target = <<>>
<1>1. (CHOOSE m \in Commands : TRUE) \in Commands
  BY ServiceAssumption
<1>2. QED
  BY <1>1, NewRequestType DEF NoRequest, NewRequest

(* Commands have the fields the handlers read. *)
LEMMA CommandType ==
  ASSUME NEW m \in Commands
  PROVE  /\ m.op \in Ops
         /\ m.parsed \in BOOLEAN
         /\ m.button \in Buttons
         /\ m.path \in Seq(Points)
         /\ m.chord \in Seq(Keys)
         /\ m.wheel \subseteq {"x", "y"}
         /\ m.crop \in BOOLEAN
         /\ m.op \in {"click", "double", "move", "scroll"} => Len(m.path) = 1
         /\ m.op = "key" /\ m.parsed => Len(m.chord) > 0
BY ServiceAssumption DEF Command

LEMMA FirstCallType ==
  ASSUME NEW m \in Commands
  PROVE  /\ FirstCall(m) \in PCs \ {"idle", "move", "down", "drag", "abort", "up",
                                    "release", "wheelX", "wheelY"}
         /\ FirstCall(m) = "map" => m.op \in {"click", "double", "drag", "move", "scroll"}
         /\ FirstCall(m) = "press" => m.op = "key"
BY CommandType DEF FirstCall, PCs, Ops
-----------------------------------------------------------------------------
(* Replacing one request by a well-formed one. *)
LEMMA ReplaceRequest ==
  ASSUME req \in [Clients -> Request], \A d \in Clients : ReqOK(req[d]),
         NEW c \in Clients, NEW r, ReqOK(r), req' = [req EXCEPT ![c] = r]
  PROVE  /\ req' \in [Clients -> Request]
         /\ \A d \in Clients : ReqOK(req'[d])
BY DEF ReqOK

LEMMA NoRequestOK == ReqOK(NoRequest)
<1>1. (CHOOSE m \in Commands : TRUE) \in Commands
  BY ServiceAssumption
<1>2. NoRequest.cmd \in Commands /\ Len(NoRequest.cmd.chord) \in Nat
  BY <1>1, CommandType DEF NoRequest, NewRequest
<1>3. QED
  BY <1>2, NoRequestType DEF ReqOK, InRange, FitsOp

(* A handler that returns leaves its goroutine with no request. *)
LEMMA AnswerType ==
  ASSUME TypeOK, \A d \in Clients : ReqOK(req[d]),
         NEW c \in Clients, NEW ok, Answer(c, ok)
  PROVE  /\ req' \in [Clients -> Request]
         /\ \A d \in Clients : ReqOK(req'[d])
         /\ answer' \in [Clients -> {"none", "ok", "error"}]
<1>1. req \in [Clients -> Request]
  BY DEF TypeOK
<1>2. req' = [req EXCEPT ![c] = NoRequest]
  BY DEF Answer
<1>3. answer' \in [Clients -> {"none", "ok", "error"}]
  BY DEF Answer, TypeOK
<1>4. QED
  BY <1>1, <1>2, <1>3, NoRequestOK, ReplaceRequest

(* A call to a backend keeps the types of what it changes. *)
LEMMA ReturnedType ==
  ASSUME TypeOK, NEW c \in Clients, NEW ok \in BOOLEAN, Returned(c, ok)
  PROVE  blamed' \in [Clients -> BOOLEAN] /\ alone' \in [Clients -> BOOLEAN]
BY DEF TypeOK, Returned

LEMMA SendInputType ==
  ASSUME TypeOK, NEW c \in Clients, NEW ok \in BOOLEAN, NEW down \in BOOLEAN,
         NEW i \in Inputs, SendInput(c, i, down, ok)
  PROVE  /\ held' \subseteq Inputs /\ suspect' \subseteq Inputs
         /\ blamed' \in [Clients -> BOOLEAN] /\ alone' \in [Clients -> BOOLEAN]
<1>1. held' \subseteq Inputs /\ suspect' \subseteq Inputs
  BY DEF SendInput, TypeOK
<1>2. Returned(c, ok)
  BY DEF SendInput
<1>3. QED
  BY <1>1, <1>2, ReturnedType

LEMMA SendPointerType ==
  ASSUME TypeOK, NEW c \in Clients, NEW ok \in BOOLEAN, NEW point \in Targets,
         SendPointer(c, point, ok)
  PROVE  /\ held' \subseteq Inputs /\ suspect' \subseteq Inputs
         /\ sent' \in [Clients -> Targets \union {NoTarget}]
         /\ blamed' \in [Clients -> BOOLEAN] /\ alone' \in [Clients -> BOOLEAN]
<1>1. sent' \in [Clients -> Targets \union {NoTarget}]
  BY DEF SendPointer, TypeOK
<1>2. Returned(c, ok) /\ UNCHANGED <<held, suspect>>
  BY DEF SendPointer
<1>3. QED
  BY <1>1, <1>2, ReturnedType DEF TypeOK

LEMMA SendMouseButtonType ==
  ASSUME TypeOK, NEW c \in Clients, NEW ok \in BOOLEAN, NEW down \in BOOLEAN,
         NEW point \in Targets, SendMouseButton(c, point, down, ok)
  PROVE  /\ held' \subseteq Inputs /\ suspect' \subseteq Inputs
         /\ sent' \in [Clients -> Targets \union {NoTarget}]
         /\ blamed' \in [Clients -> BOOLEAN] /\ alone' \in [Clients -> BOOLEAN]
<1>1. req[c].cmd.button \in Inputs
  BY CommandType DEF TypeOK, Request, Inputs
<1>2. SendInput(c, req[c].cmd.button, down, ok)
  BY DEF SendMouseButton
<1>3. sent' \in [Clients -> Targets \union {NoTarget}]
  BY DEF SendMouseButton, TypeOK
<1>4. QED
  BY <1>1, <1>2, <1>3, SendInputType
-----------------------------------------------------------------------------
LEMMA SeqFacts ==
  ASSUME NEW S, NEW s \in Seq(S)
  PROVE  Len(s) \in Nat /\ \A k \in 1..Len(s) : s[k] \in S
OBVIOUS

(* What the lengths and the indices of a request in a given place are. *)
LEMMA RequestFacts ==
  ASSUME IInv, NEW c \in Clients
  PROVE  /\ req[c] \in Request /\ InRange(req[c]) /\ FitsOp(req[c])
         /\ Len(req[c].target) \in Nat
         /\ \A k \in 1..Len(req[c].target) : req[c].target[k] \in Targets
         /\ Len(req[c].cmd.chord) \in Nat
         /\ \A k \in 1..Len(req[c].cmd.chord) : req[c].cmd.chord[k] \in Keys
         /\ Len(req[c].cmd.path) \in Nat
         /\ \A k \in 1..Len(req[c].cmd.path) : req[c].cmd.path[k] \in Points
<1>1. req[c] \in Request /\ InRange(req[c]) /\ FitsOp(req[c])
  BY DEF IInv, ReqOK
<1>2. req[c].target \in Seq(Targets) /\ req[c].cmd \in Commands
  BY <1>1 DEF Request
<1>3. req[c].cmd.chord \in Seq(Keys) /\ req[c].cmd.path \in Seq(Points)
  BY <1>2, CommandType
<1>4. /\ Len(req[c].target) \in Nat
      /\ \A k \in 1..Len(req[c].target) : req[c].target[k] \in Targets
  BY <1>2, SeqFacts
<1>5. /\ Len(req[c].cmd.chord) \in Nat
      /\ \A k \in 1..Len(req[c].cmd.chord) : req[c].cmd.chord[k] \in Keys
  BY <1>3, SeqFacts
<1>6. /\ Len(req[c].cmd.path) \in Nat
      /\ \A k \in 1..Len(req[c].cmd.path) : req[c].cmd.path[k] \in Points
  BY <1>3, SeqFacts
<1>7. QED
  BY <1>1, <1>4, <1>5, <1>6

LEMMA InitIInv == Init => IInv
<1> SUFFICES ASSUME Init PROVE IInv
  OBVIOUS
<1>1. req \in [Clients -> Request] /\ \A c \in Clients : req[c] = NoRequest
  BY NoRequestType DEF Init
<1>2. \A c \in Clients : ReqOK(req[c])
  BY <1>1, NoRequestOK
<1>3. TypeOK
  BY <1>1 DEF Init, TypeOK
<1>4. QED
  BY <1>2, <1>3 DEF IInv

LEMMA StartIInv ==
  ASSUME IInv, NEW c \in Clients, NEW m \in Commands, Start(c, m)
  PROVE  IInv'
<1> DEFINE first == [NewRequest(m) EXCEPT !.pc = FirstCall(m)]
<1>1. TypeOK /\ req \in [Clients -> Request] /\ \A d \in Clients : ReqOK(req[d])
  BY DEF IInv, TypeOK
<1>2. /\ req' \in [Clients -> Request]
      /\ \A d \in Clients : ReqOK(req'[d])
      /\ answer' \in [Clients -> {"none", "ok", "error"}]
  <2>1. CASE ~Accepts(m) /\ Answer(c, FALSE)
    BY <1>1, <2>1, AnswerType
  <2>2. CASE /\ Accepts(m) /\ req' = [req EXCEPT ![c] = first]
             /\ answer' = [answer EXCEPT ![c] = "none"]
    <3>1. /\ first \in Request /\ first.pc = FirstCall(m) /\ first.cmd = m
          /\ first.step = 1 /\ first.depth = 0 /\ first.target = <<>>
      BY FirstCallType, NewRequestType DEF NewRequest, first
    <3>2. Len(m.path) \in Nat /\ Len(m.chord) \in Nat
      BY CommandType
    <3> HIDE DEF first
    <3>3. InRange(first)
      <4>1. m.op \in {"click", "double", "drag", "move", "scroll"} => Len(m.path) > 0
        <5> DEFINE n == Len(m.path)
        <5>1. m.op = "drag" => n >= 2
          BY <2>2 DEF Accepts
        <5>2. m.op \in {"click", "double", "move", "scroll"} => n = 1
          BY CommandType
        <5>3. n \in Nat
          BY <3>2
        <5> HIDE DEF n
        <5>4. m.op \in {"click", "double", "drag", "move", "scroll"} => n > 0
          BY <5>1, <5>2, <5>3
        <5>5. QED
          BY <5>4 DEF n
      <4>2. m.op = "key" => Len(m.chord) > 0
        BY <2>2, CommandType DEF Accepts
      <4>3. Len(first.target) = 0
        BY <3>1
      <4>4. first.cmd = m /\ first.depth = 0
        BY <3>1
      <4>5. /\ first.pc \in PCs \ {"idle", "move", "down", "drag", "abort", "up",
                                    "release", "wheelX", "wheelY"}
            /\ first.pc = "map" => m.op \in {"click", "double", "drag", "move", "scroll"}
            /\ first.pc = "press" => m.op = "key"
        BY <3>1, FirstCallType
      <4>6. QED
        BY <3>2, <4>1, <4>2, <4>3, <4>4, <4>5 DEF InRange
    <3>4. FitsOp(first)
      BY <2>2, <3>1, FirstCallType DEF FitsOp
    <3>5. ReqOK(first)
      BY <3>1, <3>3, <3>4 DEF ReqOK
    <3>6. answer' \in [Clients -> {"none", "ok", "error"}]
      BY <1>1, <2>2 DEF TypeOK
    <3>7. req' = [req EXCEPT ![c] = first]
      BY <2>2 DEF first
    <3>8. QED
      BY <1>1, <3>5, <3>6, <3>7, ReplaceRequest
  <2>3. QED
    BY <2>1, <2>2 DEF Start
<1>3. /\ sent' \in [Clients -> Targets \union {NoTarget}]
      /\ blamed' \in [Clients -> BOOLEAN] /\ alone' \in [Clients -> BOOLEAN]
      /\ UNCHANGED <<frame, held, suspect>>
  <2>1. sent' \in [Clients -> Targets \union {NoTarget}] /\ blamed' \in [Clients -> BOOLEAN]
    BY <1>1 DEF Start, TypeOK
  <2>2. alone' \in [Clients -> BOOLEAN]
    BY DEF Start
  <2>3. QED
    BY <2>1, <2>2 DEF Start
<1>4. QED
  BY <1>1, <1>2, <1>3 DEF IInv, TypeOK
(* A handler that goes on with local state r. *)
LEMMA StepType ==
  ASSUME IInv, NEW c \in Clients, NEW r, ReqOK(r),
         req' = [req EXCEPT ![c] = r], UNCHANGED answer
  PROVE  /\ req' \in [Clients -> Request]
         /\ \A d \in Clients : ReqOK(req'[d])
         /\ answer' \in [Clients -> {"none", "ok", "error"}]
<1>1. req \in [Clients -> Request] /\ \A d \in Clients : ReqOK(req[d])
  BY DEF IInv, TypeOK
<1>2. answer' \in [Clients -> {"none", "ok", "error"}]
  BY DEF IInv, TypeOK
<1>3. QED
  BY <1>1, <1>2, ReplaceRequest

LEMMA AnswerIInv ==
  ASSUME IInv, NEW c \in Clients, NEW ok, Answer(c, ok)
  PROVE  /\ req' \in [Clients -> Request]
         /\ \A d \in Clients : ReqOK(req'[d])
         /\ answer' \in [Clients -> {"none", "ok", "error"}]
BY AnswerType DEF IInv

(* Moving the program counter of a well-formed request. *)
LEMMA GotoType ==
  ASSUME IInv, NEW c \in Clients, NEW label \in PCs \ {"idle"}, Goto(c, label),
         req[c].pc # "idle",
         label = "map" => FALSE,
         label \in {"move", "down", "drag", "abort", "up", "wheelX", "wheelY"}
           => Len(req[c].target) = Len(req[c].cmd.path) /\ Len(req[c].target) > 0,
         label = "drag" => req[c].step \in 1..Len(req[c].target) - 1,
         label \notin {"abort", "press"},
         label = "move" => req[c].cmd.op \in {"click", "double", "drag", "move"},
         label \in {"down", "up"} => req[c].cmd.op \in {"click", "double", "drag"},
         label \in {"move", "down"} /\ req[c].cmd.op = "drag" => req[c].step = 1,
         label = "drag" => req[c].cmd.op = "drag"
  PROVE  /\ req' \in [Clients -> Request]
         /\ \A d \in Clients : ReqOK(req'[d])
         /\ answer' \in [Clients -> {"none", "ok", "error"}]
<1> DEFINE r == [req[c] EXCEPT !.pc = label]
<1>1. req[c] \in Request /\ InRange(req[c]) /\ FitsOp(req[c])
  BY RequestFacts
<1>2. /\ r \in Request /\ r.pc = label /\ r.cmd = req[c].cmd /\ r.target = req[c].target
      /\ r.step = req[c].step /\ r.depth = req[c].depth
  BY <1>1 DEF Request
<1>3. req' = [req EXCEPT ![c] = r] /\ UNCHANGED answer
  BY DEF Goto
<1> HIDE DEF r
<1>4. InRange(r)
  BY <1>1, <1>2 DEF InRange
<1>5. FitsOp(r)
  BY <1>1, <1>2 DEF FitsOp
<1>6. QED
  BY <1>2, <1>3, <1>4, <1>5, StepType DEF ReqOK

-----------------------------------------------------------------------------
LEMMA MapPointIInv ==
  ASSUME IInv, NEW c \in Clients, MapPoint(c)
  PROVE  IInv'
<1> DEFINE m == req[c].cmd
           k == Len(req[c].target) + 1
           next == IF k < Len(m.path) THEN "map"
                   ELSE IF m.op # "scroll" THEN "move"
                   ELSE IF "y" \in m.wheel THEN "wheelY" ELSE "wheelX"
           r == [req[c] EXCEPT !.target = Append(@, <<m.path[k], frame>>), !.pc = next]
<1>1. TypeOK /\ At(c, "map")
  BY DEF IInv, MapPoint
<1>2. CASE Answer(c, FALSE) /\ Returned(c, FALSE)
  BY <1>1, <1>2, AnswerIInv, ReturnedType DEF MapPoint, IInv, TypeOK
<1>3. CASE req' = [req EXCEPT ![c].target = Append(@, <<m.path[k], frame>>), ![c].pc = next]
           /\ UNCHANGED <<answer, blamed, alone>>
  <2>1. /\ req[c] \in Request /\ InRange(req[c]) /\ FitsOp(req[c]) /\ req[c].pc = "map"
        /\ Len(req[c].target) \in Nat /\ Len(m.path) \in Nat
        /\ \A j \in 1..Len(m.path) : m.path[j] \in Points
    BY <1>1, RequestFacts DEF At
  <2>2. k \in 1..Len(m.path) /\ m.op \in {"click", "double", "drag", "move", "scroll"}
    BY <2>1 DEF InRange, FitsOp
  <2>3. <<m.path[k], frame>> \in Targets
    BY <1>1, <2>1, <2>2 DEF Targets, TypeOK
  <2>4. /\ Append(req[c].target, <<m.path[k], frame>>) \in Seq(Targets)
        /\ Len(Append(req[c].target, <<m.path[k], frame>>)) = k
    BY <2>1, <2>3 DEF Request
  <2>5. next \in {"map", "move", "wheelX", "wheelY"} /\ next \in PCs
    BY DEF PCs
  <2>6. /\ next = "map" <=> k < Len(m.path)
        /\ next = "move" => m.op # "scroll"
    OBVIOUS
  <2>7. /\ r \in Request /\ r.pc = next /\ r.cmd = m /\ Len(r.target) = k
        /\ r.step = req[c].step /\ r.depth = req[c].depth
    BY <2>1, <2>4, <2>5 DEF Request
  <2>8. req' = [req EXCEPT ![c] = r]
    BY <1>1, <1>3 DEF TypeOK
  <2> HIDE DEF r, next
  <2>9. InRange(r)
    BY <2>1, <2>2, <2>5, <2>6, <2>7 DEF InRange
  <2>10. FitsOp(r)
    BY <2>1, <2>2, <2>5, <2>6, <2>7 DEF FitsOp
  <2>11. ReqOK(r)
    BY <2>7, <2>9, <2>10 DEF ReqOK
  <2>12. QED
    BY <1>1, <1>3, <2>8, <2>11, StepType DEF MapPoint, IInv, TypeOK
<1>4. QED
  BY <1>2, <1>3 DEF MapPoint
LEMMA MoveToStartIInv ==
  ASSUME IInv, NEW c \in Clients, MoveToStart(c)
  PROVE  IInv'
<1>1. TypeOK /\ req[c].pc = "move" /\ UNCHANGED frame
  BY DEF IInv, MoveToStart, At
<1>2. PICK ok \in BOOLEAN :
        /\ SendPointer(c, req[c].target[1], ok)
        /\ IF ok /\ req[c].cmd.op # "move" THEN Goto(c, "down") ELSE Answer(c, ok)
  BY DEF MoveToStart
<1>3. /\ Len(req[c].target) = Len(req[c].cmd.path) /\ Len(req[c].target) > 0
      /\ req[c].cmd.op \in {"click", "double", "drag", "move"}
      /\ req[c].cmd.op = "drag" => req[c].step = 1
      /\ req[c].target[1] \in Targets
  BY <1>1, RequestFacts DEF InRange, FitsOp
<1>4. /\ req' \in [Clients -> Request]
      /\ \A d \in Clients : ReqOK(req'[d])
      /\ answer' \in [Clients -> {"none", "ok", "error"}]
  BY <1>1, <1>2, <1>3, GotoType, AnswerIInv DEF PCs
<1>5. QED
  BY <1>1, <1>2, <1>3, <1>4, SendPointerType DEF IInv, TypeOK

LEMMA ButtonDownIInv ==
  ASSUME IInv, NEW c \in Clients, ButtonDown(c)
  PROVE  IInv'
<1>1. TypeOK /\ req[c].pc = "down" /\ UNCHANGED frame
  BY DEF IInv, ButtonDown, At
<1> DEFINE next == IF req[c].cmd.op = "drag" THEN "drag" ELSE "up"
<1>2. PICK ok \in BOOLEAN :
        /\ SendMouseButton(c, req[c].target[1], TRUE, ok)
        /\ IF ok THEN Goto(c, next) ELSE Answer(c, FALSE)
  BY DEF ButtonDown
<1>3. /\ Len(req[c].target) = Len(req[c].cmd.path) /\ Len(req[c].target) > 0
      /\ Len(req[c].target) \in Nat
      /\ req[c].cmd.op \in {"click", "double", "drag"}
      /\ req[c].cmd.op = "drag" => req[c].step = 1 /\ Len(req[c].target) >= 2
      /\ req[c].target[1] \in Targets
  BY <1>1, RequestFacts DEF InRange, FitsOp, Accepts
<1>4. /\ req' \in [Clients -> Request]
      /\ \A d \in Clients : ReqOK(req'[d])
      /\ answer' \in [Clients -> {"none", "ok", "error"}]
  <2>1. CASE ok
    <3>1. /\ next \in PCs \ {"idle"} /\ next \in {"drag", "up"}
          /\ next = "drag" => req[c].cmd.op = "drag"
          /\ next = "up" => req[c].cmd.op # "drag"
      BY DEF PCs
    <3>2. next = "drag" => req[c].step \in 1..Len(req[c].target) - 1
      BY <1>3, <3>1
    <3>3. Goto(c, next)
      BY <1>2, <2>1
    <3> HIDE DEF next
    <3>4. QED
      BY <1>1, <1>3, <3>1, <3>2, <3>3, GotoType
  <2>2. CASE ~ok
    BY <1>2, <2>2, AnswerIInv
  <2>3. QED
    BY <2>1, <2>2
<1>5. QED
  BY <1>1, <1>2, <1>3, <1>4, SendMouseButtonType DEF IInv, TypeOK

LEMMA DragMoveIInv ==
  ASSUME IInv, NEW c \in Clients, DragMove(c)
  PROVE  IInv'
<1> DEFINE k == req[c].step + 1
           next == IF k < Len(req[c].target) THEN "drag" ELSE "up"
           r(label) == [req[c] EXCEPT !.step = k, !.pc = label]
<1>1. TypeOK /\ req[c].pc = "drag" /\ UNCHANGED <<frame, answer>>
  BY DEF IInv, DragMove, DragMoveOr, At
<1>2. PICK label \in {next, "abort"}, ok \in BOOLEAN :
        req' = [req EXCEPT ![c] = r(label)] /\ SendPointer(c, req[c].target[k], ok)
  <2>1. \/ /\ SendPointer(c, req[c].target[k], TRUE)
           /\ req' = [req EXCEPT ![c].step = k, ![c].pc = next]
        \/ /\ SendPointer(c, req[c].target[k], FALSE)
           /\ req' = [req EXCEPT ![c].step = @ + 1, ![c].pc = "abort"]
    BY DEF DragMove, DragMoveOr
  <2>2. CASE /\ SendPointer(c, req[c].target[k], TRUE)
             /\ req' = [req EXCEPT ![c].step = k, ![c].pc = next]
    <3>1. req' = [req EXCEPT ![c] = r(next)]
      BY <1>1, <2>2 DEF TypeOK
    <3>2. QED
      BY <2>2, <3>1
  <2>3. CASE /\ SendPointer(c, req[c].target[k], FALSE)
             /\ req' = [req EXCEPT ![c].step = @ + 1, ![c].pc = "abort"]
    <3>1. req' = [req EXCEPT ![c] = r("abort")]
      BY <1>1, <2>3 DEF TypeOK
    <3>2. QED
      BY <2>3, <3>1
  <2>4. QED
    BY <2>1, <2>2, <2>3
<1>3. /\ Len(req[c].target) = Len(req[c].cmd.path) /\ Len(req[c].target) \in Nat
      /\ req[c].step \in 1..Len(req[c].target) - 1
      /\ req[c].cmd.op = "drag" /\ req[c] \in Request
      /\ \A j \in 1..Len(req[c].target) : req[c].target[j] \in Targets
      /\ InRange(req[c]) /\ FitsOp(req[c])
  BY <1>1, RequestFacts DEF InRange, FitsOp
<1>4. k \in 1..Len(req[c].target) /\ k \in Nat
  BY <1>3
<1>5. label = "drag" => k < Len(req[c].target)
  BY <1>2
<1>6. label \in {"drag", "up", "abort"}
  BY <1>2
<1>7. ReqOK(r(label))
  <2>1. /\ r(label) \in Request /\ r(label).pc = label /\ r(label).cmd = req[c].cmd
        /\ r(label).target = req[c].target /\ r(label).step = k
        /\ r(label).depth = req[c].depth
    BY <1>3, <1>4, <1>6 DEF Request, PCs
  <2> HIDE DEF r, k
  <2>2. InRange(r(label))
    BY <1>1, <1>3, <1>4, <1>5, <1>6, <2>1 DEF InRange
  <2>3. FitsOp(r(label))
    BY <1>1, <1>3, <1>6, <2>1 DEF FitsOp
  <2>4. QED
    BY <2>1, <2>2, <2>3 DEF ReqOK
<1> HIDE DEF r, k
<1>8. QED
  BY <1>1, <1>2, <1>3, <1>4, <1>7, StepType, SendPointerType DEF IInv, TypeOK

LEMMA DragAbortIInv ==
  ASSUME IInv, NEW c \in Clients, DragAbort(c)
  PROVE  IInv'
<1>1. TypeOK /\ req[c].pc = "abort" /\ UNCHANGED frame /\ Answer(c, FALSE)
  BY DEF IInv, DragAbort, At
<1>2. req[c].target[req[c].step] \in Targets
  BY <1>1, RequestFacts DEF InRange
<1>3. PICK ok \in BOOLEAN : SendMouseButton(c, req[c].target[req[c].step], FALSE, ok)
  BY DEF DragAbort
<1>4. QED
  BY <1>1, <1>2, <1>3, AnswerIInv, SendMouseButtonType DEF IInv, TypeOK

LEMMA ButtonUpIInv ==
  ASSUME IInv, NEW c \in Clients, ButtonUp(c)
  PROVE  IInv'
<1> DEFINE point == req[c].target[Len(req[c].target)]
           r == [req[c] EXCEPT !.pc = "map", !.step = 2, !.target = <<>>]
<1>1. TypeOK /\ req[c].pc = "up" /\ UNCHANGED frame
  BY DEF IInv, ButtonUp, ReleaseAt, At
<1>2. PICK ok \in BOOLEAN :
        /\ SendMouseButton(c, point, FALSE, ok)
        /\ \/ /\ req[c].cmd.op = "double"
              /\ req' = [req EXCEPT ![c].pc = "map", ![c].step = 2, ![c].target = <<>>]
              /\ UNCHANGED answer
           \/ Answer(c, ok)
  BY DEF ButtonUp, ReleaseAt
<1>3. /\ point \in Targets /\ req[c] \in Request /\ InRange(req[c]) /\ FitsOp(req[c])
      /\ Len(req[c].cmd.path) > 0
  BY <1>1, RequestFacts DEF InRange
<1>4. /\ req' \in [Clients -> Request]
      /\ \A d \in Clients : ReqOK(req'[d])
      /\ answer' \in [Clients -> {"none", "ok", "error"}]
  <2>1. CASE Answer(c, ok)
    BY <2>1, AnswerIInv
  <2>2. CASE /\ req[c].cmd.op = "double"
             /\ req' = [req EXCEPT ![c].pc = "map", ![c].step = 2, ![c].target = <<>>]
             /\ UNCHANGED answer
    <3>1. <<>> \in Seq(Targets) /\ "map" \in PCs
      BY DEF PCs
    <3>2. /\ r \in Request /\ r.pc = "map" /\ r.cmd = req[c].cmd /\ r.target = <<>>
          /\ r.depth = req[c].depth
      BY <1>3, <3>1 DEF Request
    <3>3. req' = [req EXCEPT ![c] = r]
      BY <1>1, <2>2 DEF TypeOK
    <3> HIDE DEF r
    <3>4. Len(r.target) = 0
      BY <3>2
    <3>5. InRange(r)
      BY <1>1, <1>3, <3>2, <3>4 DEF InRange
    <3>6. FitsOp(r)
      BY <1>1, <1>3, <2>2, <3>2 DEF FitsOp
    <3>7. QED
      BY <2>2, <3>2, <3>3, <3>5, <3>6, StepType DEF ReqOK
  <2>3. QED
    BY <1>2, <2>1, <2>2
<1> HIDE DEF point
<1>5. QED
  BY <1>1, <1>2, <1>3, <1>4, SendMouseButtonType DEF IInv, TypeOK

LEMMA WheelIInv ==
  ASSUME IInv, NEW c \in Clients, WheelY(c) \/ WheelX(c)
  PROVE  IInv'
<1>1. TypeOK /\ req[c].pc \in {"wheelY", "wheelX"} /\ UNCHANGED frame
  BY DEF IInv, WheelX, WheelY, At
<1>2. PICK ok \in BOOLEAN :
        /\ SendPointer(c, req[c].target[1], ok)
        /\ Goto(c, "wheelX") \/ Answer(c, ok)
  BY DEF WheelX, WheelY
<1>3. /\ Len(req[c].target) = Len(req[c].cmd.path) /\ Len(req[c].target) > 0
      /\ req[c].target[1] \in Targets
  BY <1>1, RequestFacts DEF InRange
<1>4. /\ req' \in [Clients -> Request]
      /\ \A d \in Clients : ReqOK(req'[d])
      /\ answer' \in [Clients -> {"none", "ok", "error"}]
  BY <1>1, <1>2, <1>3, GotoType, AnswerIInv DEF PCs
<1>5. QED
  BY <1>1, <1>2, <1>3, <1>4, SendPointerType DEF IInv, TypeOK
LEMMA PressKeyIInv ==
  ASSUME IInv, NEW c \in Clients, PressKey(c)
  PROVE  IInv'
<1> DEFINE last == Len(req[c].cmd.chord)
           k == req[c].depth + 1
           next == IF k < last THEN "press" ELSE "release"
           pressed == [req[c] EXCEPT !.depth = k, !.pc = next]
           failed == [req[c] EXCEPT !.err = TRUE, !.pc = "release"]
<1>1. TypeOK /\ req[c].pc = "press" /\ UNCHANGED <<answer, frame>>
  BY DEF IInv, PressKey, PressUpTo, At
<1>2. /\ req[c] \in Request /\ InRange(req[c]) /\ FitsOp(req[c])
      /\ last \in Nat /\ k \in 1..last /\ k \in Nat
      /\ req[c].cmd.chord[k] \in Inputs
  <2>1. /\ req[c] \in Request /\ InRange(req[c]) /\ FitsOp(req[c]) /\ last \in Nat
        /\ \A j \in 1..last : req[c].cmd.chord[j] \in Keys
    BY RequestFacts
  <2>2. req[c].depth \in Nat /\ req[c].depth < last
    BY <1>1, <2>1 DEF InRange, Request
  <2>3. k \in 1..last /\ k \in Nat
    BY <2>1, <2>2
  <2>4. QED
    BY <2>1, <2>3 DEF Inputs
<1>3. ReqOK(pressed) /\ ReqOK(failed)
  <2>1. next \in {"press", "release"} /\ (next = "press" => k < last)
    OBVIOUS
  <2>2. /\ pressed \in Request /\ pressed.pc = next /\ pressed.cmd = req[c].cmd
        /\ pressed.depth = k
    BY <1>2, <2>1 DEF Request, PCs
  <2>3. /\ failed \in Request /\ failed.pc = "release" /\ failed.cmd = req[c].cmd
        /\ failed.depth = req[c].depth
    BY <1>2 DEF Request, PCs
  <2> HIDE DEF pressed, failed, next
  <2>4. InRange(pressed) /\ FitsOp(pressed)
    BY <1>1, <1>2, <2>1, <2>2 DEF InRange, FitsOp
  <2>5. InRange(failed) /\ FitsOp(failed)
    BY <1>1, <1>2, <2>3 DEF InRange, FitsOp
  <2>6. QED
    BY <2>2, <2>3, <2>4, <2>5 DEF ReqOK
<1>4. PICK ok \in BOOLEAN, r \in {pressed, failed} :
        req' = [req EXCEPT ![c] = r] /\ SendKey(c, req[c].cmd.chord[k], TRUE, ok)
  <2>1. CASE /\ SendKey(c, req[c].cmd.chord[k], TRUE, TRUE)
             /\ req' = [req EXCEPT ![c].depth = k, ![c].pc = next]
    <3>1. req' = [req EXCEPT ![c] = pressed]
      BY <1>1, <2>1 DEF TypeOK
    <3>2. QED
      BY <2>1, <3>1
  <2>2. CASE /\ SendKey(c, req[c].cmd.chord[k], TRUE, FALSE)
             /\ req' = [req EXCEPT ![c].err = TRUE, ![c].pc = "release"]
    <3>1. req' = [req EXCEPT ![c] = failed]
      BY <1>1, <2>2 DEF TypeOK
    <3>2. QED
      BY <2>2, <3>1
  <2>3. QED
    BY <2>1, <2>2 DEF PressKey, PressUpTo
<1> HIDE DEF pressed, failed, k
<1>5. SendInput(c, req[c].cmd.chord[k], TRUE, ok) /\ UNCHANGED sent
  BY <1>4 DEF SendKey
<1>6. QED
  BY <1>1, <1>2, <1>3, <1>4, <1>5, StepType, SendInputType DEF IInv, TypeOK

LEMMA ReleaseKeyIInv ==
  ASSUME IInv, NEW c \in Clients, ReleaseKey(c)
  PROVE  IInv'
<1> DEFINE k == req[c].depth
<1>1. PICK ok \in BOOLEAN :
        /\ ReleaseTopKey(c, ok)
        /\ req' = [req EXCEPT ![c].depth = @ - 1, ![c].err = @ \/ ~ok]
  BY DEF ReleaseKey
<1> DEFINE r == [req[c] EXCEPT !.depth = k - 1, !.err = @ \/ ~ok]
<1>2. TypeOK /\ req[c].pc = "release" /\ k > 0 /\ UNCHANGED <<answer, frame>>
  BY <1>1 DEF IInv, ReleaseTopKey, At
<1>3. /\ req[c] \in Request /\ InRange(req[c]) /\ FitsOp(req[c])
      /\ Len(req[c].cmd.chord) \in Nat
      /\ \A j \in 1..Len(req[c].cmd.chord) : req[c].cmd.chord[j] \in Keys
  BY RequestFacts
<1>4. k \in 1..Len(req[c].cmd.chord) /\ k - 1 \in Nat
  BY <1>2, <1>3 DEF InRange, Request
<1>5. req[c].cmd.chord[k] \in Inputs
  BY <1>3, <1>4 DEF Inputs
<1>6. req' = [req EXCEPT ![c] = r]
  BY <1>1, <1>2 DEF TypeOK
<1>7. ReqOK(r)
  <2>1. /\ r \in Request /\ r.pc = "release" /\ r.cmd = req[c].cmd
        /\ r.depth = k - 1
    BY <1>2, <1>3, <1>4 DEF Request
  <2> HIDE DEF r
  <2>2. InRange(r) /\ FitsOp(r)
    BY <1>2, <1>3, <1>4, <2>1 DEF InRange, FitsOp
  <2>3. QED
    BY <2>1, <2>2 DEF ReqOK
<1>8. SendInput(c, req[c].cmd.chord[k], FALSE, ok) /\ UNCHANGED sent
  BY <1>1 DEF ReleaseTopKey, SendKey
<1> HIDE DEF r, k
<1>9. QED
  BY <1>2, <1>5, <1>6, <1>7, <1>8, StepType, SendInputType DEF IInv, TypeOK

(* The handlers that end without touching an index. *)
LEMMA QuietIInv ==
  ASSUME IInv, NEW c \in Clients,
         KeysReleased(c) \/ TypeText(c) \/ WaitDone(c) \/ NativeCrop(c) \/ FullCapture(c)
  PROVE  IInv'
<1>1. TypeOK
  BY DEF IInv
<1>2. CASE KeysReleased(c)
  <2>1. Answer(c, ~req[c].err)
    BY <1>2 DEF KeysReleased
  <2>2. /\ req' \in [Clients -> Request]
        /\ \A d \in Clients : ReqOK(req'[d])
        /\ answer' \in [Clients -> {"none", "ok", "error"}]
    BY <2>1, AnswerIInv
  <2>3. QED
    BY <1>1, <1>2, <2>2 DEF KeysReleased, IInv, TypeOK, hist
<1>3. CASE TypeText(c)
  <2>1. PICK ok \in BOOLEAN, touched \in SUBSET TextKeys :
          /\ held' = IF ok THEN held \ touched ELSE held \union touched
          /\ suspect' = IF ok THEN suspect \ touched ELSE suspect \union touched
          /\ Returned(c, ok)
          /\ Answer(c, ok)
    BY <1>3 DEF TypeText
  <2>2. held' \subseteq Inputs /\ suspect' \subseteq Inputs
    BY <1>1, <2>1, ServiceAssumption DEF TypeOK, Inputs
  <2>3. QED
    BY <1>1, <1>3, <2>1, <2>2, AnswerIInv, ReturnedType DEF TypeText, IInv, TypeOK
<1>4. CASE WaitDone(c)
  BY <1>1, <1>4, AnswerIInv DEF WaitDone, IInv, TypeOK, hist
<1>5. CASE NativeCrop(c)
  <2>1. CASE \E ok \in BOOLEAN : Answer(c, ok) /\ Returned(c, ok)
    BY <1>1, <1>5, <2>1, AnswerIInv, ReturnedType DEF NativeCrop, IInv, TypeOK
  <2>2. CASE Goto(c, "full") /\ UNCHANGED <<blamed, alone>>
    <3>1. /\ req' \in [Clients -> Request]
          /\ \A d \in Clients : ReqOK(req'[d])
          /\ answer' \in [Clients -> {"none", "ok", "error"}]
      BY <1>5, <2>2, GotoType DEF NativeCrop, At, PCs
    <3>2. QED
      BY <1>1, <1>5, <2>2, <3>1 DEF NativeCrop, IInv, TypeOK
  <2>3. QED
    BY <1>5, <2>1, <2>2 DEF NativeCrop
<1>6. CASE FullCapture(c)
  BY <1>1, <1>6, AnswerIInv, ReturnedType DEF FullCapture, IInv, TypeOK
<1>7. QED
  BY <1>2, <1>3, <1>4, <1>5, <1>6

LEMMA NextIInv == IInv /\ [Next]_vars => IInv'
<1> SUFFICES ASSUME IInv, [Next]_vars PROVE IInv'
  OBVIOUS
<1>1. CASE UNCHANGED vars
  BY <1>1 DEF vars, hist, IInv, TypeOK
<1>2. CASE Resize
  BY <1>2 DEF Resize, hist, IInv, TypeOK
<1>3. ASSUME NEW c \in Clients, Step(c) PROVE IInv'
  BY <1>3, MapPointIInv, MoveToStartIInv, ButtonDownIInv, DragMoveIInv, DragAbortIInv,
     ButtonUpIInv, WheelIInv, PressKeyIInv, ReleaseKeyIInv, QuietIInv DEF Step
<1>4. ASSUME NEW c \in Clients, NEW m \in Commands, Start(c, m) PROVE IInv'
  BY <1>4, StartIInv
<1>5. QED
  BY <1>1, <1>2, <1>3, <1>4 DEF Next

(* The inductive invariant holds of every behaviour. *)
THEOREM Invariance == Spec => []IInv
BY InitIInv, NextIInv, PTL DEF Spec

(* Every variable of the service keeps its type. *)
THEOREM TypeCorrect == Spec => []TypeOK
<1>1. IInv => TypeOK
  BY DEF IInv
<1>2. QED
  BY <1>1, Invariance, PTL

(* No handler of the service indexes out of its path or its chord,         *)
(* whatever commands it is given.                                          *)
THEOREM NoIndexPanic == Spec => []IndicesInRange
<1>1. IInv => IndicesInRange
  BY DEF IInv, ReqOK, IndicesInRange
<1>2. QED
  BY <1>1, Invariance, PTL
-----------------------------------------------------------------------------
(* What a step of c has to show: S are the inputs it sends events for.     *)
(* Outside S nothing new goes down, nothing leaves c's hands and no error  *)
(* is forgotten; inside S whatever is down afterwards is c's or suspect.   *)
LEMMA HeldStep ==
  ASSUME NothingSilentlyHeld, NEW c \in Clients, NEW S,
         \A d \in Clients \ {c} : req'[d] = req[d],
         OwnedBy(req[c]) \subseteq OwnedBy(req'[c]) \union S,
         held' \subseteq held \union S,
         suspect \subseteq suspect' \union S,
         held' \intersect S \subseteq OwnedBy(req'[c]) \union suspect'
  PROVE  NothingSilentlyHeld'
<1> SUFFICES ASSUME NEW i \in held' PROVE i \in Owned' \union suspect'
  BY DEF NothingSilentlyHeld
<1>1. CASE i \in S
  BY <1>1 DEF Owned
<1>2. CASE i \in suspect \ S
  BY <1>2
<1>3. CASE i \in Owned \ S
  <2>1. PICK d \in Clients : i \in OwnedBy(req[d])
    BY <1>3 DEF Owned
  <2>2. i \in OwnedBy(req'[d])
    BY <1>3, <2>1
  <2>3. QED
    BY <2>2 DEF Owned
<1>4. QED
  BY <1>1, <1>2, <1>3 DEF NothingSilentlyHeld

(* A call that sends an event for i: afterwards i is up, or it was to go   *)
(* down and the call succeeded, or the error made it suspect.              *)
LEMMA SendInputHeld ==
  ASSUME NothingSilentlyHeld, NEW c \in Clients,
         NEW i, NEW down \in BOOLEAN, NEW ok \in BOOLEAN, SendInput(c, i, down, ok),
         \A d \in Clients \ {c} : req'[d] = req[d],
         OwnedBy(req[c]) \subseteq OwnedBy(req'[c]) \union {i},
         ok /\ down => i \in OwnedBy(req'[c])
  PROVE  NothingSilentlyHeld'
<1>1. held' \subseteq held \union {i} /\ suspect \subseteq suspect' \union {i}
  BY DEF SendInput
<1>2. i \in held' => (ok /\ down) \/ i \in suspect'
  BY DEF SendInput
<1>3. held' \intersect {i} \subseteq OwnedBy(req'[c]) \union suspect'
  BY <1>2
<1>4. QED
  BY <1>1, <1>3, HeldStep

(* The requests of the others are not touched. *)
LEMMA OthersKeep ==
  ASSUME TypeOK, NEW c \in Clients, NEW r, req' = [req EXCEPT ![c] = r]
  PROVE  /\ \A d \in Clients \ {c} : req'[d] = req[d]
         /\ req'[c] = r
BY DEF TypeOK

LEMMA PointerHeld ==
  ASSUME IInv, NothingSilentlyHeld, NEW c \in Clients,
         \/ MapPoint(c) \/ MoveToStart(c) \/ WheelY(c) \/ WheelX(c)
         \/ NativeCrop(c) \/ FullCapture(c) \/ WaitDone(c)
  PROVE  NothingSilentlyHeld'
<1>1. OwnedBy(req[c]) = {}
  BY DEF OwnedBy, MapPoint, MoveToStart, WheelY, WheelX, NativeCrop, FullCapture, WaitDone, At
<1>2. \A d \in Clients \ {c} : req'[d] = req[d]
  BY DEF IInv, TypeOK, MapPoint, MoveToStart, WheelY, WheelX, NativeCrop, FullCapture,
         WaitDone, Goto, Answer
<1>3. UNCHANGED <<held, suspect>>
  BY DEF MapPoint, MoveToStart, WheelY, WheelX, NativeCrop, FullCapture, WaitDone,
         SendPointer, hist
<1>4. QED
  BY <1>1, <1>2, <1>3, HeldStep

LEMMA ButtonHeld ==
  ASSUME IInv, NothingSilentlyHeld, NEW c \in Clients,
         ButtonDown(c) \/ DragMove(c) \/ DragAbort(c) \/ ButtonUp(c)
  PROVE  NothingSilentlyHeld'
<1> DEFINE b == req[c].cmd.button
<1>1. TypeOK
  BY DEF IInv
<1>2. CASE ButtonDown(c)
  <2>1. PICK ok \in BOOLEAN :
          /\ SendInput(c, b, TRUE, ok)
          /\ IF ok THEN Goto(c, IF req[c].cmd.op = "drag" THEN "drag" ELSE "up")
                   ELSE Answer(c, FALSE)
    BY <1>2 DEF ButtonDown, SendMouseButton
  <2>2. OwnedBy(req[c]) = {}
    BY <1>2 DEF ButtonDown, At, OwnedBy
  <2>3. \A d \in Clients \ {c} : req'[d] = req[d]
    BY <1>1, <2>1 DEF TypeOK, Goto, Answer
  <2>4. ok => OwnedBy(req'[c]) = {b}
    <3>1. SUFFICES ASSUME ok PROVE OwnedBy(req'[c]) = {b}
      OBVIOUS
    <3>2. req'[c].pc \in {"drag", "up"} /\ req'[c].cmd = req[c].cmd
      BY <1>1, <2>1, <3>1 DEF TypeOK, Request, Goto
    <3>3. QED
      BY <3>2 DEF OwnedBy
  <2> HIDE DEF b
  <2>5. QED
    BY <2>1, <2>2, <2>3, <2>4, SendInputHeld
<1>3. CASE DragMove(c)
  <2>1. UNCHANGED <<held, suspect>>
    BY <1>3 DEF DragMove, DragMoveOr, SendPointer
  <2>2. \A d \in Clients \ {c} : req'[d] = req[d]
    BY <1>1, <1>3 DEF DragMove, DragMoveOr, TypeOK
  <2>3. req'[c].pc \in {"drag", "up", "abort"} /\ req'[c].cmd = req[c].cmd
    <3> DEFINE k == req[c].step + 1
               more == k < Len(req[c].target)
    <3>1. \/ req' = [req EXCEPT ![c].step = k, ![c].pc = IF more THEN "drag" ELSE "up"]
          \/ req' = [req EXCEPT ![c].step = k, ![c].pc = "abort"]
      BY <1>3 DEF DragMove, DragMoveOr
    <3>2. req \in [Clients -> Request] /\ req[c] \in Request
      BY <1>1, RequestFacts DEF TypeOK
    <3> HIDE DEF k, more
    <3>3. QED
      BY <3>1, <3>2 DEF Request
  <2>4. OwnedBy(req[c]) = {b}
    BY <1>3 DEF DragMove, DragMoveOr, At, OwnedBy
  <2>5. OwnedBy(req'[c]) = {b}
    BY <2>3 DEF OwnedBy
  <2>6. QED
    BY <2>1, <2>2, <2>4, <2>5, HeldStep
<1>4. CASE DragAbort(c) \/ ButtonUp(c)
  <2>1. PICK ok \in BOOLEAN : SendInput(c, b, FALSE, ok)
    BY <1>4 DEF DragAbort, ButtonUp, ReleaseAt, SendMouseButton
  <2>2. OwnedBy(req[c]) = {b}
    BY <1>4 DEF DragAbort, ButtonUp, ReleaseAt, At, OwnedBy
  <2>3. \A d \in Clients \ {c} : req'[d] = req[d]
    BY <1>1, <1>4 DEF TypeOK, DragAbort, ButtonUp, ReleaseAt, Answer
  <2> HIDE DEF b
  <2>4. QED
    BY <2>1, <2>2, <2>3, SendInputHeld
<1>5. QED
  BY <1>2, <1>3, <1>4

LEMMA KeyHeld ==
  ASSUME IInv, NothingSilentlyHeld, NEW c \in Clients,
         PressKey(c) \/ ReleaseKey(c) \/ KeysReleased(c)
  PROVE  NothingSilentlyHeld'
<1>1. TypeOK /\ req[c] \in Request /\ req[c].depth \in Nat
  BY RequestFacts DEF IInv, Request
<1>2. CASE PressKey(c)
  <2> DEFINE k == req[c].depth + 1
             key == req[c].cmd.chord[k]
  <2>1. PICK ok \in BOOLEAN :
          /\ SendInput(c, key, TRUE, ok)
          /\ \A d \in Clients \ {c} : req'[d] = req[d]
          /\ req'[c].pc \in {"press", "release"}
          /\ req'[c].cmd = req[c].cmd
          /\ req'[c].depth = IF ok THEN k ELSE req[c].depth
    <3> DEFINE last == Len(req[c].cmd.chord)
               next == IF k < last THEN "press" ELSE "release"
    <3>1. \/ /\ SendInput(c, key, TRUE, TRUE)
             /\ req' = [req EXCEPT ![c].depth = k, ![c].pc = next]
          \/ /\ SendInput(c, key, TRUE, FALSE)
             /\ req' = [req EXCEPT ![c].err = TRUE, ![c].pc = "release"]
      BY <1>2 DEF PressKey, PressUpTo, SendKey
    <3>2. next \in {"press", "release"} /\ req \in [Clients -> Request]
      BY <1>1 DEF TypeOK
    <3> HIDE DEF next, key, k
    <3>3. CASE /\ SendInput(c, key, TRUE, TRUE)
               /\ req' = [req EXCEPT ![c].depth = k, ![c].pc = next]
      BY <1>1, <3>2, <3>3 DEF Request
    <3>4. CASE /\ SendInput(c, key, TRUE, FALSE)
               /\ req' = [req EXCEPT ![c].err = TRUE, ![c].pc = "release"]
      BY <1>1, <3>2, <3>4 DEF Request
    <3>5. QED
      BY <3>1, <3>3, <3>4
  <2>2. OwnedBy(req[c]) = {req[c].cmd.chord[j] : j \in 1..req[c].depth}
    BY <1>2 DEF PressKey, PressUpTo, At, OwnedBy
  <2>3. OwnedBy(req'[c]) = {req[c].cmd.chord[j] : j \in 1..(IF ok THEN k ELSE req[c].depth)}
    BY <2>1 DEF OwnedBy
  <2>4. OwnedBy(req[c]) \subseteq OwnedBy(req'[c])
    BY <1>1, <2>2, <2>3
  <2>5. ok => key \in OwnedBy(req'[c])
    BY <1>1, <2>3
  <2> HIDE DEF key, k
  <2>6. QED
    BY <2>1, <2>4, <2>5, SendInputHeld
<1>3. CASE ReleaseKey(c)
  <2> DEFINE k == req[c].depth
             key == req[c].cmd.chord[k]
  <2>1. PICK ok \in BOOLEAN :
          /\ SendInput(c, key, FALSE, ok)
          /\ \A d \in Clients \ {c} : req'[d] = req[d]
          /\ req'[c].pc = "release"
          /\ req'[c].cmd = req[c].cmd
          /\ req'[c].depth = k - 1
    <3>1. PICK ok \in BOOLEAN :
            /\ SendInput(c, key, FALSE, ok)
            /\ req' = [req EXCEPT ![c].depth = @ - 1, ![c].err = @ \/ ~ok]
      BY <1>3 DEF ReleaseKey, ReleaseTopKey, SendKey
    <3>2. req[c].pc = "release" /\ req \in [Clients -> Request]
      BY <1>1, <1>3 DEF ReleaseKey, ReleaseTopKey, At, TypeOK
    <3> HIDE DEF key
    <3>3. QED
      BY <1>1, <3>1, <3>2 DEF Request
  <2>2. OwnedBy(req[c]) = {req[c].cmd.chord[j] : j \in 1..k}
    BY <1>3 DEF ReleaseKey, ReleaseTopKey, At, OwnedBy
  <2>3. OwnedBy(req'[c]) = {req[c].cmd.chord[j] : j \in 1..(k - 1)}
    BY <2>1 DEF OwnedBy
  <2>4. OwnedBy(req[c]) \subseteq OwnedBy(req'[c]) \union {key}
    BY <1>1, <2>2, <2>3
  <2> HIDE DEF key, k
  <2>5. QED
    BY <2>1, <2>4, SendInputHeld
<1>4. CASE KeysReleased(c)
  <2>1. OwnedBy(req[c]) = {}
    BY <1>4 DEF KeysReleased, At, OwnedBy
  <2>2. \A d \in Clients \ {c} : req'[d] = req[d]
    BY <1>1, <1>4 DEF KeysReleased, Answer, TypeOK
  <2>3. UNCHANGED <<held, suspect>>
    BY <1>4 DEF KeysReleased, hist
  <2>4. QED
    BY <2>1, <2>2, <2>3, HeldStep
<1>5. QED
  BY <1>2, <1>3, <1>4

LEMMA OtherHeld ==
  ASSUME IInv, NothingSilentlyHeld, NEW c \in Clients,
         TypeText(c) \/ \E m \in Commands : Start(c, m)
  PROVE  NothingSilentlyHeld'
<1>1. OwnedBy(req[c]) = {}
  BY DEF TypeText, Start, At, OwnedBy
<1>2. \A d \in Clients \ {c} : req'[d] = req[d]
  BY DEF IInv, TypeOK, TypeText, Start, Answer
<1>3. CASE TypeText(c)
  <2>1. PICK ok \in BOOLEAN, touched \in SUBSET TextKeys :
          /\ held' = IF ok THEN held \ touched ELSE held \union touched
          /\ suspect' = IF ok THEN suspect \ touched ELSE suspect \union touched
    BY <1>3 DEF TypeText
  <2>2. QED
    BY <1>1, <1>2, <2>1, HeldStep
<1>4. CASE \E m \in Commands : Start(c, m)
  <2>1. UNCHANGED <<held, suspect>>
    BY <1>4 DEF Start
  <2>2. QED
    BY <1>1, <1>2, <2>1, HeldStep
<1>5. QED
  BY <1>3, <1>4

(* The main result: however many requests run at once, whichever calls     *)
(* fail and whatever the failed calls did, no key and no button stays down *)
(* without a request that will release it or an error somebody was told.   *)
THEOREM HeldIsAccounted == Spec => []NothingSilentlyHeld
<1>1. Init => NothingSilentlyHeld
  BY DEF Init, NothingSilentlyHeld
<1>2. IInv /\ NothingSilentlyHeld /\ [Next]_vars => NothingSilentlyHeld'
  <2> SUFFICES ASSUME IInv, NothingSilentlyHeld, [Next]_vars PROVE NothingSilentlyHeld'
    OBVIOUS
  <2>1. CASE UNCHANGED vars \/ Resize
    BY <2>1 DEF vars, hist, Resize, NothingSilentlyHeld, Owned
  <2>2. ASSUME NEW c \in Clients, Step(c) PROVE NothingSilentlyHeld'
    BY <2>2, PointerHeld, ButtonHeld, KeyHeld, OtherHeld DEF Step
  <2>3. ASSUME NEW c \in Clients, NEW m \in Commands, Start(c, m) PROVE NothingSilentlyHeld'
    BY <2>3, OtherHeld
  <2>4. QED
    BY <2>1, <2>2, <2>3 DEF Next
<1>3. QED
  BY <1>1, <1>2, Invariance, PTL DEF Spec
-----------------------------------------------------------------------------
(* Errors on their way to the answer.  A request in progress has not       *)
(* answered, and after a failed call it only releases: the button of a     *)
(* drag, or the keys of a chord with the error kept.                       *)
Releases(r) == r.pc = "abort" \/ (r.pc = "release" /\ r.err)

Told(c) ==
  /\ ~At(c, "idle") => answer[c] = "none" /\ (blamed[c] => Releases(req[c]))
  /\ answer[c] = "ok" => ~blamed[c]

(* What a step of c may do to what Told speaks of. *)
OthersSame(c) ==
  \A d \in Clients \ {c} :
    req'[d] = req[d] /\ answer'[d] = answer[d] /\ blamed'[d] = blamed[d]

ToldStep(c) ==
  /\ OthersSame(c)
  /\ \/ req'[c].pc = "idle" /\ (answer'[c] = "ok" => ~blamed'[c])
     \/ answer'[c] = "none" /\ (blamed'[c] => Releases(req'[c]))

LEMMA ToldKept ==
  ASSUME \A d \in Clients : Told(d), NEW c \in Clients, ToldStep(c)
  PROVE  \A d \in Clients : Told(d)'
<1>1. ASSUME NEW d \in Clients, d # c PROVE Told(d)'
  <2>1. req'[d] = req[d] /\ answer'[d] = answer[d] /\ blamed'[d] = blamed[d]
    BY <1>1 DEF ToldStep, OthersSame
  <2>2. Told(d)
    OBVIOUS
  <2>3. QED
    BY <2>1, <2>2 DEF Told, At, Releases
<1>2. Told(c)'
  BY DEF ToldStep, Told, At
<1>3. QED
  BY <1>1, <1>2

(* A handler that answers "ok" only if no call failed. *)
LEMMA AnswerTold ==
  ASSUME TypeOK, NEW c \in Clients, NEW ok \in BOOLEAN, Answer(c, ok),
         \A d \in Clients \ {c} : blamed'[d] = blamed[d],
         ok => ~blamed'[c]
  PROVE  ToldStep(c)
<1>1. /\ req' = [req EXCEPT ![c] = NoRequest]
      /\ answer' = [answer EXCEPT ![c] = IF ok THEN "ok" ELSE "error"]
  BY DEF Answer
<1>2. OthersSame(c) /\ req'[c].pc = "idle" /\ answer'[c] = IF ok THEN "ok" ELSE "error"
  BY <1>1, NoRequestType DEF TypeOK, OthersSame
<1>3. QED
  BY <1>2 DEF ToldStep

(* A handler that goes on, after a call that succeeded or to release. *)
LEMMA GoOnTold ==
  ASSUME TypeOK, NEW c \in Clients, Told(c), ~At(c, "idle"),
         NEW r, req' = [req EXCEPT ![c] = r], UNCHANGED answer,
         \A d \in Clients \ {c} : blamed'[d] = blamed[d],
         blamed'[c] => Releases(r)
  PROVE  ToldStep(c)
<1>1. OthersSame(c) /\ req'[c] = r /\ answer'[c] = "none"
  BY DEF TypeOK, OthersSame, Told
<1>2. QED
  BY <1>1 DEF ToldStep

LEMMA ReturnedBlames ==
  ASSUME TypeOK, NEW c \in Clients, NEW ok \in BOOLEAN, Returned(c, ok)
  PROVE  /\ \A d \in Clients \ {c} : blamed'[d] = blamed[d]
         /\ blamed'[c] = (blamed[c] \/ ~ok)
BY DEF TypeOK, Returned

(* Every call of a backend records its error. *)
LEMMA CallsReturned ==
  ASSUME NEW c, NEW ok
  PROVE  /\ \A p : SendPointer(c, p, ok) => Returned(c, ok)
         /\ \A p, down : SendMouseButton(c, p, down, ok) => Returned(c, ok)
         /\ \A k, down : SendKey(c, k, down, ok) => Returned(c, ok)
BY DEF SendPointer, SendMouseButton, SendKey, SendInput

(* A handler that makes one call and answers with its result, or goes on   *)
(* when it succeeded.                                                      *)
LEMMA CallTold ==
  ASSUME TypeOK, NEW c \in Clients, Told(c), ~At(c, "idle"), ~Releases(req[c]),
         NEW ok \in BOOLEAN, Returned(c, ok),
         \/ Answer(c, ok)
         \/ Answer(c, FALSE)
         \/ ok /\ UNCHANGED answer /\ \E r : req' = [req EXCEPT ![c] = r]
  PROVE  ToldStep(c)
<1>1. ~blamed[c]
  BY DEF Told
<1>2. /\ \A d \in Clients \ {c} : blamed'[d] = blamed[d]
      /\ blamed'[c] = ~ok
  BY <1>1, ReturnedBlames
<1>3. CASE Answer(c, ok)
  BY <1>2, <1>3, AnswerTold
<1>4. CASE Answer(c, FALSE)
  BY <1>2, <1>4, AnswerTold
<1>5. CASE ok /\ UNCHANGED answer /\ \E r : req' = [req EXCEPT ![c] = r]
  <2>1. PICK r : req' = [req EXCEPT ![c] = r]
    BY <1>5
  <2>2. ~blamed'[c]
    BY <1>2, <1>5
  <2>3. QED
    BY <1>2, <1>5, <2>1, <2>2, GoOnTold
<1>6. QED
  BY <1>3, <1>4, <1>5
(* The calls of the pointer, of text and of the output: they answer or go  *)
(* on at once.                                                             *)
LEMMA OneCallTold ==
  ASSUME TypeOK, NEW c \in Clients, Told(c),
         \/ MoveToStart(c) \/ ButtonDown(c) \/ ButtonUp(c) \/ WheelY(c) \/ WheelX(c)
         \/ TypeText(c) \/ FullCapture(c)
  PROVE  ToldStep(c)
<1>1. ~At(c, "idle") /\ ~Releases(req[c])
  BY DEF MoveToStart, ButtonDown, ButtonUp, ReleaseAt, WheelY, WheelX, TypeText,
         FullCapture, At, Releases
<1>2. \A label : Goto(c, label) => UNCHANGED answer /\ \E r : req' = [req EXCEPT ![c] = r]
  BY DEF Goto
<1>3. \E ok \in BOOLEAN :
        /\ Returned(c, ok)
        /\ \/ Answer(c, ok)
           \/ Answer(c, FALSE)
           \/ ok /\ UNCHANGED answer /\ \E r : req' = [req EXCEPT ![c] = r]
  <2>1. CASE MoveToStart(c) \/ WheelY(c) \/ WheelX(c)
    BY <1>2, <2>1, CallsReturned DEF MoveToStart, WheelY, WheelX
  <2>2. CASE ButtonDown(c)
    BY <1>2, <2>2, CallsReturned DEF ButtonDown
  <2>3. CASE ButtonUp(c)
    <3>1. PICK ok \in BOOLEAN :
            /\ Returned(c, ok)
            /\ IF ok /\ req[c].cmd.op = "double" /\ req[c].step = 1
                 THEN /\ req' = [req EXCEPT ![c].pc = "map", ![c].step = 2, ![c].target = <<>>]
                      /\ UNCHANGED answer
                 ELSE Answer(c, ok)
      BY <2>3, CallsReturned DEF ButtonUp, ReleaseAt
    <3>2. QED
      BY <3>1
  <2>4. CASE TypeText(c) \/ FullCapture(c)
    BY <2>4 DEF TypeText, FullCapture
  <2>5. QED
    BY <2>1, <2>2, <2>3, <2>4
<1>4. QED
  BY <1>1, <1>3, CallTold

(* A chord keeps the error of a press or of a release until it answers. *)
LEMMA ChordTold ==
  ASSUME TypeOK, NEW c \in Clients, Told(c),
         PressKey(c) \/ ReleaseKey(c) \/ KeysReleased(c)
  PROVE  ToldStep(c)
<1>1. ~At(c, "idle") /\ req[c] \in Request
  BY DEF PressKey, PressUpTo, ReleaseKey, ReleaseTopKey, KeysReleased, At, TypeOK
<1>2. CASE PressKey(c)
  <2>1. ~Releases(req[c])
    BY <1>2 DEF PressKey, PressUpTo, At, Releases
  <2>2. CASE Returned(c, TRUE) /\ UNCHANGED answer /\ \E r : req' = [req EXCEPT ![c] = r]
    BY <1>1, <2>1, <2>2, CallTold
  <2>3. CASE /\ Returned(c, FALSE) /\ UNCHANGED answer
             /\ req' = [req EXCEPT ![c].err = TRUE, ![c].pc = "release"]
    <3> DEFINE r == [req[c] EXCEPT !.err = TRUE, !.pc = "release"]
    <3>1. Releases(r) /\ req' = [req EXCEPT ![c] = r]
      BY <1>1, <2>3 DEF Request, Releases
    <3>2. \A d \in Clients \ {c} : blamed'[d] = blamed[d]
      BY <2>3, ReturnedBlames
    <3> HIDE DEF r
    <3>3. QED
      BY <1>1, <2>3, <3>1, <3>2, GoOnTold
  <2>4. QED
    BY <1>2, <2>2, <2>3, CallsReturned DEF PressKey, PressUpTo
<1>3. CASE ReleaseKey(c)
  <2>1. PICK ok \in BOOLEAN :
          /\ Returned(c, ok) /\ UNCHANGED answer
          /\ req' = [req EXCEPT ![c].depth = @ - 1, ![c].err = @ \/ ~ok]
    BY <1>3, CallsReturned DEF ReleaseKey, ReleaseTopKey
  <2> DEFINE r == [req[c] EXCEPT !.depth = @ - 1, !.err = @ \/ ~ok]
  <2>2. req' = [req EXCEPT ![c] = r]
    BY <2>1
  <2>3. r.pc = "release" /\ r.err = (req[c].err \/ ~ok)
    BY <1>1, <1>3 DEF ReleaseKey, ReleaseTopKey, At, Request
  <2>4. /\ \A d \in Clients \ {c} : blamed'[d] = blamed[d]
        /\ blamed'[c] = (blamed[c] \/ ~ok)
    BY <2>1, ReturnedBlames
  <2>5. blamed[c] => req[c].err
    BY <1>3 DEF ReleaseKey, ReleaseTopKey, Told, At, Releases
  <2> HIDE DEF r
  <2>6. blamed'[c] => Releases(r)
    BY <2>3, <2>4, <2>5 DEF Releases
  <2>7. QED
    BY <1>1, <2>1, <2>2, <2>4, <2>6, GoOnTold
<1>4. CASE KeysReleased(c)
  <2>1. blamed[c] => req[c].err
    BY <1>4 DEF KeysReleased, Told, At, Releases
  <2>2. Answer(c, ~req[c].err) /\ UNCHANGED blamed
    BY <1>4 DEF KeysReleased, hist
  <2>3. (~req[c].err) \in BOOLEAN
    OBVIOUS
  <2>4. QED
    BY <2>1, <2>2, <2>3, AnswerTold
<1>5. QED
  BY <1>2, <1>3, <1>4

(* A drag's failed move leads to the release, whose request has failed     *)
(* whatever the release returns; a point that cannot be mapped and a crop  *)
(* that is refused are answered.                                           *)
LEMMA OtherTold ==
  ASSUME TypeOK, NEW c \in Clients, Told(c),
         MapPoint(c) \/ DragMove(c) \/ DragAbort(c) \/ WaitDone(c) \/ NativeCrop(c)
  PROVE  ToldStep(c)
<1>1. ~At(c, "idle") /\ req[c] \in Request
  BY DEF MapPoint, DragMove, DragMoveOr, DragAbort, WaitDone, NativeCrop, At, TypeOK
<1>2. CASE MapPoint(c)
  <2>1. ~Releases(req[c]) /\ ~blamed[c]
    BY <1>1, <1>2 DEF MapPoint, At, Releases, Told
  <2>2. CASE UNCHANGED <<answer, blamed>> /\ \E r : req' = [req EXCEPT ![c] = r]
    <3>1. PICK r : req' = [req EXCEPT ![c] = r]
      BY <2>2
    <3>2. QED
      BY <1>1, <2>1, <2>2, <3>1, GoOnTold
  <2>3. CASE Answer(c, FALSE) /\ Returned(c, FALSE)
    BY <1>1, <2>1, <2>3, CallTold
  <2>4. QED
    BY <1>2, <2>2, <2>3 DEF MapPoint
<1>3. CASE DragMove(c)
  <2>1. ~Releases(req[c])
    BY <1>3 DEF DragMove, DragMoveOr, At, Releases
  <2>2. CASE Returned(c, TRUE) /\ UNCHANGED answer /\ \E r : req' = [req EXCEPT ![c] = r]
    BY <1>1, <2>1, <2>2, CallTold
  <2>3. CASE /\ Returned(c, FALSE) /\ UNCHANGED answer
             /\ req' = [req EXCEPT ![c].step = @ + 1, ![c].pc = "abort"]
    <3> DEFINE r == [req[c] EXCEPT !.step = @ + 1, !.pc = "abort"]
    <3>1. Releases(r) /\ req' = [req EXCEPT ![c] = r]
      BY <1>1, <2>3 DEF Request, Releases
    <3>2. \A d \in Clients \ {c} : blamed'[d] = blamed[d]
      BY <2>3, ReturnedBlames
    <3> HIDE DEF r
    <3>3. QED
      BY <1>1, <2>3, <3>1, <3>2, GoOnTold
  <2>4. QED
    BY <1>3, <2>2, <2>3, CallsReturned DEF DragMove, DragMoveOr
<1>4. CASE DragAbort(c)
  <2>1. PICK ok \in BOOLEAN : Returned(c, ok)
    BY <1>4, CallsReturned DEF DragAbort
  <2>2. QED
    BY <1>4, <2>1, ReturnedBlames, AnswerTold DEF DragAbort
<1>5. CASE WaitDone(c)
  <2>1. ~blamed[c] /\ UNCHANGED blamed /\ Answer(c, TRUE)
    BY <1>1, <1>5 DEF WaitDone, At, Releases, Told, hist
  <2>2. QED
    BY <2>1, AnswerTold
<1>6. CASE NativeCrop(c)
  <2>1. ~Releases(req[c]) /\ ~blamed[c]
    BY <1>1, <1>6 DEF NativeCrop, At, Releases, Told
  <2>2. CASE \E ok \in BOOLEAN : Answer(c, ok) /\ Returned(c, ok)
    BY <1>1, <2>1, <2>2, CallTold
  <2>3. CASE Goto(c, "full") /\ UNCHANGED blamed
    <3>1. \E r : req' = [req EXCEPT ![c] = r]
      BY <2>3 DEF Goto
    <3>2. PICK r : req' = [req EXCEPT ![c] = r]
      BY <3>1
    <3>3. QED
      BY <1>1, <2>1, <2>3, <3>2, GoOnTold DEF Goto
  <2>4. QED
    BY <1>6, <2>2, <2>3 DEF NativeCrop
<1>7. QED
  BY <1>2, <1>3, <1>4, <1>5, <1>6

LEMMA StartTold ==
  ASSUME TypeOK, NEW c \in Clients, NEW m \in Commands, Start(c, m)
  PROVE  ToldStep(c)
<1>1. /\ \A d \in Clients \ {c} : blamed'[d] = blamed[d]
      /\ ~blamed'[c]
  BY DEF Start, TypeOK
<1>2. CASE Answer(c, FALSE)
  BY <1>1, <1>2, AnswerTold
<1>3. CASE /\ req' = [req EXCEPT ![c] = [NewRequest(m) EXCEPT !.pc = FirstCall(m)]]
           /\ answer' = [answer EXCEPT ![c] = "none"]
  <2>1. OthersSame(c) /\ answer'[c] = "none"
    BY <1>1, <1>3 DEF TypeOK, OthersSame
  <2>2. QED
    BY <1>1, <2>1 DEF ToldStep
<1>4. QED
  BY <1>2, <1>3 DEF Start

(* Whatever fails and however the requests interleave, no error of a       *)
(* backend is lost on its way to the answer: "ok" means that every call of *)
(* the request succeeded, the releases of a chord included.                *)
THEOREM ErrorsReported == Spec => []OkMeansNoFailure
<1> DEFINE AllTold == \A d \in Clients : Told(d)
<1>1. Init => AllTold
  BY NoRequestType DEF Init, Told, At
<1>2. IInv /\ AllTold /\ [Next]_vars => AllTold'
  <2> SUFFICES ASSUME TypeOK, AllTold, [Next]_vars PROVE AllTold'
    BY DEF IInv
  <2>1. CASE UNCHANGED <<req, answer, blamed>>
    BY <2>1 DEF Told, At, Releases
  <2>2. CASE Resize \/ UNCHANGED vars
    BY <2>1, <2>2 DEF Resize, vars, hist
  <2>3. ASSUME NEW c \in Clients, ToldStep(c) PROVE AllTold'
    BY <2>3, ToldKept
  <2>4. ASSUME NEW c \in Clients, Step(c) PROVE AllTold'
    BY <2>3, <2>4, OneCallTold, ChordTold, OtherTold DEF Step
  <2>5. ASSUME NEW c \in Clients, NEW m \in Commands, Start(c, m) PROVE AllTold'
    BY <2>3, <2>5, StartTold
  <2>6. QED
    BY <2>2, <2>4, <2>5 DEF Next
<1>3. AllTold => OkMeansNoFailure
  BY DEF Told, OkMeansNoFailure
<1>4. QED
  BY <1>1, <1>2, <1>3, Invariance, PTL DEF Spec
-----------------------------------------------------------------------------
(* Where the pointer is when a button goes up: the request's last event    *)
(* went to the point it has reached.                                       *)
Reached(c) ==
  /\ At(c, "down") => sent[c] = req[c].target[1]
  /\ At(c, "drag") \/ At(c, "abort") => sent[c] = req[c].target[req[c].step]
  /\ At(c, "up") => sent[c] = req[c].target[Len(req[c].target)]

OneMoves(c) ==
  \A d \in Clients \ {c} : req'[d] = req[d] /\ sent'[d] = sent[d]

(* The labels at which Reached says nothing. *)
Elsewhere(c) == req'[c].pc \notin {"down", "drag", "abort", "up"}

LEMMA SentTo ==
  ASSUME TypeOK, NEW c \in Clients, NEW ok, NEW p,
         SendPointer(c, p, ok) \/ \E down : SendMouseButton(c, p, down, ok)
  PROVE  sent'[c] = p /\ \A d \in Clients \ {c} : sent'[d] = sent[d]
BY DEF TypeOK, SendPointer, SendMouseButton

LEMMA AnswerElsewhere ==
  ASSUME TypeOK, NEW c \in Clients, NEW ok, Answer(c, ok)
  PROVE  Elsewhere(c) /\ \A d \in Clients \ {c} : req'[d] = req[d]
BY NoRequestType DEF TypeOK, Answer, Elsewhere

LEMMA GotoChange ==
  ASSUME TypeOK, NEW c \in Clients, NEW label, Goto(c, label)
  PROVE  /\ \A d \in Clients \ {c} : req'[d] = req[d]
         /\ req'[c].pc = label /\ req'[c].target = req[c].target
         /\ req'[c].step = req[c].step /\ req'[c].cmd = req[c].cmd
BY DEF TypeOK, Goto, Request

LEMMA PointerReached ==
  ASSUME IInv, NEW c \in Clients, Reached(c),
         MoveToStart(c) \/ ButtonDown(c) \/ DragMove(c)
  PROVE  OneMoves(c) /\ Reached(c)'
<1>1. TypeOK /\ ReqOK(req[c]) /\ req[c] \in Request
  BY DEF IInv, ReqOK
<1>2. CASE MoveToStart(c)
  <2>1. PICK ok \in BOOLEAN :
          /\ SendPointer(c, req[c].target[1], ok)
          /\ Goto(c, "down") \/ Answer(c, ok)
    BY <1>2 DEF MoveToStart
  <2>2. OneMoves(c) /\ sent'[c] = req[c].target[1]
    BY <1>1, <2>1, SentTo, GotoChange, AnswerElsewhere DEF OneMoves
  <2>3. Elsewhere(c) \/ (req'[c].pc = "down" /\ req'[c].target = req[c].target)
    BY <1>1, <2>1, GotoChange, AnswerElsewhere
  <2>4. QED
    BY <2>2, <2>3 DEF Reached, At, Elsewhere
<1>3. CASE ButtonDown(c)
  <2>1. PICK ok \in BOOLEAN :
          /\ SendMouseButton(c, req[c].target[1], TRUE, ok)
          /\ IF ok THEN Goto(c, IF req[c].cmd.op = "drag" THEN "drag" ELSE "up")
                   ELSE Answer(c, FALSE)
    BY <1>3 DEF ButtonDown
  <2>2. OneMoves(c) /\ sent'[c] = req[c].target[1]
    <3>1. \/ Goto(c, IF req[c].cmd.op = "drag" THEN "drag" ELSE "up")
          \/ Answer(c, FALSE)
      BY <2>1
    <3>2. \A d \in Clients \ {c} : req'[d] = req[d]
      BY <1>1, <3>1, GotoChange, AnswerElsewhere
    <3>3. QED
      <4>1. \E down : SendMouseButton(c, req[c].target[1], down, ok)
        BY <2>1
      <4>2. sent'[c] = req[c].target[1] /\ \A d \in Clients \ {c} : sent'[d] = sent[d]
        BY <1>1, <4>1, SentTo
      <4>3. QED
        BY <3>2, <4>2 DEF OneMoves
  <2>3. /\ req[c].cmd.op \in {"click", "double", "drag"}
        /\ req[c].cmd.op = "drag" => req[c].step = 1
        /\ req[c].cmd.op # "drag" => Len(req[c].target) = 1
    <3>1. /\ req[c].pc = "down" /\ FitsOp(req[c]) /\ InRange(req[c])
          /\ req[c].cmd \in Commands
      BY <1>1, <1>3 DEF ButtonDown, At, ReqOK, Request
    <3>2. req[c].cmd.op \in {"click", "double"} => Len(req[c].cmd.path) = 1
      BY <3>1, CommandType
    <3>3. QED
      BY <3>1, <3>2 DEF FitsOp, InRange
  <2>4. \/ Elsewhere(c)
        \/ /\ req[c].cmd.op = "drag" /\ req'[c].pc = "drag"
           /\ req'[c].target = req[c].target /\ req'[c].step = req[c].step
        \/ /\ req[c].cmd.op # "drag" /\ req'[c].pc = "up"
           /\ req'[c].target = req[c].target
    BY <1>1, <2>1, GotoChange, AnswerElsewhere
  <2>5. QED
    BY <2>2, <2>3, <2>4 DEF Reached, At, Elsewhere
<1>4. CASE DragMove(c)
  <2> DEFINE k == req[c].step + 1
             next == IF k < Len(req[c].target) THEN "drag" ELSE "up"
  <2>1. k \in 1..Len(req[c].target) /\ req[c].target \in Seq(Targets)
    BY <1>1, <1>4 DEF DragMove, DragMoveOr, At, ReqOK, InRange, Request
  <2>2. \/ /\ SendPointer(c, req[c].target[k], TRUE)
           /\ req' = [req EXCEPT ![c].step = k, ![c].pc = next]
        \/ /\ SendPointer(c, req[c].target[k], FALSE)
           /\ req' = [req EXCEPT ![c].step = k, ![c].pc = "abort"]
    BY <1>4 DEF DragMove, DragMoveOr
  <2>3. next = "drag" \/ (next = "up" /\ k = Len(req[c].target))
    BY <2>1
  <2> HIDE DEF k, next
  <2>4. OneMoves(c) /\ sent'[c] = req[c].target[k]
    BY <1>1, <2>2, SentTo DEF OneMoves, TypeOK
  <2>5. /\ req'[c].target = req[c].target /\ req'[c].step = k
        /\ req'[c].pc \in {next, "abort"}
    <3>1. CASE req' = [req EXCEPT ![c].step = k, ![c].pc = next]
      BY <1>1, <3>1 DEF TypeOK, Request
    <3>2. CASE req' = [req EXCEPT ![c].step = k, ![c].pc = "abort"]
      BY <1>1, <3>2 DEF TypeOK, Request
    <3>3. QED
      BY <2>2, <3>1, <3>2
  <2>6. QED
    BY <2>3, <2>4, <2>5 DEF Reached, At
<1>5. QED
  BY <1>2, <1>3, <1>4

(* The other steps end at a label where nothing is said of the pointer. *)
LEMMA OtherReached ==
  ASSUME IInv, NEW c \in Clients,
         \/ MapPoint(c) \/ DragAbort(c) \/ ButtonUp(c) \/ WheelY(c) \/ WheelX(c)
         \/ PressKey(c) \/ ReleaseKey(c) \/ KeysReleased(c)
         \/ TypeText(c) \/ WaitDone(c) \/ NativeCrop(c) \/ FullCapture(c)
         \/ \E m \in Commands : Start(c, m)
  PROVE  OneMoves(c) /\ Reached(c)'
<1>1. TypeOK /\ req[c] \in Request
  BY DEF IInv, ReqOK
<1>2. (\A d \in Clients \ {c} : sent'[d] = sent[d])
  BY <1>1, SentTo
     DEF MapPoint, DragAbort, ButtonUp, ReleaseAt, WheelY, WheelX, PressKey, PressUpTo,
         ReleaseKey, ReleaseTopKey, KeysReleased, TypeText, WaitDone, NativeCrop,
         FullCapture, Start, SendKey, TypeOK, hist
<1>3. Elsewhere(c) /\ \A d \in Clients \ {c} : req'[d] = req[d]
  <2>1. CASE DragAbort(c) \/ WheelX(c) \/ KeysReleased(c) \/ TypeText(c) \/ WaitDone(c)
             \/ FullCapture(c)
    BY <1>1, <2>1, AnswerElsewhere
       DEF DragAbort, WheelX, KeysReleased, TypeText, WaitDone, FullCapture
  <2>2. CASE WheelY(c) \/ NativeCrop(c)
    BY <1>1, <2>2, AnswerElsewhere, GotoChange DEF WheelY, NativeCrop, Elsewhere
  <2>3. CASE PressKey(c) \/ ReleaseKey(c)
    <3>1. CASE PressKey(c)
      <4>1. \E k, next : /\ next \in {"press", "release"}
                         /\ \/ req' = [req EXCEPT ![c].depth = k, ![c].pc = next]
                            \/ req' = [req EXCEPT ![c].err = TRUE, ![c].pc = next]
        BY <3>1 DEF PressKey, PressUpTo
      <4>2. QED
        BY <1>1, <4>1 DEF TypeOK, Request, Elsewhere
    <3>2. CASE ReleaseKey(c)
      <4>1. req[c].pc = "release"
            /\ \E k, e : req' = [req EXCEPT ![c].depth = k, ![c].err = e]
        BY <3>2 DEF ReleaseKey, ReleaseTopKey, At
      <4>2. QED
        BY <1>1, <4>1 DEF TypeOK, Request, Elsewhere
    <3>3. QED
      BY <2>3, <3>1, <3>2
  <2>4. CASE ButtonUp(c)
    BY <1>1, <2>4, AnswerElsewhere DEF ButtonUp, ReleaseAt, TypeOK, Request, Elsewhere
  <2>5. CASE \E m \in Commands : Start(c, m)
    <3>1. PICK m \in Commands :
            \/ Answer(c, FALSE)
            \/ req' = [req EXCEPT ![c] = [NewRequest(m) EXCEPT !.pc = FirstCall(m)]]
      BY <2>5 DEF Start
    <3>2. CASE Answer(c, FALSE)
      BY <1>1, <3>2, AnswerElsewhere
    <3>3. CASE req' = [req EXCEPT ![c] = [NewRequest(m) EXCEPT !.pc = FirstCall(m)]]
      <4>1. /\ req'[c].pc = FirstCall(m)
            /\ \A d \in Clients \ {c} : req'[d] = req[d]
        BY <1>1, <3>3 DEF TypeOK, NewRequest
      <4>2. QED
        BY <4>1, FirstCallType DEF Elsewhere
    <3>4. QED
      BY <3>1, <3>2, <3>3
  <2>6. CASE MapPoint(c)
    <3> DEFINE m == req[c].cmd
               k == Len(req[c].target) + 1
               next == IF k < Len(m.path) THEN "map"
                       ELSE IF m.op # "scroll" THEN "move"
                       ELSE IF "y" \in m.wheel THEN "wheelY" ELSE "wheelX"
    <3>1. \/ Answer(c, FALSE)
          \/ req' = [req EXCEPT ![c].target = Append(@, <<m.path[k], frame>>),
                                ![c].pc = next]
      BY <2>6 DEF MapPoint
    <3>2. next \notin {"down", "drag", "abort", "up"}
      OBVIOUS
    <3> HIDE DEF next, k, m
    <3>3. QED
      BY <1>1, <3>1, <3>2, AnswerElsewhere DEF TypeOK, Request, Elsewhere
  <2>7. QED
    BY <2>1, <2>2, <2>3, <2>4, <2>5, <2>6
<1>4. QED
  BY <1>2, <1>3 DEF OneMoves, Reached, At, Elsewhere

(* A button goes up at the point the request's pointer last went to,       *)
(* whatever other requests do and however the frame size changes between   *)
(* the mapping of its points and the release.                              *)
THEOREM ReleasesThere == Spec => ReleasedWhereItWent
<1> DEFINE AllReached == \A d \in Clients : Reached(d)
           Stays == \A c \in Clients :
             req[c].pc \in {"up", "abort"} /\ req'[c] # req[c] => sent'[c] = sent[c]
<1>1. Init => AllReached
  BY NoRequestType DEF Init, Reached, At
<1>2. ASSUME IInv, AllReached, NEW c \in Clients, OneMoves(c), Reached(c)'
      PROVE  AllReached'
  BY <1>2 DEF OneMoves, Reached, At
<1>3. IInv /\ AllReached /\ [Next]_vars => AllReached'
  <2> SUFFICES ASSUME IInv, AllReached, [Next]_vars PROVE AllReached'
    OBVIOUS
  <2>1. CASE Resize \/ UNCHANGED vars
    BY <2>1 DEF Resize, vars, hist, Reached, At
  <2>2. ASSUME NEW c \in Clients, Step(c) PROVE AllReached'
    BY <1>2, <2>2, PointerReached, OtherReached DEF Step
  <2>3. ASSUME NEW c \in Clients, NEW m \in Commands, Start(c, m) PROVE AllReached'
    BY <1>2, <2>3, OtherReached
  <2>4. QED
    BY <2>1, <2>2, <2>3 DEF Next
<1>4. IInv /\ AllReached /\ [Next]_vars => Stays
  <2> SUFFICES ASSUME IInv, AllReached, [Next]_vars, NEW c \in Clients,
                      req[c].pc \in {"up", "abort"}, req'[c] # req[c]
               PROVE  sent'[c] = sent[c]
    OBVIOUS
  <2>1. TypeOK
    BY DEF IInv
  <2>2. ~Resize /\ ~UNCHANGED vars
    BY DEF Resize, vars
  <2>3. ASSUME NEW d \in Clients, Step(d) \/ \E m \in Commands : Start(d, m) PROVE d = c
    <3>1. OneMoves(d)
      BY <2>3, PointerReached, OtherReached DEF Step
    <3>2. QED
      BY <3>1 DEF OneMoves
  <2>4. DragAbort(c) \/ ButtonUp(c)
    <3>1. Step(c) \/ \E m \in Commands : Start(c, m)
      BY <2>2, <2>3 DEF Next
    <3>2. QED
      BY <3>1
         DEF Step, Start, MapPoint, MoveToStart, ButtonDown, DragMove, DragMoveOr, WheelY,
             WheelX, PressKey, PressUpTo, ReleaseKey, ReleaseTopKey, KeysReleased,
             TypeText, WaitDone, NativeCrop, FullCapture, At
  <2>5. CASE DragAbort(c)
    <3>1. At(c, "abort") /\ \E ok : SendMouseButton(c, req[c].target[req[c].step], FALSE, ok)
      BY <2>5 DEF DragAbort
    <3>2. QED
      BY <2>1, <3>1, SentTo DEF Reached
  <2>6. CASE ButtonUp(c)
    <3>1. At(c, "up") /\ \E ok : SendMouseButton(c, req[c].target[Len(req[c].target)], FALSE, ok)
      BY <2>6 DEF ButtonUp, ReleaseAt
    <3>2. QED
      BY <2>1, <3>1, SentTo DEF Reached
  <2>7. QED
    BY <2>4, <2>5, <2>6
<1>5. QED
  BY <1>1, <1>3, <1>4, Invariance, PTL DEF Spec, ReleasedWhereItWent

-----------------------------------------------------------------------------
(* A request that has the service for itself: what is down is what it has  *)
(* pressed, all of it while it presses, and every other goroutine is idle. *)
Exact(r, down) ==
  /\ down \subseteq OwnedBy(r)
  /\ r.pc = "press" => down = OwnedBy(r)
  /\ r.pc \in {"drag", "up"} => down = {r.cmd.button}

Solo(c) ==
  alone[c] => /\ Exact(req[c], held)
              /\ \A d \in Clients \ {c} : At(d, "idle")

(* What AloneMeansExact says of a step: when the pressing ends the whole   *)
(* chord is down, and a button is down for the command it began with.      *)
AllPressed(c) ==
  alone'[c] => /\ req[c].pc = "press" /\ req'[c].pc = "release"
                    => held' = KeysOf(req[c].cmd.chord)
               /\ req'[c].pc \in {"drag", "up"} => req'[c].cmd = req[c].cmd

(* A step of c keeps the others where they are, and keeps it exact. *)
ExactStep(c) ==
  /\ \A d \in Clients \ {c} : req'[d] = req[d] /\ alone'[d] = alone[d]
  /\ alone'[c] => /\ alone[c]
                  /\ Exact(req[c], held) => Exact(req'[c], held') /\ AllPressed(c)

LEMMA ReturnedAlone ==
  ASSUME TypeOK, NEW c \in Clients, NEW ok \in BOOLEAN, Returned(c, ok)
  PROVE  /\ \A d \in Clients \ {c} : alone'[d] = alone[d]
         /\ alone'[c] => ok /\ alone[c]
BY DEF TypeOK, Returned

(* What a request has down, by the place where it is. *)
LEMMA OwnedThere ==
  ASSUME NEW r
  PROVE  /\ r.pc \in {"press", "release"} => OwnedBy(r) = {r.cmd.chord[k] : k \in 1..r.depth}
         /\ r.pc \in {"drag", "abort", "up"} => OwnedBy(r) = {r.cmd.button}
         /\ r.pc \notin {"press", "release", "drag", "abort", "up"} => OwnedBy(r) = {}
BY DEF OwnedBy

(* The actions after which a request that is alone has nothing down. *)
LEMMA NothingDownExact ==
  ASSUME IInv, NEW c \in Clients,
         \/ MapPoint(c) \/ MoveToStart(c) \/ DragAbort(c) \/ ButtonUp(c)
         \/ WheelY(c) \/ WheelX(c) \/ KeysReleased(c)
         \/ TypeText(c) \/ WaitDone(c) \/ NativeCrop(c) \/ FullCapture(c)
  PROVE  ExactStep(c)
<1>1. TypeOK /\ req[c] \in Request
  BY DEF IInv, ReqOK
<1>2. /\ \A d \in Clients \ {c} : req'[d] = req[d]
      /\ req'[c].pc \notin {"press", "release", "drag", "abort", "up"}
  <2>1. \A ok : Answer(c, ok) =>
          /\ \A d \in Clients \ {c} : req'[d] = req[d]
          /\ req'[c].pc = "idle"
    BY <1>1, NoRequestType DEF Answer, TypeOK
  <2>2. CASE DragAbort(c) \/ WheelX(c) \/ KeysReleased(c) \/ TypeText(c) \/ WaitDone(c)
             \/ FullCapture(c)
    BY <2>1, <2>2 DEF DragAbort, WheelX, KeysReleased, TypeText, WaitDone, FullCapture
  <2>3. CASE MoveToStart(c) \/ WheelY(c) \/ NativeCrop(c)
    BY <1>1, <2>1, <2>3, GotoChange DEF MoveToStart, WheelY, NativeCrop
  <2>4. CASE ButtonUp(c)
    BY <1>1, <2>1, <2>4 DEF ButtonUp, ReleaseAt, TypeOK, Request
  <2>5. CASE MapPoint(c)
    <3> DEFINE m == req[c].cmd
               k == Len(req[c].target) + 1
               next == IF k < Len(m.path) THEN "map"
                       ELSE IF m.op # "scroll" THEN "move"
                       ELSE IF "y" \in m.wheel THEN "wheelY" ELSE "wheelX"
    <3>1. \/ Answer(c, FALSE)
          \/ req' = [req EXCEPT ![c].target = Append(@, <<m.path[k], frame>>),
                                ![c].pc = next]
      BY <2>5 DEF MapPoint
    <3>2. next \notin {"press", "release", "drag", "abort", "up"}
      OBVIOUS
    <3> HIDE DEF next, k, m
    <3>3. CASE req' = [req EXCEPT ![c].target = Append(@, <<m.path[k], frame>>),
                                  ![c].pc = next]
      BY <1>1, <3>2, <3>3 DEF TypeOK, Request
    <3>4. QED
      BY <2>1, <3>1, <3>3
  <2>6. QED
    BY <2>2, <2>3, <2>4, <2>5
<1>3. /\ \A d \in Clients \ {c} : alone'[d] = alone[d]
      /\ alone'[c] => alone[c]
      /\ alone'[c] /\ Exact(req[c], held) => held' = {}
  <2>1. CASE MapPoint(c) \/ MoveToStart(c) \/ WheelY(c) \/ WheelX(c) \/ WaitDone(c)
             \/ NativeCrop(c) \/ FullCapture(c)
    <3>1. /\ held' = held
          /\ req[c].pc \notin {"press", "release", "drag", "abort", "up"}
      BY <2>1 DEF MapPoint, MoveToStart, WheelY, WheelX, WaitDone, NativeCrop, FullCapture,
                  At, SendPointer
    <3>2. alone' = alone \/ \E ok \in BOOLEAN : Returned(c, ok)
      BY <2>1, CallsReturned
         DEF MapPoint, MoveToStart, WheelY, WheelX, WaitDone, NativeCrop, FullCapture, hist
    <3>3. QED
      BY <1>1, <3>1, <3>2, OwnedThere, ReturnedAlone DEF Exact
  <2>2. CASE DragAbort(c) \/ ButtonUp(c)
    <3>1. PICK ok \in BOOLEAN : \E p : SendMouseButton(c, p, FALSE, ok)
      BY <2>2 DEF DragAbort, ButtonUp, ReleaseAt
    <3>2. OwnedBy(req[c]) = {req[c].cmd.button}
      BY <2>2, OwnedThere DEF DragAbort, ButtonUp, ReleaseAt, At
    <3>3. Returned(c, ok) /\ (ok => held' = held \ {req[c].cmd.button})
      BY <3>1 DEF SendMouseButton, SendInput
    <3>4. QED
      BY <1>1, <3>2, <3>3, ReturnedAlone DEF Exact
  <2>3. CASE TypeText(c)
    <3>1. PICK ok \in BOOLEAN : Returned(c, ok) /\ (ok => held' \subseteq held)
      BY <2>3 DEF TypeText
    <3>2. OwnedBy(req[c]) = {}
      BY <2>3, OwnedThere DEF TypeText, At
    <3>3. QED
      BY <1>1, <3>1, <3>2, ReturnedAlone DEF Exact
  <2>4. CASE KeysReleased(c)
    <3>1. /\ UNCHANGED <<held, alone>>
          /\ req[c].pc = "release" /\ req[c].depth = 0
      BY <2>4 DEF KeysReleased, At, hist
    <3>2. OwnedBy(req[c]) = {}
      BY <3>1, OwnedThere
    <3>3. QED
      BY <3>1, <3>2 DEF Exact
  <2>5. QED
    BY <2>1, <2>2, <2>3, <2>4
<1>4. QED
  BY <1>2, <1>3 DEF ExactStep, Exact, AllPressed

LEMMA ButtonExact ==
  ASSUME IInv, NEW c \in Clients, ButtonDown(c) \/ DragMove(c)
  PROVE  ExactStep(c)
<1>1. TypeOK /\ ReqOK(req[c]) /\ req[c] \in Request
  BY DEF IInv, ReqOK
<1>2. CASE ButtonDown(c)
  <2>1. PICK ok \in BOOLEAN :
          /\ SendMouseButton(c, req[c].target[1], TRUE, ok)
          /\ \/ ok /\ Goto(c, IF req[c].cmd.op = "drag" THEN "drag" ELSE "up")
             \/ ~ok /\ Answer(c, FALSE)
    BY <1>2 DEF ButtonDown
  <2>2. \A d \in Clients \ {c} : req'[d] = req[d]
    BY <1>1, <2>1, GotoChange, AnswerElsewhere
  <2>3. ok => req'[c].pc \in {"drag", "up"} /\ req'[c].cmd = req[c].cmd
    BY <1>1, <2>1, GotoChange
  <2>4. /\ \A d \in Clients \ {c} : alone'[d] = alone[d]
        /\ alone'[c] => ok /\ alone[c]
    BY <1>1, <2>1, CallsReturned, ReturnedAlone
  <2>5. ok => held' = held \union {req[c].cmd.button}
    BY <2>1 DEF SendMouseButton, SendInput
  <2>6. req[c].pc = "down" /\ OwnedBy(req[c]) = {}
    BY <1>2, OwnedThere DEF ButtonDown, At
  <2>7. ok => OwnedBy(req'[c]) = {req[c].cmd.button}
    BY <2>3, OwnedThere
  <2>8. QED
    BY <2>2, <2>3, <2>4, <2>5, <2>6, <2>7 DEF ExactStep, Exact, AllPressed
<1>3. CASE DragMove(c)
  <2> DEFINE k == req[c].step + 1
             next == IF k < Len(req[c].target) THEN "drag" ELSE "up"
  <2>1. PICK ok \in BOOLEAN :
          /\ SendPointer(c, req[c].target[k], ok)
          /\ \/ ok /\ req' = [req EXCEPT ![c].step = k, ![c].pc = next]
             \/ ~ok /\ req' = [req EXCEPT ![c].step = k, ![c].pc = "abort"]
    BY <1>3 DEF DragMove, DragMoveOr
  <2>2. next \in {"drag", "up"}
    OBVIOUS
  <2> HIDE DEF k, next
  <2>3. \A d \in Clients \ {c} : req'[d] = req[d]
    BY <1>1, <2>1 DEF TypeOK
  <2>4. ok => req'[c].pc = next /\ req'[c].cmd = req[c].cmd
    BY <1>1, <2>1 DEF TypeOK, Request
  <2>5. /\ \A d \in Clients \ {c} : alone'[d] = alone[d]
        /\ alone'[c] => ok /\ alone[c]
    BY <1>1, <2>1, CallsReturned, ReturnedAlone
  <2>6. held' = held /\ req[c].pc = "drag"
    BY <1>3, <2>1 DEF SendPointer, DragMove, DragMoveOr, At
  <2>7. ok => OwnedBy(req'[c]) = {req[c].cmd.button}
    BY <2>2, <2>4, OwnedThere
  <2>8. QED
    BY <2>2, <2>3, <2>4, <2>5, <2>6, <2>7 DEF ExactStep, Exact, AllPressed
<1>4. QED
  BY <1>2, <1>3

LEMMA ChordExact ==
  ASSUME IInv, NEW c \in Clients, PressKey(c) \/ ReleaseKey(c)
  PROVE  ExactStep(c)
<1> DEFINE chord == req[c].cmd.chord
           upTo(n) == {chord[j] : j \in 1..n}
<1>1. /\ TypeOK /\ req[c] \in Request /\ InRange(req[c])
      /\ req[c].depth \in Nat /\ Len(chord) \in Nat
  BY RequestFacts DEF IInv, Request
<1>2. CASE PressKey(c)
  <2> DEFINE k == req[c].depth + 1
             next == IF k < Len(chord) THEN "press" ELSE "release"
  <2>1. req[c].pc = "press" /\ k \in 1..Len(chord)
    BY <1>1, <1>2 DEF PressKey, PressUpTo, At, InRange
  <2>2. PICK ok \in BOOLEAN :
          /\ SendKey(c, chord[k], TRUE, ok)
          /\ \/ ok /\ req' = [req EXCEPT ![c].depth = k, ![c].pc = next]
             \/ ~ok /\ req' = [req EXCEPT ![c].err = TRUE, ![c].pc = "release"]
    BY <1>2 DEF PressKey, PressUpTo
  <2>3. upTo(k) = upTo(req[c].depth) \union {chord[k]}
    <3>1. 1..k = 1..req[c].depth \union {k}
      BY <1>1
    <3>2. QED
      BY <3>1
  <2>4. next \in {"press", "release"} /\ (next = "release" => k = Len(chord))
    BY <2>1
  <2> HIDE DEF k, next
  <2>5. \A d \in Clients \ {c} : req'[d] = req[d]
    BY <1>1, <2>2 DEF TypeOK
  <2>6. ok => req'[c].pc = next /\ req'[c].cmd = req[c].cmd /\ req'[c].depth = k
    BY <1>1, <2>2 DEF TypeOK, Request
  <2>7. /\ \A d \in Clients \ {c} : alone'[d] = alone[d]
        /\ alone'[c] => ok /\ alone[c]
    BY <1>1, <2>2, CallsReturned, ReturnedAlone
  <2>8. ok => held' = held \union {chord[k]}
    BY <2>2 DEF SendKey, SendInput
  <2>9. OwnedBy(req[c]) = upTo(req[c].depth)
    BY <2>1, OwnedThere
  <2>10. ok => OwnedBy(req'[c]) = upTo(k)
    BY <2>4, <2>6, OwnedThere
  <2>11. next = "release" => upTo(k) = KeysOf(chord)
    BY <2>4 DEF KeysOf
  <2> HIDE DEF upTo
  <2>12. alone'[c] /\ Exact(req[c], held) => held' = upTo(k)
    BY <2>1, <2>3, <2>7, <2>8, <2>9 DEF Exact
  <2>13. alone'[c] /\ Exact(req[c], held) => Exact(req'[c], held')
    BY <2>4, <2>6, <2>7, <2>10, <2>12 DEF Exact
  <2>14. Exact(req[c], held) => AllPressed(c)
    BY <2>6, <2>7, <2>11, <2>12 DEF AllPressed
  <2>15. QED
    BY <2>5, <2>7, <2>13, <2>14 DEF ExactStep
<1>3. CASE ReleaseKey(c)
  <2> DEFINE k == req[c].depth
  <2>1. req[c].pc = "release" /\ k \in Nat \ {0}
    BY <1>1, <1>3 DEF ReleaseKey, ReleaseTopKey, At
  <2>2. PICK ok \in BOOLEAN :
          /\ SendKey(c, chord[k], FALSE, ok)
          /\ \E e : req' = [req EXCEPT ![c].depth = k - 1, ![c].err = e]
    BY <1>3 DEF ReleaseKey, ReleaseTopKey
  <2>3. upTo(k) \subseteq upTo(k - 1) \union {chord[k]}
    <3>1. 1..k = 1..(k - 1) \union {k}
      BY <2>1
    <3>2. QED
      BY <3>1
  <2> DEFINE less == k - 1
  <2>4. \A d \in Clients \ {c} : req'[d] = req[d]
    BY <1>1, <2>2 DEF TypeOK
  <2> HIDE DEF less
  <2>5. req'[c].pc = "release" /\ req'[c].cmd = req[c].cmd /\ req'[c].depth = less
    <3>1. PICK e : req' = [req EXCEPT ![c].depth = less, ![c].err = e]
      BY <2>2 DEF less
    <3>2. QED
      BY <1>1, <2>1, <3>1 DEF TypeOK, Request
  <2>6. /\ \A d \in Clients \ {c} : alone'[d] = alone[d]
        /\ alone'[c] => ok /\ alone[c]
    BY <1>1, <2>2, CallsReturned, ReturnedAlone
  <2>7. ok => held' = held \ {chord[k]}
    BY <2>2 DEF SendKey, SendInput
  <2>8. OwnedBy(req[c]) = upTo(k)
    BY <2>1, OwnedThere
  <2>9. OwnedBy(req'[c]) = upTo(less)
    BY <2>5, OwnedThere
  <2>10. upTo(k) \subseteq upTo(less) \union {chord[k]}
    BY <2>3 DEF less
  <2> HIDE DEF upTo
  <2>11. QED
    BY <2>1, <2>4, <2>5, <2>6, <2>7, <2>8, <2>9, <2>10 DEF ExactStep, Exact, AllPressed
<1>4. QED
  BY <1>2, <1>3

(* A request that starts is alone only if every other goroutine is idle    *)
(* and nothing is down, and nobody else is alone any more.                 *)
LEMMA StartSolo ==
  ASSUME IInv, NEW c \in Clients, NEW m \in Commands, Start(c, m)
  PROVE  \A d \in Clients : Solo(d)' /\ AllPressed(d)
<1>1. TypeOK
  BY DEF IInv
<1>2. /\ \A d \in Clients \ {c} : req'[d] = req[d] /\ ~alone'[d]
      /\ alone'[c] => held' = {} /\ \A d \in Clients : At(d, "idle")
      /\ At(c, "idle")
  BY <1>1, AnswerElsewhere DEF Start, TypeOK
<1>3. Exact(req'[c], {}) /\ req'[c].pc \notin {"drag", "up"}
  <2>1. CASE Answer(c, FALSE)
    BY <1>1, <2>1, NoRequestType DEF Answer, TypeOK, Exact
  <2>2. CASE req' = [req EXCEPT ![c] = [NewRequest(m) EXCEPT !.pc = FirstCall(m)]]
    <3>1. req'[c].pc = FirstCall(m) /\ req'[c].depth = 0
      BY <1>1, <2>2 DEF TypeOK, NewRequest
    <3>2. FirstCall(m) = "press" => OwnedBy(req'[c]) = {}
      BY <3>1, OwnedThere
    <3>3. QED
      BY <3>1, <3>2, FirstCallType DEF Exact
  <2>3. QED
    BY <2>1, <2>2 DEF Start
<1>4. QED
  BY <1>2, <1>3 DEF Solo, AllPressed, At

LEMMA StepSolo ==
  ASSUME IInv, \A d \in Clients : Solo(d), NEW c \in Clients, Step(c)
  PROVE  \A d \in Clients : Solo(d)' /\ AllPressed(d)
<1>1. ExactStep(c)
  BY NothingDownExact, ButtonExact, ChordExact DEF Step
<1>2. ~At(c, "idle")
  BY DEF Step, MapPoint, MoveToStart, ButtonDown, DragMove, DragMoveOr, DragAbort, ButtonUp,
         ReleaseAt, WheelY, WheelX, PressKey, PressUpTo, ReleaseKey, ReleaseTopKey,
         KeysReleased, TypeText, WaitDone, NativeCrop, FullCapture, At
<1>3. ASSUME NEW d \in Clients, d # c PROVE ~alone'[d]
  BY <1>1, <1>2, <1>3 DEF ExactStep, Solo
<1>4. Solo(c)' /\ AllPressed(c)
  BY <1>1 DEF ExactStep, Solo, At, AllPressed
<1>5. QED
  BY <1>3, <1>4 DEF Solo, AllPressed

(* A request that has the service for itself shows the desktop exactly     *)
(* what it says: its whole chord is down before a key of it goes up, its   *)
(* button is down from the press to the release, and nothing else is.      *)
THEOREM AloneIsExact == Spec => AloneMeansExact
<1> DEFINE AllSolo == \A d \in Clients : Solo(d)
           AllPressedThen == \A d \in Clients : AllPressed(d)
           Shown == \A c \in Clients : alone'[c] =>
             /\ held' \subseteq OwnedBy(req'[c])
             /\ req[c].pc = "press" /\ req'[c].pc = "release"
                  => held' = KeysOf(req[c].cmd.chord)
             /\ req'[c].pc \in {"drag", "up"} => held' = {req[c].cmd.button}
<1>1. Init => AllSolo
  BY DEF Init, Solo
<1>2. IInv /\ AllSolo /\ [Next]_vars => AllSolo' /\ (AllPressedThen \/ UNCHANGED vars)
  <2> SUFFICES ASSUME IInv, AllSolo, [Next]_vars
               PROVE  AllSolo' /\ (AllPressedThen \/ UNCHANGED vars)
    OBVIOUS
  <2>1. CASE Resize \/ UNCHANGED vars
    BY <2>1 DEF Resize, vars, hist, Solo, At, AllPressed
  <2>2. ASSUME NEW c \in Clients, Step(c) PROVE AllSolo' /\ AllPressedThen
    BY <2>2, StepSolo
  <2>3. ASSUME NEW c \in Clients, NEW m \in Commands, Start(c, m)
        PROVE  AllSolo' /\ AllPressedThen
    BY <2>3, StartSolo
  <2>4. QED
    BY <2>1, <2>2, <2>3 DEF Next
<1>3. AllSolo' /\ AllPressedThen => Shown
  <2> SUFFICES ASSUME AllSolo', AllPressedThen, NEW c \in Clients, alone'[c]
               PROVE  /\ held' \subseteq OwnedBy(req'[c])
                      /\ req[c].pc = "press" /\ req'[c].pc = "release"
                           => held' = KeysOf(req[c].cmd.chord)
                      /\ req'[c].pc \in {"drag", "up"} => held' = {req[c].cmd.button}
    OBVIOUS
  <2>1. Exact(req'[c], held')
    BY DEF Solo
  <2>2. AllPressed(c)
    OBVIOUS
  <2>3. /\ held' \subseteq OwnedBy(req'[c])
        /\ req'[c].pc \in {"drag", "up"} => held' = {req[c].cmd.button}
    BY <2>1, <2>2 DEF Exact, AllPressed
  <2>4. req[c].pc = "press" /\ req'[c].pc = "release" => held' = KeysOf(req[c].cmd.chord)
    BY <2>2 DEF AllPressed
  <2>5. QED
    BY <2>3, <2>4
<1>4. IInv /\ AllSolo /\ [Next]_vars => AllSolo' /\ [Shown]_vars
  BY <1>2, <1>3
<1>5. QED
  BY <1>1, <1>4, Invariance, PTL DEF Spec, AloneMeansExact
=============================================================================
