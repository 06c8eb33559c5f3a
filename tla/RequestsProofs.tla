---------------------------- MODULE RequestsProofs ----------------------------
(***************************************************************************)
(* Proofs about Requests, for any configuration of tokens, any clients and *)
(* any requests: what reaches the desktop was allowed to, numbers end up   *)
(* where they point, and texts arrive as they were given.                  *)
(***************************************************************************)
EXTENDS Requests, WellFoundedInduction, SequenceTheorems, FiniteSetTheorems, TLAPS

(* The state of a client is a record with the fields of Idle. *)
Fields == {"req", "pc", "todo", "got", "clean", "missed", "touched", "seen"}
Shape ==
  /\ client = [c \in Clients |-> client[c]]
  /\ \A c \in Clients : DOMAIN client[c] = Fields

TokensOK ==
  /\ \E n \in Nat : DOMAIN tokens = 1..n
  /\ \A i \in DOMAIN tokens : tokens[i].scopes \subseteq [verb : STRING, resource : STRING]

(* A request that sends, or has sent, was allowed its scope. *)
Granted(c) ==
  client[c].pc = "sending" \/ client[c].touched =>
    /\ client[c].req \in RequestsOf[c]
    /\ Authorize(tokens, client[c].req.surface, client[c].req.bearer, ScopeOf[client[c].req.op])
         = "allowed"

IInv ==
  /\ Shape /\ TokensOK
  /\ \A c \in Clients :
       Granted(c) /\ (client[c].touched => client[c].pc \notin {"bad", "unauthorized", "forbidden"})

(***************************************************************************)
(* Authorization.                                                          *)
(***************************************************************************)

(* A set of natural numbers that is not empty has a least one. *)
LEMMA HasLeast ==
  ASSUME NEW S \in SUBSET Nat, S # {}
  PROVE  \E x \in S : \A y \in S : x =< y
<1> DEFINE Less == {p \in Nat \X Nat : p[1] < p[2]}
<1>1. IsWellFoundedOn(Less, Nat)
  BY NatLessThanWellFounded DEF OpToRel
<1>2. S \subseteq Nat
  OBVIOUS
<1> HIDE DEF Less
<1>3. PICK x \in S : \A y \in S : <<y, x>> \notin Less
  BY <1>1, <1>2, WFMin, Zenon
<1>4. \A y \in S : <<y, x>> \in Less <=> y < x
  BY DEF Less
<1>5. \A y \in S : ~(y < x)
  BY <1>3, <1>4
<1>6. \A y \in S : x =< y
  BY <1>5
<1>7. QED
  BY <1>6

LEMMA LeastIsIn ==
  ASSUME NEW S \in SUBSET Nat, S # {}
  PROVE  Min(S) \in S
BY HasLeast DEF Min

(* A grant that allows what an operation needs is one the documentation    *)
(* names for it.                                                           *)
LEMMA AllowedIsDocumented ==
  ASSUME NEW op \in DOMAIN ScopeOf, NEW grant \in [verb : STRING, resource : STRING],
         ScopeAllows(grant, ScopeOf[op])
  PROVE  grant \in Documented(op)
<1>1. grant = [verb |-> grant.verb, resource |-> grant.resource]
  OBVIOUS
<1>2. \/ grant = All
      \/ grant = ScopeOf[op]
      \/ grant.resource = "*" /\ grant.verb = ScopeOf[op].verb
  BY DEF ScopeAllows
<1>3. op \in {"screenshot", "click", "move", "scroll", "keypress", "type"}
  BY DEF ScopeOf
<1>4. /\ ScopeOf["screenshot"] = Scope("read", "screenshot")
      /\ ScopeOf["click"] = Scope("write", "mouse") /\ ScopeOf["move"] = Scope("write", "mouse")
      /\ ScopeOf["scroll"] = Scope("write", "mouse")
      /\ ScopeOf["keypress"] = Scope("write", "keyboard") /\ ScopeOf["type"] = Scope("write", "keyboard")
  BY DEF ScopeOf
<1>5. \A verb, resource : Scope(verb, resource).verb = verb
  BY DEF Scope
<1>6. grant.resource = "*" => grant = Scope(grant.verb, "*")
  BY <1>1 DEF Scope
<1>7. QED
  BY <1>2, <1>3, <1>4, <1>5, <1>6 DEF Documented

(* The entry that is found has the bearer, the audience and the scope. *)
LEMMA AllowedByAnEntry ==
  ASSUME TokensOK, tokens # <<>>, NEW surface \in Audiences, NEW bearer, NEW op \in DOMAIN ScopeOf,
         Authorize(tokens, surface, bearer, ScopeOf[op]) = "allowed"
  PROVE  \E i \in DOMAIN tokens :
           /\ tokens[i].value = bearer /\ surface \in tokens[i].audience
           /\ tokens[i].scopes \cap Documented(op) # {}
<1> DEFINE hits == Hits(tokens, surface, bearer)
<1>1. hits # {} /\ ScopesAllow(FindToken(tokens, hits).scopes, ScopeOf[op])
  BY DEF Authorize, AuthorizeRequest
<1>2. hits \in SUBSET Nat /\ hits \subseteq DOMAIN tokens
  BY DEF TokensOK, Hits
<1>3. Min(hits) \in hits
  BY <1>1, <1>2, LeastIsIn
<1>4. PICK i \in DOMAIN tokens :
        tokens[i].value = bearer /\ surface \in tokens[i].audience /\ i = Min(hits)
  BY <1>3 DEF Hits
<1>5. PICK grant \in tokens[i].scopes : ScopeAllows(grant, ScopeOf[op])
  BY <1>1, <1>4 DEF FindToken, ScopesAllow
<1>6. grant \in [verb : STRING, resource : STRING]
  BY <1>4, <1>5 DEF TokensOK
<1>7. grant \in Documented(op)
  BY <1>5, <1>6, AllowedIsDocumented
<1>8. QED
  BY <1>4, <1>5, <1>7

(***************************************************************************)
(* The invariant.                                                          *)
(***************************************************************************)
LEMMA IdleShape == DOMAIN Idle = Fields /\ ~Idle.touched /\ Idle.pc = "idle"
BY DEF Idle, Fields

(* The initial states satisfy the inductive invariant. *)
THEOREM InitIInv == Init => IInv
<1> SUFFICES ASSUME Init PROVE IInv
  OBVIOUS
<1>1. PICK entries \in Configs : tokens = Stored(entries)
  BY DEF Init
<1>2. DOMAIN tokens = 1..Len(entries) /\ Len(entries) \in Nat
  BY <1>1, RequestsAssumption DEF Stored
<1>3. ASSUME NEW i \in DOMAIN tokens PROVE tokens[i].scopes = entries[i].scopes
  BY <1>1, RequestsAssumption DEF Stored
<1>4. DOMAIN tokens = DOMAIN entries
  BY <1>1 DEF Stored
<1>5. TokensOK
  BY <1>2, <1>3, <1>4, RequestsAssumption DEF TokensOK
<1>6. client = [c \in Clients |-> Idle]
  BY DEF Init
<1>7. QED
  BY <1>5, <1>6, IdleShape DEF IInv, Shape, Granted

(* One client changes, its request stays or is new. *)
LEMMA OneClient ==
  ASSUME IInv, NEW c \in Clients, NEW x, UNCHANGED tokens,
         client' = [client EXCEPT ![c] = x], DOMAIN x = Fields,
         x.pc = "sending" \/ x.touched =>
           /\ x.req \in RequestsOf[c]
           /\ Authorize(tokens, x.req.surface, x.req.bearer, ScopeOf[x.req.op]) = "allowed",
         x.touched => x.pc \notin {"bad", "unauthorized", "forbidden"}
  PROVE  IInv'
<1>1. client'[c] = x /\ \A d \in Clients : d # c => client'[d] = client[d]
  BY DEF IInv, Shape
<1>2. Shape'
  BY <1>1 DEF IInv, Shape
<1>3. TokensOK'
  BY DEF IInv, TokensOK
<1>4. QED
  BY <1>1, <1>2, <1>3 DEF IInv, Granted

LEMMA ReceiveStep ==
  ASSUME IInv, NEW c \in Clients, Receive(c)
  PROVE  IInv'
<1> DEFINE verdict(r) == Authorize(tokens, r.surface, r.bearer, ScopeOf[r.op])
<1>1. PICK r \in RequestsOf[c] :
        \E out \in IF verdict(r) = "allowed" THEN Outcomes(r) ELSE {Ends(verdict(r))} :
          client' = [client EXCEPT ![c] = [Idle EXCEPT !.req = r, !.pc = out.answer, !.todo = out.todo]]
  BY DEF Receive
<1>2. PICK out \in IF verdict(r) = "allowed" THEN Outcomes(r) ELSE {Ends(verdict(r))} :
        client' = [client EXCEPT ![c] = [Idle EXCEPT !.req = r, !.pc = out.answer, !.todo = out.todo]]
  BY <1>1
<1> DEFINE x == [Idle EXCEPT !.req = r, !.pc = out.answer, !.todo = out.todo]
<1>3. DOMAIN x = Fields /\ x.req = r /\ x.pc = out.answer /\ ~x.touched
  BY DEF Idle, Fields
<1>4. verdict(r) # "allowed" => out.answer # "sending"
  BY <1>2 DEF Ends, Authorize, AuthorizeRequest
<1>5. UNCHANGED tokens
  BY DEF Receive
<1> HIDE DEF x
<1>6. client' = [client EXCEPT ![c] = x]
  BY <1>2 DEF x
<1>7. QED
  BY <1>3, <1>4, <1>5, <1>6, OneClient

LEMMA ReplyStep ==
  ASSUME IInv, NEW c \in Clients, Reply(c)
  PROVE  IInv'
BY IdleShape, OneClient DEF Reply

LEMMA SendStep ==
  ASSUME IInv, NEW c \in Clients, Send(c)
  PROVE  IInv'
<1> DEFINE rest == Tail(client[c].todo)
           pressed == Press(Head(client[c].todo), keys, client[c].req.op = "type")
           x == Sent(c, rest, pressed.got)
<1>1. client' = [client EXCEPT ![c] = x] /\ client[c].pc = "sending" /\ UNCHANGED tokens
  BY DEF Send
<1>2. DOMAIN client[c] = Fields
  BY DEF IInv, Shape
<1>3. DOMAIN x = Fields /\ x.req = client[c].req /\ x.pc = AfterBurst(rest)
  BY <1>2 DEF Fields, Sent
<1>4. AfterBurst(rest) \in {"ok", "sending"}
  BY DEF AfterBurst
<1> HIDE DEF x, rest, pressed
<1>5. QED
  BY <1>1, <1>3, <1>4, OneClient DEF IInv, Granted

(* The ways in which a call ends without sending. *)
LEMMA EndStep ==
  ASSUME IInv, NEW c \in Clients, Refuse(c) \/ SendFails(c)
  PROVE  IInv'
<1>1. client[c].pc = "sending" /\ UNCHANGED tokens /\ DOMAIN client[c] = Fields
  BY DEF Refuse, SendFails, Return, IInv, Shape
<1>2. CASE \E answer \in {"unsupported", "unavailable"} : Return(c, answer)
  <2>1. PICK answer \in {"unsupported", "unavailable"} : Return(c, answer)
    BY <1>2
  <2> DEFINE x == [client[c] EXCEPT !.pc = answer, !.todo = <<>>]
  <2>2. client' = [client EXCEPT ![c] = x]
    BY <2>1 DEF Return
  <2>3. DOMAIN x = Fields /\ x.req = client[c].req /\ x.pc = answer /\ x.touched = client[c].touched
    BY <1>1 DEF Fields
  <2> HIDE DEF x
  <2>4. QED
    BY <1>1, <2>2, <2>3, OneClient DEF IInv, Granted
<1>3. CASE client' = [client EXCEPT ![c].todo = Tail(@), ![c].missed = TRUE]
  <2> DEFINE x == [client[c] EXCEPT !.todo = Tail(client[c].todo), !.missed = TRUE]
  <2>1. client' = [client EXCEPT ![c] = x]
    BY <1>3 DEF IInv, Shape
  <2>2. DOMAIN x = Fields /\ x.req = client[c].req /\ x.pc = "sending" /\ x.touched = client[c].touched
    BY <1>1 DEF Fields
  <2> HIDE DEF x
  <2>3. QED
    BY <1>1, <2>1, <2>2, OneClient DEF IInv, Granted
<1>4. QED
  BY <1>2, <1>3 DEF Refuse, SendFails

(* Every step keeps the inductive invariant. *)
THEOREM NextIInv == IInv /\ [Next]_vars => IInv'
<1> SUFFICES ASSUME IInv, [Next]_vars PROVE IInv'
  OBVIOUS
<1>1. CASE UNCHANGED vars
  BY <1>1 DEF vars, IInv, Shape, TokensOK, Granted
<1>2. CASE \E c \in Clients : Receive(c) \/ Send(c) \/ Refuse(c) \/ SendFails(c) \/ Reply(c)
  BY <1>2, ReceiveStep, SendStep, EndStep, ReplyStep
<1>3. QED
  BY <1>1, <1>2 DEF Next

(* The inductive invariant holds. *)
THEOREM Invariance == Spec => []IInv
<1>1. QED
  BY InitIInv, NextIInv, PTL DEF Spec

(* For every configuration of tokens and every request: what reaches the   *)
(* desktop was allowed by an entry with its bearer, its surface and a      *)
(* scope that the documentation names for the operation.                   *)
THEOREM ScopesHold == Spec => []NothingWithoutScope
<1>1. ASSUME IInv PROVE NothingWithoutScope
  <2> SUFFICES ASSUME NEW c \in Clients, client[c].touched
               PROVE  /\ client[c].pc \notin {"bad", "unauthorized", "forbidden"}
                      /\ (tokens # <<>> /\ client[c].req.surface \in Audiences) =>
                           \E i \in DOMAIN tokens :
                             /\ tokens[i].value = client[c].req.bearer
                             /\ client[c].req.surface \in tokens[i].audience
                             /\ tokens[i].scopes \cap Documented(client[c].req.op) # {}
    BY DEF NothingWithoutScope
  <2>1. client[c].pc \notin {"bad", "unauthorized", "forbidden"} /\ Granted(c)
    BY <1>1 DEF IInv
  <2>2. client[c].req.op \in DOMAIN ScopeOf
    BY <2>1, RequestsAssumption DEF Granted
  <2>3. TokensOK
    BY <1>1 DEF IInv
  <2>4. QED
    BY <2>1, <2>2, <2>3, AllowedByAnEntry DEF Granted
<1>2. QED
  BY <1>1, Invariance, PTL

(***************************************************************************)
(* Numbers: where a position, a rotation and a crop end up.                *)
(***************************************************************************)

(* Rounding moves a number by half at most. *)
LEMMA RoundIsNear ==
  ASSUME NEW half \in Int
  PROVE  Round(half) \in Int /\ 2 * Round(half) - half \in {-1, 0, 1}
BY DEF Round

(* What an int holds of it is it, unless it is the one that is let through *)
(* and does not fit.                                                       *)
LEMMA RoundIntIsRound ==
  ASSUME NEW half \in Int, NEW n \in RoundInt(half)
  PROVE  /\ n \in Int /\ MinInt <= n /\ n <= MaxInt
         /\ MinInt <= Round(half) /\ Round(half) <= MaxInt + 1
         /\ Round(half) # MaxInt + 1 => n = Round(half)
         /\ Round(half) = MaxInt + 1 => n \in {MinInt, MaxInt}
<1>1. Round(half) \in Int
  BY RoundIsNear
<1>2. QED
  BY <1>1, InputsAssumption DEF RoundInt, MinInt

LEMMA PositionMeets ==
  ASSUME NEW half \in Int, NEW p \in PositionsOf(desktop, half)
  PROVE  /\ p - half \in {-1, 0, 1}
         /\ desktop \in Rdp \cup {"vnc"} => p \in 0..(2 * MaxUint16)
<1>1. ASSUME NEW n \in RoundInt(half), n \in 0..MaxUint16 \/ n \in 0..(ScreenWidth - 1)
      PROVE  n = Round(half)
  BY <1>1, RoundIntIsRound, InputsAssumption DEF MinInt
<1>2. CASE desktop \in Rdp \cup {"vnc"}
  <2>1. PICK n \in RoundInt(half) : n \in 0..MaxUint16 /\ p = 2 * n
    BY <1>2 DEF PositionsOf, FitUint16, Rdp
  <2>2. QED
    BY <1>1, <2>1, RoundIsNear, InputsAssumption
<1>3. CASE desktop = "windows"
  <2>1. PICK n \in RoundInt(half) : n \in 0..(ScreenWidth - 1) /\ p = 2 * n
    BY <1>3 DEF PositionsOf, Rdp
  <2>2. QED
    BY <1>1, <1>3, <2>1, RoundIsNear, InputsAssumption DEF Rdp
<1>4. CASE desktop \notin Rdp \cup {"vnc", "windows"}
  <2>1. p = half
    BY <1>4 DEF PositionsOf, Rdp
  <2>2. QED
    BY <1>4, <2>1
<1>5. QED
  BY <1>2, <1>3, <1>4

(* A sum of two ints is taken around the ends of int. *)
LEMMA WrapIs ==
  ASSUME NEW n \in Int, MinInt + MinInt <= n, n <= MaxInt + MaxInt
  PROVE  /\ n > MaxInt => Wrap(n) = n - 2 * (MaxInt + 1)
         /\ n < MinInt => Wrap(n) = n + 2 * (MaxInt + 1)
         /\ MinInt <= n /\ n <= MaxInt => Wrap(n) = n
<1>1. MaxInt \in Nat /\ MaxInt > 0
  BY InputsAssumption
<1> DEFINE m == n - MinInt
           size == 2 * (MaxInt + 1)
<1>2. m \in Int /\ size \in Nat /\ size > 0 /\ -size <= m /\ m < 2 * size
  BY <1>1 DEF MinInt
<1>3. /\ m < 0 <=> n < MinInt
      /\ m >= size <=> n > MaxInt
  BY <1>1 DEF MinInt
<1>4. Wrap(n) = (m % size) + MinInt
  BY DEF Wrap
<1>5. m = n - MinInt /\ size = 2 * (MaxInt + 1)
  OBVIOUS
<1> HIDE DEF m, size
<1>6. m % size = IF m < 0 THEN m + size ELSE IF m >= size THEN m - size ELSE m
  BY <1>2
<1>7. QED
  BY <1>1, <1>2, <1>3, <1>4, <1>5, <1>6 DEF MinInt

LEMMA Int32Is ==
  ASSUME NEW n \in (-MaxInt32 - 1)..MaxInt32
  PROVE  Int32(n) = n
<1> DEFINE m == n + MaxInt32 + 1
           size == 2 * (MaxInt32 + 1)
<1>1. m \in Int /\ 0 <= m /\ m < size /\ size \in Int /\ size > 0
  BY InputsAssumption
<1> HIDE DEF m, size
<1>2. m % size = m
  BY <1>1
<1>3. QED
  BY <1>2, InputsAssumption DEF Int32, m, size

LEMMA Uint32Is ==
  ASSUME NEW n \in 0..(2 * MaxInt32 + 1)
  PROVE  Uint32(n) = n
<1> DEFINE size == 2 * (MaxInt32 + 1)
<1>1. n \in Int /\ 0 <= n /\ n < size /\ size \in Int /\ size > 0
  BY InputsAssumption
<1> HIDE DEF size
<1>2. n % size = n
  BY <1>1
<1>3. QED
  BY <1>2 DEF Uint32, size

(* The wheel turns the way of the delta where the encoding has room.       *)
LEMMA RdpRotationSign ==
  ASSUME NEW delta \in (1 - WheelNegative)..(WheelNegative - 1), delta # 0
  PROVE  Sign(RdpReads(RdpWheelWord(delta))) = Sign(delta)
<1> DEFINE amount == IF delta < 0 THEN Negate(delta) ELSE delta
           size == 2 * WheelNegative
           field == amount % size
<1>1. WheelNegative \in Nat /\ WheelNegative > 0 /\ delta # MinInt /\ delta \in Int
  BY InputsAssumption DEF MinInt
<1>2. amount \in 1..(WheelNegative - 1) /\ size \in Nat /\ amount < size
  BY <1>1 DEF Negate
<1>3. RdpWheelWord(delta) = IF delta < 0 /\ field < WheelNegative THEN field + WheelNegative ELSE field
  BY DEF RdpWheelWord
<1>4. size = 2 * WheelNegative
  OBVIOUS
<1> HIDE DEF amount, size
<1>5. field = amount
  BY <1>2
<1> HIDE DEF field
<1>6. QED
  BY <1>1, <1>2, <1>3, <1>4, <1>5 DEF RdpReads, Sign

LEMMA DetentsSign ==
  ASSUME NEW delta \in Int, delta # 0
  PROVE  Sign(WheelSteps(delta)) = Sign(delta)
<1>1. Detent \in Nat /\ Detent > 1
  BY InputsAssumption
<1>2. CASE delta \in -(Detent - 1)..(Detent - 1)
  BY <1>2 DEF WheelSteps, Sign
<1>3. CASE delta >= Detent
  <2>1. delta \div Detent \in Int /\ delta \div Detent >= 1
    BY <1>1, <1>3
  <2>2. Sign(delta) = 1 /\ WheelSteps(delta) = 1 * ((1 * delta) \div Detent)
    BY <1>1, <1>3 DEF WheelSteps, Sign
  <2>3. QED
    BY <2>1, <2>2 DEF Sign
<1>4. CASE delta <= -Detent
  <2> DEFINE a == -delta
  <2>1. a \in Nat /\ a >= Detent
    BY <1>1, <1>4
  <2>2. Sign(delta) = -1 /\ WheelSteps(delta) = (-1) * (((-1) * delta) \div Detent) /\ (-1) * delta = a
    BY <1>1, <1>4 DEF WheelSteps, Sign
  <2> HIDE DEF a
  <2>3. a \div Detent \in Int /\ a \div Detent >= 1
    BY <1>1, <2>1
  <2>4. QED
    BY <2>2, <2>3 DEF Sign
<1>5. QED
  BY <1>1, <1>2, <1>3, <1>4

LEMMA RotationMeets ==
  ASSUME NEW half \in Int, NEW delta \in RoundInt(half), delta # 0, HasRoom(Round(half)),
         desktop \in Desktops
  PROVE  Sign(Rotation(desktop, delta)) = Sign(Round(half))
<1>1. Round(half) \in Int /\ delta \in Int
  BY RoundIsNear, RoundIntIsRound
<1>2. delta = Round(half)
  BY <1>1, RoundIntIsRound, InputsAssumption DEF HasRoom, MinInt
<1>3. CASE desktop \in Rdp
  BY <1>2, <1>3, RdpRotationSign DEF HasRoom, Rotation, Rdp
<1>4. CASE desktop = "vnc"
  BY <1>1, <1>2, <1>4 DEF Rotation, Rdp, Sign
<1>5. CASE desktop = "ydotool"
  BY <1>1, <1>2, <1>5, DetentsSign DEF Rotation, Rdp
<1>6. CASE desktop \notin Rdp \cup {"vnc", "ydotool"}
  <2>1. Rotation(desktop, delta) = Int32(delta)
    BY <1>6 DEF Rotation
  <2>2. CASE desktop \in {"eis", "windows", "macos"}
    BY <1>2, <1>6, <2>1, <2>2, Int32Is DEF HasRoom, Rdp
  <2>3. CASE desktop \notin {"eis", "windows", "macos"}
    BY <1>6, <2>3 DEF Desktops, Rdp
  <2>4. QED
    BY <2>2, <2>3
<1>7. QED
  BY <1>3, <1>4, <1>5, <1>6

(* A crop that is inside the screen is the one that was asked for: one     *)
(* that overflowed is not inside, and no edges were swapped.               *)
LEMMA CropMeets ==
  ASSUME NEW half \in Int, NEW wide \in Int, NEW x \in RoundInt(half), NEW w \in RoundInt(wide),
         NEW crop \in CropsOf(desktop, {"x", "w"}, x, w), Round(wide) > 0,
         desktop = "eis" => /\ Round(half) \in (-MaxInt32 - 1)..MaxInt32
                            /\ Round(wide) <= 2 * MaxInt32 + 1
  PROVE  /\ crop = <<Round(half), Round(half) + Round(wide)>>
         /\ desktop # "eis" => Inside(crop)
<1>1. /\ x \in Int /\ MinInt <= x /\ x <= MaxInt
      /\ w \in Int /\ MinInt <= w /\ w <= MaxInt
      /\ Round(half) \in Int /\ Round(wide) \in Int
  BY RoundIsNear, RoundIntIsRound
<1>2. CASE desktop = "eis"
  <2>1. x = Round(half) /\ w = Round(wide)
    BY <1>1, <1>2, RoundIntIsRound, InputsAssumption DEF MinInt
  <2>2. x \in (-MaxInt32 - 1)..MaxInt32 /\ w \in 0..(2 * MaxInt32 + 1) /\ w > 0
    BY <1>1, <1>2, <2>1, InputsAssumption
  <2>3. Int32(x) = x /\ Uint32(w) = w
    BY <2>2, Int32Is, Uint32Is
  <2>4. crop = <<Int32(x), Int32(x) + Uint32(w)>>
    BY <1>2, <2>2 DEF CropsOf
  <2>5. QED
    BY <1>2, <2>1, <2>3, <2>4
<1>3. CASE desktop # "eis"
  <2> DEFINE right == Wrap(x + w)
  <2>1. CropBounds({"x", "w"}, x, w) = <<x, right>>
    BY DEF CropBounds
  <2>2. Inside(crop) /\ crop \in {<<x, right>>, Canonical(<<x, right>>)}
    BY <1>3, <2>1 DEF CropsOf
  <2>3. right \in Int /\ (right = x + w \/ right = x + w - 2 * (MaxInt + 1) \/ right = x + w + 2 * (MaxInt + 1))
    BY <1>1, WrapIs, InputsAssumption DEF MinInt
  <2>4. /\ x + w > MaxInt => right = x + w - 2 * (MaxInt + 1)
        /\ x + w < MinInt => right = x + w + 2 * (MaxInt + 1)
        /\ MinInt <= x + w /\ x + w <= MaxInt => right = x + w
    BY <1>1, WrapIs, InputsAssumption DEF MinInt
  <2> HIDE DEF right
  <2>5. /\ 0 <= x /\ x <= ScreenWidth /\ 0 <= right /\ right <= ScreenWidth
        /\ crop = <<x, right>> \/ (crop = <<right, x>> /\ right < x)
    BY <1>1, <2>2, <2>3, InputsAssumption DEF Inside, Canonical
  <2>6. x = Round(half)
    BY <1>1, <2>5, RoundIntIsRound, InputsAssumption DEF MinInt
  <2>7. w = Round(wide)
    BY <1>1, <2>3, <2>4, <2>5, RoundIntIsRound, InputsAssumption DEF MinInt
  <2>8. right = x + w
    BY <1>1, <2>4, <2>5, <2>7, InputsAssumption DEF MinInt
  <2>9. QED
    BY <1>1, <1>3, <2>2, <2>5, <2>6, <2>7, <2>8
<1>4. QED
  BY <1>2, <1>3

LEMMA PairOfBursts == \A a, b : <<a>> \o <<b>> = <<a, b>> /\ <<>> \o <<b>> = <<b>>
<1> SUFFICES ASSUME NEW a, NEW b PROVE <<a>> \o <<b>> = <<a, b>> /\ <<>> \o <<b>> = <<b>>
  OBVIOUS
<1> DEFINE S == {a, b}
<1>1. <<a>> \in Seq(S) /\ <<b>> \in Seq(S) /\ <<>> \in Seq(S) /\ <<a, b>> \in Seq(S)
  OBVIOUS
<1>2. <<>> \o <<b>> = <<b>>
  BY <1>1
<1>3. <<a>> \o <<b>> = <<a, b>>
  <2>1. Append(<<a>>, b) = <<a>> \o <<b>>
    BY <1>1, AppendIsConcat
  <2>2. Append(<<a>>, b) = <<a, b>>
    <3> DEFINE s == Append(<<a>>, b)
               t == <<a, b>>
    <3>1. s \in Seq(S) /\ Len(s) = Len(<<a>>) + 1
          /\ (\A i \in 1..Len(<<a>>) : s[i] = <<a>>[i]) /\ s[Len(<<a>>) + 1] = b
      BY <1>1, AppendProperties
    <3>2. t \in Seq(S) /\ Len(t) = 2 /\ t[1] = a /\ t[2] = b /\ Len(<<a>>) = 1 /\ <<a>>[1] = a
      BY <1>1
    <3> HIDE DEF s, t, S
    <3>3. Len(s) = 2 /\ s[1] = a /\ s[2] = b
      BY <3>1, <3>2
    <3>4. \A i \in 1..Len(s) : s[i] = t[i]
      BY <3>2, <3>3
    <3>5. s = t
      BY <3>1, <3>2, <3>3, <3>4, SeqEqual
    <3>6. QED
      BY <3>5 DEF s, t
  <2>3. QED
    BY <2>1, <2>2
<1>4. QED
  BY <1>2, <1>3

(* Value v is what request r asked for. *)
Measured == {"move", "scroll", "screenshot"}
Meets(r, v) ==
  /\ r.op = "move" =>
       /\ v[1] - r.number \in {-1, 0, 1}
       /\ desktop \in Rdp \cup {"vnc"} => v[1] \in 0..(2 * MaxUint16)
  /\ r.op = "scroll" =>
       (HasRoom(Round(r.number)) => Sign(v[1]) = Sign(Round(r.number)))
  /\ (/\ r.op = "screenshot" /\ r.given = {"x", "w"} /\ Round(r.width) > 0
      /\ desktop = "eis" => /\ Round(r.number) \in (-MaxInt32 - 1)..MaxInt32
                            /\ Round(r.width) <= 2 * MaxInt32 + 1) =>
       /\ v = <<Round(r.number), Round(r.number) + Round(r.width)>>
       /\ desktop # "eis" => Inside(v)

(* The last burst of a request with numbers shows what it asked for; only  *)
(* the pointer moves before it.                                            *)
Shows(bursts, r) ==
  \E do \in {"point", "wheel", "frame"} : \E v :
    /\ v # <<>> /\ Meets(r, v)
    /\ bursts \in {<< <<Pointer(do, v)>> >>, << <<Pointer("point", <<0>>)>>, <<Pointer(do, v)>> >>}

NumbersInv ==
  /\ desktop \in Desktops
  /\ \A c \in Clients : client[c].req.op \in Measured =>
       /\ client[c].pc = "sending" => Shows(client[c].todo, client[c].req)
       /\ client[c].pc = "ok" => Meets(client[c].req, client[c].seen)

LEMMA MoveShows ==
  ASSUME NEW r, r.op = "move", r.number \in Int, NEW out \in Move(r.number), out.answer = "sending"
  PROVE  Shows(out.todo, r)
<1>1. PICK p \in PositionsOf(desktop, r.number) : out = Sends(<< <<Pointer("point", <<p>>)>> >>)
  <2>1. PositionsOf(desktop, r.number) # {}
    BY DEF Move, Ends
  <2>2. QED
    BY <2>1 DEF Move
<1> DEFINE v == <<p>>
<1>2. /\ p - r.number \in {-1, 0, 1}
      /\ desktop \in Rdp \cup {"vnc"} => p \in 0..(2 * MaxUint16)
  BY PositionMeets
<1>3. v[1] = p /\ v # <<>>
  OBVIOUS
<1> HIDE DEF v
<1>4. Meets(r, v)
  BY <1>2, <1>3 DEF Meets
<1>5. out.todo = << <<Pointer("point", v)>> >>
  BY <1>1 DEF Sends, v
<1>6. QED
  BY <1>3, <1>4, <1>5 DEF Shows

LEMMA ScrollShows ==
  ASSUME NEW r, r.op = "scroll", r.number \in Int, NEW out \in Scroll(r.number), out.answer = "sending",
         desktop \in Desktops
  PROVE  Shows(out.todo, r)
<1>1. PICK delta \in RoundInt(r.number) : out = ScrollBy(delta)
  BY DEF Scroll, Ends
<1> DEFINE turn == <<Rotation(desktop, delta)>>
<1>2. delta # 0 /\ out = Sends(PointFirst \o << <<Pointer("wheel", turn)>> >>)
  BY <1>1 DEF ScrollBy, Ends
<1>3. turn # <<>> /\ turn[1] = Rotation(desktop, delta)
  OBVIOUS
<1> HIDE DEF turn
<1>4. HasRoom(Round(r.number)) => Sign(turn[1]) = Sign(Round(r.number))
  BY <1>2, <1>3, RotationMeets
<1>5. Meets(r, turn)
  BY <1>4 DEF Meets
<1>6. out.todo = PointFirst \o << <<Pointer("wheel", turn)>> >>
  BY <1>2 DEF Sends
<1> DEFINE last == <<Pointer("wheel", turn)>>
           first == <<Pointer("point", <<0>>)>>
<1>7. PointFirst = <<>> \/ PointFirst = <<first>>
  BY DEF PointFirst
<1> HIDE DEF last, first
<1>8. out.todo = <<last>> \/ out.todo = <<first, last>>
  <2>1. out.todo = PointFirst \o <<last>>
    BY <1>6 DEF last
  <2>2. <<>> \o <<last>> = <<last>> /\ <<first>> \o <<last>> = <<first, last>>
    BY PairOfBursts
  <2>3. QED
    BY <1>7, <2>1, <2>2
<1>9. QED
  BY <1>3, <1>5, <1>8 DEF Shows, last, first

LEMMA ScreenshotShows ==
  ASSUME NEW r, r.op = "screenshot", r.number \in Int, r.width \in Int,
         NEW out \in Screenshot(r), out.answer = "sending"
  PROVE  Shows(out.todo, r)
<1>1. PICK x \in RoundInt(r.number), w \in RoundInt(r.width) : out \in Crop(x, w, r.given)
  BY DEF Screenshot, Ends
<1>2. PICK crop \in CropsOf(desktop, r.given, x, w) : out = Sends(<< <<Pointer("frame", crop)>> >>)
  BY <1>1 DEF Crop, Ends
<1>3. Meets(r, crop)
  <2> SUFFICES ASSUME r.given = {"x", "w"}, Round(r.width) > 0,
                      desktop = "eis" => /\ Round(r.number) \in (-MaxInt32 - 1)..MaxInt32
                                         /\ Round(r.width) <= 2 * MaxInt32 + 1
               PROVE  /\ crop = <<Round(r.number), Round(r.number) + Round(r.width)>>
                      /\ desktop # "eis" => Inside(crop)
    BY DEF Meets
  <2>1. crop \in CropsOf(desktop, {"x", "w"}, x, w)
    BY <1>2
  <2>2. QED
    BY <1>1, <2>1, CropMeets
<1>4. crop # <<>>
  <2>1. \E left, right : CropBounds(r.given, x, w) = <<left, right>>
    BY DEF CropBounds
  <2>2. PICK left, right : CropBounds(r.given, x, w) = <<left, right>>
    BY <2>1
  <2>3. Canonical(<<left, right>>) \in {<<left, right>>, <<right, left>>}
    BY DEF Canonical
  <2>4. crop \in {<<left, right>>, <<right, left>>, <<Int32(x), Int32(x) + Uint32(w)>>}
    BY <1>2, <2>2, <2>3 DEF CropsOf
  <2>5. \A a, b : <<a, b>> # <<>>
    OBVIOUS
  <2>6. QED
    BY <2>4, <2>5, Zenon
<1>5. out.todo = << <<Pointer("frame", crop)>> >>
  BY <1>2 DEF Sends
<1>6. QED
  BY <1>3, <1>4, <1>5 DEF Shows

(* One client changes and nothing it is promised does. *)
LEMMA NumbersOfOne ==
  ASSUME IInv, NumbersInv, NEW c \in Clients, NEW x, UNCHANGED desktop,
         client' = [client EXCEPT ![c] = x],
         x.req.op \in Measured =>
           /\ x.pc = "sending" => Shows(x.todo, x.req)
           /\ x.pc = "ok" => Meets(x.req, x.seen)
  PROVE  NumbersInv'
<1>1. client'[c] = x /\ \A d \in Clients : d # c => client'[d] = client[d]
  BY DEF IInv, Shape
<1>3. QED
  BY <1>1 DEF NumbersInv, Shows, Meets, HasRoom

(* What comes of decoding a request is a refusal or something to send. *)
LEMMA OutcomeAnswers ==
  ASSUME NEW r, r.op \in DOMAIN ScopeOf, NEW out \in Outcomes(r)
  PROVE  out.answer \in {"sending", "bad", "unsupported"}
<1>1. /\ \A bursts : Sends(bursts).answer = "sending"
      /\ Ends("bad").answer = "bad" /\ Ends("unsupported").answer = "unsupported"
  BY DEF Sends, Ends
<1>2. CASE r.op = "screenshot"
  <2>1. out \in Screenshot(r)
    BY <1>2 DEF Outcomes
  <2>2. CASE out = Ends("bad")
    BY <1>1, <2>2
  <2>3. CASE \E x, w : out \in Crop(x, w, r.given)
    BY <1>1, <2>3 DEF Crop
  <2>4. QED
    BY <2>1, <2>2, <2>3 DEF Screenshot
<1>3. CASE r.op = "move"
  BY <1>1, <1>3 DEF Outcomes, Move
<1>4. CASE r.op = "scroll"
  BY <1>1, <1>4 DEF Outcomes, Scroll, ScrollBy
<1>5. CASE r.op = "click"
  BY <1>1, <1>5 DEF Outcomes, Click
<1>6. CASE r.op = "keypress"
  BY <1>1, <1>6 DEF Outcomes, Keypress
<1>7. CASE r.op = "type"
  BY <1>1, <1>7 DEF Outcomes, Type
<1>8. QED
  BY <1>2, <1>3, <1>4, <1>5, <1>6, <1>7 DEF ScopeOf

LEMMA ReceiveNumbers ==
  ASSUME IInv, NumbersInv, NEW c \in Clients, Receive(c)
  PROVE  NumbersInv'
<1> DEFINE verdict(r) == Authorize(tokens, r.surface, r.bearer, ScopeOf[r.op])
<1>1. PICK r \in RequestsOf[c] :
        \E out \in IF verdict(r) = "allowed" THEN Outcomes(r) ELSE {Ends(verdict(r))} :
          client' = [client EXCEPT ![c] = [Idle EXCEPT !.req = r, !.pc = out.answer, !.todo = out.todo]]
  BY DEF Receive
<1>2. PICK out \in IF verdict(r) = "allowed" THEN Outcomes(r) ELSE {Ends(verdict(r))} :
        client' = [client EXCEPT ![c] = [Idle EXCEPT !.req = r, !.pc = out.answer, !.todo = out.todo]]
  BY <1>1
<1> DEFINE x == [Idle EXCEPT !.req = r, !.pc = out.answer, !.todo = out.todo]
<1>3. x.req = r /\ x.pc = out.answer /\ x.todo = out.todo
  BY DEF Idle
<1>4. r.number \in Int /\ r.width \in Int /\ desktop \in Desktops
  BY RequestsAssumption DEF NumbersInv
<1>5. out.answer # "ok" /\ (out.answer = "sending" => out \in Outcomes(r))
  <2>1. CASE verdict(r) # "allowed"
    BY <1>2, <2>1 DEF Ends, Authorize, AuthorizeRequest
  <2>2. CASE out \in Outcomes(r)
    <3>1. out.answer \in {"sending", "bad", "unsupported"}
      BY <2>2, OutcomeAnswers, RequestsAssumption
    <3>2. QED
      BY <2>2, <3>1
  <2>3. QED
    BY <1>2, <2>1, <2>2
<1>6. ASSUME out.answer = "sending", r.op \in Measured PROVE Shows(out.todo, r)
  <2>1. CASE r.op = "move"
    BY <1>4, <1>5, <1>6, <2>1, MoveShows DEF Outcomes
  <2>2. CASE r.op = "scroll"
    BY <1>4, <1>5, <1>6, <2>2, ScrollShows DEF Outcomes
  <2>3. CASE r.op = "screenshot"
    BY <1>4, <1>5, <1>6, <2>3, ScreenshotShows DEF Outcomes
  <2>4. QED
    BY <1>6, <2>1, <2>2, <2>3 DEF Measured
<1>7. UNCHANGED desktop /\ client' = [client EXCEPT ![c] = x]
  BY <1>2 DEF Receive
<1> HIDE DEF x
<1>8. QED
  BY <1>3, <1>5, <1>6, <1>7, NumbersOfOne

(* What the client sees of the last burst. *)
LEMMA SendNumbers ==
  ASSUME IInv, NumbersInv, NEW c \in Clients, Send(c)
  PROVE  NumbersInv'
<1> DEFINE todo == client[c].todo
           r == client[c].req
           pressed == Press(Head(todo), keys, r.op = "type")
           x == Sent(c, Tail(todo), pressed.got)
<1>1. /\ client' = [client EXCEPT ![c] = x] /\ client[c].pc = "sending" /\ UNCHANGED desktop
      /\ DOMAIN client[c] = Fields
  BY DEF Send, IInv, Shape
<1>2. /\ x.req = r /\ x.todo = Tail(todo) /\ x.pc = AfterBurst(Tail(todo))
      /\ x.seen = IF Head(todo)[1].value # <<>> THEN Head(todo)[1].value ELSE client[c].seen
  BY <1>1 DEF Sent, Fields
<1> HIDE DEF pressed, x
<1>3. ASSUME r.op \in Measured
      PROVE  (x.pc = "sending" => Shows(x.todo, r)) /\ (x.pc = "ok" => Meets(r, x.seen))
  <2>1. PICK do \in {"point", "wheel", "frame"} : \E v :
          /\ v # <<>> /\ Meets(r, v)
          /\ todo \in {<< <<Pointer(do, v)>> >>, << <<Pointer("point", <<0>>)>>, <<Pointer(do, v)>> >>}
    BY <1>1, <1>3 DEF NumbersInv, Shows
  <2>2. PICK v :
          /\ v # <<>> /\ Meets(r, v)
          /\ todo \in {<< <<Pointer(do, v)>> >>, << <<Pointer("point", <<0>>)>>, <<Pointer(do, v)>> >>}
    BY <2>1
  <2> DEFINE last == <<Pointer(do, v)>>
  <2>3. last[1].value = v
    BY DEF Pointer
  <2>4. CASE todo = <<last>>
    <3>1. Tail(todo) = <<>> /\ Head(todo) = last
      BY <2>4
    <3>2. QED
      BY <1>2, <2>2, <2>3, <3>1 DEF AfterBurst
  <2>5. CASE todo = << <<Pointer("point", <<0>>)>>, last>>
    <3>1. Tail(todo) = <<last>>
      BY <2>5
    <3>2. Shows(<<last>>, r) /\ <<last>> # <<>>
      BY <2>2 DEF Shows
    <3>3. QED
      BY <1>2, <3>1, <3>2 DEF AfterBurst
  <2>6. QED
    BY <2>2, <2>4, <2>5
<1>4. QED
  BY <1>1, <1>2, <1>3, NumbersOfOne

LEMMA EndNumbers ==
  ASSUME IInv, NumbersInv, NEW c \in Clients, Refuse(c) \/ SendFails(c)
  PROVE  NumbersInv'
<1>1. client[c].pc = "sending" /\ UNCHANGED desktop /\ DOMAIN client[c] = Fields
  BY DEF Refuse, SendFails, Return, IInv, Shape
<1>2. CASE \E answer \in {"unsupported", "unavailable"} : Return(c, answer)
  <2>1. PICK answer \in {"unsupported", "unavailable"} :
          client' = [client EXCEPT ![c] = [client[c] EXCEPT !.pc = answer, !.todo = <<>>]]
    BY <1>2 DEF Return
  <2> DEFINE x == [client[c] EXCEPT !.pc = answer, !.todo = <<>>]
  <2>2. x.pc = answer
    BY <1>1 DEF Fields
  <2> HIDE DEF x
  <2>3. client' = [client EXCEPT ![c] = x]
    BY <2>1 DEF x
  <2>4. QED
    BY <1>1, <2>2, <2>3, NumbersOfOne
<1>3. CASE Head(client[c].todo)[1].do = "release" /\ client' = [client EXCEPT ![c].todo = Tail(@), ![c].missed = TRUE]
  <2> DEFINE x == [client[c] EXCEPT !.todo = Tail(client[c].todo), !.missed = TRUE]
  <2>1. client' = [client EXCEPT ![c] = x] /\ x.req = client[c].req /\ x.pc = "sending"
    BY <1>1, <1>3 DEF Fields
  <2>2. client[c].req.op \notin Measured
    <3>1. SUFFICES ASSUME Shows(client[c].todo, client[c].req) PROVE FALSE
      BY <1>1 DEF NumbersInv
    <3>2. PICK do \in {"point", "wheel", "frame"} : \E v :
            client[c].todo \in {<< <<Pointer(do, v)>> >>, << <<Pointer("point", <<0>>)>>, <<Pointer(do, v)>> >>}
      BY <3>1 DEF Shows
    <3>3. \E v : Head(client[c].todo) \in {<<Pointer(do, v)>>, <<Pointer("point", <<0>>)>>}
      BY <3>2
    <3>4. \A kind, v : <<Pointer(kind, v)>>[1].do = kind
      BY DEF Pointer
    <3>5. Head(client[c].todo)[1].do \in {do, "point"}
      BY <3>3, <3>4
    <3>6. QED
      BY <1>3, <3>5
  <2> HIDE DEF x
  <2>3. QED
    BY <1>1, <2>1, <2>2, NumbersOfOne
<1>4. QED
  BY <1>2, <1>3 DEF Refuse, SendFails

(* A number of a request that is answered ok is the one that was asked     *)
(* for, whatever the sizes of int, int32_t, uint16_t, a rotation and a     *)
(* screen, as long as an int holds each of the others.                     *)
THEOREM NumbersHold == Spec => []NumbersAreTheAsked
<1>1. Init => NumbersInv
  <2>1. Idle.req.op \notin Measured
    BY DEF Idle, NoRequest, Measured
  <2>2. QED
    BY <2>1 DEF Init, NumbersInv
<1>2. ASSUME IInv, NumbersInv, [Next]_vars PROVE NumbersInv'
  <2>1. CASE UNCHANGED vars
    BY <1>2, <2>1 DEF vars, NumbersInv, Shows, Meets, HasRoom
  <2>2. ASSUME NEW c \in Clients, Reply(c) PROVE NumbersInv'
    <3>1. client' = [client EXCEPT ![c] = Idle] /\ UNCHANGED desktop /\ Idle.req.op \notin Measured
      BY <2>2 DEF Reply, Idle, NoRequest, Measured
    <3>2. QED
      BY <1>2, <3>1, NumbersOfOne
  <2>3. CASE \E c \in Clients : Receive(c) \/ Send(c) \/ Refuse(c) \/ SendFails(c) \/ Reply(c)
    BY <1>2, <2>2, <2>3, ReceiveNumbers, SendNumbers, EndNumbers
  <2>4. QED
    BY <1>2, <2>1, <2>3 DEF Next
<1>3. NumbersInv => NumbersAreTheAsked
  BY DEF NumbersInv, NumbersAreTheAsked, Answered, Measured, Meets,
         PositionIsTheAsked, WheelTurnsAsAsked, CropIsTheAsked
<1>4. QED
  BY <1>1, <1>2, <1>3, Invariance, PTL DEF Spec

(***************************************************************************)
(* Text.  The events of a text are induced upon with sets: a set of        *)
(* numbers that has 0 and the successor of each of its own has them all.   *)
(***************************************************************************)
LEMMA AllNumbers ==
  ASSUME NEW S, 0 \in S, \A n \in Nat : n \in S => n + 1 \in S
  PROVE  \A n \in Nat : n \in S
<1> DEFINE T == Nat \ S
<1>1. SUFFICES ASSUME T # {} PROVE FALSE
  OBVIOUS
<1>2. PICK x \in T : \A y \in T : x =< y
  BY <1>1, HasLeast
<1>3. x \in Nat /\ x # 0 /\ x \notin S
  BY <1>2
<1>4. x - 1 \in Nat /\ x - 1 \notin T
  BY <1>2, <1>3
<1>5. x - 1 \in S /\ (x - 1) + 1 = x
  BY <1>3, <1>4
<1>6. QED
  BY <1>3, <1>4, <1>5

(* A burst, event by event. *)
Start(k) == [keys |-> k, got |-> <<>>]
IsRun(f, n, burst, k, typing) ==
  f = [i \in 0..n |-> IF i = 0 THEN Start(k) ELSE Key(burst[i], f[i - 1], typing)]

LEMMA RunExists ==
  ASSUME NEW burst, NEW k, NEW typing
  PROVE  \A n \in Nat : \E f : IsRun(f, n, burst, k, typing)
<1> DEFINE S == {n \in Nat : \E f : IsRun(f, n, burst, k, typing)}
<1>1. 0 \in S
  <2> DEFINE f == [i \in 0..0 |-> Start(k)]
  <2>1. IsRun(f, 0, burst, k, typing)
    BY DEF IsRun
  <2>2. QED
    BY <2>1
<1>2. ASSUME NEW n \in Nat, n \in S PROVE n + 1 \in S
  <2>1. PICK f : IsRun(f, n, burst, k, typing)
    BY <1>2
  <2> DEFINE g == [i \in 0..(n + 1) |-> IF i = n + 1 THEN Key(burst[n + 1], f[n], typing) ELSE f[i]]
  <2>2. \A i \in 0..n : g[i] = f[i]
    OBVIOUS
  <2>3. \A i \in 0..n : f[i] = IF i = 0 THEN Start(k) ELSE Key(burst[i], f[i - 1], typing)
    BY <2>1 DEF IsRun
  <2>4. \A i \in 0..(n + 1) : g[i] = IF i = 0 THEN Start(k) ELSE Key(burst[i], g[i - 1], typing)
    BY <2>2, <2>3
  <2>5. IsRun(g, n + 1, burst, k, typing)
    BY <2>4 DEF IsRun
  <2>6. QED
    BY <2>5
<1> HIDE DEF S
<1>3. \A n \in Nat : n \in S
  BY <1>1, <1>2, AllNumbers
<1>4. QED
  BY <1>3 DEF S

(* Two runs are the same where their bursts are. *)
Agree(n, burst, other) == \A i \in 1..n : burst[i] = other[i]

LEMMA RunsAgree ==
  ASSUME NEW burst, NEW other, NEW k, NEW typing, NEW n \in Nat, NEW m \in Nat, n <= m,
         Agree(n, burst, other),
         NEW f, IsRun(f, n, burst, k, typing), NEW g, IsRun(g, m, other, k, typing)
  PROVE  f[n] = g[n]
<1> DEFINE S == {i \in Nat : i <= n => f[i] = g[i]}
<1>1. \A i \in 0..n : f[i] = IF i = 0 THEN Start(k) ELSE Key(burst[i], f[i - 1], typing)
  BY DEF IsRun
<1>2. \A i \in 0..m : g[i] = IF i = 0 THEN Start(k) ELSE Key(other[i], g[i - 1], typing)
  BY DEF IsRun
<1>3. 0 \in S
  BY <1>1, <1>2
<1>4. ASSUME NEW i \in Nat, i \in S PROVE i + 1 \in S
  <2>1. SUFFICES ASSUME i + 1 <= n PROVE f[i + 1] = g[i + 1]
    OBVIOUS
  <2>2. /\ f[i + 1] = Key(burst[i + 1], f[i], typing) /\ g[i + 1] = Key(other[i + 1], g[i], typing)
        /\ burst[i + 1] = other[i + 1] /\ f[i] = g[i]
    BY <1>1, <1>2, <1>4, <2>1 DEF Agree
  <2>3. QED
    BY <2>2
<1> HIDE DEF S
<1>5. n \in S
  BY <1>3, <1>4, AllNumbers
<1>6. QED
  BY <1>5 DEF S

LEMMA PressIsRun ==
  ASSUME NEW burst, NEW k, NEW typing, Len(burst) \in Nat
  PROVE  \E f : IsRun(f, Len(burst), burst, k, typing) /\ Press(burst, k, typing) = f[Len(burst)]
<1> DEFINE f == CHOOSE f : IsRun(f, Len(burst), burst, k, typing)
<1>1. IsRun(f, Len(burst), burst, k, typing)
  BY RunExists
<1>2. Press(burst, k, typing) = f[Len(burst)]
  BY DEF Press, IsRun, Start
<1>3. QED
  BY <1>1, <1>2

LEMMA PressNothing ==
  ASSUME NEW k, NEW typing
  PROVE  Press(<<>>, k, typing) = Start(k)
<1>1. PICK f : IsRun(f, 0, <<>>, k, typing) /\ Press(<<>>, k, typing) = f[0]
  BY PressIsRun
<1>2. QED
  BY <1>1 DEF IsRun

LEMMA PressOne ==
  ASSUME NEW e, NEW k, NEW typing
  PROVE  Press(<<e>>, k, typing) = Key(e, Start(k), typing)
<1> DEFINE burst == <<e>>
<1>1. Len(burst) = 1 /\ Len(burst) \in Nat /\ burst[1] = e
  OBVIOUS
<1> HIDE DEF burst
<1>2. PICK f : IsRun(f, 1, burst, k, typing) /\ Press(burst, k, typing) = f[1]
  <2>1. \E f : IsRun(f, Len(burst), burst, k, typing) /\ Press(burst, k, typing) = f[Len(burst)]
    BY <1>1, PressIsRun
  <2>2. QED
    BY <1>1, <2>1
<1>3. f[1] = Key(burst[1], f[0], typing) /\ f[0] = Start(k)
  BY <1>2 DEF IsRun
<1>4. QED
  BY <1>1, <1>2, <1>3 DEF burst

(* The keyboard. *)
Keyboards == [held : SUBSET Modifiers, typed : SUBSET Modifiers, caps : BOOLEAN]
Names == {"", "KEY_LEFTCTRL", "KEY_LEFTSHIFT", "KEY_A", "KEY_ENTER", "shortcut"} \cup Runes
EventsOf(dos) == [do : dos, key : Names, value : {<<>>}]

LEMMA KeyboardType ==
  ASSUME NEW k \in Keyboards, NEW event, NEW typing
  PROVE  /\ Keyboard(event, k, typing) \in Keyboards
         /\ ~typing => Keyboard(event, k, typing).typed \subseteq k.typed
<1> DEFINE held(e) == k.held \cup {e}
<1>1. k.held \subseteq Modifiers /\ k.typed \subseteq Modifiers /\ k.caps \in BOOLEAN
  BY DEF Keyboards
<1>2. CASE event.do = "down" /\ event.key \in Modifiers
  <2>1. Keyboard(event, k, typing) =
          [k EXCEPT !.held = k.held \cup {event.key},
                    !.typed = IF typing THEN k.typed \cup {event.key} ELSE k.typed]
    BY <1>2 DEF Keyboard, Modifiers
  <2>2. k.held \cup {event.key} \subseteq Modifiers /\ k.typed \cup {event.key} \subseteq Modifiers
    BY <1>1, <1>2
  <2>3. QED
    BY <1>1, <2>1, <2>2 DEF Keyboards
<1>3. CASE event.do \in {"up", "release"}
  <2>1. Keyboard(event, k, typing) = [k EXCEPT !.held = k.held \ {event.key}, !.typed = k.typed \ {event.key}]
    BY <1>3 DEF Keyboard
  <2>2. QED
    BY <1>1, <2>1 DEF Keyboards
<1>4. CASE event.do = "down" /\ event.key = "KEY_CAPSLOCK"
  <2>1. Keyboard(event, k, typing) = [k EXCEPT !.caps = ~k.caps]
    BY <1>4 DEF Keyboard, Modifiers
  <2>2. QED
    BY <1>1, <2>1 DEF Keyboards
<1>5. CASE event.do = "sync"
  <2>1. Keyboard(event, k, typing) = [k EXCEPT !.caps = FALSE]
    BY <1>5 DEF Keyboard
  <2>2. QED
    BY <1>1, <2>1 DEF Keyboards
<1>6. CASE Keyboard(event, k, typing) = k
  BY <1>6
<1>7. QED
  BY <1>2, <1>3, <1>4, <1>5, <1>6 DEF Keyboard

(* What a burst makes of a keyboard is a keyboard, and its text is text. *)
States == [keys : Keyboards, got : Seq(Names)]

LEMMA StartType ==
  ASSUME NEW k \in Keyboards
  PROVE  Start(k) \in States
BY DEF Start, States

LEMMA KeyType ==
  ASSUME NEW dos, NEW event \in EventsOf(dos), NEW s \in States, NEW typing
  PROVE  Key(event, s, typing) \in States
<1>1. event.key \in Names /\ s.keys \in Keyboards /\ s.got \in Seq(Names)
  BY DEF EventsOf, States
<1>2. Writes(event, s.keys) \in Names
  BY <1>1 DEF Writes, Names, Runes
<1>3. Append(s.got, Writes(event, s.keys)) \in Seq(Names)
  BY <1>1, <1>2
<1>4. Keyboard(event, s.keys, typing) \in Keyboards
  BY <1>1, KeyboardType
<1>5. QED
  BY <1>1, <1>3, <1>4 DEF Key, States

LEMMA PressType ==
  ASSUME NEW dos, NEW burst \in Seq(EventsOf(dos)), NEW k \in Keyboards, NEW typing
  PROVE  Press(burst, k, typing) \in States
<1> DEFINE n == Len(burst)
<1>1. PICK f : IsRun(f, n, burst, k, typing) /\ Press(burst, k, typing) = f[n]
  BY PressIsRun
<1>2. n \in Nat /\ \A i \in 1..n : burst[i] \in EventsOf(dos)
  OBVIOUS
<1> DEFINE S == {i \in Nat : i <= n => f[i] \in States}
<1> HIDE DEF n
<1>3. \A i \in 0..n : f[i] = IF i = 0 THEN Start(k) ELSE Key(burst[i], f[i - 1], typing)
  BY <1>1 DEF IsRun
<1>4. 0 \in S
  BY <1>2, <1>3, StartType
<1>5. ASSUME NEW i \in Nat, i \in S PROVE i + 1 \in S
  <2>1. SUFFICES ASSUME i + 1 <= n PROVE f[i + 1] \in States
    OBVIOUS
  <2>2. f[i] \in States /\ burst[i + 1] \in EventsOf(dos) /\ f[i + 1] = Key(burst[i + 1], f[i], typing)
    BY <1>2, <1>3, <1>5, <2>1
  <2>3. QED
    BY <2>2, KeyType
<1> HIDE DEF S
<1>6. n \in S
  BY <1>2, <1>4, <1>5, AllNumbers
<1>7. QED
  BY <1>1, <1>2, <1>6 DEF S

(* State s is t with the text a before its own. *)
After(s, a, t) == s = [keys |-> t.keys, got |-> a \o t.got]

LEMMA KeyAfter ==
  ASSUME NEW dos, NEW e \in EventsOf(dos), NEW a \in Seq(Names), NEW t \in States, NEW s,
         After(s, a, t), NEW typing
  PROVE  After(Key(e, s, typing), a, Key(e, t, typing))
<1> DEFINE w == Writes(e, t.keys)
<1>1. s.keys = t.keys /\ s.got = a \o t.got /\ t.got \in Seq(Names)
  BY DEF After, States
<1>2. Append(a \o t.got, w) = a \o Append(t.got, w)
  <2>1. w \in Names
    BY DEF EventsOf, Writes, Names, Runes
  <2> HIDE DEF w
  <2> DEFINE b == t.got
  <2>2. b \in Seq(Names)
    BY <1>1
  <2> HIDE DEF b
  <2>3. Append(b, w) = b \o <<w>> /\ <<w>> \in Seq(Names)
    BY <2>1, <2>2, AppendIsConcat
  <2>4. Append(a \o b, w) = (a \o b) \o <<w>>
    BY <2>1, <2>2, AppendIsConcat
  <2>5. (a \o b) \o <<w>> = a \o (b \o <<w>>)
    BY <2>2, <2>3, ConcatAssociative
  <2>6. QED
    BY <2>3, <2>4, <2>5 DEF b
<1>3. QED
  BY <1>1, <1>2 DEF Key, After

(* A burst is what its two parts do one after the other. *)
LEMMA PressConcat ==
  ASSUME NEW dos, NEW one \in Seq(EventsOf(dos)), NEW two \in Seq(EventsOf(dos)),
         NEW k \in Keyboards, NEW typing
  PROVE  After(Press(one \o two, k, typing), Press(one, k, typing).got,
               Press(two, Press(one, k, typing).keys, typing))
<1> DEFINE first == Press(one, k, typing)
           whole == one \o two
           n == Len(one)
           m == Len(two)
           l == n + m
<1>1. /\ n \in Nat /\ m \in Nat /\ Len(whole) = l /\ l \in Nat /\ n <= l
      /\ Agree(n, one, whole)
      /\ \A i \in 1..m : whole[n + i] = two[i] /\ two[i] \in EventsOf(dos)
  BY DEF Agree
<1>2. first \in States
  BY PressType
<1> HIDE DEF whole, first, n, m
<1>3. PICK f : IsRun(f, l, whole, k, typing) /\ Press(whole, k, typing) = f[l]
  <2> HIDE DEF l
  <2>1. QED
    BY <1>1, PressIsRun
<1>4. PICK g : IsRun(g, m, two, first.keys, typing) /\ Press(two, first.keys, typing) = g[m]
  <2> DEFINE there == first.keys
  <2>1. Len(two) \in Nat
    BY <1>1 DEF m
  <2> HIDE DEF there
  <2>2. \E g : IsRun(g, Len(two), two, there, typing) /\ Press(two, there, typing) = g[Len(two)]
    BY <2>1, PressIsRun
  <2>3. QED
    BY <2>2 DEF there, m
<1>5. PICK h : IsRun(h, n, one, k, typing) /\ first = h[n]
  BY <1>1, PressIsRun DEF first, n
<1>6. f[n] = first
  <2> HIDE DEF l
  <2>1. h[n] = f[n]
    BY <1>1, <1>3, <1>5, RunsAgree
  <2>2. QED
    BY <1>5, <2>1
<1>7. \A i \in 0..m : g[i] = IF i = 0 THEN Start(first.keys) ELSE Key(two[i], g[i - 1], typing)
  BY <1>4 DEF IsRun
<1>8. \A j \in 0..l : f[j] = IF j = 0 THEN Start(k) ELSE Key(whole[j], f[j - 1], typing)
  BY <1>3 DEF IsRun
<1> DEFINE S == {i \in Nat : i <= m => g[i] \in States /\ After(f[n + i], first.got, g[i])}
<1>9. 0 \in S
  <2>1. g[0] = Start(first.keys) /\ f[n + 0] = first /\ first.keys \in Keyboards
    <3>1. 0 \in 0..m /\ n + 0 = n
      BY <1>1
    <3>2. g[0] = Start(first.keys)
      BY <1>7, <3>1
    <3>3. first.keys \in Keyboards
      BY <1>2 DEF States
    <3>4. QED
      BY <1>6, <3>1, <3>2, <3>3
  <2>2. After(first, first.got, Start(first.keys))
    <3>1. first = [keys |-> first.keys, got |-> first.got] /\ first.got \o <<>> = first.got
      BY <1>2 DEF States
    <3>2. QED
      BY <3>1 DEF After, Start
  <2>3. QED
    BY <2>1, <2>2, StartType
<1>10. ASSUME NEW i \in Nat, i \in S PROVE i + 1 \in S
  <2>1. SUFFICES ASSUME i + 1 <= m PROVE g[i + 1] \in States /\ After(f[n + (i + 1)], first.got, g[i + 1])
    OBVIOUS
  <2> DEFINE j == i + 1
             e == two[j]
  <2>2. j \in 1..m /\ j \in 0..m /\ j # 0 /\ j - 1 = i /\ i <= m
    BY <1>1, <2>1
  <2>3. n + j \in 0..l /\ n + j # 0 /\ (n + j) - 1 = n + i
    BY <1>1, <2>1
  <2> HIDE DEF j
  <2>4. whole[n + j] = e /\ e \in EventsOf(dos)
    BY <1>1, <2>2
  <2>5. g[j] = Key(e, g[i], typing)
    BY <1>7, <2>2
  <2>6. f[n + j] = Key(e, f[n + i], typing)
    BY <1>8, <2>3, <2>4
  <2> HIDE DEF e
  <2>7. g[i] \in States /\ After(f[n + i], first.got, g[i]) /\ first.got \in Seq(Names)
    BY <1>2, <1>10, <2>2 DEF States
  <2>8. g[j] \in States /\ After(f[n + j], first.got, g[j])
    BY <2>4, <2>5, <2>6, <2>7, KeyType, KeyAfter
  <2>9. QED
    BY <2>8 DEF j
<1> HIDE DEF S
<1>11. m \in S
  BY <1>1, <1>9, <1>10, AllNumbers
<1>12. After(f[l], first.got, g[m])
  BY <1>1, <1>11 DEF S
<1>13. QED
  BY <1>3, <1>4, <1>12 DEF whole, first

(* A sequence of sequences, one behind the other. *)
IsFlat(f, n, seqs) == f = [i \in 1..n |-> IF i = 1 THEN seqs[i] ELSE f[i - 1] \o seqs[i]]

LEMMA FlatExists ==
  ASSUME NEW seqs
  PROVE  \A n \in Nat : \E f : IsFlat(f, n, seqs)
<1> DEFINE S == {n \in Nat : \E f : IsFlat(f, n, seqs)}
<1>1. 0 \in S
  <2> DEFINE f == [i \in 1..0 |-> seqs[i]]
  <2>1. IsFlat(f, 0, seqs)
    BY DEF IsFlat
  <2>2. QED
    BY <2>1
<1>2. ASSUME NEW n \in Nat, n \in S PROVE n + 1 \in S
  <2>1. PICK f : IsFlat(f, n, seqs)
    BY <1>2
  <2> DEFINE last == IF n = 0 THEN seqs[1] ELSE f[n] \o seqs[n + 1]
             g == [i \in 1..(n + 1) |-> IF i = n + 1 THEN last ELSE f[i]]
  <2>2. \A i \in 1..n : f[i] = IF i = 1 THEN seqs[i] ELSE f[i - 1] \o seqs[i]
    BY <2>1 DEF IsFlat
  <2>3. ASSUME NEW i \in 1..(n + 1) PROVE g[i] = IF i = 1 THEN seqs[i] ELSE g[i - 1] \o seqs[i]
    <3>1. CASE i = n + 1 /\ n = 0
      BY <3>1
    <3>2. CASE i = n + 1 /\ n # 0
      <4>1. i - 1 = n /\ n \in 1..(n + 1) /\ n # n + 1 /\ i # 1
        BY <3>2
      <4>2. g[n] = f[n] /\ g[i] = last
        BY <3>2, <4>1
      <4>3. QED
        BY <3>2, <4>1, <4>2
    <3>3. CASE i # n + 1
      <4>1. i \in 1..n /\ g[i] = f[i] /\ (i # 1 => g[i - 1] = f[i - 1])
        BY <3>3
      <4>2. QED
        BY <2>2, <4>1
    <3>4. QED
      BY <3>1, <3>2, <3>3
  <2>4. IsFlat(g, n + 1, seqs)
    BY <2>3 DEF IsFlat
  <2>5. QED
    BY <2>4
<1> HIDE DEF S
<1>3. \A n \in Nat : n \in S
  BY <1>1, <1>2, AllNumbers
<1>4. QED
  BY <1>3 DEF S

LEMMA FlattenIsFlat ==
  ASSUME NEW seqs, Len(seqs) \in Nat, Len(seqs) # 0
  PROVE  \E f : IsFlat(f, Len(seqs), seqs) /\ FlattenSeq(seqs) = f[Len(seqs)]
<1> DEFINE f == CHOOSE f : IsFlat(f, Len(seqs), seqs)
<1>1. IsFlat(f, Len(seqs), seqs)
  BY FlatExists
<1>2. FlattenSeq(seqs) = f[Len(seqs)]
  BY DEF FlattenSeq, IsFlat
<1>3. QED
  BY <1>1, <1>2

LEMMA FlattenType ==
  ASSUME NEW S, NEW seqs \in Seq(Seq(S))
  PROVE  FlattenSeq(seqs) \in Seq(S)
<1> DEFINE n == Len(seqs)
<1>1. n \in Nat /\ \A i \in 1..n : seqs[i] \in Seq(S)
  OBVIOUS
<1>2. CASE n = 0
  <2>1. seqs = <<>>
    BY <1>2
  <2>2. FlattenSeq(seqs) = <<>>
    BY <1>2, <2>1 DEF FlattenSeq
  <2>3. QED
    BY <2>2
<1>3. CASE n # 0
  <2>1. PICK f : IsFlat(f, n, seqs) /\ FlattenSeq(seqs) = f[n]
    BY <1>1, <1>3, FlattenIsFlat
  <2> HIDE DEF n
  <2>2. \A i \in 1..n : f[i] = IF i = 1 THEN seqs[i] ELSE f[i - 1] \o seqs[i]
    BY <2>1 DEF IsFlat
  <2> DEFINE T == {i \in Nat : i + 1 <= n => f[i + 1] \in Seq(S)}
  <2>3. 0 \in T
    BY <1>1, <1>3, <2>2
  <2>4. ASSUME NEW i \in Nat, i \in T PROVE i + 1 \in T
    <3>1. SUFFICES ASSUME (i + 1) + 1 <= n PROVE f[(i + 1) + 1] \in Seq(S)
      OBVIOUS
    <3> DEFINE j == (i + 1) + 1
    <3>2. j \in 1..n /\ j # 1 /\ j - 1 = i + 1 /\ i + 1 <= n
      BY <1>1, <3>1
    <3> HIDE DEF j
    <3>3. f[j] = f[i + 1] \o seqs[j] /\ f[i + 1] \in Seq(S) /\ seqs[j] \in Seq(S)
      BY <1>1, <2>2, <2>4, <3>2
    <3>4. f[j] \in Seq(S)
      BY <3>3
    <3>5. QED
      BY <3>4 DEF j
  <2> HIDE DEF T
  <2>5. \A i \in Nat : i \in T
    BY <2>3, <2>4, AllNumbers
  <2>6. n - 1 \in T /\ (n - 1) + 1 = n
    BY <1>1, <1>3, <2>5
  <2>7. QED
    BY <1>1, <2>1, <2>6 DEF T
<1>4. QED
  BY <1>2, <1>3

(* Every element of one of the sequences is in the whole. *)
LEMMA FlattenHas ==
  ASSUME NEW S, NEW seqs \in Seq(Seq(S)), NEW i \in 1..Len(seqs), NEW x, seqs[i] = <<x>>
  PROVE  \E j \in DOMAIN FlattenSeq(seqs) : FlattenSeq(seqs)[j] = x
<1> DEFINE n == Len(seqs)
           Has(s) == \E j \in DOMAIN s : s[j] = x
<1>1. n \in Nat /\ n # 0 /\ i \in 1..n /\ \A j \in 1..n : seqs[j] \in Seq(S)
  OBVIOUS
<1>2. PICK f : IsFlat(f, n, seqs) /\ FlattenSeq(seqs) = f[n]
  BY <1>1, FlattenIsFlat
<1>3. x \in S
  <2> DEFINE s == <<x>>
  <2>1. s \in Seq(S) /\ Len(s) = 1 /\ s[1] = x
    BY <1>1
  <2> HIDE DEF s
  <2>2. \A j \in 1..Len(s) : s[j] \in S
    BY <2>1, ElementOfSeq
  <2>3. QED
    BY <2>1, <2>2
<1>4. \A s \in Seq(S) : Has(<<x>>) /\ Has(s \o <<x>>)
  <2> SUFFICES ASSUME NEW s \in Seq(S) PROVE Has(<<x>>) /\ Has(s \o <<x>>)
    OBVIOUS
  <2> DEFINE both == Append(s, x)
  <2>1. both = s \o <<x>> /\ both \in Seq(S) /\ Len(both) = Len(s) + 1 /\ both[Len(s) + 1] = x
    BY <1>3, AppendProperties, AppendIsConcat
  <2>2. Len(s) + 1 \in 1..(Len(s) + 1)
    BY LenProperties
  <2> HIDE DEF both
  <2>3. Len(s) + 1 \in DOMAIN both
    BY <2>1, <2>2, LenProperties
  <2>4. Has(s \o <<x>>)
    BY <2>1, <2>3
  <2>5. Has(<<x>>)
    <3>1. 1 \in DOMAIN <<x>> /\ <<x>>[1] = x
      OBVIOUS
    <3>2. QED
      BY <3>1
  <2>6. QED
    BY <2>4, <2>5
<1>5. \A s, t \in Seq(S) : Has(s) => Has(s \o t)
  <2> SUFFICES ASSUME NEW s \in Seq(S), NEW t \in Seq(S), Has(s) PROVE Has(s \o t)
    OBVIOUS
  <2>1. PICK j \in DOMAIN s : s[j] = x
    OBVIOUS
  <2>2. j \in DOMAIN (s \o t) /\ (s \o t)[j] = x
    BY <2>1
  <2>3. QED
    BY <2>2
<1> HIDE DEF n, Has
<1>6. \A j \in 1..n : f[j] = IF j = 1 THEN seqs[j] ELSE f[j - 1] \o seqs[j]
  BY <1>2 DEF IsFlat
<1> DEFINE T == {m \in Nat : m + 1 <= n => f[m + 1] \in Seq(S) /\ (i <= m + 1 => Has(f[m + 1]))}
<1>7. 0 \in T
  <2>1. f[1] = seqs[1] /\ f[1] \in Seq(S)
    BY <1>1, <1>6
  <2>2. i <= 1 => f[1] = <<x>>
    BY <1>1, <2>1
  <2>3. i <= 1 => Has(f[1])
    BY <1>4, <2>1, <2>2
  <2>4. QED
    BY <2>1, <2>3
<1>8. ASSUME NEW m \in Nat, m \in T PROVE m + 1 \in T
  <2> DEFINE j == (m + 1) + 1
  <2>1. SUFFICES ASSUME j <= n PROVE f[j] \in Seq(S) /\ (i <= j => Has(f[j]))
    OBVIOUS
  <2>2. j \in 1..n /\ j # 1 /\ j - 1 = m + 1 /\ m + 1 <= n /\ (i <= j => i <= m + 1 \/ i = j)
    BY <1>1, <2>1
  <2> HIDE DEF j
  <2>3. /\ f[j] = f[m + 1] \o seqs[j] /\ f[m + 1] \in Seq(S) /\ seqs[j] \in Seq(S)
        /\ i <= m + 1 => Has(f[m + 1])
    BY <1>1, <1>6, <1>8, <2>2
  <2>4. f[j] \in Seq(S)
    BY <2>3
  <2>5. CASE i <= m + 1
    <3>1. Has(f[m + 1] \o seqs[j])
      BY <1>5, <2>3, <2>5
    <3>2. QED
      BY <2>3, <2>4, <3>1
  <2>6. CASE i = j
    <3>1. Has(f[m + 1] \o <<x>>)
      BY <1>4, <2>3
    <3>2. QED
      BY <2>3, <2>4, <2>6, <3>1
  <2>7. QED
    BY <2>2, <2>4, <2>5, <2>6
<1> HIDE DEF T
<1>9. \A m \in Nat : m \in T
  BY <1>7, <1>8, AllNumbers
<1>10. n - 1 \in T /\ (n - 1) + 1 = n /\ i <= n
  BY <1>1, <1>9
<1>11. Has(f[n])
  BY <1>1, <1>10 DEF T
<1>12. QED
  BY <1>2, <1>11 DEF Has

LEMMA PrefixGrows ==
  ASSUME NEW S, NEW text \in Seq(S), NEW i \in Nat, i + 1 <= Len(text)
  PROVE  /\ SubSeq(text, 1, i + 1) = SubSeq(text, 1, i) \o <<text[i + 1]>>
         /\ SubSeq(text, 1, i) \in Seq(S) /\ text[i + 1] \in S
<1> DEFINE m == 1
           n == i + 1
<1>1. m \in 1..Len(text) /\ n \in m..Len(text) /\ n - 1 = i
  OBVIOUS
<1>2. SubSeq(text, m, n) = SubSeq(text, m, n - 1) \o <<text[n]>>
  BY <1>1, SubSeqRecursiveSecond
<1>3. text[i + 1] \in S /\ SubSeq(text, 1, i) \in Seq(S)
  OBVIOUS
<1>4. QED
  BY <1>1, <1>2, <1>3

(* A burst that writes text and leaves the keyboard as it was. *)
Writ(burst, k, text) == Press(burst, k, TRUE) = [keys |-> k, got |-> text]

LEMMA WritIs ==
  ASSUME NEW burst, NEW k, NEW text, Writ(burst, k, text)
  PROVE  Press(burst, k, TRUE).keys = k /\ Press(burst, k, TRUE).got = text
<1> DEFINE s == Press(burst, k, TRUE)
<1>1. s = [keys |-> k, got |-> text]
  BY DEF Writ
<1> HIDE DEF s
<1>2. s.keys = k /\ s.got = text
  BY <1>1
<1>3. QED
  BY <1>2 DEF s

LEMMA WritConcat ==
  ASSUME NEW dos, NEW one \in Seq(EventsOf(dos)), NEW two \in Seq(EventsOf(dos)), NEW k \in Keyboards,
         NEW a, NEW b, Writ(one, k, a), Writ(two, k, b)
  PROVE  Writ(one \o two, k, a \o b)
<1>1. After(Press(one \o two, k, TRUE), Press(one, k, TRUE).got, Press(two, Press(one, k, TRUE).keys, TRUE))
  BY PressConcat
<1>2. Press(one, k, TRUE).keys = k /\ Press(one, k, TRUE).got = a
  BY WritIs
<1>3. Press(two, k, TRUE).keys = k /\ Press(two, k, TRUE).got = b
  BY WritIs
<1>4. After(Press(one \o two, k, TRUE), a, Press(two, k, TRUE))
  BY <1>1, <1>2
<1>5. QED
  BY <1>3, <1>4 DEF Writ, After

(* Bursts that write a rune each write the text. *)
LEMMA FlattenWrites ==
  ASSUME NEW dos, NEW seqs \in Seq(Seq(EventsOf(dos))), NEW k \in Keyboards, NEW text \in Seq(Names),
         Len(seqs) = Len(text), text # <<>>, \A i \in 1..Len(text) : Writ(seqs[i], k, <<text[i]>>)
  PROVE  Writ(FlattenSeq(seqs), k, text)
<1> DEFINE n == Len(seqs)
           done(i) == SubSeq(text, 1, i)
<1>1. n \in Nat /\ n # 0 /\ n = Len(text) /\ \A i \in 1..n : seqs[i] \in Seq(EventsOf(dos))
  <2>1. Len(text) # 0
    BY EmptySeq
  <2>2. QED
    BY <2>1
<1>2. \A i \in 1..n : Writ(seqs[i], k, <<text[i]>>)
  BY <1>1
<1>3. PICK f : IsFlat(f, n, seqs) /\ FlattenSeq(seqs) = f[n]
  BY <1>1, FlattenIsFlat
<1> HIDE DEF n
<1>4. \A j \in 1..n : f[j] = IF j = 1 THEN seqs[j] ELSE f[j - 1] \o seqs[j]
  BY <1>3 DEF IsFlat
<1>5. \A i \in Nat : i + 1 <= n => done(i + 1) = done(i) \o <<text[i + 1]>>
  BY <1>1, PrefixGrows
<1>6. done(1) = <<text[1]>>
  <2>1. done(0) = <<>>
    BY SubSeqEmpty
  <2>2. done(0 + 1) = done(0) \o <<text[0 + 1]>> /\ 0 + 1 = 1
    BY <1>1, <1>5
  <2> HIDE DEF done
  <2>3. done(1) = <<>> \o <<text[1]>>
    BY <2>1, <2>2
  <2>4. QED
    BY <2>3, PairOfBursts
<1>7. done(n) = text
  BY <1>1, SubSeqFull
<1> HIDE DEF done
<1> DEFINE T == {m \in Nat : m + 1 <= n => f[m + 1] \in Seq(EventsOf(dos)) /\ Writ(f[m + 1], k, done(m + 1))}
<1>8. 0 \in T
  <2>1. 1 \in 1..n
    BY <1>1
  <2>2. f[1] = seqs[1] /\ f[1] \in Seq(EventsOf(dos)) /\ Writ(f[1], k, <<text[1]>>)
    BY <1>1, <1>2, <1>4, <2>1
  <2>3. QED
    BY <1>6, <2>2
<1>9. ASSUME NEW m \in Nat, m \in T PROVE m + 1 \in T
  <2> DEFINE j == (m + 1) + 1
  <2>1. SUFFICES ASSUME j <= n
                 PROVE  f[j] \in Seq(EventsOf(dos)) /\ Writ(f[j], k, done(j))
    OBVIOUS
  <2>2. j \in 1..n /\ j # 1 /\ j - 1 = m + 1 /\ m + 1 <= n
    BY <1>1, <2>1
  <2>3. done(j) = done(m + 1) \o <<text[j]>>
    BY <1>5, <2>1
  <2> HIDE DEF j
  <2>4. f[j] = f[m + 1] \o seqs[j]
    BY <1>4, <2>2
  <2>5. f[m + 1] \in Seq(EventsOf(dos)) /\ Writ(f[m + 1], k, done(m + 1))
    BY <1>9, <2>2
  <2>6. seqs[j] \in Seq(EventsOf(dos)) /\ Writ(seqs[j], k, <<text[j]>>)
    BY <1>1, <1>2, <2>2
  <2>7. f[m + 1] \o seqs[j] \in Seq(EventsOf(dos))
    BY <2>5, <2>6, ConcatProperties
  <2>8. Writ(f[m + 1] \o seqs[j], k, done(m + 1) \o <<text[j]>>)
    BY <2>5, <2>6, WritConcat
  <2>9. QED
    BY <2>3, <2>4, <2>7, <2>8
<1> HIDE DEF T
<1>10. \A m \in Nat : m \in T
  BY <1>8, <1>9, AllNumbers
<1>11. n - 1 \in T /\ (n - 1) + 1 = n
  BY <1>1, <1>10
<1>12. Writ(f[n], k, done(n))
  BY <1>1, <1>11 DEF T
<1>13. QED
  BY <1>3, <1>7, <1>12

LEMMA PressTwo ==
  ASSUME NEW d, NEW e, NEW k, NEW typing
  PROVE  Press(<<d, e>>, k, typing) = Key(e, Key(d, Start(k), typing), typing)
<1> DEFINE burst == <<d, e>>
<1>1. Len(burst) = 2 /\ Len(burst) \in Nat /\ burst[1] = d /\ burst[2] = e
  OBVIOUS
<1> HIDE DEF burst
<1>2. PICK f : IsRun(f, 2, burst, k, typing) /\ Press(burst, k, typing) = f[2]
  <2>1. \E f : IsRun(f, Len(burst), burst, k, typing) /\ Press(burst, k, typing) = f[Len(burst)]
    BY <1>1, PressIsRun
  <2>2. QED
    BY <1>1, <2>1
<1>3. f[2] = Key(burst[2], f[1], typing) /\ f[1] = Key(burst[1], f[0], typing) /\ f[0] = Start(k)
  BY <1>2 DEF IsRun
<1>4. QED
  BY <1>1, <1>2, <1>3 DEF burst

LEMMA PressFour ==
  ASSUME NEW a, NEW b, NEW d, NEW e, NEW k, NEW typing
  PROVE  Press(<<a, b, d, e>>, k, typing)
           = Key(e, Key(d, Key(b, Key(a, Start(k), typing), typing), typing), typing)
<1> DEFINE burst == <<a, b, d, e>>
<1>1. Len(burst) = 4 /\ Len(burst) \in Nat /\ burst[1] = a /\ burst[2] = b /\ burst[3] = d /\ burst[4] = e
  OBVIOUS
<1> HIDE DEF burst
<1>2. PICK f : IsRun(f, 4, burst, k, typing) /\ Press(burst, k, typing) = f[4]
  <2>1. \E f : IsRun(f, Len(burst), burst, k, typing) /\ Press(burst, k, typing) = f[Len(burst)]
    BY <1>1, PressIsRun
  <2>2. QED
    BY <1>1, <2>1
<1>3. /\ f[4] = Key(burst[4], f[3], typing) /\ f[3] = Key(burst[3], f[2], typing)
      /\ f[2] = Key(burst[2], f[1], typing) /\ f[1] = Key(burst[1], f[0], typing) /\ f[0] = Start(k)
  <2>1. \A i \in 0..4 : f[i] = IF i = 0 THEN Start(k) ELSE Key(burst[i], f[i - 1], typing)
    BY <1>2 DEF IsRun
  <2>2. f[0] = Start(k) /\ f[1] = Key(burst[1], f[0], typing)
    BY <2>1
  <2>3. f[2] = Key(burst[2], f[1], typing) /\ f[3] = Key(burst[3], f[2], typing)
    BY <2>1
  <2>4. f[4] = Key(burst[4], f[3], typing)
    BY <2>1
  <2>5. QED
    BY <2>2, <2>3, <2>4
<1>4. QED
  BY <1>1, <1>2, <1>3 DEF burst

(* A key that is no modifier leaves the keyboard as it is; shift goes down *)
(* and up.                                                                 *)
LEMMA PlainKey ==
  ASSUME NEW key \in {"KEY_A", "KEY_ENTER"}, NEW s \in States
  PROVE  /\ Key(Down(key), s, TRUE) = [keys |-> s.keys, got |-> Append(s.got, Writes(Down(key), s.keys))]
         /\ Key(Up(key), s, TRUE) = s
<1>1. s.keys \in Keyboards /\ s = [keys |-> s.keys, got |-> s.got]
  BY DEF States
<1> DEFINE k == s.keys
<1> HIDE DEF k
<1>2. k \in Keyboards
  BY <1>1 DEF k
<1>3. k.held \ {key} = k.held /\ k.typed \ {key} = k.typed
  BY <1>2 DEF Keyboards, Modifiers
<1>4. Keyboard(Down(key), k, TRUE) = k
  BY DEF Keyboard, Down, Event, Modifiers
<1>5. Keyboard(Up(key), k, TRUE) = [k EXCEPT !.held = k.held, !.typed = k.typed]
  BY <1>3 DEF Keyboard, Up, Event
<1>6. [k EXCEPT !.held = k.held, !.typed = k.typed] = k
  BY <1>2 DEF Keyboards
<1>7. WritesText(Down(key)) /\ ~WritesText(Up(key))
  BY DEF WritesText, Down, Up, Event
<1>8. QED
  BY <1>1, <1>4, <1>5, <1>6, <1>7 DEF Key, k

Shift == "KEY_LEFTSHIFT"

LEMMA ShiftKey ==
  ASSUME NEW k \in Keyboards
  PROVE  /\ Keyboard(Down(Shift), k, TRUE)
              = [held |-> k.held \cup {Shift}, typed |-> k.typed \cup {Shift}, caps |-> k.caps]
         /\ Keyboard(Up(Shift), k, TRUE)
              = [held |-> k.held \ {Shift}, typed |-> k.typed \ {Shift}, caps |-> k.caps]
         /\ ~WritesText(Down(Shift)) /\ ~WritesText(Up(Shift))
<1>1. Keyboard(Down(Shift), k, TRUE) = [k EXCEPT !.held = k.held \cup {Shift}, !.typed = k.typed \cup {Shift}]
  BY DEF Keyboard, Down, Event, Modifiers, Shift
<1>2. Keyboard(Up(Shift), k, TRUE) = [k EXCEPT !.held = k.held \ {Shift}, !.typed = k.typed \ {Shift}]
  BY DEF Keyboard, Up, Event
<1>3. QED
  BY <1>1, <1>2 DEF Keyboards, WritesText, Down, Up, Event, Shift

LEMMA FourInARow ==
  ASSUME NEW a, NEW b, NEW d, NEW e
  PROVE  (<<a>> \o <<b, d>>) \o <<e>> = <<a, b, d, e>>
<1> DEFINE S == {a, b, d, e}
           one == <<a>>
           two == <<b, d>>
           four == <<a, b, d, e>>
           s == Append(one \o two, e)
<1>1. /\ one \in Seq(S) /\ two \in Seq(S) /\ four \in Seq(S) /\ e \in S
      /\ Len(one) = 1 /\ one[1] = a /\ Len(two) = 2 /\ two[1] = b /\ two[2] = d
      /\ Len(four) = 4 /\ four[1] = a /\ four[2] = b /\ four[3] = d /\ four[4] = e
  OBVIOUS
<1> HIDE DEF S, one, two, four
<1>2. /\ one \o two \in Seq(S) /\ Len(one \o two) = 3
      /\ \A i \in 1..3 : (one \o two)[i] = IF i <= 1 THEN one[i] ELSE two[i - 1]
  <2>1. /\ one \o two \in Seq(S) /\ Len(one \o two) = Len(one) + Len(two)
        /\ \A i \in 1..(Len(one) + Len(two)) :
             (one \o two)[i] = IF i <= Len(one) THEN one[i] ELSE two[i - Len(one)]
    BY <1>1, ConcatProperties
  <2>2. QED
    BY <1>1, <2>1
<1> DEFINE three == one \o two
<1>3. three[1] = a /\ three[2] = b /\ three[3] = d
  BY <1>1, <1>2
<1> HIDE DEF three
<1>4. /\ Append(three, e) \in Seq(S) /\ Len(Append(three, e)) = 4 /\ Append(three, e)[4] = e
      /\ \A i \in 1..3 : Append(three, e)[i] = three[i]
  BY <1>1, <1>2, AppendProperties DEF three
<1>5. Append(three, e) = three \o <<e>>
  BY <1>1, <1>2, AppendIsConcat DEF three
<1> DEFINE t == Append(three, e)
<1> HIDE DEF t
<1>6. \A i \in 1..Len(t) : t[i] = four[i]
  BY <1>1, <1>3, <1>4 DEF t
<1>7. t = four
  BY <1>1, <1>4, <1>6, SeqEqual DEF t
<1>8. QED
  BY <1>5, <1>7 DEF t, three, one, two, four

(* The keyboard on which text is typed as it is asked. *)
Clean == [held |-> {}, typed |-> {}, caps |-> FALSE]

LEMMA CleanType == Clean \in Keyboards
BY DEF Clean, Keyboards

(* The key of a rune, in shift when it needs it, writes the rune on a      *)
(* clean keyboard; on any it leaves nothing down that was not.             *)
LEMMA KeyEventsType ==
  ASSUME NEW rune \in Runes
  PROVE  KeyEvents(rune) \in Seq(EventsOf({"down", "up"}))
<1> DEFINE S == EventsOf({"down", "up"})
           a == Down(Shift)
           b == Down(KeyOf(rune))
           d == Up(KeyOf(rune))
           e == Up(Shift)
<1>1. a \in S /\ b \in S /\ d \in S /\ e \in S
  BY DEF EventsOf, Down, Up, Event, KeyOf, Names, Shift
<1>2. KeyEvents(rune) = IF Shifted(rune) THEN (<<a>> \o <<b, d>>) \o <<e>> ELSE <<b, d>>
  BY DEF KeyEvents, Shift
<1> HIDE DEF S, a, b, d, e
<1>3. KeyEvents(rune) \in {<<a, b, d, e>>, <<b, d>>}
  BY <1>2, FourInARow
<1>4. <<a, b, d, e>> \in Seq(S) /\ <<b, d>> \in Seq(S)
  BY <1>1
<1>5. QED
  BY <1>3, <1>4 DEF S

LEMMA KeyEventsWrite ==
  ASSUME NEW rune \in Runes, HasKey(rune), NEW k \in Keyboards, k.typed = {}
  PROVE  /\ Press(KeyEvents(rune), k, TRUE).keys.typed = {}
         /\ k = Clean => Writ(KeyEvents(rune), k, <<rune>>)
<1>1. KeyOf(rune) \in {"KEY_A", "KEY_ENTER"} /\ Start(k) \in States /\ Start(k).keys = k
  BY StartType DEF KeyOf, Start
<1>2. CASE ~Shifted(rune)
  <2> DEFINE key == KeyOf(rune)
  <2>1. KeyEvents(rune) = <<Down(key), Up(key)>>
    BY <1>2 DEF KeyEvents
  <2> DEFINE s == Key(Down(key), Start(k), TRUE)
             t == Key(Up(key), s, TRUE)
  <2>2. s = [keys |-> k, got |-> Append(<<>>, Writes(Down(key), k))]
    BY <1>1, PlainKey DEF Start
  <2>3. s \in States
    <3>1. Down(key) \in EventsOf({"down"})
      BY <1>1 DEF EventsOf, Down, Event, Names
    <3>2. QED
      BY <1>1, <3>1, KeyType
  <2>4. t = s
    BY <1>1, <2>3, PlainKey
  <2>5. Press(KeyEvents(rune), k, TRUE) = t
    BY <2>1, PressTwo
  <2>6. k = Clean => Writes(Down(key), k) = rune
    <3>1. rune \in {"a", "newline"} /\ Clean.held = {} /\ Clean.caps = FALSE
      BY <1>2 DEF HasKey, Shifted, Clean
    <3> DEFINE down == Down(key)
    <3>2. down.do = "down" /\ down.key = KeyOf(rune)
      BY DEF Down, Event
    <3> HIDE DEF down
    <3>3. "KEY_LEFTCTRL" \notin Clean.held /\ ("KEY_LEFTSHIFT" \in Clean.held) = Clean.caps
      <4>1. Clean.caps = FALSE /\ "KEY_LEFTCTRL" \notin Clean.held
        BY <3>1
      <4>2. ("KEY_LEFTSHIFT" \in Clean.held) = FALSE
        BY <3>1
      <4>3. QED
        BY <4>1, <4>2
    <3>4. Writes(down, Clean) = IF KeyOf(rune) = "KEY_ENTER" THEN "newline" ELSE "a"
      BY <3>2, <3>3 DEF Writes
    <3>5. QED
      BY <3>1, <3>4 DEF KeyOf, down
  <2> HIDE DEF s, t, key
  <2>7. Append(<<>>, rune) = <<rune>>
    OBVIOUS
  <2> DEFINE p == Press(KeyEvents(rune), k, TRUE)
             w == Writes(Down(key), k)
  <2> HIDE DEF p, w
  <2>8. p = [keys |-> k, got |-> Append(<<>>, w)]
    BY <2>2, <2>4, <2>5 DEF p, w
  <2>9. p.keys = k /\ (w = rune => p = [keys |-> k, got |-> <<rune>>])
    BY <2>7, <2>8
  <2>10. QED
    BY <2>6, <2>9 DEF Writ, p, w
<1>3. CASE Shifted(rune)
  <2>1. rune = "A" /\ KeyEvents(rune) = <<Down(Shift), Down("KEY_A"), Up("KEY_A"), Up(Shift)>>
    BY <1>3, FourInARow DEF KeyEvents, Shifted, Shift, KeyOf
  <2> DEFINE down == Keyboard(Down(Shift), k, TRUE)
             up2 == Keyboard(Up(Shift), down, TRUE)
             s1 == Key(Down(Shift), Start(k), TRUE)
             s2 == Key(Down("KEY_A"), s1, TRUE)
             s3 == Key(Up("KEY_A"), s2, TRUE)
             s4 == Key(Up(Shift), s3, TRUE)
             w == Writes(Down("KEY_A"), down)
  <2>2. down = [held |-> k.held \cup {Shift}, typed |-> k.typed \cup {Shift}, caps |-> k.caps] /\ down \in Keyboards
    BY ShiftKey, KeyboardType
  <2>3. up2 = [held |-> down.held \ {Shift}, typed |-> down.typed \ {Shift}, caps |-> down.caps]
    BY <2>2, ShiftKey
  <2>4. s1 = [keys |-> down, got |-> <<>>]
    BY <1>1, ShiftKey DEF Key, Start
  <2> HIDE DEF down
  <2>5. s1 \in States
    BY <2>2, <2>4, StartType DEF Start
  <2>6. s2 = [keys |-> down, got |-> Append(<<>>, w)]
    <3> HIDE DEF s1
    <3>1. QED
      BY <2>4, <2>5, PlainKey
  <2>7. s2 \in States
    <3>1. Down("KEY_A") \in EventsOf({"down"})
      BY DEF EventsOf, Down, Event, Names
    <3>2. QED
      BY <2>5, <3>1, KeyType
  <2>8. s3 = s2
    <3> HIDE DEF s2
    <3>1. QED
      BY <2>7, PlainKey
  <2>9. s4 = [keys |-> up2, got |-> <<w>>]
    <3> HIDE DEF s2, s3, w
    <3>1. Append(<<>>, w) = <<w>>
      OBVIOUS
    <3>2. s3.keys = down /\ s3.got = <<w>>
      BY <2>6, <2>8, <3>1
    <3>3. QED
      BY <2>2, <3>2, ShiftKey DEF Key
  <2>10. Press(KeyEvents(rune), k, TRUE) = s4
    <3> DEFINE typing == TRUE
    <3> HIDE DEF typing
    <3>1. Press(<<Down(Shift), Down("KEY_A"), Up("KEY_A"), Up(Shift)>>, k, typing)
            = Key(Up(Shift), Key(Up("KEY_A"), Key(Down("KEY_A"), Key(Down(Shift), Start(k), typing), typing), typing), typing)
      BY PressFour
    <3>2. QED
      BY <2>1, <3>1 DEF typing
  <2> HIDE DEF s4, up2
  <2>11. up2.typed = {}
    BY <2>2, <2>3
  <2>12. k = Clean => up2 = k
    <3>1. SUFFICES ASSUME k = Clean PROVE up2 = Clean
      OBVIOUS
    <3>2. k.held = {} /\ k.caps = FALSE
      BY <3>1 DEF Clean
    <3>3. down.held = {Shift} /\ down.typed = {Shift} /\ down.caps = FALSE
      BY <2>2, <3>2
    <3>4. up2 = [held |-> {}, typed |-> {}, caps |-> FALSE]
      BY <2>3, <3>3
    <3>5. QED
      BY <3>4 DEF Clean
  <2>13. k = Clean => w = rune
    <3>1. Down("KEY_A").do = "down" /\ Down("KEY_A").key = "KEY_A"
      BY DEF Down, Event
    <3>2. k = Clean => "KEY_LEFTCTRL" \notin down.held /\ Shift \in down.held /\ down.caps = FALSE
      BY <2>2 DEF Clean, Shift
    <3>3. QED
      BY <2>1, <3>1, <3>2 DEF Writes, Shift
  <2> DEFINE p == Press(KeyEvents(rune), k, TRUE)
  <2> HIDE DEF p, w
  <2>14. p = [keys |-> up2, got |-> <<w>>]
    BY <2>9, <2>10 DEF p
  <2>15. p.keys = up2 /\ (k = Clean => p = [keys |-> k, got |-> <<rune>>])
    BY <2>12, <2>13, <2>14
  <2>16. QED
    BY <2>11, <2>15 DEF Writ, p
<1>4. QED
  BY <1>2, <1>3

LEMMA AppendToNothing == \A x : Append(<<>>, x) = <<x>>
OBVIOUS

(* A rune that is sent as such is written whatever keys are down. *)
LEMMA RunePair ==
  ASSUME NEW rune \in Runes, NEW do \in {"char", "keysym"}, NEW done \in {"char end", "keysym end"},
         NEW k \in Keyboards
  PROVE  Writ(<<Event(do, rune), Event(done, rune)>>, k, <<rune>>)
<1> DEFINE one == Event(do, rune)
           two == Event(done, rune)
           s == Key(one, Start(k), TRUE)
           t == Key(two, s, TRUE)
<1>1. Keyboard(one, k, TRUE) = k /\ Keyboard(two, k, TRUE) = k
  BY DEF Keyboard, Event
<1>2. WritesText(one) /\ ~WritesText(two) /\ Writes(one, k) = rune
  BY DEF WritesText, Writes, Event
<1> HIDE DEF one, two
<1>3. Append(<<>>, rune) = <<rune>>
  BY AppendToNothing
<1>4. s = [keys |-> k, got |-> <<rune>>]
  BY <1>1, <1>2, <1>3 DEF Key, Start
<1> HIDE DEF s
<1>5. t = [keys |-> k, got |-> <<rune>>]
  BY <1>1, <1>2, <1>4 DEF Key
<1>6. Press(<<one, two>>, k, TRUE) = t
  BY PressTwo DEF s
<1>7. QED
  BY <1>5, <1>6 DEF Writ, one, two

LEMMA RuneEventType ==
  ASSUME NEW rune \in Runes, NEW dos, NEW do \in dos, NEW done \in dos
  PROVE  /\ Event(do, rune) \in EventsOf(dos)
         /\ <<Event(do, rune), Event(done, rune)>> \in Seq(EventsOf(dos))
<1>1. Event(do, rune) \in EventsOf(dos) /\ Event(done, rune) \in EventsOf(dos)
  BY DEF Event, EventsOf, Names
<1> DEFINE a == Event(do, rune)
           b == Event(done, rune)
           S == EventsOf(dos)
<1> HIDE DEF a, b, S
<1>2. a \in S /\ b \in S
  BY <1>1 DEF a, b, S
<1>3. <<a, b>> \in Seq(S)
  BY <1>2
<1>4. QED
  BY <1>1, <1>3 DEF a, b, S

(* The events of text, and those that no keyboard changes. *)
TextDos == {"sync", "release", "down", "up", "char", "char end"}
RuneDos == {"refuse", "char", "char end", "keysym", "keysym end"}

LEMMA MoreEvents ==
  ASSUME NEW dos, NEW more, dos \subseteq more, NEW burst \in Seq(EventsOf(dos))
  PROVE  burst \in Seq(EventsOf(more))
<1>1. EventsOf(dos) \subseteq EventsOf(more)
  BY DEF EventsOf
<1>2. QED
  BY <1>1, SeqMonotonic

LEMMA RdpEventsWrite ==
  ASSUME NEW rune \in Runes, NEW d \in Rdp
  PROVE  RdpEvents(d, rune) \in Seq(EventsOf(TextDos \ {"release"})) /\ Writ(RdpEvents(d, rune), Clean, <<rune>>)
<1>1. CASE RdpEvents(d, rune) = KeyEvents(rune) /\ HasKey(rune)
  <2>1. KeyEvents(rune) \in Seq(EventsOf(TextDos \ {"release"}))
    <3>1. {"down", "up"} \subseteq TextDos \ {"release"}
      BY DEF TextDos
    <3>2. QED
      BY <3>1, KeyEventsType, MoreEvents
  <2>2. Writ(KeyEvents(rune), Clean, <<rune>>)
    <3>1. Clean.typed = {}
      BY DEF Clean
    <3>2. QED
      BY <1>1, <3>1, CleanType, KeyEventsWrite
  <2>3. QED
    BY <1>1, <2>1, <2>2
<1>2. CASE RdpEvents(d, rune) = UnicodeEvents(rune)
  <2>1. UnicodeEvents(rune) = <<Event("char", rune), Event("char end", rune)>>
    BY DEF UnicodeEvents
  <2>2. "char" \in TextDos \ {"release"} /\ "char end" \in TextDos \ {"release"}
    BY DEF TextDos
  <2>3. <<Event("char", rune), Event("char end", rune)>> \in Seq(EventsOf(TextDos \ {"release"}))
    BY <2>2, RuneEventType
  <2>4. Writ(<<Event("char", rune), Event("char end", rune)>>, Clean, <<rune>>)
    BY RunePair, CleanType
  <2>5. QED
    BY <1>2, <2>1, <2>3, <2>4
<1>3. QED
  BY <1>1, <1>2 DEF RdpEvents, HasKey

LEMMA ThreeInARow ==
  ASSUME NEW a, NEW b, NEW d
  PROVE  <<a>> \o <<b, d>> = <<a, b, d>>
<1> DEFINE S == {a, b, d}
           one == <<a>>
           two == <<b, d>>
           three == <<a, b, d>>
<1>1. /\ one \in Seq(S) /\ two \in Seq(S) /\ three \in Seq(S)
      /\ Len(one) = 1 /\ one[1] = a /\ Len(two) = 2 /\ two[1] = b /\ two[2] = d
      /\ Len(three) = 3 /\ three[1] = a /\ three[2] = b /\ three[3] = d
  OBVIOUS
<1> HIDE DEF S, one, two, three
<1>2. /\ one \o two \in Seq(S) /\ Len(one \o two) = 3
      /\ \A i \in 1..3 : (one \o two)[i] = IF i <= 1 THEN one[i] ELSE two[i - 1]
  <2>1. /\ one \o two \in Seq(S) /\ Len(one \o two) = Len(one) + Len(two)
        /\ \A i \in 1..(Len(one) + Len(two)) :
             (one \o two)[i] = IF i <= Len(one) THEN one[i] ELSE two[i - Len(one)]
    BY <1>1, ConcatProperties
  <2>2. QED
    BY <1>1, <2>1
<1> DEFINE both == one \o two
<1>3. both[1] = a /\ both[2] = b /\ both[3] = d /\ both \in Seq(S) /\ Len(both) = 3
  BY <1>1, <1>2
<1> HIDE DEF both
<1>4. \A i \in 1..Len(both) : both[i] = three[i]
  BY <1>1, <1>3
<1>5. both = three
  BY <1>1, <1>3, <1>4, SeqEqual
<1>6. QED
  BY <1>5 DEF both, one, two, three

(* The prelude of a text on RDP leaves a clean keyboard and no text, in    *)
(* whichever order the modifiers are released.                             *)
LEMMA PreludeIs ==
  \E one, two \in {Event("release", key) : key \in Modifiers} :
    /\ one # two
    /\ Prelude = <<Event("sync", ""), one, two>>
<1> DEFINE ctrl == Event("release", "KEY_LEFTCTRL")
           shift == Event("release", "KEY_LEFTSHIFT")
           S == {Event("release", key) : key \in Modifiers}
           sync == Event("sync", "")
<1>1. S = {ctrl, shift} /\ ctrl # shift
  BY DEF Modifiers, Event
<1>2. Prelude = <<sync>> \o SetToSeq(S)
  BY DEF Prelude
<1> HIDE DEF ctrl, shift, S, sync
<1>3. Cardinality(S) = 2
  <2>1. IsFiniteSet({ctrl}) /\ Cardinality({ctrl}) = 1
    BY FS_Singleton
  <2>2. Cardinality({ctrl} \cup {shift}) = 2
    BY <1>1, <2>1, FS_AddElement
  <2>3. {ctrl} \cup {shift} = S
    BY <1>1
  <2>4. QED
    BY <2>2, <2>3
<1> DEFINE f == SetToSeq(S)
<1>4. f \in [1..2 -> S] /\ IsInjective(f)
  <2> DEFINE g == [i \in 1..2 |-> IF i = 1 THEN ctrl ELSE shift]
  <2>1. g \in [1..2 -> S] /\ IsInjective(g)
    BY <1>1 DEF IsInjective
  <2> HIDE DEF g
  <2>2. \E h \in [1..Cardinality(S) -> S] : IsInjective(h)
    BY <1>3, <2>1
  <2>3. f \in [1..Cardinality(S) -> S] /\ IsInjective(f)
    BY <2>2 DEF SetToSeq
  <2>4. QED
    BY <1>3, <2>3
<1> HIDE DEF f
<1>5. f[1] \in S /\ f[2] \in S /\ f[1] # f[2] /\ f = <<f[1], f[2]>>
  BY <1>4 DEF IsInjective
<1>6. <<sync>> \o <<f[1], f[2]>> = <<sync, f[1], f[2]>>
  BY ThreeInARow
<1>7. Prelude = <<sync, f[1], f[2]>>
  BY <1>2, <1>5, <1>6 DEF f
<1>8. QED
  BY <1>5, <1>7 DEF S, sync

LEMMA PressThree ==
  ASSUME NEW a, NEW b, NEW d, NEW k, NEW typing
  PROVE  Press(<<a, b, d>>, k, typing) = Key(d, Key(b, Key(a, Start(k), typing), typing), typing)
<1> DEFINE burst == <<a, b, d>>
<1>1. Len(burst) = 3 /\ Len(burst) \in Nat /\ burst[1] = a /\ burst[2] = b /\ burst[3] = d
  OBVIOUS
<1> HIDE DEF burst
<1>2. PICK f : IsRun(f, 3, burst, k, typing) /\ Press(burst, k, typing) = f[3]
  <2>1. \E f : IsRun(f, Len(burst), burst, k, typing) /\ Press(burst, k, typing) = f[Len(burst)]
    BY <1>1, PressIsRun
  <2>2. QED
    BY <1>1, <2>1
<1>3. \A i \in 0..3 : f[i] = IF i = 0 THEN Start(k) ELSE Key(burst[i], f[i - 1], typing)
  BY <1>2 DEF IsRun
<1>4. /\ f[0] = Start(k) /\ f[1] = Key(burst[1], f[0], typing)
      /\ f[2] = Key(burst[2], f[1], typing) /\ f[3] = Key(burst[3], f[2], typing)
  BY <1>3
<1>5. QED
  BY <1>1, <1>2, <1>4 DEF burst

LEMMA PreludeCleans ==
  ASSUME NEW k \in Keyboards
  PROVE  Press(Prelude, k, TRUE) = Start(Clean)
<1>1. PICK one \in {Event("release", key) : key \in Modifiers} :
        \E two \in {Event("release", key) : key \in Modifiers} :
          one # two /\ Prelude = <<Event("sync", ""), one, two>>
  BY PreludeIs
<1>2. PICK two \in {Event("release", key) : key \in Modifiers} :
        one # two /\ Prelude = <<Event("sync", ""), one, two>>
  BY <1>1
<1>3. /\ one.do = "release" /\ two.do = "release" /\ {one.key, two.key} = Modifiers
      /\ ~WritesText(one) /\ ~WritesText(two) /\ ~WritesText(Event("sync", ""))
  <2>1. PICK a \in Modifiers : one = Event("release", a)
    OBVIOUS
  <2>2. PICK b \in Modifiers : two = Event("release", b)
    OBVIOUS
  <2>3. a # b
    BY <1>2, <2>1, <2>2
  <2>4. one.key = a /\ two.key = b /\ one.do = "release" /\ two.do = "release"
    BY <2>1, <2>2 DEF Event
  <2>5. {a, b} = Modifiers
    BY <2>3 DEF Modifiers
  <2>6. ~WritesText(Event("sync", ""))
    BY DEF WritesText, Event
  <2>7. QED
    BY <2>4, <2>5, <2>6 DEF WritesText
<1> DEFINE sync == Event("sync", "")
           k1 == Keyboard(sync, k, TRUE)
           k2 == Keyboard(one, k1, TRUE)
           k3 == Keyboard(two, k2, TRUE)
<1>4. k1 = [held |-> k.held, typed |-> k.typed, caps |-> FALSE] /\ k.held \subseteq Modifiers /\ k.typed \subseteq Modifiers
  BY DEF Keyboard, Event, Keyboards
<1> HIDE DEF k1
<1>5. k2 = [k1 EXCEPT !.held = k1.held \ {one.key}, !.typed = k1.typed \ {one.key}]
  BY <1>3 DEF Keyboard
<1>6. k2 = [held |-> k.held \ {one.key}, typed |-> k.typed \ {one.key}, caps |-> FALSE]
  BY <1>4, <1>5
<1> HIDE DEF k2
<1>7. k3 = [k2 EXCEPT !.held = k2.held \ {two.key}, !.typed = k2.typed \ {two.key}]
  BY <1>3 DEF Keyboard
<1>8. k3 = [held |-> (k.held \ {one.key}) \ {two.key}, typed |-> (k.typed \ {one.key}) \ {two.key}, caps |-> FALSE]
  BY <1>6, <1>7
<1>9. (k.held \ {one.key}) \ {two.key} = {} /\ (k.typed \ {one.key}) \ {two.key} = {}
  BY <1>3, <1>4
<1>10. k3 = Clean
  BY <1>8, <1>9 DEF Clean
<1> HIDE DEF k3
<1> DEFINE typing == TRUE
<1> HIDE DEF typing, sync
<1>11. Press(<<sync, one, two>>, k, typing) = Key(two, Key(one, Key(sync, Start(k), typing), typing), typing)
  BY PressThree
<1>12. Key(sync, Start(k), typing) = Start(k1)
  BY <1>3 DEF Key, Start, k1, typing, sync
<1>13. Key(one, Start(k1), typing) = Start(k2)
  BY <1>3 DEF Key, Start, k2, typing
<1>14. Key(two, Start(k2), typing) = Start(k3)
  BY <1>3 DEF Key, Start, k3, typing
<1>15. QED
  BY <1>2, <1>10, <1>11, <1>12, <1>13, <1>14 DEF typing, sync

(* A sequence of three events, the second and third of which are releases. *)
LEMMA PreludeType ==
  /\ Prelude \in Seq(EventsOf(TextDos)) /\ Len(Prelude) = 3
<1>1. PICK one \in {Event("release", key) : key \in Modifiers} :
        \E two \in {Event("release", key) : key \in Modifiers} :
          one # two /\ Prelude = <<Event("sync", ""), one, two>>
  BY PreludeIs
<1>2. PICK two \in {Event("release", key) : key \in Modifiers} :
        one # two /\ Prelude = <<Event("sync", ""), one, two>>
  BY <1>1
<1> DEFINE S == EventsOf(TextDos)
           sync == Event("sync", "")
<1>3. sync \in S /\ one \in S /\ two \in S
  <2>1. \A key \in Modifiers : Event("release", key) \in S
    BY DEF EventsOf, Event, TextDos, Names, Modifiers
  <2>2. sync \in S
    BY DEF EventsOf, Event, TextDos, Names
  <2>3. QED
    BY <2>1, <2>2
<1> HIDE DEF S, sync
<1>4. <<sync, one, two>> \in Seq(S) /\ Len(<<sync, one, two>>) = 3
  BY <1>3
<1>5. QED
  BY <1>2, <1>4 DEF S, sync

(***************************************************************************)
(* Bursts of one event each.                                               *)
(***************************************************************************)
LEMMA SinglyIs ==
  ASSUME NEW S, NEW events \in Seq(S)
  PROVE  /\ Singly(events) \in Seq(Seq(S)) /\ Len(Singly(events)) = Len(events)
         /\ \A i \in 1..Len(events) : Singly(events)[i] = <<events[i]>>
         /\ (Singly(events) = <<>>) <=> (events = <<>>)
<1> DEFINE n == Len(events)
           T == Seq(S)
<1>1. n \in Nat /\ DOMAIN events = 1..n /\ \A i \in 1..n : events[i] \in S
  OBVIOUS
<1>2. \A x \in S : <<x>> \in T
  OBVIOUS
<1>3. Singly(events) = [i \in 1..n |-> <<events[i]>>]
  BY <1>1 DEF Singly
<1> HIDE DEF n, T
<1>4. Singly(events) \in Seq(T) /\ Len(Singly(events)) = n /\ DOMAIN Singly(events) = 1..n
  BY <1>1, <1>2, <1>3
<1>5. (n = 0) <=> (events = <<>>)
  BY DEF n
<1>6. (n = 0) <=> (Singly(events) = <<>>)
  BY <1>4
<1>7. QED
  BY <1>3, <1>4, <1>5, <1>6 DEF n, T

LEMMA SinglyNext ==
  ASSUME NEW S, NEW events \in Seq(S), events # <<>>
  PROVE  /\ Head(Singly(events)) = <<Head(events)>>
         /\ Tail(Singly(events)) = Singly(Tail(events))
         /\ events = <<Head(events)>> \o Tail(events)
         /\ Head(events) \in S /\ Tail(events) \in Seq(S) /\ <<Head(events)>> \in Seq(S)
<1> DEFINE h == Head(events)
           t == Tail(events)
           s == Singly(events)
           n == Len(events)
<1>1. /\ h \in S /\ t \in Seq(S) /\ Len(t) = n - 1 /\ n \in Nat \ {0} /\ h = events[1]
      /\ \A i \in 1..(n - 1) : t[i] = events[i + 1]
  <2>1. n \in Nat \ {0}
    BY EmptySeq
  <2>2. QED
    BY <2>1, HeadTailProperties
<1>2. s \in Seq(Seq(S)) /\ Len(s) = n /\ (\A i \in 1..n : s[i] = <<events[i]>>) /\ s # <<>>
  BY SinglyIs
<1>3. Singly(t) \in Seq(Seq(S)) /\ Len(Singly(t)) = n - 1 /\ \A i \in 1..(n - 1) : Singly(t)[i] = <<t[i]>>
  BY <1>1, SinglyIs
<1> HIDE DEF h, t, s, n
<1>4. Head(s) = <<h>>
  BY <1>1, <1>2
<1>5. Tail(s) \in Seq(Seq(S)) /\ Len(Tail(s)) = n - 1 /\ \A i \in 1..(n - 1) : Tail(s)[i] = s[i + 1]
  BY <1>1, <1>2, HeadTailProperties
<1>6. \A i \in 1..(n - 1) : Tail(s)[i] = Singly(t)[i]
  <2> SUFFICES ASSUME NEW i \in 1..(n - 1) PROVE Tail(s)[i] = Singly(t)[i]
    OBVIOUS
  <2>1. i + 1 \in 1..n
    BY <1>1
  <2>2. Tail(s)[i] = s[i + 1] /\ s[i + 1] = <<events[i + 1]>>
    BY <1>2, <1>5, <2>1
  <2>3. Singly(t)[i] = <<t[i]>> /\ t[i] = events[i + 1]
    BY <1>1, <1>3
  <2>4. QED
    BY <2>2, <2>3
<1>7. Tail(s) = Singly(t)
  BY <1>3, <1>5, <1>6, SeqEqual
<1>8. <<h>> \in Seq(S) /\ Len(<<h>>) = 1 /\ <<h>>[1] = h
  BY <1>1
<1> DEFINE one == <<h>>
<1> HIDE DEF one
<1>9. one \in Seq(S) /\ Len(one) = 1 /\ one[1] = h
  BY <1>8 DEF one
<1> DEFINE whole == one \o t
<1>10. /\ whole \in Seq(S) /\ Len(whole) = Len(one) + Len(t)
       /\ \A i \in 1..(Len(one) + Len(t)) : whole[i] = IF i <= Len(one) THEN one[i] ELSE t[i - Len(one)]
  BY <1>1, <1>9, ConcatProperties
<1> HIDE DEF whole
<1>11. Len(whole) = Len(events) /\ \A i \in 1..Len(whole) : whole[i] = events[i]
  BY <1>1, <1>9, <1>10 DEF n
<1>12. whole = events
  BY <1>10, <1>11, SeqEqual
<1>13. QED
  BY <1>1, <1>4, <1>7, <1>8, <1>12 DEF h, t, s, whole, one

(***************************************************************************)
(* Text that is sent event by event.                                       *)
(***************************************************************************)
(* With the text got so far, the events complete the text when they are    *)
(* typed on keyboard k, and leave nothing down.                            *)
Completes(got, events, k, text) ==
  got \o Press(events, k, TRUE).got = text /\ Press(events, k, TRUE).keys.typed = {}

LEMMA OneByOne ==
  ASSUME NEW dos, NEW events \in Seq(EventsOf(dos)), events # <<>>, NEW k \in Keyboards,
         NEW got \in Seq(Names), NEW text, Completes(got, events, k, text)
  PROVE  LET p == Press(<<Head(events)>>, k, TRUE) IN
           /\ p.keys \in Keyboards /\ got \o p.got \in Seq(Names)
           /\ Completes(got \o p.got, Tail(events), p.keys, text)
<1> DEFINE typing == TRUE
           one == <<Head(events)>>
           rest == Tail(events)
           p == Press(one, k, typing)
           q == Press(rest, p.keys, typing)
           all == Press(events, k, typing)
<1>1. one \in Seq(EventsOf(dos)) /\ rest \in Seq(EventsOf(dos)) /\ events = one \o rest
  BY SinglyNext
<1> HIDE DEF one, rest, typing
<1>2. p \in States
  BY <1>1, PressType
<1>3. p.keys \in Keyboards /\ p.got \in Seq(Names)
  BY <1>2 DEF States
<1>4. q \in States
  BY <1>1, <1>3, PressType
<1>5. After(Press(one \o rest, k, typing), p.got, q)
  BY <1>1, PressConcat
<1>6. After(all, p.got, q)
  BY <1>1, <1>5
<1> HIDE DEF p, q, all
<1>7. all.keys = q.keys /\ all.got = p.got \o q.got
  BY <1>6 DEF After
<1>8. q.got \in Seq(Names)
  BY <1>4 DEF States
<1>9. (got \o p.got) \o q.got = got \o (p.got \o q.got)
  <2>1. \A x, y \in Seq(Names) : (got \o x) \o y = got \o (x \o y)
    BY ConcatAssociative
  <2>2. QED
    BY <1>3, <1>8, <2>1
<1>10. got \o all.got = text /\ all.keys.typed = {}
  BY DEF Completes, all, typing
<1>11. (got \o p.got) \o q.got = text /\ q.keys.typed = {}
  BY <1>7, <1>9, <1>10
<1>12. Completes(got \o p.got, rest, p.keys, text)
  BY <1>11 DEF Completes, q, typing
<1>13. got \o p.got \in Seq(Names)
  BY <1>3, ConcatProperties
<1>14. QED
  BY <1>3, <1>12, <1>13 DEF p, one, rest, typing

LEMMA NothingLeft ==
  ASSUME NEW k, NEW got \in Seq(Names), NEW text, Completes(got, <<>>, k, text)
  PROVE  got = text /\ k.typed = {}
<1> DEFINE s == Press(<<>>, k, TRUE)
<1>1. s = Start(k)
  BY PressNothing
<1>2. got \o s.got = text /\ s.keys.typed = {}
  BY DEF Completes
<1> HIDE DEF s
<1>3. s.keys = k /\ s.got = <<>>
  BY <1>1 DEF Start
<1>4. QED
  BY <1>2, <1>3, ConcatEmptySeq

LEMMA WritCompletes ==
  ASSUME NEW dos, NEW events \in Seq(EventsOf(dos)), NEW text, Writ(events, Clean, text)
  PROVE  Completes(<<>>, events, Clean, text)
<1> DEFINE s == Press(events, Clean, TRUE)
<1>1. s \in States
  BY PressType, CleanType
<1>2. s.keys = Clean /\ s.got = text
  BY WritIs
<1> HIDE DEF s
<1>3. s.got \in Seq(Names)
  BY <1>1 DEF States
<1>4. <<>> \o s.got = s.got
  BY <1>3, ConcatEmptySeq
<1>5. <<>> \o s.got = text /\ s.keys.typed = {}
  BY <1>2, <1>4 DEF Clean
<1>6. QED
  BY <1>5 DEF Completes, s

(* A rune is the same on every keyboard, and leaves it as it is. *)
LEMMA RuneOnAnyKeyboard ==
  ASSUME NEW e \in EventsOf(RuneDos), NEW k \in Keyboards
  PROVE  Press(<<e>>, k, TRUE).keys = k /\ Press(<<e>>, k, TRUE).got = Press(<<e>>, Clean, TRUE).got
<1> DEFINE typing == TRUE
           rune == IF e.do \in {"char", "keysym"} THEN Append(<<>>, e.key) ELSE <<>>
<1>1. e.do \in RuneDos
  BY DEF EventsOf
<1> HIDE DEF typing, rune
<1>2. \A l : Key(e, Start(l), typing) = [keys |-> l, got |-> rune]
  <2> SUFFICES ASSUME NEW l PROVE Key(e, Start(l), typing) = [keys |-> l, got |-> rune]
    OBVIOUS
  <2>1. Keyboard(e, l, typing) = l
    BY <1>1 DEF Keyboard, RuneDos
  <2>2. WritesText(e) <=> e.do \in {"char", "keysym"}
    BY <1>1 DEF WritesText, RuneDos
  <2>3. e.do \in {"char", "keysym"} => Writes(e, l) = e.key
    BY DEF Writes
  <2>4. QED
    BY <2>1, <2>2, <2>3 DEF Key, Start, rune
<1>3. \A l : Press(<<e>>, l, typing) = [keys |-> l, got |-> rune]
  BY <1>2, PressOne
<1>4. \A l : Press(<<e>>, l, typing).keys = l /\ Press(<<e>>, l, typing).got = rune
  <2> SUFFICES ASSUME NEW l PROVE Press(<<e>>, l, typing).keys = l /\ Press(<<e>>, l, typing).got = rune
    OBVIOUS
  <2> DEFINE s == Press(<<e>>, l, typing)
  <2>1. s = [keys |-> l, got |-> rune]
    BY <1>3
  <2> HIDE DEF s
  <2>2. s.keys = l /\ s.got = rune
    BY <2>1
  <2>3. QED
    BY <2>2 DEF s
<1>5. QED
  BY <1>4 DEF typing

(* A rune of its own event each. *)
LEMMA EachWrites ==
  ASSUME NEW text \in Seq(Runes), NEW do \in {"char", "keysym"}, NEW k \in Keyboards
  PROVE  Writ([i \in DOMAIN text |-> Event(do, text[i])], k, text)
<1> DEFINE burst == [i \in DOMAIN text |-> Event(do, text[i])]
           n == Len(text)
           done(i) == SubSeq(text, 1, i)
           wrote(i) == [keys |-> k, got |-> done(i)]
<1>1. n \in Nat /\ DOMAIN text = 1..n /\ \A i \in 1..n : burst[i] = Event(do, text[i])
  OBVIOUS
<1>2. Len(burst) = n
  BY <1>1
<1>3. \A i \in Nat : i + 1 <= n => done(i + 1) = done(i) \o <<text[i + 1]>> /\ done(i) \in Seq(Runes) /\ text[i + 1] \in Runes
  BY PrefixGrows
<1>4. done(n) = text
  BY SubSeqFull
<1>5. done(0) = <<>>
  BY SubSeqEmpty
<1> HIDE DEF burst, n, done
<1>6. PICK f : IsRun(f, n, burst, k, TRUE) /\ Press(burst, k, TRUE) = f[n]
  <2> DEFINE typing == TRUE
  <2> HIDE DEF typing
  <2>1. \E f : IsRun(f, Len(burst), burst, k, typing) /\ Press(burst, k, typing) = f[Len(burst)]
    BY <1>1, <1>2, PressIsRun
  <2>2. QED
    BY <1>2, <2>1 DEF typing
<1>7. \A i \in 0..n : f[i] = IF i = 0 THEN Start(k) ELSE Key(burst[i], f[i - 1], TRUE)
  BY <1>6 DEF IsRun
<1> DEFINE S == {i \in Nat : i <= n => f[i] = wrote(i)}
<1>8. 0 \in S
  <2>1. 0 \in 0..n
    BY <1>1
  <2>2. f[0] = Start(k)
    BY <1>7, <2>1
  <2>3. QED
    BY <1>5, <2>2 DEF Start
<1>9. ASSUME NEW i \in Nat, i \in S PROVE i + 1 \in S
  <2> DEFINE j == i + 1
  <2>1. SUFFICES ASSUME j <= n PROVE f[j] = wrote(j)
    OBVIOUS
  <2>2. done(j) = done(i) \o <<text[j]>> /\ done(i) \in Seq(Runes) /\ text[j] \in Runes
    BY <1>3, <2>1
  <2>3. j \in 0..n /\ j \in 1..n /\ j # 0 /\ j - 1 = i /\ i <= n
    BY <1>1, <2>1
  <2> HIDE DEF j
  <2>4. f[j] = Key(Event(do, text[j]), wrote(i), TRUE)
    <3>1. f[j] = Key(burst[j], f[i], TRUE) /\ f[i] = wrote(i) /\ burst[j] = Event(do, text[j])
      BY <1>1, <1>7, <1>9, <2>3
    <3>2. QED
      BY <3>1
  <2> DEFINE e == Event(do, text[j])
  <2>5. WritesText(e) /\ (\A l : Writes(e, l) = text[j]) /\ Keyboard(e, k, TRUE) = k
    BY DEF WritesText, Writes, Keyboard, Event
  <2> HIDE DEF e
  <2>6. Append(done(i), text[j]) = done(j)
    BY <2>2, AppendIsConcat
  <2>7. Key(e, wrote(i), TRUE) = wrote(j)
    BY <2>5, <2>6 DEF Key
  <2>8. QED
    BY <2>4, <2>7 DEF e
<1> HIDE DEF S
<1>10. n \in S
  BY <1>1, <1>8, <1>9, AllNumbers
<1>11. Press(burst, k, TRUE) = wrote(n)
  <2>1. n <= n
    BY <1>1
  <2>2. f[n] = wrote(n)
    BY <1>10, <2>1 DEF S
  <2>3. QED
    BY <1>6, <2>2
<1>12. QED
  BY <1>4, <1>11 DEF Writ, burst

LEMMA EachIsLifted ==
  ASSUME NEW text \in Seq(Runes), NEW k \in Keyboards,
         NEW do, do \notin {"char", "keysym", "down", "up", "release", "sync"}
  PROVE  Press([i \in DOMAIN text |-> Event(do, text[i])], k, TRUE) = Start(k)
<1> DEFINE burst == [i \in DOMAIN text |-> Event(do, text[i])]
           n == Len(text)
<1>1. n \in Nat /\ DOMAIN text = 1..n /\ \A i \in 1..n : burst[i] = Event(do, text[i])
  OBVIOUS
<1>2. Len(burst) = n
  BY <1>1
<1> HIDE DEF burst, n
<1>3. PICK f : IsRun(f, n, burst, k, TRUE) /\ Press(burst, k, TRUE) = f[n]
  <2> DEFINE typing == TRUE
  <2> HIDE DEF typing
  <2>1. \E f : IsRun(f, Len(burst), burst, k, typing) /\ Press(burst, k, typing) = f[Len(burst)]
    BY <1>1, <1>2, PressIsRun
  <2>2. QED
    BY <1>2, <2>1 DEF typing
<1>4. \A i \in 0..n : f[i] = IF i = 0 THEN Start(k) ELSE Key(burst[i], f[i - 1], TRUE)
  BY <1>3 DEF IsRun
<1>5. \A rune : Key(Event(do, rune), Start(k), TRUE) = Start(k)
  BY DEF Key, Start, Keyboard, WritesText, Event
<1> DEFINE S == {i \in Nat : i <= n => f[i] = Start(k)}
<1>6. 0 \in S
  <2>1. 0 \in 0..n
    BY <1>1
  <2>2. QED
    BY <1>4, <2>1
<1>7. ASSUME NEW i \in Nat, i \in S PROVE i + 1 \in S
  <2> DEFINE j == i + 1
  <2>1. SUFFICES ASSUME j <= n PROVE f[j] = Start(k)
    OBVIOUS
  <2>2. j \in 0..n /\ j \in 1..n /\ j # 0 /\ j - 1 = i /\ i <= n
    BY <1>1, <2>1
  <2> HIDE DEF j
  <2>3. f[j] = Key(burst[j], f[i], TRUE) /\ f[i] = Start(k) /\ burst[j] = Event(do, text[j])
    BY <1>1, <1>4, <1>7, <2>2
  <2>4. QED
    BY <1>5, <2>3
<1> HIDE DEF S
<1>8. n \in S
  BY <1>1, <1>6, <1>7, AllNumbers
<1>9. f[n] = Start(k)
  <2>1. n <= n
    BY <1>1
  <2>2. QED
    BY <1>8, <2>1 DEF S
<1>10. QED
  BY <1>3, <1>9 DEF burst

(* A burst that leaves nothing down, whichever keyboard it meets. *)
LeavesNothing(burst) ==
  \A k \in Keyboards : k.typed = {} => Press(burst, k, TRUE).keys.typed = {}

LEMMA LeavesNothingConcat ==
  ASSUME NEW dos, NEW one \in Seq(EventsOf(dos)), NEW two \in Seq(EventsOf(dos)),
         LeavesNothing(one), LeavesNothing(two)
  PROVE  LeavesNothing(one \o two)
<1> SUFFICES ASSUME NEW k \in Keyboards, k.typed = {} PROVE Press(one \o two, k, TRUE).keys.typed = {}
  BY DEF LeavesNothing
<1> DEFINE typing == TRUE
           p == Press(one, k, typing)
           q == Press(two, p.keys, typing)
           all == Press(one \o two, k, typing)
<1>1. p.keys.typed = {}
  BY DEF LeavesNothing
<1> HIDE DEF typing
<1>2. p.keys \in Keyboards
  BY PressType DEF States
<1>3. q.keys.typed = {}
  BY <1>1, <1>2 DEF LeavesNothing, typing
<1>4. After(all, p.got, q)
  BY PressConcat
<1> HIDE DEF p, q, all
<1>5. all.keys = q.keys
  BY <1>4 DEF After
<1>6. QED
  BY <1>3, <1>5 DEF all, typing

LEMMA FlattenLeavesNothing ==
  ASSUME NEW dos, NEW seqs \in Seq(Seq(EventsOf(dos))), seqs # <<>>,
         \A i \in 1..Len(seqs) : LeavesNothing(seqs[i])
  PROVE  LeavesNothing(FlattenSeq(seqs))
<1> DEFINE n == Len(seqs)
<1>1. n \in Nat /\ n # 0 /\ \A i \in 1..n : seqs[i] \in Seq(EventsOf(dos)) /\ LeavesNothing(seqs[i])
  <2>1. n \in Nat \ {0}
    BY EmptySeq
  <2>2. QED
    BY <2>1
<1>2. PICK f : IsFlat(f, n, seqs) /\ FlattenSeq(seqs) = f[n]
  BY <1>1, FlattenIsFlat
<1> HIDE DEF n
<1>3. \A j \in 1..n : f[j] = IF j = 1 THEN seqs[j] ELSE f[j - 1] \o seqs[j]
  BY <1>2 DEF IsFlat
<1> DEFINE T == {m \in Nat : m + 1 <= n => f[m + 1] \in Seq(EventsOf(dos)) /\ LeavesNothing(f[m + 1])}
<1>4. 0 \in T
  <2>1. 1 \in 1..n
    BY <1>1
  <2>2. f[1] = seqs[1]
    BY <1>3, <2>1
  <2>3. QED
    BY <1>1, <2>1, <2>2
<1>5. ASSUME NEW m \in Nat, m \in T PROVE m + 1 \in T
  <2> DEFINE j == (m + 1) + 1
  <2>1. SUFFICES ASSUME j <= n PROVE f[j] \in Seq(EventsOf(dos)) /\ LeavesNothing(f[j])
    OBVIOUS
  <2>2. j \in 1..n /\ j # 1 /\ j - 1 = m + 1 /\ m + 1 <= n
    BY <1>1, <2>1
  <2> HIDE DEF j
  <2>3. f[j] = f[m + 1] \o seqs[j]
    BY <1>3, <2>2
  <2>4. f[m + 1] \in Seq(EventsOf(dos)) /\ LeavesNothing(f[m + 1])
    BY <1>5, <2>2
  <2>5. seqs[j] \in Seq(EventsOf(dos)) /\ LeavesNothing(seqs[j])
    BY <1>1, <2>2
  <2>6. f[m + 1] \o seqs[j] \in Seq(EventsOf(dos))
    BY <2>4, <2>5, ConcatProperties
  <2>7. LeavesNothing(f[m + 1] \o seqs[j])
    BY <2>4, <2>5, LeavesNothingConcat
  <2>8. QED
    BY <2>3, <2>6, <2>7
<1> HIDE DEF T
<1>6. \A m \in Nat : m \in T
  BY <1>4, <1>5, AllNumbers
<1>7. n - 1 \in T /\ (n - 1) + 1 = n
  BY <1>1, <1>6
<1>8. QED
  BY <1>1, <1>2, <1>7 DEF T

(***************************************************************************)
(* What each desktop is sent for a text.                                   *)
(***************************************************************************)
(* The events of each rune, in a row. *)
InARow(f, text) == FlattenSeq([i \in DOMAIN text |-> f[text[i]]])

LEMMA RowType ==
  ASSUME NEW dos, NEW text \in Seq(Runes), text # <<>>, NEW f,
         \A rune \in Runes : f[rune] \in Seq(EventsOf(dos))
  PROVE  LET seqs == [i \in DOMAIN text |-> f[text[i]]] IN
           /\ seqs \in Seq(Seq(EventsOf(dos))) /\ Len(seqs) = Len(text) /\ seqs # <<>>
           /\ \A i \in 1..Len(text) : seqs[i] = f[text[i]] /\ text[i] \in Runes
           /\ InARow(f, text) \in Seq(EventsOf(dos))
<1> DEFINE n == Len(text)
           T == Seq(EventsOf(dos))
           seqs == [i \in DOMAIN text |-> f[text[i]]]
<1>1. n \in Nat /\ n # 0 /\ DOMAIN text = 1..n /\ \A i \in 1..n : text[i] \in Runes
  <2>1. n \in Nat \ {0}
    BY EmptySeq
  <2>2. QED
    BY <2>1
<1> HIDE DEF n, T
<1>2. seqs = [i \in 1..n |-> f[text[i]]]
  BY <1>1
<1>3. \A i \in 1..n : f[text[i]] \in T
  BY <1>1 DEF T
<1>4. seqs \in Seq(T) /\ Len(seqs) = n
  BY <1>1, <1>2, <1>3
<1>5. \A i \in 1..n : seqs[i] = f[text[i]]
  BY <1>2
<1> HIDE DEF seqs
<1>6. seqs # <<>>
  BY <1>1, <1>4
<1>7. FlattenSeq(seqs) \in T
  BY <1>4, FlattenType DEF T
<1>8. QED
  BY <1>1, <1>4, <1>5, <1>6, <1>7 DEF InARow, seqs, n, T

LEMMA RowWrites ==
  ASSUME NEW dos, NEW text \in Seq(Runes), text # <<>>, NEW f,
         \A rune \in Runes : f[rune] \in Seq(EventsOf(dos)),
         \A i \in 1..Len(text) : Writ(f[text[i]], Clean, <<text[i]>>)
  PROVE  InARow(f, text) # <<>> /\ Writ(InARow(f, text), Clean, text)
<1> DEFINE seqs == [i \in DOMAIN text |-> f[text[i]]]
<1>1. /\ seqs \in Seq(Seq(EventsOf(dos))) /\ Len(seqs) = Len(text)
      /\ \A i \in 1..Len(text) : seqs[i] = f[text[i]]
  BY RowType
<1>2. \A i \in 1..Len(text) : Writ(seqs[i], Clean, <<text[i]>>)
  BY <1>1
<1> HIDE DEF seqs
<1>3. text \in Seq(Names)
  <2>1. Runes \subseteq Names
    BY DEF Names
  <2>2. QED
    BY <2>1, SeqMonotonic
<1>4. Writ(FlattenSeq(seqs), Clean, text)
  BY <1>1, <1>2, <1>3, CleanType, FlattenWrites
<1>5. ASSUME FlattenSeq(seqs) = <<>> PROVE FALSE
  <2>1. Press(<<>>, Clean, TRUE) = Start(Clean)
    BY PressNothing
  <2>2. Start(Clean) = [keys |-> Clean, got |-> text]
    BY <1>4, <1>5, <2>1 DEF Writ
  <2>3. Start(Clean).got = <<>>
    BY DEF Start
  <2>4. Start(Clean).got = text
    BY <2>2
  <2>5. QED
    BY <2>3, <2>4
<1>6. QED
  BY <1>4, <1>5 DEF InARow, seqs

LEMMA RdpTyping ==
  ASSUME NEW d \in Rdp, NEW text \in Seq(Runes), text # <<>>
  PROVE  \E events \in Seq(EventsOf(TextDos)) :
           /\ TypeBursts(d, text) = Singly(events) /\ events # <<>>
           /\ \A i \in DOMAIN events : events[i].do = "release" => i # Len(events)
           /\ \A k \in Keyboards : Completes(<<>>, events, k, text)
<1> DEFINE f == [rune \in Runes |-> RdpEvents(d, rune)]
           row == InARow(f, text)
           events == Prelude \o row
           dos == TextDos \ {"release"}
<1>1. \A rune \in Runes : f[rune] \in Seq(EventsOf(dos)) /\ Writ(f[rune], Clean, <<rune>>)
  BY RdpEventsWrite
<1>2. \A i \in 1..Len(text) : text[i] \in Runes
  OBVIOUS
<1>3. TypeBursts(d, text) = Singly(events)
  <2>1. d \notin {"vnc", "windows", "macos", "ydotool", "eis"}
    BY DEF Rdp
  <2>2. [i \in DOMAIN text |-> RdpEvents(d, text[i])] = [i \in DOMAIN text |-> f[text[i]]]
    <3>1. \A i \in DOMAIN text : text[i] \in Runes
      OBVIOUS
    <3>2. QED
      BY <3>1
  <2>3. TypeBursts(d, text) = Singly(Prelude \o FlattenSeq([i \in DOMAIN text |-> RdpEvents(d, text[i])]))
    BY <2>1 DEF TypeBursts, ForEach
  <2> HIDE DEF f
  <2>4. QED
    BY <2>2, <2>3 DEF InARow
<1> HIDE DEF f, dos
<1>4. row # <<>> /\ Writ(row, Clean, text)
  BY <1>1, <1>2, RowWrites
<1>5. row \in Seq(EventsOf(dos))
  BY <1>1, RowType
<1>6. row \in Seq(EventsOf(TextDos))
  <2>1. dos \subseteq TextDos
    BY DEF dos
  <2>2. QED
    BY <1>5, <2>1, MoreEvents
<1> HIDE DEF row
<1>7. /\ events \in Seq(EventsOf(TextDos)) /\ Len(events) = 3 + Len(row) /\ Len(row) \in Nat \ {0}
      /\ \A i \in 1..(3 + Len(row)) : i > 3 => events[i] = row[i - 3]
  <2>1. Len(row) \in Nat \ {0}
    BY <1>4, <1>5, EmptySeq
  <2>2. /\ events \in Seq(EventsOf(TextDos)) /\ Len(events) = Len(Prelude) + Len(row)
        /\ \A i \in 1..(Len(Prelude) + Len(row)) :
             events[i] = IF i <= Len(Prelude) THEN Prelude[i] ELSE row[i - Len(Prelude)]
    BY <1>6, PreludeType, ConcatProperties
  <2> HIDE DEF events
  <2>3. QED
    BY <2>1, <2>2, PreludeType
<1>8. \A k \in Keyboards : Completes(<<>>, events, k, text)
  <2> SUFFICES ASSUME NEW k \in Keyboards PROVE Completes(<<>>, events, k, text)
    OBVIOUS
  <2> DEFINE typing == TRUE
             p == Press(Prelude, k, typing)
             q == Press(row, p.keys, typing)
             all == Press(Prelude \o row, k, typing)
  <2>1. p.keys = Clean /\ p.got = <<>>
    <3>1. p = Start(Clean)
      BY PreludeCleans
    <3> HIDE DEF p
    <3>2. QED
      BY <3>1 DEF Start
  <2>2. q.keys = Clean /\ q.got = text
    <3>1. Press(row, Clean, typing).keys = Clean /\ Press(row, Clean, typing).got = text
      BY <1>4, WritIs
    <3> HIDE DEF typing
    <3>2. QED
      BY <2>1, <3>1
  <2> HIDE DEF typing
  <2>3. After(all, p.got, q)
    BY <1>6, PreludeType, PressConcat
  <2> HIDE DEF p, q, all
  <2>4. all.keys = Clean /\ all.got = <<>> \o text
    BY <2>1, <2>2, <2>3 DEF After
  <2>5. <<>> \o text = text
    BY ConcatEmptySeq
  <2>6. <<>> \o all.got = text /\ all.keys.typed = {}
    BY <2>4, <2>5 DEF Clean
  <2>7. QED
    BY <2>6 DEF Completes, all, typing
<1> HIDE DEF events
<1>9. events # <<>>
  BY <1>7
<1>10. \A i \in DOMAIN events : events[i].do = "release" => i # Len(events)
  <2> SUFFICES ASSUME events[Len(events)].do = "release" PROVE FALSE
    OBVIOUS
  <2>1. events[Len(events)] = row[Len(row)]
    BY <1>7
  <2>2. row[Len(row)] \in EventsOf(dos)
    BY <1>5, <1>7
  <2>3. QED
    BY <2>1, <2>2 DEF EventsOf, dos
<1>11. QED
  BY <1>3, <1>7, <1>8, <1>9, <1>10

LEMMA WindowsTyping ==
  ASSUME NEW text \in Seq(Runes), text # <<>>
  PROVE  \E events \in Seq(EventsOf(RuneDos)) :
           /\ TypeBursts("windows", text) = Singly(events) /\ events # <<>>
           /\ Completes(<<>>, events, Clean, text)
<1> DEFINE f == [rune \in Runes |-> UnicodeEvents(rune)]
           row == InARow(f, text)
<1>1. \A rune \in Runes : f[rune] \in Seq(EventsOf(RuneDos)) /\ Writ(f[rune], Clean, <<rune>>)
  <2>1. "char" \in RuneDos /\ "char end" \in RuneDos
    BY DEF RuneDos
  <2>2. QED
    BY <2>1, RuneEventType, RunePair, CleanType DEF UnicodeEvents
<1>2. \A i \in 1..Len(text) : text[i] \in Runes
  OBVIOUS
<1>3. TypeBursts("windows", text) = Singly(row)
  <2>1. "windows" \notin Rdp
    BY DEF Rdp
  <2>2. [i \in DOMAIN text |-> UnicodeEvents(text[i])] = [i \in DOMAIN text |-> f[text[i]]]
    <3>1. \A i \in DOMAIN text : text[i] \in Runes
      OBVIOUS
    <3>2. QED
      BY <3>1
  <2>3. TypeBursts("windows", text) = Singly(FlattenSeq([i \in DOMAIN text |-> UnicodeEvents(text[i])]))
    BY <2>1 DEF TypeBursts, ForEach
  <2> HIDE DEF f
  <2>4. QED
    BY <2>2, <2>3 DEF InARow
<1> HIDE DEF f
<1>4. row # <<>> /\ Writ(row, Clean, text)
  BY <1>1, <1>2, RowWrites
<1>5. row \in Seq(EventsOf(RuneDos))
  BY <1>1, RowType
<1> HIDE DEF row
<1>6. Completes(<<>>, row, Clean, text)
  BY <1>4, <1>5, WritCompletes
<1>7. QED
  BY <1>3, <1>4, <1>5, <1>6

LEMMA YdotoolTyping ==
  ASSUME NEW text \in Seq(Runes), text # <<>>
  PROVE  \E events \in Seq(EventsOf(RuneDos)) :
           /\ TypeBursts("ydotool", text) = Singly(events) /\ events # <<>>
           /\ Completes(<<>>, events, Clean, text)
<1> DEFINE events == [i \in DOMAIN text |-> Event("keysym", text[i])]
           n == Len(text)
           S == EventsOf(RuneDos)
<1>1. TypeBursts("ydotool", text) = Singly(events)
  <2>1. "ydotool" \notin Rdp
    BY DEF Rdp
  <2>2. TypeBursts("ydotool", text) = [i \in DOMAIN text |-> <<Event("keysym", text[i])>>]
    BY <2>1 DEF TypeBursts
  <2>3. DOMAIN events = DOMAIN text /\ \A i \in DOMAIN text : events[i] = Event("keysym", text[i])
    OBVIOUS
  <2> HIDE DEF events
  <2>4. Singly(events) = [i \in DOMAIN text |-> <<Event("keysym", text[i])>>]
    BY <2>3 DEF Singly
  <2>5. QED
    BY <2>2, <2>4
<1>2. Writ(events, Clean, text)
  BY EachWrites, CleanType
<1>3. n \in Nat /\ n # 0 /\ DOMAIN text = 1..n /\ \A i \in 1..n : text[i] \in Runes
  <2>1. n \in Nat \ {0}
    BY EmptySeq
  <2>2. QED
    BY <2>1
<1>4. \A rune \in Runes : Event("keysym", rune) \in S
  <2>1. "keysym" \in RuneDos
    BY DEF RuneDos
  <2>2. QED
    BY <2>1, RuneEventType
<1> HIDE DEF n, S
<1>5. events = [i \in 1..n |-> Event("keysym", text[i])]
  BY <1>3
<1>6. events \in Seq(S) /\ Len(events) = n
  BY <1>3, <1>4, <1>5
<1> HIDE DEF events
<1>7. events # <<>>
  BY <1>3, <1>6
<1>8. Completes(<<>>, events, Clean, text)
  BY <1>2, <1>6, WritCompletes DEF S
<1>9. QED
  BY <1>1, <1>6, <1>7, <1>8 DEF S

LEMMA VncTyping ==
  ASSUME NEW text \in Seq(Runes), text # <<>>
  PROVE  \E events \in Seq(EventsOf(RuneDos)) :
           /\ TypeBursts("vnc", text) = Singly(events) /\ events # <<>>
           /\ (\E i \in DOMAIN events : events[i] = Refusal) \/ Completes(<<>>, events, Clean, text)
<1> DEFINE f == [rune \in Runes |-> KeysymEvents(rune)]
           row == InARow(f, text)
           seqs == [i \in DOMAIN text |-> f[text[i]]]
<1>1. \A rune \in Runes : f[rune] \in Seq(EventsOf(RuneDos)) /\ (rune # "kanji" => Writ(f[rune], Clean, <<rune>>))
  <2>1. "keysym" \in RuneDos /\ "keysym end" \in RuneDos
    BY DEF RuneDos
  <2>2. <<Refusal>> \in Seq(EventsOf(RuneDos))
    <3>1. Refusal \in EventsOf(RuneDos)
      BY DEF Refusal, Event, EventsOf, RuneDos, Names
    <3>2. QED
      BY <3>1
  <2> SUFFICES ASSUME NEW rune \in Runes
               PROVE  /\ KeysymEvents(rune) \in Seq(EventsOf(RuneDos))
                      /\ rune # "kanji" => Writ(KeysymEvents(rune), Clean, <<rune>>)
    OBVIOUS
  <2>3. CASE rune = "kanji"
    BY <2>2, <2>3 DEF KeysymEvents
  <2>4. CASE rune # "kanji"
    <3>1. KeysymEvents(rune) = <<Event("keysym", rune), Event("keysym end", rune)>>
      BY <2>4 DEF KeysymEvents
    <3>2. <<Event("keysym", rune), Event("keysym end", rune)>> \in Seq(EventsOf(RuneDos))
      BY <2>1, RuneEventType
    <3>3. Writ(<<Event("keysym", rune), Event("keysym end", rune)>>, Clean, <<rune>>)
      BY RunePair, CleanType
    <3>4. QED
      BY <3>1, <3>2, <3>3
  <2>5. QED
    BY <2>3, <2>4
<1>2. \A i \in 1..Len(text) : text[i] \in Runes
  OBVIOUS
<1>3. TypeBursts("vnc", text) = Singly(row)
  <2>1. "vnc" \notin Rdp
    BY DEF Rdp
  <2>2. [i \in DOMAIN text |-> KeysymEvents(text[i])] = [i \in DOMAIN text |-> f[text[i]]]
    <3>1. \A i \in DOMAIN text : text[i] \in Runes
      OBVIOUS
    <3>2. QED
      BY <3>1
  <2>3. TypeBursts("vnc", text) = Singly(FlattenSeq([i \in DOMAIN text |-> KeysymEvents(text[i])]))
    BY <2>1 DEF TypeBursts, ForEach
  <2> HIDE DEF f
  <2>4. QED
    BY <2>2, <2>3 DEF InARow
<1>4. f["kanji"] = <<Refusal>>
  BY DEF KeysymEvents, Runes
<1> HIDE DEF f
<1>5. row \in Seq(EventsOf(RuneDos))
  BY <1>1, RowType
<1>6. /\ seqs \in Seq(Seq(EventsOf(RuneDos))) /\ Len(seqs) = Len(text) /\ seqs # <<>>
      /\ \A i \in 1..Len(text) : seqs[i] = f[text[i]]
  <2>1. \A rune \in Runes : f[rune] \in Seq(EventsOf(RuneDos))
    BY <1>1
  <2>2. QED
    BY <2>1, RowType
<1>7. CASE \E i \in 1..Len(text) : text[i] = "kanji"
  <2>1. PICK i \in 1..Len(text) : text[i] = "kanji"
    BY <1>7
  <2>2. seqs \in Seq(Seq(EventsOf(RuneDos))) /\ Len(seqs) = Len(text) /\ seqs[i] = f[text[i]]
    <3> HIDE DEF seqs
    <3>1. QED
      BY <1>6
  <2>3. seqs[i] = <<Refusal>>
    BY <1>4, <2>1, <2>2
  <2> HIDE DEF seqs
  <2>4. \E j \in DOMAIN FlattenSeq(seqs) : FlattenSeq(seqs)[j] = Refusal
    <3>1. i \in 1..Len(seqs)
      BY <2>1, <2>2
    <3>2. QED
      BY <2>2, <2>3, <3>1, FlattenHas
  <2>5. \E j \in DOMAIN row : row[j] = Refusal
    BY <2>4 DEF InARow, seqs
  <2>6. row # <<>>
    <3>1. DOMAIN <<>> = {}
      OBVIOUS
    <3>2. QED
      BY <2>5, <3>1
  <2>7. QED
    BY <1>3, <1>5, <2>5, <2>6
<1>8. CASE \A i \in 1..Len(text) : text[i] # "kanji"
  <2>1. row # <<>> /\ Writ(row, Clean, text)
    BY <1>1, <1>2, <1>8, RowWrites
  <2> HIDE DEF row
  <2>2. Completes(<<>>, row, Clean, text)
    BY <1>5, <2>1, WritCompletes
  <2>3. QED
    BY <1>3, <1>5, <2>1, <2>2
<1>9. QED
  BY <1>7, <1>8

LEMMA MacosTyping ==
  ASSUME NEW text \in Seq(Runes), text # <<>>
  PROVE  \E chars, ends :
           /\ TypeBursts("macos", text) = <<chars, ends>>
           /\ chars[1].do # "release" /\ ends[1].do # "release"
           /\ \A k \in Keyboards : Writ(chars, k, text) /\ Press(ends, k, TRUE) = Start(k)
<1> DEFINE end == "char end"
           chars == [i \in DOMAIN text |-> Event("char", text[i])]
           ends == [i \in DOMAIN text |-> Event(end, text[i])]
<1>1. TypeBursts("macos", text) = <<chars, ends>>
  <2>1. "macos" \notin Rdp
    BY DEF Rdp
  <2>2. QED
    BY <2>1, Zenon DEF TypeBursts
<1>2. end \notin {"char", "keysym", "down", "up", "release", "sync"}
  OBVIOUS
<1> HIDE DEF end
<1>3. 1 \in DOMAIN text
  <2>1. Len(text) \in Nat \ {0} /\ DOMAIN text = 1..Len(text)
    BY EmptySeq, LenProperties
  <2>2. QED
    BY <2>1
<1>4. chars[1].do # "release" /\ ends[1].do # "release"
  BY <1>2, <1>3 DEF Event
<1>5. \A k \in Keyboards : Writ(chars, k, text) /\ Press(ends, k, TRUE) = Start(k)
  BY <1>2, EachWrites, EachIsLifted
<1>6. QED
  BY <1>1, <1>4, <1>5

LEMMA EisTyping ==
  ASSUME NEW text \in Seq(Runes), text # <<>>
  PROVE  \E burst :
           /\ TypeBursts("eis", text) = <<burst>> /\ burst[1].do # "release"
           /\ \/ burst = <<Refusal>>
              \/ /\ burst \in Seq(EventsOf({"down", "up"}))
                 /\ LeavesNothing(burst) /\ Writ(burst, Clean, text)
<1> DEFINE f == [rune \in Runes |-> KeyEvents(rune)]
           dos == {"down", "up"}
           row == InARow(f, text)
           seqs == [i \in DOMAIN text |-> f[text[i]]]
<1>1. "eis" \notin Rdp
  BY DEF Rdp
<1>2. CASE ~\A i \in DOMAIN text : HasKey(text[i])
  <2>1. TypeBursts("eis", text) = << <<Refusal>> >>
    BY <1>1, <1>2 DEF TypeBursts
  <2>2. <<Refusal>>[1].do # "release"
    BY DEF Refusal, Event
  <2>3. QED
    BY <2>1, <2>2
<1>3. CASE \A i \in DOMAIN text : HasKey(text[i])
  <2>1. TypeBursts("eis", text) = <<row>>
    <3>1. [i \in DOMAIN text |-> KeyEvents(text[i])] = [i \in DOMAIN text |-> f[text[i]]]
      <4>1. \A i \in DOMAIN text : text[i] \in Runes
        OBVIOUS
      <4>2. QED
        BY <4>1
    <3>2. TypeBursts("eis", text) = << FlattenSeq([i \in DOMAIN text |-> KeyEvents(text[i])]) >>
      BY <1>1, <1>3, Zenon DEF TypeBursts, ForEach
    <3> HIDE DEF f
    <3>3. QED
      BY <3>1, <3>2 DEF InARow
  <2>2. \A rune \in Runes : f[rune] \in Seq(EventsOf(dos))
    BY KeyEventsType
  <2>3. \A i \in 1..Len(text) : text[i] \in Runes /\ HasKey(text[i])
    <3>1. DOMAIN text = 1..Len(text)
      OBVIOUS
    <3>2. QED
      BY <1>3, <3>1
  <2>4. \A i \in 1..Len(text) : LeavesNothing(f[text[i]])
    <3> SUFFICES ASSUME NEW i \in 1..Len(text) PROVE LeavesNothing(KeyEvents(text[i]))
      BY <2>3
    <3>1. QED
      BY <2>3, KeyEventsWrite DEF LeavesNothing
  <2>5. \A i \in 1..Len(text) : Writ(f[text[i]], Clean, <<text[i]>>)
    <3> SUFFICES ASSUME NEW i \in 1..Len(text) PROVE Writ(KeyEvents(text[i]), Clean, <<text[i]>>)
      BY <2>3
    <3>1. Clean.typed = {}
      BY DEF Clean
    <3>2. QED
      BY <2>3, <3>1, CleanType, KeyEventsWrite
  <2> HIDE DEF f, dos
  <2>6. row # <<>> /\ Writ(row, Clean, text)
    BY <2>2, <2>5, RowWrites
  <2>7. row \in Seq(EventsOf(dos))
    BY <2>2, RowType
  <2>8. LeavesNothing(row)
    <3>1. /\ seqs \in Seq(Seq(EventsOf(dos))) /\ Len(seqs) = Len(text) /\ seqs # <<>>
          /\ \A i \in 1..Len(text) : seqs[i] = f[text[i]]
      BY <2>2, RowType
    <3>2. \A i \in 1..Len(seqs) : LeavesNothing(seqs[i])
      BY <2>4, <3>1
    <3> HIDE DEF seqs
    <3>3. LeavesNothing(FlattenSeq(seqs))
      BY <3>1, <3>2, FlattenLeavesNothing
    <3>4. QED
      BY <3>3 DEF InARow, seqs
  <2> HIDE DEF row
  <2>9. row[1].do # "release"
    <3>1. Len(row) \in Nat \ {0}
      BY <2>6, <2>7, EmptySeq
    <3>2. row[1] \in EventsOf(dos)
      BY <2>7, <3>1, ElementOfSeq
    <3>3. QED
      BY <3>2 DEF EventsOf, dos
  <2>10. row \in Seq(EventsOf({"down", "up"}))
    BY <2>7 DEF dos
  <2>11. QED
    BY <2>1, <2>6, <2>8, <2>9, <2>10
<1>4. QED
  BY <1>2, <1>3

(***************************************************************************)
(* What is left to send completes the text: on RDP on every keyboard until *)
(* the lock is taken, and then on the keyboard that is there; where runes  *)
(* are sent, on any.                                                       *)
(***************************************************************************)
TypesOnRdp(x, c, l, s, k) ==
  \E events \in Seq(EventsOf(TextDos)) :
    /\ x.todo = Singly(events) /\ events # <<>>
    /\ \A i \in DOMAIN events : events[i].do = "release" => i # Len(events)
    /\ l # c => x.got = <<>> /\ ~x.missed /\ \A b \in Keyboards : Completes(<<>>, events, b, x.req.text)
    /\ (l = c /\ ~x.missed) => Completes(x.got, events, k, x.req.text)
    /\ x.missed => s

TypesRunes(x, c, l) ==
  \E events \in Seq(EventsOf(RuneDos)) :
    /\ x.todo = Singly(events) /\ events # <<>>
    /\ (desktop = "vnc" /\ l # c) => x.got = <<>>
    /\ (\E i \in DOMAIN events : events[i] = Refusal) \/ Completes(x.got, events, Clean, x.req.text)

TypesOnMacos(x) ==
  \/ x.got = <<>> /\ x.todo = TypeBursts("macos", x.req.text)
  \/ x.got = x.req.text /\ x.todo = Tail(TypeBursts("macos", x.req.text))

TypesOnEis(x) == x.got = <<>> /\ x.todo = TypeBursts("eis", x.req.text)

Types(x, c, l, s, k) ==
  /\ desktop \in Rdp => TypesOnRdp(x, c, l, s, k)
  /\ desktop \in {"vnc", "windows", "ydotool"} => TypesRunes(x, c, l)
  /\ desktop = "macos" => TypesOnMacos(x)
  /\ desktop = "eis" => TypesOnEis(x)

(* Any other request sends its events one by one and releases no modifier. *)
OneEach(S) == {<<e>> : e \in S}
Plain(todo) ==
  todo # <<>> /\ \E S : todo \in Seq(OneEach(S)) /\ \A e \in S : e.do # "release"

TextOf(x, c, l, s, k) ==
  /\ (x.pc = "sending" /\ x.req.op = "type") =>
       /\ x.req.text \in Seq(Runes) /\ x.req.text # <<>>
       /\ x.got \in Seq(Names) /\ Types(x, c, l, s, k)
  /\ (x.pc = "sending" /\ x.req.op # "type") => Plain(x.todo)
  /\ (/\ x.pc = "ok" /\ x.req.op = "type"
      /\ desktop # "eis" \/ x.clean
      /\ desktop \in Rdp => ~x.missed) => x.got = x.req.text

TextInv ==
  /\ desktop \in Desktops /\ keys \in Keyboards /\ lock \in Clients \cup {"nobody"}
  /\ lock \in Clients => Typing(lock) /\ TypesUnderLock(desktop)
  /\ keys.typed # {} => desktop \in Rdp /\ (spoilt \/ lock \in Clients)
  /\ \A c \in Clients : TextOf(client[c], c, lock, spoilt, keys)

LEMMA OtherClient ==
  ASSUME NEW x, NEW d, NEW l, NEW m, NEW s, NEW t, NEW k, NEW j,
         l = d <=> m = d, l = d => j = k /\ t = s, TextOf(x, d, l, s, k)
  PROVE  TextOf(x, d, m, t, j)
<1>1. TypesOnRdp(x, d, l, s, k) => TypesOnRdp(x, d, m, t, j)
  BY DEF TypesOnRdp
<1>2. TypesRunes(x, d, l) => TypesRunes(x, d, m)
  BY DEF TypesRunes
<1>3. Types(x, d, l, s, k) => Types(x, d, m, t, j)
  BY <1>1, <1>2 DEF Types
<1>4. QED
  BY <1>3 DEF TextOf

(* Only client c changes, with the lock and the keyboard it may use. *)
LEMMA TextOfOne ==
  ASSUME IInv, TextInv, NEW c \in Clients, NEW x, UNCHANGED desktop,
         client' = [client EXCEPT ![c] = x],
         lock' # lock \/ keys' # keys \/ spoilt' # spoilt => lock \in {c, "nobody"},
         lock' \in {lock, c, "nobody"}, keys' \in Keyboards,
         lock' = c => x.pc = "sending" /\ x.req.op = "type" /\ TypesUnderLock(desktop),
         keys'.typed # {} => desktop \in Rdp /\ (spoilt' \/ lock' \in Clients),
         TextOf(x, c, lock', spoilt', keys')
  PROVE  TextInv'
<1>1. client'[c] = x /\ \A d \in Clients : d # c => client'[d] = client[d]
  BY DEF IInv, Shape
<1>2. c # "nobody" /\ "nobody" \notin Clients
  BY RequestsAssumption
<1>3. \A d \in Clients : d # c => ((lock = d) <=> (lock' = d))
  BY <1>2
<1>4. ASSUME NEW d \in Clients PROVE TextOf(client'[d], d, lock', spoilt', keys')
  <2>1. CASE d = c
    BY <1>1, <2>1
  <2>2. CASE d # c
    <3>1. TextOf(client[d], d, lock, spoilt, keys)
      BY DEF TextInv
    <3>2. lock = d <=> lock' = d
      BY <1>3, <2>2
    <3>3. lock = d => keys' = keys /\ spoilt' = spoilt
      BY <1>2, <2>2
    <3>4. QED
      BY <1>1, <2>2, <3>1, <3>2, <3>3, OtherClient
  <2>3. QED
    BY <2>1, <2>2
<1>5. ASSUME NEW d \in Clients PROVE TextOf(client[d], d, lock, spoilt, keys)'
  <2>1. TextOf(client'[d], d, lock', spoilt', keys')
    BY <1>4
  <2>2. QED
    BY <2>1 DEF TextOf, Types, TypesOnRdp, TypesRunes
<1>6. lock' \in Clients => (Typing(lock) /\ TypesUnderLock(desktop))'
  <2>1. CASE lock' = c
    BY <1>1, <2>1 DEF Typing, TypesUnderLock
  <2>2. CASE lock' \in Clients /\ lock' # c
    <3>1. lock' = lock
      BY <1>2, <2>2
    <3>2. QED
      BY <1>1, <2>2, <3>1 DEF TextInv, Typing, TypesUnderLock
  <2>3. QED
    BY <2>1, <2>2
<1>7. lock' \in Clients \cup {"nobody"}
  BY DEF TextInv
<1>8. QED
  BY <1>5, <1>6, <1>7 DEF TextInv

LEMMA LockIsMine ==
  ASSUME TextInv, NEW c \in Clients, MayInput(c)
  PROVE  lock \in {c, "nobody"}
BY RequestsAssumption DEF TextInv, MayInput

(***************************************************************************)
(* A request that is received.                                             *)
(***************************************************************************)
LEMMA PlainIs ==
  ASSUME NEW S, NEW todo \in Seq(OneEach(S)), todo # <<>>, \A e \in S : e.do # "release"
  PROVE  Plain(todo)
BY DEF Plain

LEMMA ShownIsPlain ==
  ASSUME NEW bursts, NEW r, Shows(bursts, r)
  PROVE  Plain(bursts)
<1>1. PICK do \in {"point", "wheel", "frame"} : \E v :
        bursts \in {<< <<Pointer(do, v)>> >>, << <<Pointer("point", <<0>>)>>, <<Pointer(do, v)>> >>}
  BY DEF Shows
<1>2. PICK v :
        bursts \in {<< <<Pointer(do, v)>> >>, << <<Pointer("point", <<0>>)>>, <<Pointer(do, v)>> >>}
  BY <1>1
<1> DEFINE a == Pointer("point", <<0>>)
           b == Pointer(do, v)
           S == {a, b}
           T == OneEach(S)
<1>3. a.do # "release" /\ b.do # "release"
  BY DEF Pointer
<1> HIDE DEF a, b
<1> DEFINE p == <<a>>
           q == <<b>>
<1>4. p \in T /\ q \in T
  BY DEF OneEach
<1>5. bursts \in {<<q>>, <<p, q>>}
  BY <1>2 DEF a, b
<1> HIDE DEF T, p, q
<1>6. bursts \in Seq(T) /\ bursts # <<>>
  <2>1. <<q>> \in Seq(T) /\ <<p, q>> \in Seq(T) /\ <<q>> # <<>> /\ <<p, q>> # <<>>
    BY <1>4
  <2>2. QED
    BY <1>5, <2>1
<1>7. \A e \in S : e.do # "release"
  BY <1>3
<1>8. QED
  BY <1>6, <1>7, PlainIs DEF T

LEMMA ClickIsPlain ==
  ASSUME NEW name
  PROVE  Plain(ClickBursts(name))
<1> DEFINE a == Pointer("point", <<0>>)
           b == Event("press", name)
           d == Event("lift", name)
           r == Refusal
           S == {a, b, d, r}
           T == OneEach(S)
           press == IF ButtonKnown(desktop, name) THEN << <<b>>, <<d>> >> ELSE << <<r>> >>
<1>1. a.do # "release" /\ b.do # "release" /\ d.do # "release" /\ r.do # "release"
  BY DEF Pointer, Event, Refusal
<1>2. ClickBursts(name) = << <<a>> >> \o PointFirst \o press
  BY DEF ClickBursts
<1>3. PointFirst \in {<< <<a>> >>, <<>>}
  BY DEF PointFirst
<1> HIDE DEF a, b, d, r
<1>4. <<a>> \in T /\ <<b>> \in T /\ <<d>> \in T /\ <<r>> \in T
  BY DEF OneEach
<1>5. \A e \in S : e.do # "release"
  BY <1>1
<1> HIDE DEF T
<1>6. press \in Seq(T) /\ << <<a>> >> \in Seq(T) /\ PointFirst \in Seq(T) /\ << <<a>> >> # <<>>
  <2> DEFINE p == <<a>>
             q == <<b>>
             u == <<d>>
             v == <<r>>
  <2>1. p \in T /\ q \in T /\ u \in T /\ v \in T
    BY <1>4
  <2>2. PointFirst \in {<<p>>, <<>>} /\ press \in {<<q, u>>, <<v>>}
    BY <1>3
  <2> HIDE DEF p, q, u, v, press
  <2>3. <<p>> \in Seq(T) /\ <<>> \in Seq(T) /\ <<q, u>> \in Seq(T) /\ <<v>> \in Seq(T) /\ <<p>> # <<>>
    BY <2>1
  <2>4. QED
    BY <2>2, <2>3 DEF p
<1> DEFINE first == << <<a>> >>
<1> HIDE DEF press, first
<1>7. first \in Seq(T) /\ first # <<>>
  BY <1>6 DEF first
<1>8. first \o PointFirst \in Seq(T) /\ first \o PointFirst # <<>>
  BY <1>6, <1>7, ConcatProperties, ConcatEqualIffEmpty
<1>9. (first \o PointFirst) \o press \in Seq(T) /\ (first \o PointFirst) \o press # <<>>
  BY <1>6, <1>8, ConcatProperties, ConcatEqualIffEmpty
<1>10. ClickBursts(name) = (first \o PointFirst) \o press
  BY <1>2 DEF first
<1> DEFINE bursts == ClickBursts(name)
<1> HIDE DEF bursts
<1>11. bursts \in Seq(T) /\ bursts # <<>>
  BY <1>9, <1>10 DEF bursts
<1>12. Plain(bursts)
  BY <1>5, <1>11, PlainIs DEF T
<1>13. QED
  BY <1>12 DEF bursts

LEMMA KeypressIsPlain ==
  ASSUME NEW name, NEW out \in Keypress(name), out.answer = "sending"
  PROVE  Plain(out.todo)
<1> DEFINE key == CanonicalKey[name]
           a == Down(key)
           b == Up(key)
           r == Refusal
           S == {a, b, r}
           T == OneEach(S)
<1>1. a.do # "release" /\ b.do # "release" /\ r.do # "release"
  BY DEF Down, Up, Event, Refusal
<1>2. out = Sends(IF KeyKnown(desktop, key) THEN << <<a>>, <<b>> >> ELSE << <<r>> >>)
  BY DEF Keypress, Ends
<1>3. out.todo = IF KeyKnown(desktop, key) THEN << <<a>>, <<b>> >> ELSE << <<r>> >>
  BY <1>2 DEF Sends
<1> HIDE DEF a, b, r, key
<1>4. <<a>> \in T /\ <<b>> \in T /\ <<r>> \in T
  BY DEF OneEach
<1> HIDE DEF T
<1>5. out.todo \in Seq(T) /\ out.todo # <<>>
  <2> DEFINE p == <<a>>
             q == <<b>>
             v == <<r>>
  <2>1. p \in T /\ q \in T /\ v \in T /\ out.todo \in {<<p, q>>, <<v>>}
    BY <1>3, <1>4
  <2> HIDE DEF p, q, v
  <2>2. <<p, q>> \in Seq(T) /\ <<v>> \in Seq(T) /\ <<p, q>> # <<>> /\ <<v>> # <<>>
    BY <2>1
  <2>3. QED
    BY <2>1, <2>2
<1>6. \A e \in S : e.do # "release"
  BY <1>1
<1>7. QED
  BY <1>5, <1>6, PlainIs DEF T

LEMMA OutcomeIsPlain ==
  ASSUME desktop \in Desktops, NEW r, r.op \in DOMAIN ScopeOf, r.op # "type",
         r.number \in Int, r.width \in Int, NEW out \in Outcomes(r), out.answer = "sending"
  PROVE  Plain(out.todo)
<1>1. CASE r.op = "move"
  BY <1>1, MoveShows, ShownIsPlain DEF Outcomes
<1>2. CASE r.op = "scroll"
  BY <1>2, ScrollShows, ShownIsPlain DEF Outcomes
<1>3. CASE r.op = "screenshot"
  BY <1>3, ScreenshotShows, ShownIsPlain DEF Outcomes
<1>4. CASE r.op = "click"
  <2>1. out \in Click(r.name)
    BY <1>4 DEF Outcomes
  <2>2. out = Sends(ClickBursts(CanonicalButton[r.name]))
    BY <2>1 DEF Click, Ends
  <2>3. out.todo = ClickBursts(CanonicalButton[r.name])
    BY <2>2 DEF Sends
  <2>4. QED
    BY <2>3, ClickIsPlain
<1>5. CASE r.op = "keypress"
  <2>1. out \in Keypress(r.name)
    BY <1>5 DEF Outcomes
  <2>2. QED
    BY <2>1, KeypressIsPlain
<1>6. QED
  BY <1>1, <1>2, <1>3, <1>4, <1>5 DEF ScopeOf

(* A text that is to be typed, before anything of it is sent. *)
LEMMA TypeTypes ==
  ASSUME desktop \in Desktops, NEW x, NEW c, NEW l, NEW s, NEW k, l # c,
         x.req.text \in Seq(Runes), x.req.text # <<>>, x.got = <<>>, ~x.missed,
         x.todo = TypeBursts(desktop, x.req.text)
  PROVE  Types(x, c, l, s, k)
<1> DEFINE text == x.req.text
<1> HIDE DEF text
<1>1. text \in Seq(Runes) /\ text # <<>> /\ x.todo = TypeBursts(desktop, text)
  BY DEF text
<1>2. CASE desktop \in Rdp
  <2>1. PICK events \in Seq(EventsOf(TextDos)) :
          /\ TypeBursts(desktop, text) = Singly(events) /\ events # <<>>
          /\ \A i \in DOMAIN events : events[i].do = "release" => i # Len(events)
          /\ \A b \in Keyboards : Completes(<<>>, events, b, text)
    BY <1>1, <1>2, RdpTyping
  <2>2. TypesOnRdp(x, c, l, s, k)
    BY <1>1, <2>1 DEF TypesOnRdp, text
  <2>3. desktop \notin {"vnc", "windows", "ydotool", "macos", "eis"}
    BY <1>2 DEF Rdp
  <2>4. QED
    BY <2>2, <2>3 DEF Types
<1>3. CASE desktop \in {"vnc", "windows", "ydotool"}
  <2>1. PICK events \in Seq(EventsOf(RuneDos)) :
          /\ TypeBursts(desktop, text) = Singly(events) /\ events # <<>>
          /\ (\E i \in DOMAIN events : events[i] = Refusal) \/ Completes(<<>>, events, Clean, text)
    BY <1>1, <1>3, VncTyping, WindowsTyping, YdotoolTyping
  <2>2. TypesRunes(x, c, l)
    BY <1>1, <2>1 DEF TypesRunes, text
  <2>3. desktop \notin Rdp
    BY <1>3 DEF Rdp
  <2>4. QED
    BY <1>3, <2>2, <2>3 DEF Types
<1>4. CASE desktop \in {"macos", "eis"}
  <2>1. desktop \notin Rdp
    BY <1>4 DEF Rdp
  <2>2. desktop = "macos" => TypesOnMacos(x)
    BY DEF TypesOnMacos
  <2>3. desktop = "eis" => TypesOnEis(x)
    BY DEF TypesOnEis
  <2>4. QED
    BY <1>4, <2>1, <2>2, <2>3 DEF Types
<1>5. QED
  BY <1>2, <1>3, <1>4 DEF Desktops, Rdp

LEMMA ReceiveText ==
  ASSUME IInv, TextInv, NEW c \in Clients, Receive(c)
  PROVE  TextInv'
<1> DEFINE verdict(r) == Authorize(tokens, r.surface, r.bearer, ScopeOf[r.op])
<1>1. PICK r \in RequestsOf[c] :
        \E out \in IF verdict(r) = "allowed" THEN Outcomes(r) ELSE {Ends(verdict(r))} :
          client' = [client EXCEPT ![c] = [Idle EXCEPT !.req = r, !.pc = out.answer, !.todo = out.todo]]
  BY DEF Receive
<1>2. PICK out \in IF verdict(r) = "allowed" THEN Outcomes(r) ELSE {Ends(verdict(r))} :
        client' = [client EXCEPT ![c] = [Idle EXCEPT !.req = r, !.pc = out.answer, !.todo = out.todo]]
  BY <1>1
<1> DEFINE x == [Idle EXCEPT !.req = r, !.pc = out.answer, !.todo = out.todo]
<1>3. x.req = r /\ x.pc = out.answer /\ x.todo = out.todo /\ x.got = <<>> /\ ~x.missed
  BY DEF Idle
<1>4. /\ r.number \in Int /\ r.width \in Int /\ r.text \in Seq(Runes) /\ r.op \in DOMAIN ScopeOf
      /\ desktop \in Desktops
  BY RequestsAssumption DEF TextInv
<1>5. out.answer # "ok" /\ (out.answer = "sending" => out \in Outcomes(r))
  <2>1. CASE verdict(r) # "allowed"
    BY <1>2, <2>1 DEF Ends, Authorize, AuthorizeRequest
  <2>2. CASE out \in Outcomes(r)
    <3>1. out.answer \in {"sending", "bad", "unsupported"}
      BY <1>4, <2>2, OutcomeAnswers
    <3>2. QED
      BY <2>2, <3>1
  <2>3. QED
    BY <1>2, <2>1, <2>2
<1>6. lock # c
  BY DEF TextInv, Typing, Receive
<1>7. UNCHANGED <<desktop, lock, keys, spoilt>> /\ client' = [client EXCEPT ![c] = x]
  BY <1>2 DEF Receive
<1> HIDE DEF x
<1>8. ASSUME out.answer = "sending", r.op # "type" PROVE Plain(out.todo)
  BY <1>4, <1>5, <1>8, OutcomeIsPlain
<1>9. ASSUME out.answer = "sending", r.op = "type"
      PROVE  x.req.text # <<>> /\ Types(x, c, lock, spoilt, keys)
  <2>1. out \in Type(r.text)
    BY <1>5, <1>9 DEF Outcomes
  <2>2. r.text # <<>> /\ out = Sends(TypeBursts(desktop, r.text))
    BY <1>9, <2>1 DEF Type, Ends
  <2>3. out.todo = TypeBursts(desktop, r.text)
    BY <2>2 DEF Sends
  <2>4. QED
    BY <1>3, <1>4, <1>6, <2>2, <2>3, TypeTypes
<1>10. TextOf(x, c, lock, spoilt, keys)
  <2>1. <<>> \in Seq(Names)
    OBVIOUS
  <2>2. QED
    BY <1>3, <1>4, <1>5, <1>8, <1>9, <2>1 DEF TextOf
<1>11. /\ keys \in Keyboards
       /\ keys.typed # {} => desktop \in Rdp /\ (spoilt \/ lock \in Clients)
  BY DEF TextInv
<1>12. QED
  BY <1>6, <1>7, <1>10, <1>11, TextOfOne

(***************************************************************************)
(* A burst that is sent.                                                   *)
(***************************************************************************)
LEMMA SentIs ==
  ASSUME IInv, NEW c \in Clients, NEW rest, NEW got
  PROVE  LET x == Sent(c, rest, got) IN
           /\ x.req = client[c].req /\ x.pc = AfterBurst(rest) /\ x.todo = rest
           /\ x.got = client[c].got \o got /\ x.missed = client[c].missed
           /\ x.clean = (client[c].clean /\ keys.held = {} /\ ~keys.caps)
<1>1. DOMAIN client[c] = Fields
  BY DEF IInv, Shape
<1>2. QED
  BY <1>1 DEF Sent, Fields

(* The keyboard, the lock and the client after a burst. *)
LEMMA SendIs ==
  ASSUME IInv, TextInv, NEW c \in Clients, Send(c), NEW p,
         p = Press(Head(client[c].todo), keys, client[c].req.op = "type")
  PROVE  /\ client[c].pc = "sending" /\ UNCHANGED desktop /\ lock \in {c, "nobody"}
         /\ spoilt' = IF Through(c, Tail(client[c].todo)) THEN FALSE ELSE spoilt
         /\ keys' = p.keys /\ lock' = HoldsOn(c, Tail(client[c].todo))
         /\ client' = [client EXCEPT ![c] = Sent(c, Tail(client[c].todo), p.got)]
         /\ Head(client[c].todo) # <<Refusal>>
         /\ TextOf(client[c], c, lock, spoilt, keys)
BY LockIsMine DEF Send, TextInv

LEMMA TypedPress ==
  ASSUME NEW burst, NEW k, NEW op, op = "type"
  PROVE  Press(burst, k, op = "type") = Press(burst, k, TRUE)
<1>1. (op = "type") = TRUE
  OBVIOUS
<1>2. QED
  BY <1>1

(* The invariant when a burst of text has been sent. *)
LEMMA TextWasSent ==
  ASSUME IInv, TextInv, NEW c \in Clients, Send(c), client[c].req.op = "type",
         NEW p, p = Press(Head(client[c].todo), keys, TRUE),
         p.keys \in Keyboards, client[c].got \o p.got \in Seq(Names),
         Tail(client[c].todo) # <<>> =>
           /\ desktop \notin Rdp => p.keys.typed = {}
           /\ \A x : (/\ x.todo = Tail(client[c].todo) /\ x.got = client[c].got \o p.got
                      /\ x.req = client[c].req /\ x.missed = client[c].missed) =>
                 Types(x, c, HoldsOn(c, Tail(client[c].todo)), spoilt, p.keys),
         Tail(client[c].todo) = <<>> =>
           \/ desktop \in Rdp /\ client[c].missed /\ spoilt
           \/ /\ p.keys.typed = {}
              /\ (desktop # "eis" \/ (keys.held = {} /\ ~keys.caps)) =>
                   client[c].got \o p.got = client[c].req.text
  PROVE  TextInv'
<1> DEFINE rest == Tail(client[c].todo)
           x == Sent(c, rest, p.got)
           l == HoldsOn(c, rest)
<1>1. p = Press(Head(client[c].todo), keys, client[c].req.op = "type")
  BY TypedPress
<1>2. /\ client[c].pc = "sending" /\ UNCHANGED desktop /\ lock \in {c, "nobody"}
      /\ keys' = p.keys /\ lock' = l /\ client' = [client EXCEPT ![c] = x]
      /\ spoilt' = IF Through(c, rest) THEN FALSE ELSE spoilt
      /\ TextOf(client[c], c, lock, spoilt, keys)
  BY <1>1, SendIs
<1>3. /\ x.req = client[c].req /\ x.pc = AfterBurst(rest) /\ x.todo = rest
      /\ x.got = client[c].got \o p.got /\ x.missed = client[c].missed
      /\ x.clean = (client[c].clean /\ keys.held = {} /\ ~keys.caps)
  <2> DEFINE got == p.got
  <2> HIDE DEF rest, got
  <2>1. LET y == Sent(c, rest, got) IN
           /\ y.req = client[c].req /\ y.pc = AfterBurst(rest) /\ y.todo = rest
           /\ y.got = client[c].got \o got /\ y.missed = client[c].missed
           /\ y.clean = (client[c].clean /\ keys.held = {} /\ ~keys.caps)
    BY SentIs
  <2>2. QED
    BY <2>1 DEF got
<1>4. l = IF TypesUnderLock(desktop) /\ rest # <<>> THEN c ELSE "nobody"
  BY DEF HoldsOn
<1>5. TextOf(x, c, l, spoilt', p.keys)
  <2>1. client[c].req.text \in Seq(Runes) /\ client[c].req.text # <<>>
    BY <1>2 DEF TextOf
  <2>2. CASE rest # <<>>
    <3>1. x.pc = "sending"
      BY <1>3, <2>2 DEF AfterBurst
    <3>2. Types(x, c, l, spoilt', p.keys)
      <4>1. spoilt' = spoilt
        BY <1>2, <2>2 DEF Through
      <4>2. Types(x, c, l, spoilt, p.keys)
        BY <1>3, <2>2
      <4> HIDE DEF x, l
      <4>3. QED
        BY <4>1, <4>2
    <3>3. x.got \in Seq(Names)
      BY <1>3
    <3> HIDE DEF x, l
    <3>4. QED
      BY <1>3, <2>1, <3>1, <3>2, <3>3 DEF TextOf
  <2>3. CASE rest = <<>>
    <3>1. x.pc = "ok"
      BY <1>3, <2>3 DEF AfterBurst
    <3>2. (desktop # "eis" \/ x.clean) /\ (desktop \in Rdp => ~x.missed) => x.got = x.req.text
      BY <1>3, <2>3
    <3> HIDE DEF x, l
    <3>3. QED
      BY <3>1, <3>2 DEF TextOf
  <2>4. QED
    BY <2>2, <2>3
<1>6. "nobody" \notin Clients
  BY RequestsAssumption
<1>7. l = c => x.pc = "sending" /\ x.req.op = "type" /\ TypesUnderLock(desktop)
  BY <1>3, <1>4, <1>6 DEF AfterBurst
<1>8. p.keys.typed # {} => desktop \in Rdp /\ (spoilt' \/ l \in Clients)
  <2>1. desktop \in Rdp => TypesUnderLock(desktop)
    BY DEF TypesUnderLock
  <2>2. CASE rest = <<>>
    BY <1>2, <2>2 DEF Through
  <2>3. CASE rest # <<>>
    BY <1>4, <2>1, <2>3
  <2>4. QED
    BY <2>2, <2>3
<1>9. l \in {c, "nobody"} /\ lock \in {c, "nobody"}
  BY <1>2, <1>4
<1> HIDE DEF x, l
<1>10. l \in {lock, c, "nobody"}
  BY <1>9
<1>11. TextOf(x, c, lock', spoilt', keys')
  BY <1>2, <1>5
<1>12. /\ lock' # lock \/ keys' # keys \/ spoilt' # spoilt => lock \in {c, "nobody"}
       /\ lock' \in {lock, c, "nobody"} /\ keys' \in Keyboards
       /\ lock' = c => x.pc = "sending" /\ x.req.op = "type" /\ TypesUnderLock(desktop)
       /\ keys'.typed # {} => desktop \in Rdp /\ (spoilt' \/ lock' \in Clients)
  BY <1>2, <1>7, <1>8, <1>9, <1>10
<1>13. QED
  BY <1>2, <1>11, <1>12, TextOfOne

(* Text that is sent event by event: an event is sent and the rest         *)
(* completes the text.                                                     *)
LEMMA NextEvent ==
  ASSUME NEW dos, NEW events \in Seq(EventsOf(dos)), events # <<>>, NEW todo, todo = Singly(events),
         NEW k \in Keyboards, NEW got \in Seq(Names), NEW text, Completes(got, events, k, text),
         NEW p, p = Press(Head(todo), k, TRUE)
  PROVE  /\ p.keys \in Keyboards /\ got \o p.got \in Seq(Names)
         /\ Completes(got \o p.got, Tail(events), p.keys, text)
         /\ Tail(events) = <<>> => got \o p.got = text /\ p.keys.typed = {}
<1>1. Head(todo) = <<Head(events)>>
  BY SinglyNext
<1>2. /\ p.keys \in Keyboards /\ got \o p.got \in Seq(Names)
      /\ Completes(got \o p.got, Tail(events), p.keys, text)
  <2>1. p = Press(<<Head(events)>>, k, TRUE)
    BY <1>1
  <2>2. LET q == Press(<<Head(events)>>, k, TRUE) IN
           /\ q.keys \in Keyboards /\ got \o q.got \in Seq(Names)
           /\ Completes(got \o q.got, Tail(events), q.keys, text)
    BY OneByOne
  <2>3. QED
    BY <2>1, <2>2
<1> DEFINE g == got \o p.got
<1> HIDE DEF g
<1>3. Tail(events) = <<>> => g = text /\ p.keys.typed = {}
  <2>1. g \in Seq(Names) /\ Completes(g, Tail(events), p.keys, text)
    BY <1>2 DEF g
  <2>2. SUFFICES ASSUME Tail(events) = <<>> PROVE g = text /\ p.keys.typed = {}
    OBVIOUS
  <2>3. Completes(g, <<>>, p.keys, text)
    BY <2>1, <2>2
  <2>4. QED
    BY <2>1, <2>3, NothingLeft
<1>4. QED
  BY <1>2, <1>3 DEF g

LEMMA TailsOfSingly ==
  ASSUME NEW S, NEW events \in Seq(S), events # <<>>, NEW todo, todo = Singly(events)
  PROVE  /\ Tail(todo) = Singly(Tail(events)) /\ (Tail(todo) = <<>> <=> Tail(events) = <<>>)
         /\ Tail(events) \in Seq(S) /\ Len(Tail(events)) = Len(events) - 1
         /\ \A i \in 1..Len(Tail(events)) : Tail(events)[i] = events[i + 1]
<1>1. Tail(todo) = Singly(Tail(events)) /\ Tail(events) \in Seq(S)
  BY SinglyNext
<1>2. (Singly(Tail(events)) = <<>>) <=> (Tail(events) = <<>>)
  BY <1>1, SinglyIs
<1>3. QED
  BY <1>1, <1>2, HeadTailProperties

LEMMA SendOnRdp ==
  ASSUME IInv, TextInv, NEW c \in Clients, Send(c), client[c].req.op = "type", desktop \in Rdp
  PROVE  TextInv'
<1> DEFINE x == client[c]
           todo == x.todo
           got == x.got
           text == x.req.text
           p == Press(Head(todo), keys, TRUE)
<1>1. lock \in {c, "nobody"} /\ x.pc = "sending" /\ TextOf(x, c, lock, spoilt, keys) /\ keys \in Keyboards
  BY SendIs DEF TextInv
<1>2. TypesOnRdp(x, c, lock, spoilt, keys) /\ got \in Seq(Names)
  BY <1>1 DEF TextOf, Types
<1>3. PICK events \in Seq(EventsOf(TextDos)) :
        /\ todo = Singly(events) /\ events # <<>>
        /\ \A i \in DOMAIN events : events[i].do = "release" => i # Len(events)
        /\ lock # c => got = <<>> /\ ~x.missed /\ \A b \in Keyboards : Completes(<<>>, events, b, text)
        /\ (lock = c /\ ~x.missed) => Completes(got, events, keys, text)
        /\ x.missed => spoilt
  BY <1>2 DEF TypesOnRdp
<1> DEFINE rest == Tail(events)
           g == got \o p.got
<1> HIDE DEF x
<1>4. p.keys \in Keyboards /\ g \in Seq(Names)
  <2> DEFINE typing == TRUE
             burst == <<Head(events)>>
  <2>1. burst \in Seq(EventsOf(TextDos)) /\ Head(todo) = burst
    BY <1>3, SinglyNext
  <2>2. p = Press(burst, keys, typing)
    BY <2>1
  <2> HIDE DEF typing, burst, p
  <2>3. p \in States
    BY <1>1, <2>1, <2>2, PressType
  <2> HIDE DEF got
  <2>4. QED
    BY <1>2, <2>3, ConcatProperties DEF States
<1>5. ~x.missed => /\ Completes(g, rest, p.keys, text)
                   /\ rest = <<>> => g = text /\ p.keys.typed = {}
  <2>1. SUFFICES ASSUME ~x.missed
                 PROVE  /\ Completes(g, rest, p.keys, text)
                        /\ rest = <<>> => g = text /\ p.keys.typed = {}
    OBVIOUS
  <2>2. Completes(got, events, keys, text)
    BY <1>1, <1>3, <2>1
  <2> HIDE DEF todo, got, text
  <2>3. QED
    BY <1>1, <1>2, <1>3, <2>2, NextEvent
<1>6. /\ Tail(todo) = Singly(rest) /\ (Tail(todo) = <<>> <=> rest = <<>>)
      /\ rest \in Seq(EventsOf(TextDos)) /\ Len(rest) = Len(events) - 1
      /\ \A i \in 1..Len(rest) : rest[i] = events[i + 1]
  <2> HIDE DEF todo
  <2>1. QED
    BY <1>3, TailsOfSingly
<1>7. \A i \in DOMAIN rest : rest[i].do = "release" => i # Len(rest)
  <2> HIDE DEF rest
  <2> SUFFICES ASSUME NEW i \in DOMAIN rest, rest[i].do = "release" PROVE i # Len(rest)
    OBVIOUS
  <2>1. i \in 1..Len(rest) /\ Len(rest) \in Nat /\ Len(events) \in Nat
    BY <1>6
  <2>2. i + 1 \in DOMAIN events /\ events[i + 1].do = "release"
    BY <1>6, <2>1
  <2>3. i + 1 # Len(events)
    BY <1>3, <2>2
  <2>4. QED
    BY <1>6, <2>1, <2>3
<1>8. HoldsOn(c, Tail(todo)) = IF Tail(todo) # <<>> THEN c ELSE "nobody"
  BY DEF HoldsOn, TypesUnderLock, x
<1>9. ASSUME Tail(todo) # <<>>, NEW y, y.todo = Tail(todo), y.got = g, y.req = x.req, y.missed = x.missed
      PROVE  Types(y, c, HoldsOn(c, Tail(todo)), spoilt, p.keys)
  <2>1. HoldsOn(c, Tail(todo)) = c /\ rest # <<>>
    BY <1>6, <1>8, <1>9
  <2> HIDE DEF rest, g, p
  <2>2. TypesOnRdp(y, c, c, spoilt, p.keys)
    BY <1>3, <1>5, <1>6, <1>7, <1>9, <2>1 DEF TypesOnRdp
  <2>3. desktop \notin {"vnc", "windows", "ydotool", "macos", "eis"}
    BY DEF Rdp
  <2>4. QED
    BY <2>1, <2>2, <2>3 DEF Types
<1>10. Tail(todo) = <<>> => (x.missed /\ spoilt) \/ (g = text /\ p.keys.typed = {})
  BY <1>3, <1>5, <1>6
<1> DEFINE q == p
<1>11. q = Press(Head(todo), keys, TRUE)
  OBVIOUS
<1> HIDE DEF q
<1>12. QED
  <2>1. /\ q.keys \in Keyboards /\ client[c].got \o q.got \in Seq(Names)
        /\ Tail(client[c].todo) = <<>> =>
             \/ client[c].missed /\ spoilt
             \/ client[c].got \o q.got = client[c].req.text /\ q.keys.typed = {}
    BY <1>4, <1>10 DEF q, x
  <2>2. Tail(client[c].todo) # <<>> =>
          \A y : (/\ y.todo = Tail(client[c].todo) /\ y.got = client[c].got \o q.got
                  /\ y.req = client[c].req /\ y.missed = client[c].missed) =>
             Types(y, c, HoldsOn(c, Tail(client[c].todo)), spoilt, q.keys)
    BY <1>9 DEF q, x
  <2>3. q = Press(Head(client[c].todo), keys, TRUE)
    BY <1>11 DEF x
  <2>4. QED
    BY <2>1, <2>2, <2>3, TextWasSent

(* A refused rune stays ahead until it is met. *)
LEMMA RefusalStaysAhead ==
  ASSUME NEW S, NEW events \in Seq(S), events # <<>>, Head(events) # Refusal,
         \E i \in DOMAIN events : events[i] = Refusal
  PROVE  Tail(events) # <<>> /\ \E i \in DOMAIN Tail(events) : Tail(events)[i] = Refusal
<1> DEFINE rest == Tail(events)
           n == Len(events)
           r == Refusal
<1>1. n \in Nat /\ DOMAIN events = 1..n /\ Head(events) = events[1]
  OBVIOUS
<1>2. rest \in Seq(S) /\ Len(rest) = n - 1 /\ \A i \in 1..Len(rest) : rest[i] = events[i + 1]
  BY HeadTailProperties
<1>3. DOMAIN rest = 1..(n - 1)
  BY <1>2, LenProperties
<1> HIDE DEF rest, n, r
<1>4. PICK i \in 1..n : events[i] = r
  BY <1>1 DEF r
<1>5. i # 1 /\ i - 1 \in 1..(n - 1)
  BY <1>1, <1>4 DEF r
<1>6. rest[i - 1] = r
  BY <1>1, <1>2, <1>4, <1>5
<1>7. rest # <<>>
  <2>1. Len(rest) # 0
    BY <1>1, <1>2, <1>5
  <2>2. QED
    BY <2>1
<1>8. QED
  BY <1>3, <1>5, <1>6, <1>7 DEF rest, r

LEMMA SendOfRunes ==
  ASSUME IInv, TextInv, NEW c \in Clients, Send(c), client[c].req.op = "type",
         desktop \in {"vnc", "windows", "ydotool"}
  PROVE  TextInv'
<1> DEFINE x == client[c]
           todo == x.todo
           got == x.got
           text == x.req.text
           p == Press(Head(todo), keys, TRUE)
           o == Press(Head(todo), Clean, TRUE)
<1>0. desktop \notin Rdp
  BY DEF Rdp
<1>1. /\ x.pc = "sending" /\ TextOf(x, c, lock, spoilt, keys) /\ keys \in Keyboards
      /\ Head(todo) # <<Refusal>> /\ keys.typed = {}
  BY <1>0, SendIs DEF TextInv
<1>2. TypesRunes(x, c, lock) /\ got \in Seq(Names)
  BY <1>1 DEF TextOf, Types
<1>3. PICK events \in Seq(EventsOf(RuneDos)) :
        /\ todo = Singly(events) /\ events # <<>>
        /\ (\E i \in DOMAIN events : events[i] = Refusal) \/ Completes(got, events, Clean, text)
  BY <1>2 DEF TypesRunes
<1> DEFINE rest == Tail(events)
           e == Head(events)
           g == got \o p.got
<1> HIDE DEF x
<1>4. e \in EventsOf(RuneDos) /\ Head(todo) = <<e>> /\ <<e>> \in Seq(EventsOf(RuneDos))
  BY <1>3, SinglyNext
<1>5. p.keys = keys /\ p.got = o.got /\ o.keys = Clean
  <2> HIDE DEF e
  <2>1. QED
    BY <1>1, <1>4, RuneOnAnyKeyboard, CleanType
<1>6. g \in Seq(Names)
  <2>1. p \in States
    <3> DEFINE typing == TRUE
               burst == <<e>>
    <3>1. burst \in Seq(EventsOf(RuneDos)) /\ p = Press(burst, keys, typing)
      BY <1>4
    <3> HIDE DEF typing, burst, p
    <3>2. Press(burst, keys, typing) \in States
      BY <1>1, <3>1, PressType
    <3>3. QED
      BY <3>1, <3>2
  <2> HIDE DEF p
  <2>2. p.got \in Seq(Names)
    BY <2>1 DEF States
  <2>3. QED
    BY <1>2, <2>2, ConcatProperties
<1>7. /\ Tail(todo) = Singly(rest) /\ (Tail(todo) = <<>> <=> rest = <<>>)
      /\ rest \in Seq(EventsOf(RuneDos))
  <2> HIDE DEF todo
  <2>1. QED
    BY <1>3, TailsOfSingly
<1>8. CASE \E i \in DOMAIN events : events[i] = Refusal
  <2>1. e # Refusal
    BY <1>1, <1>4
  <2>2. rest # <<>> /\ \E i \in DOMAIN rest : rest[i] = Refusal
    BY <1>3, <1>8, <2>1, RefusalStaysAhead
  <2> HIDE DEF rest, e, g, todo, p, o
  <2>3. Tail(todo) # <<>>
    BY <1>7, <2>2
  <2>4. ASSUME NEW y, y.todo = Tail(todo), y.got = g, y.req = x.req, y.missed = x.missed
        PROVE  Types(y, c, HoldsOn(c, Tail(todo)), spoilt, p.keys)
    <3>1. desktop = "vnc" => HoldsOn(c, Tail(todo)) = c
      BY <2>3 DEF HoldsOn, TypesUnderLock, x
    <3>2. TypesRunes(y, c, HoldsOn(c, Tail(todo)))
      BY <1>7, <2>2, <2>4, <3>1 DEF TypesRunes
    <3>3. QED
      BY <1>0, <3>2 DEF Types
  <2>5. /\ p.keys \in Keyboards /\ client[c].got \o p.got \in Seq(Names)
        /\ p.keys.typed = {} /\ Tail(client[c].todo) # <<>>
        /\ p = Press(Head(client[c].todo), keys, TRUE)
    BY <1>1, <1>5, <1>6, <2>3 DEF g, x, todo, p
  <2>6. \A y : (/\ y.todo = Tail(client[c].todo) /\ y.got = client[c].got \o p.got
                /\ y.req = client[c].req /\ y.missed = client[c].missed) =>
           Types(y, c, HoldsOn(c, Tail(client[c].todo)), spoilt, p.keys)
    BY <2>4 DEF g, x, todo
  <2>7. QED
    BY <2>5, <2>6, TextWasSent
<1>9. CASE Completes(got, events, Clean, text)
  <2>1. /\ Completes(got \o o.got, rest, o.keys, text)
        /\ rest = <<>> => got \o o.got = text /\ o.keys.typed = {}
    <3> HIDE DEF todo, got, text
    <3>1. QED
      BY <1>2, <1>3, <1>9, CleanType, NextEvent
  <2>2. Completes(g, rest, Clean, text) /\ (rest = <<>> => g = text)
    BY <1>5, <2>1
  <2> HIDE DEF rest, e, g, todo, p, o, got, text
  <2>3. ASSUME Tail(todo) # <<>>, NEW y, y.todo = Tail(todo), y.got = g, y.req = x.req, y.missed = x.missed
        PROVE  Types(y, c, HoldsOn(c, Tail(todo)), spoilt, p.keys)
    <3>1. desktop = "vnc" => HoldsOn(c, Tail(todo)) = c
      BY <2>3 DEF HoldsOn, TypesUnderLock, x
    <3>2. TypesRunes(y, c, HoldsOn(c, Tail(todo)))
      BY <1>7, <2>2, <2>3, <3>1 DEF TypesRunes, text
    <3>3. QED
      BY <1>0, <3>2 DEF Types
  <2>4. /\ p.keys \in Keyboards /\ client[c].got \o p.got \in Seq(Names) /\ p.keys.typed = {}
        /\ p = Press(Head(client[c].todo), keys, TRUE)
        /\ Tail(client[c].todo) = <<>> => client[c].got \o p.got = client[c].req.text
    BY <1>1, <1>5, <1>6, <1>7, <2>2 DEF g, x, todo, p, got, text
  <2>5. Tail(client[c].todo) # <<>> =>
          \A y : (/\ y.todo = Tail(client[c].todo) /\ y.got = client[c].got \o p.got
                  /\ y.req = client[c].req /\ y.missed = client[c].missed) =>
             Types(y, c, HoldsOn(c, Tail(client[c].todo)), spoilt, p.keys)
    BY <2>3 DEF g, x, todo, got
  <2>6. QED
    BY <2>4, <2>5, TextWasSent
<1>10. QED
  BY <1>3, <1>8, <1>9

LEMMA SendOnMacos ==
  ASSUME IInv, TextInv, NEW c \in Clients, Send(c), client[c].req.op = "type", desktop = "macos"
  PROVE  TextInv'
<1> DEFINE x == client[c]
           todo == x.todo
           got == x.got
           text == x.req.text
           p == Press(Head(todo), keys, TRUE)
           g == got \o p.got
<1>0. desktop \notin Rdp
  BY DEF Rdp
<1>1. /\ x.pc = "sending" /\ TextOf(x, c, lock, spoilt, keys) /\ keys \in Keyboards
      /\ keys.typed = {}
  BY <1>0, SendIs DEF TextInv
<1>2. TypesOnMacos(x) /\ text \in Seq(Runes) /\ text # <<>>
  BY <1>1 DEF TextOf, Types
<1>3. PICK chars, ends :
        /\ TypeBursts("macos", text) = <<chars, ends>>
        /\ \A k \in Keyboards : Writ(chars, k, text) /\ Press(ends, k, TRUE) = Start(k)
  BY <1>2, MacosTyping
<1>4. text \in Seq(Names) /\ <<>> \o text = text /\ text \o <<>> = text
  <2>1. Runes \subseteq Names
    BY DEF Names
  <2>2. QED
    BY <1>2, <2>1, SeqMonotonic, ConcatEmptySeq
<1>5. Tail(<<chars, ends>>) = <<ends>> /\ <<ends>> # <<>> /\ Head(<<chars, ends>>) = chars
  OBVIOUS
<1>6. Head(<<ends>>) = ends /\ Tail(<<ends>>) = <<>>
  OBVIOUS
<1>7. (got = <<>> /\ todo = <<chars, ends>>) \/ (got = text /\ todo = <<ends>>)
  BY <1>2, <1>3, <1>5 DEF TypesOnMacos
<1>8. p.keys = keys /\ g = text
  <2>1. CASE got = <<>> /\ todo = <<chars, ends>>
    <3>1. Press(chars, keys, TRUE).keys = keys /\ Press(chars, keys, TRUE).got = text
      <4>1. Writ(chars, keys, text)
        BY <1>1, <1>3
      <4> HIDE DEF text
      <4>2. QED
        BY <4>1, WritIs
    <3>2. p = Press(chars, keys, TRUE)
      BY <1>5, <2>1
    <3> HIDE DEF p
    <3>3. p.keys = keys /\ p.got = text
      BY <3>1, <3>2
    <3>4. QED
      BY <1>4, <2>1, <3>3
  <2>2. CASE got = text /\ todo = <<ends>>
    <3>1. p = Start(keys)
      BY <1>1, <1>3, <1>6, <2>2
    <3> HIDE DEF p
    <3>2. p.keys = keys /\ p.got = <<>>
      BY <3>1 DEF Start
    <3>3. QED
      BY <1>4, <2>2, <3>2
  <2>3. QED
    BY <1>7, <2>1, <2>2
<1> HIDE DEF g, p, todo, got, text, x
<1>9. ASSUME Tail(todo) # <<>>, NEW y, y.todo = Tail(todo), y.got = g, y.req = x.req, y.missed = x.missed
      PROVE  Types(y, c, HoldsOn(c, Tail(todo)), spoilt, p.keys)
  <2>1. todo = TypeBursts("macos", text)
    BY <1>3, <1>6, <1>7, <1>9
  <2>2. TypesOnMacos(y)
    BY <1>8, <1>9, <2>1 DEF TypesOnMacos, text
  <2>3. QED
    BY <1>0, <2>2 DEF Types
<1>10. /\ p.keys \in Keyboards /\ client[c].got \o p.got \in Seq(Names) /\ p.keys.typed = {}
       /\ p = Press(Head(client[c].todo), keys, TRUE)
       /\ client[c].got \o p.got = client[c].req.text
  BY <1>1, <1>4, <1>8 DEF g, x, todo, p, got, text
<1>11. Tail(client[c].todo) # <<>> =>
         \A y : (/\ y.todo = Tail(client[c].todo) /\ y.got = client[c].got \o p.got
                 /\ y.req = client[c].req /\ y.missed = client[c].missed) =>
            Types(y, c, HoldsOn(c, Tail(client[c].todo)), spoilt, p.keys)
  BY <1>9 DEF g, x, todo, got
<1>12. QED
  BY <1>10, <1>11, TextWasSent

LEMMA SendOnEis ==
  ASSUME IInv, TextInv, NEW c \in Clients, Send(c), client[c].req.op = "type", desktop = "eis"
  PROVE  TextInv'
<1> DEFINE x == client[c]
           todo == x.todo
           got == x.got
           text == x.req.text
           p == Press(Head(todo), keys, TRUE)
           g == got \o p.got
<1>0. desktop \notin Rdp
  BY DEF Rdp
<1>1. /\ x.pc = "sending" /\ TextOf(x, c, lock, spoilt, keys) /\ keys \in Keyboards
      /\ keys.typed = {} /\ Head(todo) # <<Refusal>>
  BY <1>0, SendIs DEF TextInv
<1>2. TypesOnEis(x) /\ text \in Seq(Runes) /\ text # <<>>
  BY <1>1 DEF TextOf, Types
<1>3. PICK burst :
        /\ TypeBursts("eis", text) = <<burst>>
        /\ \/ burst = <<Refusal>>
           \/ /\ burst \in Seq(EventsOf({"down", "up"}))
              /\ LeavesNothing(burst) /\ Writ(burst, Clean, text)
  BY <1>2, EisTyping
<1>4. got = <<>> /\ todo = <<burst>>
  BY <1>2, <1>3 DEF TypesOnEis
<1>5. Head(todo) = burst /\ Tail(todo) = <<>>
  BY <1>4
<1>6. burst \in Seq(EventsOf({"down", "up"})) /\ LeavesNothing(burst) /\ Writ(burst, Clean, text)
  BY <1>1, <1>3, <1>5
<1>7. p = Press(burst, keys, TRUE)
  BY <1>5
<1>8. p.keys.typed = {}
  BY <1>1, <1>6, <1>7 DEF LeavesNothing
<1>9. p.keys \in Keyboards /\ p.got \in Seq(Names)
  <2> DEFINE typing == TRUE
  <2>1. p = Press(burst, keys, typing)
    BY <1>7
  <2> HIDE DEF typing, p
  <2>2. p \in States
    BY <1>1, <1>6, <2>1, PressType
  <2>3. QED
    BY <2>2 DEF States
<1>10. g = p.got
  <2> DEFINE q == p.got
  <2>1. q \in Seq(Names)
    BY <1>9
  <2> HIDE DEF q
  <2>2. <<>> \o q = q
    BY <2>1, ConcatEmptySeq
  <2>3. QED
    BY <1>4, <2>2 DEF q
<1>11. keys.held = {} /\ ~keys.caps => p.got = text
  <2> SUFFICES ASSUME keys.held = {}, ~keys.caps PROVE p.got = text
    OBVIOUS
  <2>1. keys = [held |-> {}, typed |-> {}, caps |-> FALSE]
    BY <1>1 DEF Keyboards
  <2>2. keys = Clean
    BY <2>1 DEF Clean
  <2>3. Press(burst, Clean, TRUE).got = text
    <3> HIDE DEF text
    <3>1. QED
      BY <1>6, WritIs
  <2>4. QED
    BY <1>7, <2>2, <2>3
<1> HIDE DEF g, p, todo, got, text, x
<1>12. /\ p.keys \in Keyboards /\ client[c].got \o p.got \in Seq(Names) /\ p.keys.typed = {}
       /\ p = Press(Head(client[c].todo), keys, TRUE)
       /\ (keys.held = {} /\ ~keys.caps) => client[c].got \o p.got = client[c].req.text
       /\ Tail(client[c].todo) = <<>>
  BY <1>5, <1>8, <1>9, <1>10, <1>11 DEF g, x, todo, p, got, text
<1>13. QED
  BY <1>12, TextWasSent

LEMMA PlainNext ==
  ASSUME NEW todo, Plain(todo)
  PROVE  /\ Tail(todo) # <<>> => Plain(Tail(todo))
         /\ \E e : Head(todo) = <<e>> /\ e.do # "release"
<1>1. PICK S : todo \in Seq(OneEach(S)) /\ \A e \in S : e.do # "release"
  BY DEF Plain
<1> DEFINE T == OneEach(S)
<1>2. todo # <<>>
  BY DEF Plain
<1> HIDE DEF T
<1>3. Head(todo) \in T /\ Tail(todo) \in Seq(T)
  BY <1>1, <1>2, HeadTailProperties DEF T
<1>4. \E e : Head(todo) = <<e>> /\ e.do # "release"
  BY <1>1, <1>3 DEF T, OneEach
<1>5. QED
  BY <1>1, <1>3, <1>4, PlainIs DEF T

(* An event that is not of a text. *)
LEMMA SendPlain ==
  ASSUME IInv, TextInv, NEW c \in Clients, Send(c), client[c].req.op # "type"
  PROVE  TextInv'
<1> DEFINE rest == Tail(client[c].todo)
           typing == client[c].req.op = "type"
           p == Press(Head(client[c].todo), keys, typing)
           got == p.got
           x == Sent(c, rest, got)
<1>1. /\ client[c].pc = "sending" /\ UNCHANGED <<desktop, spoilt>> /\ lock \in {c, "nobody"}
      /\ keys' = p.keys /\ lock' = HoldsOn(c, rest) /\ client' = [client EXCEPT ![c] = x]
      /\ TextOf(client[c], c, lock, spoilt, keys)
  BY SendIs DEF Through
<1>2. Plain(client[c].todo)
  BY <1>1 DEF TextOf
<1>3. PICK e : Head(client[c].todo) = <<e>>
  BY <1>2, PlainNext
<1>4. ~typing
  OBVIOUS
<1> HIDE DEF typing
<1>5. p.keys = Keyboard(e, keys, typing)
  <2>1. p = Key(e, Start(keys), typing)
    BY <1>3, PressOne
  <2> HIDE DEF p
  <2>2. QED
    BY <2>1 DEF Key, Start
<1>6. p.keys \in Keyboards /\ p.keys.typed \subseteq keys.typed
  BY <1>4, <1>5, KeyboardType DEF TextInv
<1> HIDE DEF p
<1>7. x.req = client[c].req /\ x.pc = AfterBurst(rest) /\ x.todo = rest
  <2> HIDE DEF got, rest
  <2>1. QED
    BY SentIs
<1>8. lock' = "nobody"
  BY <1>1 DEF HoldsOn
<1>9. lock = "nobody"
  BY <1>1, RequestsAssumption DEF TextInv, Typing
<1>10. p.keys.typed # {} => desktop \in Rdp /\ spoilt
  BY <1>6, <1>9, RequestsAssumption DEF TextInv
<1>11. TextOf(x, c, lock', spoilt', keys')
  <2>1. rest # <<>> => Plain(rest)
    BY <1>2, PlainNext
  <2> HIDE DEF x, rest
  <2>2. QED
    BY <1>7, <2>1 DEF TextOf, AfterBurst
<1>12. c # "nobody"
  BY RequestsAssumption
<1> HIDE DEF x
<1>13. QED
  BY <1>1, <1>6, <1>8, <1>9, <1>10, <1>11, <1>12, TextOfOne

LEMMA SendText ==
  ASSUME IInv, TextInv, NEW c \in Clients, Send(c)
  PROVE  TextInv'
<1>1. desktop \in Desktops
  BY DEF TextInv
<1>2. desktop \in Rdp \/ desktop \in {"vnc", "windows", "ydotool"} \/ desktop \in {"macos", "eis"}
  BY <1>1 DEF Desktops, Rdp
<1>3. QED
  BY <1>2, SendOnRdp, SendOfRunes, SendOnMacos, SendOnEis, SendPlain

(***************************************************************************)
(* A burst that is not sent.                                               *)
(***************************************************************************)
(* Only a text on RDP releases modifiers. *)
LEMMA WhoReleases ==
  ASSUME TextInv, NEW c \in Clients, client[c].pc = "sending", Head(client[c].todo)[1].do = "release"
  PROVE  desktop \in Rdp /\ client[c].req.op = "type"
<1> DEFINE x == client[c]
           text == x.req.text
<1>1. TextOf(x, c, lock, spoilt, keys)
  BY DEF TextInv
<1>2. x.req.op = "type"
  <2>1. SUFFICES ASSUME Plain(x.todo) PROVE FALSE
    BY <1>1 DEF TextOf
  <2>2. PICK e : Head(x.todo) = <<e>> /\ e.do # "release"
    BY <2>1, PlainNext
  <2>3. Head(x.todo)[1] = e
    BY <2>2
  <2>4. QED
    BY <2>2, <2>3
<1>3. text \in Seq(Runes) /\ text # <<>> /\ Types(x, c, lock, spoilt, keys)
  BY <1>1, <1>2 DEF TextOf
<1>4. desktop \notin {"vnc", "windows", "ydotool"}
  <2>1. SUFFICES ASSUME TypesRunes(x, c, lock) PROVE FALSE
    BY <1>3 DEF Types
  <2>2. PICK events \in Seq(EventsOf(RuneDos)) : x.todo = Singly(events) /\ events # <<>>
    BY <2>1 DEF TypesRunes
  <2>3. Head(x.todo) = <<Head(events)>> /\ Head(events) \in EventsOf(RuneDos)
    BY <2>2, SinglyNext
  <2> DEFINE e == Head(events)
  <2> HIDE DEF e
  <2>4. Head(x.todo)[1] = e /\ e.do \in RuneDos
    BY <2>3 DEF e, EventsOf
  <2>5. QED
    BY <2>4 DEF RuneDos
<1>5. desktop # "macos"
  <2>1. SUFFICES ASSUME TypesOnMacos(x) PROVE FALSE
    BY <1>3 DEF Types
  <2>2. PICK chars, ends :
          TypeBursts("macos", text) = <<chars, ends>> /\ chars[1].do # "release" /\ ends[1].do # "release"
    BY <1>3, MacosTyping
  <2>3. Tail(<<chars, ends>>) = <<ends>> /\ Head(<<chars, ends>>) = chars /\ Head(<<ends>>) = ends
    OBVIOUS
  <2>4. Head(x.todo) \in {chars, ends}
    BY <2>1, <2>2, <2>3 DEF TypesOnMacos
  <2>5. QED
    BY <2>2, <2>4
<1>6. desktop # "eis"
  <2>1. SUFFICES ASSUME TypesOnEis(x) PROVE FALSE
    BY <1>3 DEF Types
  <2>2. PICK burst : TypeBursts("eis", text) = <<burst>> /\ burst[1].do # "release"
    BY <1>3, EisTyping
  <2>3. Head(x.todo) = burst
    BY <2>1, <2>2 DEF TypesOnEis
  <2>4. QED
    BY <2>2, <2>3
<1>7. QED
  BY <1>2, <1>4, <1>5, <1>6 DEF TextInv, Desktops, Rdp

(* No text on RDP is refused. *)
LEMMA WhoRefuses ==
  ASSUME TextInv, NEW c \in Clients, Typing(c), Head(client[c].todo) = <<Refusal>>
  PROVE  desktop \notin Rdp
<1> SUFFICES ASSUME desktop \in Rdp PROVE FALSE
  OBVIOUS
<1>1. TypesOnRdp(client[c], c, lock, spoilt, keys)
  BY DEF TextInv, TextOf, Types, Typing
<1>2. PICK events \in Seq(EventsOf(TextDos)) : client[c].todo = Singly(events) /\ events # <<>>
  BY <1>1 DEF TypesOnRdp
<1>3. Head(client[c].todo) = <<Head(events)>> /\ Head(events) \in EventsOf(TextDos)
  BY <1>2, SinglyNext
<1> DEFINE e == Head(events)
<1> HIDE DEF e
<1>4. e = Refusal /\ e.do \in TextDos
  BY <1>3 DEF e, EventsOf
<1>5. QED
  BY <1>4 DEF Refusal, Event, TextDos

LEMMA ReturnText ==
  ASSUME IInv, TextInv, NEW c \in Clients, client[c].pc = "sending", lock \in {c, "nobody"},
         NEW answer \in {"unsupported", "unavailable"}, Return(c, answer),
         spoilt \/ (desktop \in Rdp /\ lock = c) => spoilt'
  PROVE  TextInv'
<1> DEFINE x == [client[c] EXCEPT !.pc = answer, !.todo = <<>>]
<1>1. client' = [client EXCEPT ![c] = x] /\ lock' = "nobody" /\ UNCHANGED <<desktop, keys>>
  BY DEF Return
<1>2. x.pc = answer
  BY DEF IInv, Shape, Fields
<1> HIDE DEF x
<1>3. TextOf(x, c, lock', spoilt', keys')
  BY <1>2 DEF TextOf
<1>4. "nobody" \notin Clients /\ keys \in Keyboards
  BY RequestsAssumption DEF TextInv
<1>5. keys.typed # {} => desktop \in Rdp /\ spoilt'
  BY <1>4 DEF TextInv
<1>6. QED
  BY <1>1, <1>3, <1>4, <1>5, TextOfOne

LEMMA RefuseText ==
  ASSUME IInv, TextInv, NEW c \in Clients, Refuse(c)
  PROVE  TextInv'
<1>1. /\ client[c].pc = "sending" /\ Head(client[c].todo) = <<Refusal>> /\ Return(c, "unsupported")
      /\ lock \in {c, "nobody"} /\ UNCHANGED spoilt
  BY LockIsMine DEF Refuse
<1>2. lock = c => Typing(c)
  BY DEF TextInv
<1>3. lock = c => desktop \notin Rdp
  BY <1>1, <1>2, WhoRefuses
<1>4. QED
  BY <1>1, <1>3, ReturnText

(* releaseModifiersLocked goes on when a release fails. *)
LEMMA ReleaseFails ==
  ASSUME IInv, TextInv, NEW c \in Clients, SendFails(c), Head(client[c].todo)[1].do = "release"
  PROVE  TextInv'
<1> DEFINE todo == client[c].todo
           x == [client[c] EXCEPT !.todo = Tail(todo), !.missed = TRUE]
<1>1. /\ client[c].pc = "sending" /\ UNCHANGED <<desktop, keys>> /\ lock \in {c, "nobody"}
      /\ lock' = HoldsOn(c, Tail(todo)) /\ client' = [client EXCEPT ![c] = x]
      /\ client[c].req.op = "type" => spoilt'
  BY LockIsMine DEF SendFails
<1>2. x.req = client[c].req /\ x.pc = "sending" /\ x.todo = Tail(todo) /\ x.got = client[c].got /\ x.missed
  BY <1>1 DEF IInv, Shape, Fields
<1>3. desktop \in Rdp /\ client[c].req.op = "type"
  BY <1>1, WhoReleases
<1>4. spoilt' /\ TypesUnderLock(desktop)
  BY <1>1, <1>3 DEF TypesUnderLock
<1>5. TextOf(client[c], c, lock, spoilt, keys) /\ keys \in Keyboards
  BY DEF TextInv
<1>6. /\ TypesOnRdp(client[c], c, lock, spoilt, keys) /\ client[c].got \in Seq(Names)
      /\ client[c].req.text \in Seq(Runes) /\ client[c].req.text # <<>>
  BY <1>1, <1>3, <1>5 DEF TextOf, Types
<1>7. PICK events \in Seq(EventsOf(TextDos)) :
        /\ todo = Singly(events) /\ events # <<>>
        /\ \A i \in DOMAIN events : events[i].do = "release" => i # Len(events)
  BY <1>6 DEF TypesOnRdp
<1> DEFINE rest == Tail(events)
<1> HIDE DEF x, todo
<1>8. /\ Tail(todo) = Singly(rest) /\ (Tail(todo) = <<>> <=> rest = <<>>)
      /\ rest \in Seq(EventsOf(TextDos)) /\ Len(rest) = Len(events) - 1
      /\ \A i \in 1..Len(rest) : rest[i] = events[i + 1]
  BY <1>7, TailsOfSingly
<1>9. Len(events) \in Nat \ {0} /\ DOMAIN events = 1..Len(events) /\ Len(rest) \in Nat /\ DOMAIN rest = 1..Len(rest)
  <2>1. Len(events) \in Nat \ {0}
    BY <1>7, EmptySeq
  <2>2. QED
    BY <1>8, <2>1, LenProperties
<1>10. events[1].do = "release"
  <2>1. Head(todo) = <<Head(events)>> /\ Head(events) = events[1]
    <3>1. Head(todo) = <<Head(events)>>
      BY <1>7, SinglyNext
    <3>2. Head(events) = events[1]
      BY <1>7
    <3>3. QED
      BY <3>1, <3>2
  <2> DEFINE e == events[1]
  <2> HIDE DEF e
  <2>2. Head(todo)[1] = e
    BY <2>1 DEF e
  <2>3. QED
    BY <2>2 DEF e, todo
<1> HIDE DEF rest
<1>11. rest # <<>>
  <2>1. Len(events) # 1
    BY <1>7, <1>9, <1>10
  <2>2. Len(rest) # 0
    BY <1>8, <1>9, <2>1
  <2>3. QED
    BY <2>2
<1>12. \A i \in DOMAIN rest : rest[i].do = "release" => i # Len(rest)
  <2> SUFFICES ASSUME NEW i \in DOMAIN rest, rest[i].do = "release" PROVE i # Len(rest)
    OBVIOUS
  <2>1. i + 1 \in DOMAIN events /\ events[i + 1].do = "release"
    BY <1>8, <1>9
  <2>2. i + 1 # Len(events)
    BY <1>7, <2>1
  <2>3. QED
    BY <1>8, <1>9, <2>2
<1>13. lock' = c
  BY <1>1, <1>3, <1>4, <1>8, <1>11 DEF HoldsOn, todo
<1>14. TypesOnRdp(x, c, c, spoilt', keys)
  BY <1>2, <1>4, <1>8, <1>11, <1>12 DEF TypesOnRdp, todo
<1>15. Types(x, c, c, spoilt', keys)
  <2>1. desktop \notin {"vnc", "windows", "ydotool", "macos", "eis"}
    BY <1>3 DEF Rdp
  <2>2. QED
    BY <1>14, <2>1 DEF Types
<1>16. TextOf(x, c, lock', spoilt', keys')
  BY <1>1, <1>2, <1>3, <1>6, <1>13, <1>15 DEF TextOf
<1>17. QED
  BY <1>1, <1>2, <1>3, <1>4, <1>5, <1>13, <1>16, TextOfOne

LEMMA SendFailsText ==
  ASSUME IInv, TextInv, NEW c \in Clients, SendFails(c)
  PROVE  TextInv'
<1>1. CASE Head(client[c].todo)[1].do = "release"
  BY <1>1, ReleaseFails
<1>2. CASE Head(client[c].todo)[1].do # "release"
  <2>1. Return(c, "unavailable") /\ client[c].pc = "sending" /\ lock \in {c, "nobody"}
    BY <1>2, LockIsMine DEF SendFails
  <2>2. spoilt \/ lock = c => spoilt'
    BY DEF SendFails, TextInv, Typing
  <2>3. QED
    BY <2>1, <2>2, ReturnText
<1>3. QED
  BY <1>1, <1>2

LEMMA ReplyText ==
  ASSUME IInv, TextInv, NEW c \in Clients, Reply(c)
  PROVE  TextInv'
<1>1. /\ client' = [client EXCEPT ![c] = Idle] /\ UNCHANGED <<desktop, spoilt, keys, lock>>
      /\ client[c].pc # "sending"
  BY DEF Reply, Answers
<1>2. lock # c
  BY <1>1 DEF TextInv, Typing
<1>3. TextOf(Idle, c, lock', spoilt', keys')
  BY DEF TextOf, Idle
<1>4. keys \in Keyboards /\ (keys.typed # {} => desktop \in Rdp /\ (spoilt \/ lock \in Clients))
  BY DEF TextInv
<1> DEFINE x == Idle
<1>5. client' = [client EXCEPT ![c] = x] /\ TextOf(x, c, lock', spoilt', keys')
  BY <1>1, <1>3
<1> HIDE DEF x
<1>6. QED
  BY <1>1, <1>2, <1>4, <1>5, TextOfOne

LEMMA InitText == Init => TextInv
<1> SUFFICES ASSUME Init PROVE TextInv
  OBVIOUS
<1>1. keys \in Keyboards /\ keys.typed = {}
  BY DEF Init, Keyboards
<1>2. Idle.pc = "idle"
  BY DEF Idle
<1>3. \A c \in Clients : TextOf(client[c], c, lock, spoilt, keys)
  BY <1>2 DEF Init, TextOf
<1>4. QED
  BY <1>1, <1>3, RequestsAssumption DEF Init, TextInv

(* Every step keeps the invariant of texts. *)
LEMMA NextText == IInv /\ TextInv /\ [Next]_vars => TextInv'
<1> SUFFICES ASSUME IInv, TextInv, [Next]_vars PROVE TextInv'
  OBVIOUS
<1>1. CASE UNCHANGED vars
  BY <1>1 DEF vars, TextInv, TextOf, Types, TypesOnRdp, TypesRunes, Typing, TypesUnderLock
<1>2. CASE \E c \in Clients : Receive(c) \/ Send(c) \/ Refuse(c) \/ SendFails(c) \/ Reply(c)
  BY <1>2, ReceiveText, SendText, RefuseText, SendFailsText, ReplyText
<1>3. QED
  BY <1>1, <1>2 DEF Next

LEMMA TextHolds == Spec => []TextInv
<1>1. QED
  BY InitText, NextText, Invariance, PTL DEF Spec

(* A text that is answered ok is on the desktop, rune by rune, whatever    *)
(* keys are held and whatever caps lock is where the backend can make it   *)
(* so and no release of a modifier was lost: for every text, every number  *)
(* of clients, every interleaving of their events and every failure.       *)
THEOREM TypedHolds == Spec => []TypedIsText
<1>1. TextInv => TypedIsText
  <2> SUFFICES ASSUME TextInv, NEW c \in Clients, Answered(c, "type"),
                      ComesOut(c)
               PROVE  client[c].got = client[c].req.text
    BY DEF TypedIsText
  <2>1. (desktop # "eis" \/ client[c].clean) /\ (desktop \in Rdp => ~client[c].missed)
    BY DEF ComesOut, Rdp
  <2>2. QED
    BY <2>1 DEF TextInv, TextOf, Answered
<1>2. QED
  BY <1>1, TextHolds, PTL

(* A modifier a text pressed is up again when nobody types, unless a text  *)
(* failed on RDP and none has gone through since: whatever calls fail, for *)
(* however long, in whatever order the texts come.                         *)
THEOREM NothingHeld == Spec => []TypingLeavesNothingHeld
<1>1. TextInv => TypingLeavesNothingHeld
  BY DEF TextInv, TypingLeavesNothingHeld
<1>2. QED
  BY <1>1, TextHolds, PTL

(* While the text of a client has begun to arrive and is not all there, no *)
(* event of another text gets through.                                     *)
THEOREM TextsApart == Spec => TextsDoNotMix
<1>1. ASSUME IInv, TextInv, [Next]_vars, NEW c \in Clients, NEW d \in Clients,
             c # d, Typing(c), client[c].got # <<>>, Len(client[c].got) < Len(client[c].req.text),
             Typing(d), client'[d].got # client[d].got
      PROVE  desktop \in {"windows", "ydotool"}
  <2>1. SUFFICES ASSUME desktop \notin {"windows", "ydotool"} PROVE FALSE
    OBVIOUS
  <2>2. Types(client[c], c, lock, spoilt, keys)
    BY <1>1 DEF TextInv, TextOf, Typing
  <2>3. Send(d)
    <3>1. ASSUME NEW e \in Clients, NEW x, client' = [client EXCEPT ![e] = x], e # d \/ x.got = client[d].got
          PROVE  client'[d].got = client[d].got
      BY <1>1, <3>1 DEF IInv, Shape
    <3>2. DOMAIN client[d] = Fields
      BY <1>1 DEF IInv, Shape
    <3>3. client[d].pc = "sending" /\ "sending" \notin Answers
      BY <1>1 DEF Typing, Answers
    <3>4. ASSUME NEW e \in Clients, Receive(e) \/ Reply(e) PROVE FALSE
      <4>1. e # d /\ \E x : client' = [client EXCEPT ![e] = x]
        BY <3>3, <3>4 DEF Receive, Reply
      <4>2. QED
        BY <1>1, <3>1, <4>1
    <3>5. ASSUME NEW e \in Clients, Refuse(e) \/ SendFails(e) PROVE FALSE
      <4>1. DOMAIN client[e] = Fields
        BY <1>1 DEF IInv, Shape
      <4>2. \E x : client' = [client EXCEPT ![e] = x] /\ x.got = client[e].got
        <5>1. CASE \E answer : Return(e, answer)
          <6>1. PICK answer : Return(e, answer)
            BY <5>1
          <6>2. [client[e] EXCEPT !.pc = answer, !.todo = <<>>].got = client[e].got
            BY <4>1 DEF Fields
          <6>3. client' = [client EXCEPT ![e] = [client[e] EXCEPT !.pc = answer, !.todo = <<>>]]
            BY <6>1 DEF Return
          <6>4. QED
            BY <6>2, <6>3
        <5>2. CASE client' = [client EXCEPT ![e].todo = Tail(@), ![e].missed = TRUE]
          <6>1. [client[e] EXCEPT !.todo = Tail(client[e].todo), !.missed = TRUE].got = client[e].got
            BY <4>1 DEF Fields
          <6>2. client' = [client EXCEPT ![e] =
                             [client[e] EXCEPT !.todo = Tail(client[e].todo), !.missed = TRUE]]
            BY <5>2
          <6>3. QED
            BY <6>1, <6>2
        <5>3. QED
          BY <3>5, <5>1, <5>2 DEF Refuse, SendFails
      <4>3. \E x : client' = [client EXCEPT ![e] = x] /\ (e # d \/ x.got = client[d].got)
        BY <4>2
      <4>4. QED
        BY <1>1, <3>1, <4>3
    <3>6. ASSUME NEW e \in Clients, e # d, Send(e) PROVE FALSE
      <4>1. \E x : client' = [client EXCEPT ![e] = x]
        BY <3>6 DEF Send
      <4>2. QED
        BY <1>1, <3>1, <3>6, <4>1
    <3>7. client' # client
      BY <1>1
    <3>8. QED
      BY <1>1, <3>4, <3>5, <3>6, <3>7 DEF Next, vars
  <2>4. MayInput(d)
    BY <2>3 DEF Send
  <2>5. lock # c
    BY <1>1, <2>4, LockIsMine, RequestsAssumption
  <2>6. desktop \notin Rdp
    BY <1>1, <2>2, <2>5 DEF Types, TypesOnRdp
  <2>7. desktop # "vnc"
    BY <1>1, <2>2, <2>5 DEF Types, TypesRunes
  <2>8. desktop # "macos"
    <3>1. desktop = "macos" => client[c].got = client[c].req.text
      BY <1>1, <2>2 DEF Types, TypesOnMacos
    <3>2. client[c].got = client[c].req.text => FALSE
      <4>1. client[c].req.text \in Seq(Runes)
        BY <1>1 DEF TextInv, TextOf, Typing
      <4>2. Len(client[c].req.text) \in Nat
        BY <4>1
      <4>3. QED
        BY <1>1, <4>2
    <3>3. QED
      BY <3>1, <3>2
  <2>9. desktop # "eis"
    BY <1>1, <2>2 DEF Types, TypesOnEis
  <2>10. QED
    BY <1>1, <2>1, <2>6, <2>7, <2>8, <2>9 DEF TextInv, Desktops, Rdp
<1>2. IInv /\ TextInv /\ [Next]_vars =>
        [\A c, d \in Clients :
           (/\ c # d /\ Typing(c) /\ client[c].got # <<>> /\ Len(client[c].got) < Len(client[c].req.text)
            /\ Typing(d) /\ client'[d].got # client[d].got)
           => desktop \in {"windows", "ydotool"}]_vars
  BY <1>1
<1>3. QED
  BY <1>2, TextHolds, Invariance, PTL DEF Spec, TextsDoNotMix

(***************************************************************************)
(* Types.  Of what TypeOK says, the texts' invariant has all but the       *)
(* history and where each client is.                                       *)
(***************************************************************************)
Places == {"idle", "sending"} \cup Answers
Placed == spoilt \in BOOLEAN /\ \A c \in Clients : client[c].pc \in Places

(* One client changes its place. *)
LEMMA OneIsPlaced ==
  ASSUME IInv, Placed, NEW c \in Clients, NEW x, x.pc \in Places, spoilt' \in BOOLEAN,
         client' = [client EXCEPT ![c] = x]
  PROVE  Placed'
BY DEF IInv, Shape, Placed

LEMMA ReceivePlaced ==
  ASSUME IInv, Placed, NEW c \in Clients, Receive(c)
  PROVE  Placed'
<1> DEFINE verdict(r) == Authorize(tokens, r.surface, r.bearer, ScopeOf[r.op])
<1>1. PICK r \in RequestsOf[c] :
        \E out \in IF verdict(r) = "allowed" THEN Outcomes(r) ELSE {Ends(verdict(r))} :
          client' = [client EXCEPT ![c] = [Idle EXCEPT !.req = r, !.pc = out.answer, !.todo = out.todo]]
  BY DEF Receive
<1>2. PICK out \in IF verdict(r) = "allowed" THEN Outcomes(r) ELSE {Ends(verdict(r))} :
        client' = [client EXCEPT ![c] = [Idle EXCEPT !.req = r, !.pc = out.answer, !.todo = out.todo]]
  BY <1>1
<1> DEFINE x == [Idle EXCEPT !.req = r, !.pc = out.answer, !.todo = out.todo]
<1>3. x.pc = out.answer
  BY DEF Idle
<1>4. out.answer \in Places
  <2>1. CASE verdict(r) # "allowed"
    <3>1. verdict(r) \in {"unauthorized", "forbidden"}
      BY <2>1 DEF Authorize, AuthorizeRequest
    <3>2. out.answer = verdict(r)
      BY <1>2, <2>1 DEF Ends
    <3>3. QED
      BY <3>1, <3>2 DEF Places, Answers
  <2>2. CASE out \in Outcomes(r)
    <3>1. out.answer \in {"sending", "bad", "unsupported"}
      BY <2>2, OutcomeAnswers, RequestsAssumption
    <3>2. QED
      BY <3>1 DEF Places, Answers
  <2>3. QED
    BY <1>2, <2>1, <2>2
<1>5. client' = [client EXCEPT ![c] = x] /\ spoilt' \in BOOLEAN
  BY <1>2 DEF Receive, Placed
<1> HIDE DEF x
<1>6. QED
  BY <1>3, <1>4, <1>5, OneIsPlaced

LEMMA SendPlaced ==
  ASSUME IInv, Placed, NEW c \in Clients, Send(c)
  PROVE  Placed'
<1> DEFINE rest == Tail(client[c].todo)
           got == Press(Head(client[c].todo), keys, client[c].req.op = "type").got
           x == Sent(c, rest, got)
<1>1. client' = [client EXCEPT ![c] = x] /\ spoilt' \in BOOLEAN
  BY DEF Send, Placed
<1>2. x.pc = AfterBurst(rest)
  <2> HIDE DEF rest, got
  <2>1. QED
    BY SentIs
<1>3. AfterBurst(rest) \in Places
  <2> HIDE DEF rest
  <2>1. QED
    BY DEF AfterBurst, Places, Answers
<1> HIDE DEF x, rest, got
<1>4. QED
  BY <1>1, <1>2, <1>3, OneIsPlaced

(* An error of the backend is an answer; a release that fails is passed over. *)
LEMMA ReturnPlaced ==
  ASSUME IInv, Placed, NEW c \in Clients, NEW answer \in Answers, Return(c, answer),
         spoilt' \in BOOLEAN
  PROVE  Placed'
<1> DEFINE x == [client[c] EXCEPT !.pc = answer, !.todo = <<>>]
<1>1. client' = [client EXCEPT ![c] = x]
  BY DEF Return
<1>2. x.pc = answer
  BY DEF IInv, Shape, Fields
<1> HIDE DEF x
<1>3. QED
  BY <1>1, <1>2, OneIsPlaced DEF Places

LEMMA SendFailsPlaced ==
  ASSUME IInv, Placed, NEW c \in Clients, SendFails(c)
  PROVE  Placed'
<1> DEFINE released == Head(client[c].todo)[1].do = "release"
           x == [client[c] EXCEPT !.todo = Tail(client[c].todo), !.missed = TRUE]
<1>0. spoilt' \in BOOLEAN
  BY DEF SendFails
<1>1. CASE released
  <2>1. client' = [client EXCEPT ![c] = x]
    BY <1>1 DEF SendFails
  <2>2. x.pc = client[c].pc
    BY DEF IInv, Shape, Fields
  <2>3. x.pc \in Places
    BY <2>2 DEF Placed
  <2> HIDE DEF x
  <2>4. QED
    BY <1>0, <2>1, <2>3, OneIsPlaced
<1>2. CASE ~released
  <2>1. Return(c, "unavailable")
    BY <1>2 DEF SendFails
  <2>2. QED
    BY <1>0, <2>1, ReturnPlaced DEF Answers
<1>3. QED
  BY <1>1, <1>2

LEMMA NextPlaced == IInv /\ Placed /\ [Next]_vars => Placed'
<1> SUFFICES ASSUME IInv, Placed, [Next]_vars PROVE Placed'
  OBVIOUS
<1>1. CASE UNCHANGED vars
  BY <1>1 DEF vars, Placed
<1>2. ASSUME NEW c \in Clients, Refuse(c) PROVE Placed'
  BY <1>2, ReturnPlaced DEF Refuse, Answers, Placed
<1>3. ASSUME NEW c \in Clients, Reply(c) PROVE Placed'
  <2>1. client' = [client EXCEPT ![c] = Idle] /\ spoilt' \in BOOLEAN
    BY <1>3 DEF Reply, Placed
  <2>2. Idle.pc \in Places
    BY IdleShape DEF Places
  <2>3. QED
    BY <2>1, <2>2, OneIsPlaced
<1>4. QED
  BY <1>1, <1>2, <1>3, ReceivePlaced, SendPlaced, SendFailsPlaced DEF Next

(* The types of every variable, for any tokens, clients and requests. *)
THEOREM TypeCorrect == Spec => []TypeOK
<1>1. Init => Placed
  BY IdleShape DEF Init, Placed, Places
<1>2. TextInv /\ Placed => TypeOK
  <2> SUFFICES ASSUME TextInv, Placed PROVE TypeOK
    OBVIOUS
  <2>1. keys.held \subseteq Modifiers
    BY DEF TextInv, Keyboards
  <2>2. QED
    BY <2>1 DEF TextInv, Placed, Places, TypeOK
<1>3. QED
  BY <1>1, <1>2, NextPlaced, Invariance, TextHolds, PTL DEF Spec
=============================================================================
