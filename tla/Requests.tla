------------------------------ MODULE Requests ------------------------------
(* A request from its surface to the desktop: the scope it needs, the        *)
(* numbers and names it carries, the events the backend sends for it, and    *)
(* what the desktop makes of them.  One of the seven kinds of desktop is     *)
(* chosen at the start, with the tokens of the configuration, the modifiers  *)
(* somebody else holds down and the state of caps lock.                      *)
(*                                                                          *)
(* The order of the service's calls and their failures are ControlService's  *)
(* subject; here an operation is the list of bursts of events its backend    *)
(* sends, one burst a step, so that two requests interleave.                 *)
EXTENDS Access, Inputs

CONSTANTS Clients,
          RequestsOf,   \* client -> records [surface, bearer, op, number, width,
                        \* given, name, text]
          Configs       \* configurations of tokens, sequences of entries

ASSUME RequestsAssumption ==
  /\ "nobody" \notin Clients
  /\ \A c \in Clients : \A r \in RequestsOf[c] :
       /\ r.surface \in Surfaces /\ r.op \in DOMAIN ScopeOf
       /\ r.number \in Int /\ r.width \in Int /\ r.given \subseteq {"x", "w"}
       /\ r.text \in Seq(Runes)
  /\ \A entries \in Configs :
       /\ DOMAIN entries = 1..Len(entries) /\ Len(entries) \in Nat
       /\ \A i \in DOMAIN entries :
            /\ DOMAIN entries[i] = {"value", "audience", "scopes"}
            /\ entries[i].scopes \subseteq [verb : STRING, resource : STRING]

VARIABLES desktop,  \* the kind of desktop
          tokens,   \* Authorizer.tokens
          keys,     \* the desktop's keyboard: [held, typed, caps]
          lock,     \* inputMu while text is typed
          client,   \* client -> [req, pc, todo, got, clean, missed, touched, seen]
          spoilt    \* history: a text failed after the last that went through

vars == <<desktop, tokens, keys, lock, client, spoilt>>

NoRequest == [surface |-> "http", bearer |-> NoBearer, op |-> "none",
              number |-> 0, width |-> 0, given |-> {}, name |-> "", text |-> <<>>]
Idle == [req |-> NoRequest, pc |-> "idle", todo |-> <<>>, got |-> <<>>,
         clean |-> TRUE, missed |-> FALSE, touched |-> FALSE, seen |-> <<>>]

Answers == {"ok", "unauthorized", "forbidden", "bad", "unsupported", "unavailable"}

TypeOK ==
  /\ desktop \in Desktops
  /\ spoilt \in BOOLEAN
  /\ keys.held \subseteq Modifiers
  /\ lock \in Clients \cup {"nobody"}
  /\ \A c \in Clients : client[c].pc \in {"idle", "sending"} \cup Answers

Init ==
  /\ desktop \in Desktops
  /\ \E entries \in Configs : Accepted(entries) /\ tokens = Stored(entries)
  /\ \E disturbed \in BOOLEAN :
       keys = [held |-> IF disturbed THEN Modifiers ELSE {}, typed |-> {}, caps |-> disturbed]
  /\ lock = "nobody"
  /\ client = [c \in Clients |-> Idle]
  /\ spoilt = FALSE

-----------------------------------------------------------------------------
(* What an operation comes to: the answer that ends it, or the bursts to     *)
(* send.  Numbers that are refused while the body is decoded answer "bad";   *)
(* what the service or the backend refuses is an error of the operation.     *)
Ends(answer) == [answer |-> answer, todo |-> <<>>]
Sends(bursts) == [answer |-> "sending", todo |-> bursts]

(* SendMouseButton and SendMouseWheel of some backends move the pointer.     *)
PointFirst == IF desktop \in {"eis", "windows", "macos"} THEN << <<Pointer("point", <<0>>)>> >> ELSE <<>>

(* controlCrop rounds what is given; a crop is made before the image is sent. *)
Crop(x, w, given) ==
  IF CropsOf(desktop, given, x, w) = {} THEN {Ends("unsupported")}
  ELSE {Sends(<< <<Pointer("frame", crop)>> >>) : crop \in CropsOf(desktop, given, x, w)}

Screenshot(r) ==
  IF RoundInt(r.number) = {} \/ RoundInt(r.width) = {} THEN {Ends("bad")}
  ELSE UNION {Crop(x, w, r.given) : x \in RoundInt(r.number), w \in RoundInt(r.width)}

Move(half) ==
  IF PositionsOf(desktop, half) = {} THEN {Ends("unsupported")}
  ELSE {Sends(<< <<Pointer("point", <<p>>)>> >>) : p \in PositionsOf(desktop, half)}

ScrollBy(delta) ==
  IF delta = 0 \/ ~WheelAccepts(desktop, delta) THEN Ends("unsupported")
  ELSE Sends(PointFirst \o << <<Pointer("wheel", <<Rotation(desktop, delta)>>)>> >>)

Scroll(half) ==
  IF RoundInt(half) = {} THEN {Ends("bad")} ELSE {ScrollBy(delta) : delta \in RoundInt(half)}

(* Click moves the pointer before the backend looks the button up. *)
ClickBursts(name) ==
  LET press == IF ButtonKnown(desktop, name)
                 THEN << <<Event("press", name)>>, <<Event("lift", name)>> >> ELSE << <<Refusal>> >>
  IN << <<Pointer("point", <<0>>)>> >> \o PointFirst \o press

Click(button) ==
  IF button \notin DOMAIN CanonicalButton THEN {Ends("unsupported")}
  ELSE {Sends(ClickBursts(CanonicalButton[button]))}

Keypress(name) ==
  IF name \notin DOMAIN CanonicalKey THEN {Ends("unsupported")}
  ELSE LET key == CanonicalKey[name] IN
    {Sends(IF KeyKnown(desktop, key) THEN << <<Down(key)>>, <<Up(key)>> >> ELSE << <<Refusal>> >>)}

Type(text) ==
  IF text = <<>> THEN {Ends("unsupported")} ELSE {Sends(TypeBursts(desktop, text))}

Outcomes(r) ==
  CASE r.op = "screenshot" -> Screenshot(r)
    [] r.op = "move" -> Move(r.number)
    [] r.op = "scroll" -> Scroll(r.number)
    [] r.op = "click" -> Click(r.name)
    [] r.op = "keypress" -> Keypress(r.name)
    [] r.op = "type" -> Type(r.text)

(* A request arrives: its scope is checked, then it is decoded. *)
Receive(c) ==
  /\ client[c].pc = "idle"
  /\ \E r \in RequestsOf[c] :
       LET verdict == Authorize(tokens, r.surface, r.bearer, ScopeOf[r.op]) IN
       \E out \in IF verdict = "allowed" THEN Outcomes(r) ELSE {Ends(verdict)} :
         client' = [client EXCEPT ![c] =
                      [Idle EXCEPT !.req = r, !.pc = out.answer, !.todo = out.todo]]
  /\ UNCHANGED <<desktop, tokens, keys, lock, spoilt>>

(* The response is written and the request is over. *)
Reply(c) ==
  /\ client[c].pc \in Answers
  /\ client' = [client EXCEPT ![c] = Idle]
  /\ UNCHANGED <<desktop, tokens, keys, lock, spoilt>>

-----------------------------------------------------------------------------
(* The desktop (external).  A key writes its rune, shifted or not; with a    *)
(* control key down it is a shortcut and writes nothing that was asked.      *)
Writes(event, k) ==
  IF event.do \in {"char", "keysym"} THEN event.key
  ELSE IF "KEY_LEFTCTRL" \in k.held THEN "shortcut"
  ELSE IF event.key = "KEY_ENTER" THEN "newline"
  ELSE IF ("KEY_LEFTSHIFT" \in k.held) # k.caps THEN "A" ELSE "a"

WritesText(event) ==
  \/ event.do \in {"char", "keysym"}
  \/ event.do = "down" /\ event.key \in {"KEY_A", "KEY_ENTER"}

(* input_synchronize(0) turns caps lock off. *)
Keyboard(event, k, typing) ==
  CASE event.do = "down" /\ event.key \in Modifiers ->
         [k EXCEPT !.held = @ \cup {event.key},
                   !.typed = IF typing THEN @ \cup {event.key} ELSE @]
    [] event.do \in {"up", "release"} ->
         [k EXCEPT !.held = @ \ {event.key}, !.typed = @ \ {event.key}]
    [] event.do = "down" /\ event.key = "KEY_CAPSLOCK" -> [k EXCEPT !.caps = ~@]
    [] event.do = "sync" -> [k EXCEPT !.caps = FALSE]
    [] OTHER -> k

(* A burst of events: what becomes of the keyboard k, and the text the       *)
(* client gets.                                                              *)
Key(event, s, typing) ==
  [keys |-> Keyboard(event, s.keys, typing),
   got |-> IF WritesText(event) THEN Append(s.got, Writes(event, s.keys)) ELSE s.got]

Press(burst, k, typing) ==
  LET after[n \in 0..Len(burst)] ==
        IF n = 0 THEN [keys |-> k, got |-> <<>>] ELSE Key(burst[n], after[n - 1], typing)
  IN after[Len(burst)]

(* Who holds inputMu, and who has to wait for it. *)
MayInput(c) == TypesUnderLock(desktop) => lock \in {c, "nobody"}

HoldsOn(c, rest) ==
  IF TypesUnderLock(desktop) /\ client[c].req.op = "type" /\ rest # <<>> THEN c ELSE "nobody"

AfterBurst(rest) == IF rest = <<>> THEN "ok" ELSE "sending"

(* Client c when a burst has brought it the text got and rest is still to do. *)
Sent(c, rest, got) ==
  LET shown == Head(client[c].todo)[1].value IN
    [client[c] EXCEPT !.pc = AfterBurst(rest), !.todo = rest, !.got = @ \o got,
                      !.clean = @ /\ keys.held = {} /\ ~keys.caps, !.touched = TRUE,
                      !.seen = IF shown # <<>> THEN shown ELSE @]

(* A text of which every event was sent, the releases of modifiers too. *)
Through(c, rest) == client[c].req.op = "type" /\ rest = <<>> /\ ~client[c].missed

Send(c) ==
  /\ client[c].pc = "sending"
  /\ MayInput(c)
  /\ Head(client[c].todo) # <<Refusal>>
  /\ LET rest == Tail(client[c].todo)
         pressed == Press(Head(client[c].todo), keys, client[c].req.op = "type")
     IN /\ keys' = pressed.keys
        /\ lock' = HoldsOn(c, rest)
        /\ client' = [client EXCEPT ![c] = Sent(c, rest, pressed.got)]
        /\ spoilt' = IF Through(c, rest) THEN FALSE ELSE spoilt
  /\ UNCHANGED <<desktop, tokens>>

(* The backend returns an error without sending: the request ends. *)
Return(c, answer) ==
  /\ lock' = IF lock = c THEN "nobody" ELSE lock
  /\ client' = [client EXCEPT ![c].pc = answer, ![c].todo = <<>>]
  /\ UNCHANGED <<desktop, tokens, keys>>

Refuse(c) ==
  /\ client[c].pc = "sending"
  /\ MayInput(c)
  /\ Head(client[c].todo) = <<Refusal>>
  /\ Return(c, "unsupported")
  /\ UNCHANGED spoilt

(* A call fails, at any time and for a time: the connection is gone, the     *)
(* RDP session is not in its active state, or FreeRDP cannot send.  Nothing  *)
(* of its burst is delivered, and TypeText returns where it is: on RDP with  *)
(* shift down when the rune is shifted.  releaseModifiersLocked passes over  *)
(* the error of a release and goes on.                                       *)
SendFails(c) ==
  /\ client[c].pc = "sending"
  /\ MayInput(c)
  /\ Head(client[c].todo)[1].do # "refuse"
  /\ spoilt' = (spoilt \/ client[c].req.op = "type")
  /\ IF Head(client[c].todo)[1].do = "release"
       THEN /\ lock' = HoldsOn(c, Tail(client[c].todo))
            /\ client' = [client EXCEPT ![c].todo = Tail(@), ![c].missed = TRUE]
            /\ UNCHANGED <<desktop, tokens, keys>>
       ELSE Return(c, "unavailable")

Next == \E c \in Clients : Receive(c) \/ Send(c) \/ Refuse(c) \/ SendFails(c) \/ Reply(c)

Spec == Init /\ [][Next]_vars

-----------------------------------------------------------------------------
Typing(c) == client[c].pc = "sending" /\ client[c].req.op = "type"
Answered(c, op) == client[c].pc = "ok" /\ client[c].req.op = op

(* The scopes docs/configuration.md gives the operations. *)
Documented(op) ==
  IF op = "screenshot" THEN {All, Scope("read", "*"), Scope("read", "screenshot")}
  ELSE IF op \in {"keypress", "type"} THEN {All, Scope("write", "*"), Scope("write", "keyboard")}
  ELSE {All, Scope("write", "*"), Scope("write", "mouse")}

(* Nothing reaches the desktop for a request over the network unless one     *)
(* entry of the configuration has its bearer, its surface and a scope the    *)
(* documentation names for the operation; nor for a request that is          *)
(* answered 400, 401 or 403.                                                 *)
NothingWithoutScope ==
  \A c \in Clients : client[c].touched =>
    /\ client[c].pc \notin {"bad", "unauthorized", "forbidden"}
    /\ (tokens # <<>> /\ client[c].req.surface \in Audiences) =>
         \E i \in DOMAIN tokens :
           /\ tokens[i].value = client[c].req.bearer
           /\ client[c].req.surface \in tokens[i].audience
           /\ tokens[i].scopes \cap Documented(client[c].req.op) # {}

(* Text a client was told was typed is on the desktop, rune by rune: where   *)
(* runes are sent, whatever keys are held and whatever caps lock is; on RDP, *)
(* with or without unicode input, so too, when no release of a modifier      *)
(* before it was lost (it is lost silently, and the text is then typed under *)
(* the modifier); elsewhere when no modifier was down and caps lock was off. *)
ComesOut(c) ==
  CASE desktop \in Rdp -> ~client[c].missed
    [] desktop \in {"windows", "macos"} -> TRUE
    [] OTHER -> client[c].clean

TypedIsText ==
  \A c \in Clients :
    (Answered(c, "type") /\ ComesOut(c)) => client[c].got = client[c].req.text

(* Typing leaves no modifier down.  One that a text pressed and that is down *)
(* while nobody types is on RDP, where a text failed on its way and no text  *)
(* has gone through since: the next one that does takes it up again, however *)
(* many fail before it.  On the other desktops none ever stays.              *)
TypingLeavesNothingHeld ==
  ((\A c \in Clients : ~Typing(c)) /\ keys.typed # {}) => spoilt /\ desktop \in Rdp

(* Two texts typed at the same time arrive one after the other, except where *)
(* each rune is a call of its own (Windows, ydotool).                        *)
TextsDoNotMix ==
  [][\A c, d \in Clients :
       (/\ c # d /\ Typing(c) /\ client[c].got # <<>> /\ Len(client[c].got) < Len(client[c].req.text)
        /\ Typing(d) /\ client'[d].got # client[d].got)
       => desktop \in {"windows", "ydotool"}]_vars

(* Where the numbers of a request that is answered ok end up.  A position    *)
(* is on the desktop's grid and within half a pixel of the one asked for: a  *)
(* coordinate that overflowed int never is.                                  *)
PositionIsTheAsked(c) ==
  /\ client[c].seen[1] - client[c].req.number \in {-1, 0, 1}
  /\ desktop \in Rdp \cup {"vnc"} => client[c].seen[1] \in 0..(2 * MaxUint16)

(* The wheel turns the way it was asked, for every delta the encoding has    *)
(* room for: below the flag of the sign on RDP, an int32 on EIS and the      *)
(* local backends, any other.  Beyond it the wheel may turn the other way or *)
(* not at all.                                                               *)
HasRoom(delta) ==
  CASE desktop \in Rdp -> delta \in (1 - WheelNegative)..(WheelNegative - 1)
    [] desktop \in {"eis", "windows", "macos"} -> delta \in (-MaxInt32 - 1)..MaxInt32
    [] OTHER -> delta \in MinInt..MaxInt

WheelTurnsAsAsked(c) ==
  HasRoom(Round(client[c].req.number)) =>
    Sign(client[c].seen[1]) = Sign(Round(client[c].req.number))

(* A crop of a positive width is the one asked for, and on the screen: KWin, *)
(* which is sent the low 32 bits, decides itself what is on the screen.      *)
CropIsTheAsked(c) ==
  LET x == Round(client[c].req.number)
      w == Round(client[c].req.width)
  IN (/\ client[c].req.given = {"x", "w"} /\ w > 0
      /\ desktop = "eis" => x \in (-MaxInt32 - 1)..MaxInt32 /\ w <= 2 * MaxInt32 + 1)
     => /\ client[c].seen = <<x, x + w>>
        /\ desktop # "eis" => Inside(client[c].seen)

NumbersAreTheAsked ==
  \A c \in Clients :
    /\ Answered(c, "move") => PositionIsTheAsked(c)
    /\ Answered(c, "scroll") => WheelTurnsAsAsked(c)
    /\ Answered(c, "screenshot") => CropIsTheAsked(c)

(* docs/architecture.md: the RDP and VNC sessions send key and button        *)
(* events, and docs/configuration.md has ydotool do so.  A click of one of   *)
(* the three buttons every mouse has is not refused for its name.            *)
AcceptedNamesReachTheDesktop ==
  \A c \in Clients :
    (client[c].req.op = "click" /\ client[c].req.name \in {"left", "right", "middle"})
    => client[c].pc # "unsupported"
=============================================================================
