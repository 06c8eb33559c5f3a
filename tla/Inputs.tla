------------------------------- MODULE Inputs -------------------------------
(* What the surfaces make of numbers, names and text (internal/apiinput,    *)
(* internal/inputcode) and what each backend makes of the result: the       *)
(* position, the wheel rotation, the button and the key events it sends.    *)
(*                                                                          *)
(* A number of a request is finite and is written in halves: 3 is 1.5.  The *)
(* widths of the integers are constants, so that a small instance crosses   *)
(* every one of their boundaries.                                           *)
EXTENDS Integers, Sequences, SequencesExt

CONSTANTS MaxInt,         \* int: MinInt .. MaxInt
          MaxInt32,       \* int32_t
          MaxUint16,      \* uint16_t
          WheelNegative,  \* PTR_FLAGS_WHEEL_NEGATIVE, the sign bit of a rotation
          Detent,         \* 120, one step of a wheel
          ScreenWidth     \* of the local screen, in pixels

(* Every build is for a 64-bit machine (.github/workflows/build.yml): an int *)
(* holds any int32_t, uint32_t, uint16_t, rotation and screen.               *)
ASSUME InputsAssumption ==
  /\ MaxInt \in Nat /\ MaxInt32 \in Nat /\ MaxUint16 \in Nat
  /\ WheelNegative \in Nat \ {0} /\ Detent \in Nat \ {0, 1} /\ ScreenWidth \in Nat
  /\ MaxUint16 < MaxInt /\ ScreenWidth < MaxInt
  /\ 2 * MaxInt32 + 1 <= MaxInt /\ 2 * WheelNegative - 1 <= MaxInt

MinInt == -MaxInt - 1
Negate(n) == IF n = MinInt THEN MinInt ELSE -n
Wrap(n) == ((n - MinInt) % (2 * (MaxInt + 1))) + MinInt   \* a sum of two ints
Uint32(n) == n % (2 * (MaxInt32 + 1))
Int32(n) == ((n + MaxInt32 + 1) % (2 * (MaxInt32 + 1))) - (MaxInt32 + 1)
Sign(n) == IF n > 0 THEN 1 ELSE IF n < 0 THEN -1 ELSE 0

Desktops == {"rdp", "rdp ascii", "vnc", "eis", "windows", "macos", "ydotool"}
Rdp == {"rdp", "rdp ascii"}   \* with and without unicode input

-----------------------------------------------------------------------------
(* math.Round goes away from zero at .5. *)
Round(half) == IF half >= 0 THEN (half + 1) \div 2 ELSE -((1 - half) \div 2)

(* roundInt and RoundCoordinate: the ints that may come out, none when the   *)
(* number is refused.  The bound is the largest int as a float64, which is   *)
(* one more than an int can hold: what int() makes of it is the machine's.   *)
RoundInt(half) ==
  LET r == Round(half) IN
    IF r < MinInt \/ r > MaxInt + 1 THEN {}
    ELSE IF r = MaxInt + 1 THEN {MinInt, MaxInt} ELSE {r}

(* The positions, in halves, a backend may send for a coordinate: none when *)
(* it refuses.                                                              *)
FitUint16(n) == n \in 0..MaxUint16

PositionsOf(desktop, half) ==
  LET pixels == CASE desktop \in Rdp \cup {"vnc"} -> {n \in RoundInt(half) : FitUint16(n)}
                  [] desktop = "windows" -> RoundInt(half) \cap (0..(ScreenWidth - 1))
                  [] OTHER -> {}
      exact == CASE desktop = "macos" -> half \in 0..(2 * ScreenWidth - 1)
                 [] desktop = "eis" -> half >= 0
                 [] OTHER -> desktop = "ydotool"
  IN {2 * n : n \in pixels} \cup (IF exact THEN {half} ELSE {})

-----------------------------------------------------------------------------
(* Crops, in one of the two dimensions: "x" and "w" may each be left out.    *)
(* cropBounds rejects what is not inside the image; cropRect of the local    *)
(* backends first swaps the edges of a negative width, as image.Rect does.   *)
CropBounds(given, x, w) ==
  LET left == IF "x" \in given THEN x ELSE 0
  IN <<left, IF "w" \in given THEN Wrap(left + w) ELSE ScreenWidth>>

Canonical(edges) == IF edges[1] > edges[2] THEN <<edges[2], edges[1]>> ELSE edges

Inside(edges) == 0 <= edges[1] /\ edges[1] < edges[2] /\ edges[2] <= ScreenWidth

(* The EIS backend goes with KWin's screenshots: CaptureArea gets an int32   *)
(* and an uint32 and is asked only when all four numbers are there.          *)
CropsOf(desktop, given, x, w) ==
  LET edges == IF desktop \in {"windows", "macos"} THEN Canonical(CropBounds(given, x, w))
               ELSE CropBounds(given, x, w)
  IN IF desktop = "eis" /\ given = {"x", "w"}
       THEN IF w <= 0 THEN {} ELSE {<<Int32(x), Int32(x) + Uint32(w)>>}
     ELSE IF Inside(edges) THEN {edges} ELSE {}

-----------------------------------------------------------------------------
(* SendMouseWheel of the RDP session puts the flag of the sign and the       *)
(* amount in one word; the other side reads nine bits in two's complement.   *)
RdpWheelWord(delta) ==
  LET amount == IF delta < 0 THEN Negate(delta) ELSE delta
      field == amount % (2 * WheelNegative)
  IN IF delta < 0 /\ field < WheelNegative THEN field + WheelNegative ELSE field

RdpAccepts(delta) ==
  (IF delta < 0 THEN Negate(delta) ELSE delta) <= 2 * WheelNegative - 1

RdpReads(word) == IF word >= WheelNegative THEN word - 2 * WheelNegative ELSE word

(* wheelSteps divides towards zero and rounds what is left away from it. *)
WheelStepsTruncated(delta) == Sign(delta) * ((Sign(delta) * delta) \div Detent)   \* mutant

WheelSteps(delta) ==
  IF delta \in -(Detent - 1)..(Detent - 1) THEN Sign(delta)
  ELSE Sign(delta) * ((Sign(delta) * delta) \div Detent)

(* The rotation the desktop reads for a delta other than zero. *)
WheelAccepts(desktop, delta) == desktop \in Rdp => RdpAccepts(delta)

Rotation(desktop, delta) ==
  CASE desktop \in Rdp -> RdpReads(RdpWheelWord(delta))
    [] desktop = "vnc" -> Sign(delta)
    [] desktop = "ydotool" -> WheelSteps(delta)
    [] OTHER -> Int32(delta)

-----------------------------------------------------------------------------
(* Names.  ParseMouseButtonName and ParseKeyName turn a name of a request    *)
(* into a canonical one, which is what the service hands to the backend.     *)
CanonicalButton ==
  [left |-> "BTN_LEFT", right |-> "BTN_RIGHT", middle |-> "BTN_MIDDLE", side |-> "BTN_SIDE",
   extra |-> "BTN_EXTRA", forward |-> "BTN_FORWARD", back |-> "BTN_BACK", task |-> "BTN_TASK"]

CanonicalKey == [ctrl |-> "KEY_LEFTCTRL", shift |-> "KEY_LEFTSHIFT", capslock |-> "KEY_CAPSLOCK"]

(* The names each backend looks a button up by: mouseButtonFlags, buttonMask *)
(* and ydotoolButton have tables of names, the others use its code.          *)
ButtonKnown(desktop, name) ==
  CASE desktop \in Rdp -> name \in {"left", "right", "middle", "x1", "back", "x2", "forward"}
    [] desktop = "vnc" -> name \in {"left", "middle", "right", "back", "forward"}
    [] desktop = "ydotool" -> name \in DOMAIN CanonicalButton
    [] desktop = "windows" -> name # "BTN_TASK"
    [] OTHER -> TRUE

(* lookupKeyScancode and keyFromName know names such as LCONTROL or ctrl. *)
KeyKnown(desktop, name) ==
  desktop \in Rdp \cup {"vnc"} =>
    name \in {"LCONTROL", "RCONTROL", "LSHIFT", "RSHIFT", "CAPITAL", "ctrl", "shift", "capslock"}

-----------------------------------------------------------------------------
(* Text.  The runes stand for a key, its shifted form, a control character,  *)
(* a Latin-1 letter without a key and a letter beyond Latin-1.               *)
Runes == {"a", "A", "newline", "e acute", "kanji"}

Modifiers == {"KEY_LEFTCTRL", "KEY_LEFTSHIFT"}

(* keyForRune and asciiKeyNameForRune. *)
HasKey(rune) == rune \in {"a", "A", "newline"}
Shifted(rune) == rune = "A"
KeyOf(rune) == IF rune = "newline" THEN "KEY_ENTER" ELSE "KEY_A"

Event(do, key) == [do |-> do, key |-> key, value |-> <<>>]
Pointer(do, value) == [do |-> do, key |-> "", value |-> value]
Down(key) == Event("down", key)
Up(key) == Event("up", key)
Refusal == Event("refuse", "")

(* Text and sendASCIIKeyLocked: the key, in shift when the rune needs it. *)
KeyEventsInShift(rune) ==   \* mutant: shift is not released
  (IF Shifted(rune) THEN <<Down("KEY_LEFTSHIFT")>> ELSE <<>>) \o <<Down(KeyOf(rune)), Up(KeyOf(rune))>>

KeyEvents(rune) ==
  LET key == <<Down(KeyOf(rune)), Up(KeyOf(rune))>> IN
    IF Shifted(rune) THEN <<Down("KEY_LEFTSHIFT")>> \o key \o <<Up("KEY_LEFTSHIFT")>> ELSE key

(* sendRuneUnicodeLocked and sendUnicodeUnit. *)
UnicodeEvents(rune) == <<Event("char", rune), Event("char end", rune)>>

(* TypeText of the VNC session meets a rune without a keysym on its way. *)
KeysymEvents(rune) ==
  IF rune = "kanji" THEN <<Refusal>> ELSE <<Event("keysym", rune), Event("keysym end", rune)>>

(* syncKeyboardStateLocked, whose focus-in goes with the sync, and           *)
(* releaseModifiersLocked, of which two of the eight keys are enough.        *)
PreludeWithoutSync == SetToSeq({Event("release", key) : key \in Modifiers})   \* mutant
Prelude == <<Event("sync", "")>> \o SetToSeq({Event("release", key) : key \in Modifiers})

RdpEvents(desktop, rune) ==
  IF (desktop = "rdp ascii" /\ HasKey(rune)) \/ rune = "newline"
    THEN KeyEvents(rune) ELSE UnicodeEvents(rune)

ForEach(text, Events(_)) == FlattenSeq([i \in DOMAIN text |-> Events(text[i])])

(* The bursts of events TypeText sends: what is in one burst reaches the     *)
(* desktop together.  The EIS backend looks every rune up before it sends.   *)
Singly(events) == [i \in DOMAIN events |-> <<events[i]>>]

TypeBursts(desktop, text) ==
  CASE desktop \in Rdp ->
         LET Events(rune) == RdpEvents(desktop, rune) IN Singly(Prelude \o ForEach(text, Events))
    [] desktop = "vnc" -> Singly(ForEach(text, KeysymEvents))
    [] desktop = "windows" -> Singly(ForEach(text, UnicodeEvents))
    [] desktop = "macos" ->
         << [i \in DOMAIN text |-> Event("char", text[i])],
            [i \in DOMAIN text |-> Event("char end", text[i])] >>
    [] desktop = "ydotool" -> [i \in DOMAIN text |-> <<Event("keysym", text[i])>>]
    [] desktop = "eis" ->
         IF \A i \in DOMAIN text : HasKey(text[i])
           THEN << ForEach(text, KeyEvents) >> ELSE << <<Refusal>> >>

(* The backends that hold a lock for the whole of TypeText. *)
NeverUnderLock(desktop) == FALSE   \* mutant: the lock is taken for each event
TypesUnderLock(desktop) == desktop \in Rdp \cup {"vnc"}
=============================================================================
