----------------------------- MODULE MCRequests -----------------------------
(* Requests over small integers: int has 7 bits, int32_t 5, uint16_t 4, a    *)
(* wheel rotation 3 with its sign.  One client sends every operation, the    *)
(* other types and presses a modifier beside it.                             *)
EXTENDS Requests

Plain(surface, bearer, op) ==
  [surface |-> surface, bearer |-> bearer, op |-> op, number |-> 0, width |-> 0,
   given |-> {}, name |-> "", text |-> <<>>]
Named(r, name) == [r EXCEPT !.name = name]
Numbered(r, number) == [r EXCEPT !.number = number]
Cropped(r, given, x, w) == [r EXCEPT !.given = given, !.number = x, !.width = w]
Texted(r, text) == [r EXCEPT !.text = text]
Open(op) == Plain("http", NoBearer, op)   \* refused when tokens are configured

Texts == {<<"a", "A">>, <<"e acute", "newline">>, <<"a", "kanji">>}

(* Around every boundary: zero, the sign bit and the mask of a rotation, the *)
(* detent, the width of the screen, of uint16_t, of int32_t and of int.      *)
Numbers == {-130, -128, -32, -6, -1, 0, 1, 6, 8, 11, 14, 15, 32, 127, 130}

EveryScope(surface, bearer) ==
  {Plain(surface, bearer, "screenshot"), Plain(surface, bearer, "move"),
   Texted(Plain(surface, bearer, "type"), <<"a">>)}

FirstClient ==
  {Texted(Open("type"), text) : text \in Texts}
  \cup {Named(Open("keypress"), key) : key \in {"ctrl", "capslock", "hyper"}}
  \cup {Named(Open("click"), button) : button \in {"left", "task", "wheel"}}
  \cup {Numbered(Open(op), number) : op \in {"move", "scroll"}, number \in Numbers}
  \cup {Cropped(Open("screenshot"), {"x", "w"}, x, w) : x \in {-2, 0, 3, 8, 66}, w \in {-4, 0, 4, 11, 66, 126}}
  \cup {Cropped(Open("screenshot"), {given}, 4, 4) : given \in {"x", "w"}}
  \cup UNION {EveryScope(surface, bearer) : surface \in {"http", "mcp", "stdio"}, bearer \in {NoBearer, "t1", "t2"}}

SecondClient ==
  {Texted(Plain("fuse", NoBearer, "type"), <<"A", "newline">>),
   Named(Plain("fuse", NoBearer, "keypress"), "shift")}

MCClients == {"c1", "c2"}
MCRequestsOf == [c \in MCClients |-> IF c = "c1" THEN FirstClient ELSE SecondClient]

Entry(value, audience, scopes) == [value |-> value, audience |-> audience, scopes |-> scopes]

MCConfigs ==
  {<<>>,
   <<Entry("t1", {}, {Scope("read", "*")}), Entry("t1", {}, {All})>>,
   <<Entry("t1", {"http"}, {Scope("write", "keyboard")}), Entry("t2", {"mcp"}, {Scope("write", "mouse")})>>,
   <<Entry("t1", {"grpc"}, {All})>>}
=============================================================================
