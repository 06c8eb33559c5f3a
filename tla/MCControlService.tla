-------------------------- MODULE MCControlService --------------------------
(* Instance of ControlService for TLC: two requests at a time. *)
EXTENDS ControlService, TLC

CONSTANTS c1, c2, ctrl, shift, letter, left, right, p1, p2, f1, f2

MCClients  == {c1, c2}
Symmetry   == Permutations(MCClients)
MCKeys     == {ctrl, letter, shift}
MCButtons  == {left, right}
MCTextKeys == {ctrl}
MCPoints   == {p1, p2}
MCFrames   == {f1, f2}

Blank == [op |-> "wait", parsed |-> TRUE, button |-> left, path |-> <<>>, chord |-> <<>>,
          wheel |-> {}, crop |-> FALSE]
Pointer(op, button, path) == [Blank EXCEPT !.op = op, !.button = button, !.path = path]
Chord(keys) == [Blank EXCEPT !.op = "key", !.chord = keys]

(* One or two of every operation, and two that are refused. *)
EveryCommand ==
  {Chord(<<ctrl, letter>>), Chord(<<ctrl, letter, ctrl>>),
   Pointer("click", right, <<p1>>), Pointer("double", left, <<p1>>),
   Pointer("drag", left, <<p1, p2>>),
   Pointer("drag", left, <<p1>>), Pointer("drag", left, <<>>),
   Pointer("move", left, <<p2>>),
   [Pointer("scroll", left, <<p1>>) EXCEPT !.wheel = {"x", "y"}],
   Blank, [Blank EXCEPT !.op = "type"],
   [Blank EXCEPT !.op = "shot"], [Blank EXCEPT !.op = "shot", !.crop = TRUE]}
=============================================================================
