---------------------------- MODULE MCEisBackend ----------------------------
(* Instance of EisBackend for TLC: two absolute pointers, of which one can *)
(* replace the other while it is there, only one of them with a wheel, and *)
(* a keyboard.                                                             *)
EXTENDS EisBackend

CONSTANTS p1, p2, k, c1

MCDevices == {p1, p2, k}
MCCallers == {c1}
MCCaps ==
  [d \in MCDevices |->
     CASE d = p1 -> {"pointerAbs", "button", "scroll"}
       [] d = p2 -> {"pointerAbs", "button"}
       [] d = k  -> {"keyboard"}]

(* p1: one screen.  p2: two screens side by side, scaled.                  *)
MCRegionsOf ==
  [d \in MCDevices |->
     CASE d = p1 -> {[x |-> 0, y |-> 0, w |-> 2, h |-> 2]}
       [] d = p2 -> {[x |-> 0, y |-> 1, w |-> 2, h |-> 1], [x |-> 2, y |-> 0, w |-> 1, h |-> 2]}
       [] d = k  -> {}]
MCFrames == {[w |-> 4, h |-> 4]}
(* The far corner of the frame, and a point that is refused.               *)
MCPoints == {[x |-> 3, y |-> 3], [x |-> -1, y |-> 0]}
=============================================================================
