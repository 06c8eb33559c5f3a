-------------------------- MODULE MCFuseWriteFile --------------------------
(* Instance of FuseWriteFile for TLC: two threads and one open file. *)
EXTENDS FuseWriteFile

CONSTANTS t1, t2, h1, a, b, zero

MCCallers == {t1, t2}
MCHandles == {h1}
MCBytes   == {a, b, zero}

(* Consecutive chunks, one that overwrites and one that leaves a hole. *)
MCWrites ==
  {[off |-> 0, data |-> <<a>>], [off |-> 1, data |-> <<b>>],
   [off |-> 0, data |-> <<b, b>>], [off |-> 3, data |-> <<a>>]}
TwoWrites == {[off |-> 0, data |-> <<a>>], [off |-> 1, data |-> <<b>>]}
=============================================================================
