---------------------------- MODULE MCRdpSession ----------------------------
(* RdpSession for TLC: two requests beside the start, two frame sizes, so  *)
(* that a frame may grow or shrink, and two modes, one that is probed.     *)
EXTENDS RdpSession
MCFrameSizes == {1, 2}
=============================================================================
