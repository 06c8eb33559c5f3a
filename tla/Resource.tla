------------------------------- MODULE Resource -------------------------------
(***************************************************************************)
(* What desktop.Resource promises of a session                             *)
(* (internal/desktop/session.go): Done, Err and Close.  The Composite and  *)
(* the server rely on it: they wait for Done, read Err once, and take a    *)
(* Close that has returned for the end of the session.  The modules of the *)
(* two sessions and of the EIS backend show that they implement this one.  *)
(***************************************************************************)
VARIABLES
  ended,   (* Done()'s channel is closed  *)
  error,   (* Err() # nil                 *)
  closed   (* a call of Close has returned *)

view == <<ended, error, closed>>

Init == ~ended /\ ~error /\ ~closed

(* Something goes wrong: Err says so, and goes on to. *)
Fail == ~ended /\ error' = TRUE /\ UNCHANGED <<ended, closed>>

(* The session is over, with the error that there is. *)
End == ~ended /\ ended' = TRUE /\ error' \in {error, TRUE} /\ UNCHANGED closed

(* Close returns when the session is over. *)
Close == ended /\ ~closed /\ closed' = TRUE /\ UNCHANGED <<ended, error>>

Next == Fail \/ End \/ Close

Spec == Init /\ [][Next]_view
=============================================================================
