-------------------------- MODULE MCReceiveSession -------------------------
(* Capacities of one fill at once: every queue is full while another is not. *)
EXTENDS ReceiveSession, TLC
=============================================================================
