------------------------------- MODULE MCTcp -------------------------------
(* A peer with 3 bytes to send, and a program with 2. *)
EXTENDS Tcp
============================================================================
