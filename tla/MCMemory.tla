------------------------------ MODULE MCMemory ------------------------------
(***************************************************************************)
(* Memory for TLC: an address space with PTs of 20 pages and PDs of 64.     *)
(***************************************************************************)
EXTENDS Memory

CONSTANT PageSet   \* virtual pages the instance uses

MCIndex == [l \in 0..4 |-> [v \in PageSet |->
              v \div (CASE l = 0 -> 1 [] l = 1 -> 20 [] l = 2 -> 64 [] OTHER -> 64)]]
=============================================================================
