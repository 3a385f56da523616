------------------------------ MODULE MCClient ------------------------------
EXTENDS Client

(* Two goroutines publish, flush and kill; or handles are polled and one
   goroutine kills. *)
MCWorkloads ==
  {[side |-> "write", apps |-> App, writes |-> 4, found |-> 0, polls |-> 0]} \cup
  {[side |-> "read", apps |-> {a}, writes |-> 0, found |-> 1, polls |-> 2] :
     a \in {CHOOSE a \in App : TRUE}}
=============================================================================
