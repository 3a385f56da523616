------------------------------ MODULE TopicLog ------------------------------
(***************************************************************************)
(* What a topic promises its readers: a log.  A reader is given the        *)
(* messages from some place on, in order, each at most once and whole.     *)
(* While its handle stays open it misses none; closing it may cost the     *)
(* message that was being read.                                            *)
(***************************************************************************)
EXTENDS Naturals, Sequences

CONSTANTS Reader, Contents

VARIABLES
  log,   \* messages published
  next,  \* per reader: index of the message it is given next
  open,  \* per reader: its handle is being polled
  out    \* per reader: messages given to it

vars == <<log, next, open, out>>

Init ==
  /\ log = <<>>
  /\ next = [r \in Reader |-> 1]
  /\ open = [r \in Reader |-> FALSE]
  /\ out = [r \in Reader |-> <<>>]

Publish ==
  /\ \E m \in Contents : log' = Append(log, m)
  /\ UNCHANGED <<next, open, out>>

(* A reader that has not read starts at the end, or with the message that is
   being published. *)
Share(r) ==
  /\ ~ open[r] /\ out[r] = <<>>
  /\ \E n \in {Len(log), Len(log) + 1} \ {0} : next' = [next EXCEPT ![r] = n]
  /\ UNCHANGED <<log, open, out>>

Open(r) == open' = [open EXCEPT ![r] = TRUE] /\ UNCHANGED <<log, next, out>>

Deliver(r) ==
  /\ open[r] /\ next[r] <= Len(log)
  /\ out' = [out EXCEPT ![r] = Append(@, log[next[r]])]
  /\ next' = [next EXCEPT ![r] = @ + 1]
  /\ UNCHANGED <<log, open>>

Close(r) ==
  /\ open[r]
  /\ open' = [open EXCEPT ![r] = FALSE]
  /\ \/ UNCHANGED next
     \/ next[r] <= Len(log) /\ next' = [next EXCEPT ![r] = @ + 1]
  /\ UNCHANGED <<log, out>>

Next == Publish \/ \E r \in Reader : Share(r) \/ Open(r) \/ Deliver(r) \/ Close(r)

Spec == Init /\ [][Next]_vars

=============================================================================
