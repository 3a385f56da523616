------------------------------ MODULE ItemStore ------------------------------
(***************************************************************************)
(* What a cuckoo table promises its caller, without buckets or slots: a    *)
(* bag of items.  A call to Insert adds the item; it may go on working and *)
(* then either succeeds or hands one stored item back.  Remove takes one   *)
(* item equal to its argument and reports failure only when there is none. *)
(***************************************************************************)
EXTENDS Integers

CONSTANTS
  StoreItem,         \* items that can be stored
  Request,           \* arguments callers pass
  Same(_, _),        \* equality of Item.Equals
  Nil                \* no item handed back

VARIABLES
  contents,          \* how many copies of each item are stored
  busy,              \* an Insert has not returned yet
  ret                \* the last call and what it returned, if it did

storeVars == <<contents, busy, ret>>

Reply(op, x, ok, y) == [op |-> op, arg |-> x, ok |-> ok, item |-> y]

Present(x) == {y \in StoreItem : Same(x, y) /\ contents[y] > 0}
Plus(y) == [contents EXCEPT ![y] = @ + 1]
Minus(y) == [contents EXCEPT ![y] = @ - 1]

Init ==
  /\ contents = [x \in StoreItem |-> 0]
  /\ busy = FALSE
  /\ ret = Reply("none", Nil, TRUE, Nil)

(* Insert of a storable item: the item counts as stored from the start. *)
Add(x) ==
  /\ ~ busy
  /\ x \in StoreItem
  /\ \/ busy' = FALSE /\ ret' = Reply("insert", x, TRUE, Nil)
     \/ busy' = TRUE /\ ret' = Reply("insert", x, FALSE, Nil)
  /\ contents' = Plus(x)

(* Insert of anything else changes nothing. *)
Refuse(x) ==
  /\ ~ busy
  /\ x \notin StoreItem
  /\ ret' = Reply("insert", x, FALSE, Nil)
  /\ UNCHANGED <<contents, busy>>

Finish ==
  /\ busy
  /\ busy' = FALSE
  /\ ret' = [ret EXCEPT !.ok = TRUE]
  /\ UNCHANGED contents

(* A failing Insert hands back exactly one item that was stored. *)
HandBack(y) ==
  /\ busy
  /\ busy' = FALSE
  /\ ret' = [ret EXCEPT !.item = y]
  /\ contents[y] > 0
  /\ contents' = Minus(y)

Take(x) ==
  /\ ~ busy
  /\ ret' = Reply("remove", x, TRUE, Nil)
  /\ \E y \in Present(x) : contents' = Minus(y)
  /\ UNCHANGED busy

Miss(x) ==
  /\ ~ busy
  /\ ret' = Reply("remove", x, FALSE, Nil)
  /\ Present(x) = {}
  /\ UNCHANGED <<contents, busy>>

Next ==
  \/ \E x \in Request : Add(x) \/ Refuse(x) \/ Take(x) \/ Miss(x)
  \/ Finish
  \/ \E y \in StoreItem : HandBack(y)

Spec == Init /\ [][Next]_storeVars
=============================================================================
