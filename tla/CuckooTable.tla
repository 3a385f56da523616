----------------------------- MODULE CuckooTable -----------------------------
(***************************************************************************)
(* One cuckoo table under any sequence of Insert and Remove calls by its   *)
(* one owner.  Insert is not atomic: every turn of the eviction loop is a  *)
(* step, since the table memory is what the PIR back end copies.           *)
(***************************************************************************)
EXTENDS Cuckoo

CONSTANT Request         \* items callers pass, acceptable or not

ASSUME RequestAssumption ==
  \A x \in Request : Insertable(x) => x \in Item

VARIABLES
  table,                 \* index and data of the table
  call,                  \* the Insert in progress, if any
  ret                    \* the last call and what it returned, if it did

vars == <<table, call, ret>>

Idle == [status |-> "idle", item |-> NoItem, next |-> 0, evictions |-> 0]

Reply(op, x, ok, y) == [op |-> op, arg |-> x, ok |-> ok, item |-> y]

Init ==
  /\ table = NewTable
  /\ call = Idle
  /\ ret = Reply("none", NoItem, TRUE, NoItem)

(* The state an outcome of a step of Insert leads to. *)
Become(o, n) ==
  /\ table' = o.table
  /\ call' = IF o.status \in {"done", "refused"}
               THEN Idle
               ELSE [status |-> o.status, item |-> o.item,
                     next |-> o.next, evictions |-> n]

Insert(x) ==
  /\ call.status = "idle"
  /\ \E o \in InsertStart(table, x) :
       /\ Become(o, 0)
       /\ ret' = Reply("insert", x, o.status = "done", NoItem)

(* Variant: one turn too many. *)
Evict_OneMore ==
  /\ call.status = "evicting"
  /\ call.evictions <= MaxEvictions
  /\ \E o \in EvictStep(table, call.item, call.next) :
       /\ Become(o, call.evictions + 1)
       /\ ret' = [ret EXCEPT !.ok = (o.status = "done")]

Evict ==
  /\ call.status = "evicting"
  /\ call.evictions < MaxEvictions
  /\ \E o \in EvictStep(table, call.item, call.next) :
       /\ Become(o, call.evictions + 1)
       /\ ret' = [ret EXCEPT !.ok = (o.status = "done")]

(* The loop ran out: the item in hand is returned to the caller. *)
GiveUp ==
  /\ call.status = "evicting"
  /\ call.evictions = MaxEvictions
  /\ call' = Idle
  /\ ret' = [ret EXCEPT !.item = call.item]
  /\ UNCHANGED table

Remove(x) ==
  /\ call.status = "idle"
  /\ \E o \in RemoveOutcomes(table, x) :
       /\ table' = o.table
       /\ ret' = Reply("remove", x, o.ok, NoItem)
  /\ UNCHANGED call

Next ==
  \/ \E x \in Request : Insert(x) \/ Remove(x)
  \/ Evict
  \/ GiveUp

Spec == Init /\ [][Next]_vars

-----------------------------------------------------------------------------
CallState ==
  [status : {"idle", "evicting", "fatal"}, item : Item \cup {NoItem},
   next : Bucket, evictions : 0 .. MaxEvictions]

Replies ==
  [op : {"none", "insert", "remove"}, arg : Request \cup {NoItem},
   ok : BOOLEAN, item : Item \cup {NoItem}]

(* Every cell holds an item; the call in progress holds an item and a
   bucket to try, and counts at most MaxEvictions turns (table.go:142). *)
TypeOK ==
  /\ table \in Table
  /\ call \in CallState
  /\ ret \in Replies
  /\ call.status = "evicting" => ~ ret.ok
  /\ call.status = "evicting" => call.item \in Item

(* A stored item is in one of its own two buckets, however often it was
   displaced: this is what lets Contains and Remove, and the readers of the
   PIR database, look in two buckets only (table.go:99-105, 166-184). *)
OwnBucket ==
  \A s \in Slot : table[s].filled =>
    s[1] \in {table[s].item.bucket1, table[s].item.bucket2}

(* Neither log.Fatalf of the table is reachable: an evicted item is always
   tried in one of its own buckets (table.go:144), and a bucket has room
   right after an eviction from it (table.go:251). *)
NeverFatal == call.status # "fatal"

(* An Insert in progress holds an item for one of its own buckets; with
   OwnBucket this is the inductive reason for NeverFatal. *)
HandInOwnBucket ==
  call.status = "evicting" =>
    call.next \in {call.item.bucket1, call.item.bucket2}

Inv == TypeOK /\ OwnBucket /\ NeverFatal /\ HandInOwnBucket

-----------------------------------------------------------------------------
InHand(x) == IF call.status = "evicting" /\ call.item = x THEN 1 ELSE 0

Cells(t, x) == {s \in Slot : t[s].filled /\ t[s].item = x}

Copies == [x \in Item |-> Cardinality(Cells(table, x)) + InHand(x)]

Store == INSTANCE ItemStore WITH
  StoreItem <- Item, Same <- Equals, Nil <- NoItem,
  contents <- Copies, busy <- call.status = "evicting"

(* The table is a bag of items: no sequence of displacements duplicates,
   drops or alters an item, a failed Insert returns the one item that is no
   longer stored, and Remove misses an item only if no equal one is stored
   (table.go:113-184). *)
StoreSpec == Store!Spec

=============================================================================
