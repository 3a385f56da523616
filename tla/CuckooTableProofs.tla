-------------------------- MODULE CuckooTableProofs --------------------------
(***************************************************************************)
(* Proofs about CuckooTable for every number of buckets, bucket depth,     *)
(* eviction bound and set of items.                                        *)
(***************************************************************************)
EXTENDS CuckooTable, CuckooProofs

-----------------------------------------------------------------------------
(* Between calls the call state has its type. *)
LEMMA IdleIsCallState == Idle \in CallState
BY TableParams DEF Idle, CallState, Bucket

(* The invariant holds of a new table (table.go:41-58). *)
LEMMA InitInv == Init => Inv
<1>. SUFFICES ASSUME Init PROVE Inv
  OBVIOUS
<1>2. table \in Table /\ \A s \in Slot : ~ table[s].filled
  BY NewTableEmpty DEF Init
<1>3. call \in CallState /\ call.status = "idle"
  BY IdleIsCallState DEF Init, Idle
<1>4. ret \in Replies
  BY DEF Init, Reply, Replies
<1>. QED
  BY <1>2, <1>3, <1>4
     DEF Inv, TypeOK, OwnBucket, NeverFatal, HandInOwnBucket

(* A step that fills one slot of the item's own bucket and returns. *)
LEMMA BecomeDone ==
  ASSUME Inv, NEW s \in Slot, NEW x \in Item, NEW n \in 0 .. MaxEvictions,
         s[1] \in {x.bucket1, x.bucket2},
         Become(Returned(Filling(table, s, x), "done"), n),
         ret' \in Replies
  PROVE  /\ Inv'
         /\ table' = Filling(table, s, x)
         /\ call' = Idle
<1>1. /\ table' = Filling(table, s, x)
      /\ call' = Idle
  BY DEF Become, Returned, Outcome
<1>2. TypeOK'
  <2>1. table' \in Table
    BY <1>1, FillingType, Zenon DEF Inv, TypeOK
  <2>2. call' \in CallState /\ call'.status = "idle"
    BY <1>1, IdleIsCallState DEF Idle
  <2>. QED
    BY <2>1, <2>2 DEF TypeOK
<1>3. OwnBucket'
  BY <1>1, FillingKeepsPlacement DEF Inv, TypeOK, OwnBucket
<1>4. NeverFatal' /\ HandInOwnBucket'
  BY <1>1 DEF NeverFatal, HandInOwnBucket, Idle
<1>. QED
  BY <1>1, <1>2, <1>3, <1>4 DEF Inv

(* A step that goes on with item y in hand for one of y's own buckets. *)
LEMMA BecomeEvicting ==
  ASSUME Inv, NEW t \in Table, NEW y \in Item, NEW b, NEW n \in 0 .. MaxEvictions,
         b \in {y.bucket1, y.bucket2},
         \A r \in Slot : t[r].filled =>
           r[1] \in {t[r].item.bucket1, t[r].item.bucket2},
         Become(Outcome(t, "evicting", y, b), n),
         ret' \in Replies, ~ ret'.ok
  PROVE  /\ Inv'
         /\ table' = t
         /\ call'.status = "evicting"
         /\ call'.item = y
<1>1. /\ table' = t
      /\ call' = [status |-> "evicting", item |-> y, next |-> b, evictions |-> n]
  BY DEF Become, Outcome
<1>2. b \in Bucket
  BY ItemBuckets
<1>3. TypeOK'
  BY <1>1, <1>2 DEF Inv, TypeOK, CallState
<1>4. OwnBucket'
  BY <1>1 DEF OwnBucket
<1>5. NeverFatal' /\ HandInOwnBucket'
  BY <1>1 DEF NeverFatal, HandInOwnBucket
<1>. QED
  BY <1>1, <1>3, <1>4, <1>5 DEF Inv

(* The branches of Insert and of its eviction loop, each with what it does
   to the table and to the call, and the reply it leaves. *)
Stores(x, reply) ==
  /\ \E s \in Slot : ~ table[s].filled /\ table' = Filling(table, s, x)
  /\ call' = Idle
  /\ ret' = reply

Picks(x, reply) ==
  /\ table' = table
  /\ call'.status = "evicting"
  /\ call'.item = x
  /\ ret' = reply

Swaps(x) ==
  \E s \in Slot : /\ table[s].filled
                  /\ table' = Filling(table, s, x)
                  /\ call'.status = "evicting"
                  /\ call'.item = table[s].item
                  /\ ret' = ret

(* The replies of Insert and Remove have their type. *)
LEMMA ReplyType ==
  ASSUME NEW x \in Request, NEW op \in {"insert", "remove"}, NEW ok \in BOOLEAN
  PROVE  /\ Reply(op, x, ok, NoItem) \in Replies
         /\ Reply(op, x, ok, NoItem).ok = ok
BY DEF Reply, Replies

(* The first attempt of Insert on an accepted item keeps the invariant, and
   stores the item or goes on with it in hand (table.go:126-138). *)
LEMMA InsertStep ==
  ASSUME Inv, NEW x \in Item, x \in Request, Insert(x)
  PROVE  /\ Inv'
         /\ \/ Stores(x, Reply("insert", x, TRUE, NoItem))
            \/ Picks(x, Reply("insert", x, FALSE, NoItem))
<1>1. table \in Table
  BY DEF Inv, TypeOK
<1>2. PICK o \in InsertStart(table, x) :
        Become(o, 0) /\ ret' = Reply("insert", x, o.status = "done", NoItem)
  BY DEF Insert
<1>3. CASE \E s \in Slot : /\ s[1] \in {x.bucket1, x.bucket2}
                           /\ ~ table[s].filled
                           /\ o = Returned(Filling(table, s, x), "done")
  <2>1. PICK s \in Slot : /\ s[1] \in {x.bucket1, x.bucket2}
                          /\ ~ table[s].filled
                          /\ o = Returned(Filling(table, s, x), "done")
    BY <1>3
  <2>2. Become(Returned(Filling(table, s, x), "done"), 0)
    BY <1>2, <2>1
  <2>3. (o.status = "done") = TRUE
    BY <2>1 DEF Returned, Outcome
  <2>4. ret' = Reply("insert", x, TRUE, NoItem)
    BY <1>2, <2>3, Zenon
  <2>5. ret' \in Replies
    BY <2>4, ReplyType, Zenon
  <2>6. /\ Inv'
        /\ table' = Filling(table, s, x)
        /\ call' = Idle
    <3>1. 0 \in 0 .. MaxEvictions
      BY TableParams
    <3>2. s[1] \in {x.bucket1, x.bucket2}
      BY <2>1
    <3>. QED
      BY <2>2, <2>5, <3>1, <3>2, BecomeDone
  <2>. QED
    BY <2>1, <2>4, <2>6, Zenon DEF Stores
<1>4. CASE \E b \in {x.bucket1, x.bucket2} : o = Outcome(table, "evicting", x, b)
  <2>1. PICK b \in {x.bucket1, x.bucket2} : o = Outcome(table, "evicting", x, b)
    BY <1>4
  <2>2. 0 \in 0 .. MaxEvictions
    BY TableParams
  <2>3. \A r \in Slot : table[r].filled =>
          r[1] \in {table[r].item.bucket1, table[r].item.bucket2}
    BY DEF Inv, OwnBucket
  <2>4. Become(Outcome(table, "evicting", x, b), 0)
    BY <1>2, <2>1
  <2>5. (o.status = "done") = FALSE
    BY <2>1 DEF Outcome
  <2>6. ret' = Reply("insert", x, FALSE, NoItem)
    BY <1>2, <2>5, Zenon
  <2>7. ret' \in Replies /\ ~ ret'.ok
    BY <2>6, ReplyType, Zenon
  <2>. QED
    BY <1>1, <2>2, <2>3, <2>4, <2>6, <2>7, BecomeEvicting, Zenon DEF Picks
<1>. QED
  BY <1>1, <1>2, <1>3, <1>4, InsertStartCases, Zenon

(* Insert of an item it does not accept changes only the reply. *)
LEMMA RefusedStep ==
  ASSUME Inv, NEW x \in Request, ~ Insertable(x), Insert(x)
  PROVE  /\ Inv'
         /\ table' = table
         /\ call.status = "idle" /\ call'.status = "idle"
         /\ ret' = Reply("insert", x, FALSE, NoItem)
<1>. DEFINE o == Returned(table, "refused")
<1>1. Become(o, 0) /\ ret' = Reply("insert", x, o.status = "done", NoItem)
  BY DEF Insert, InsertStart
<1>2. (o.status = "done") = FALSE
  BY DEF Returned, Outcome
<1>3. table' = table /\ call' = Idle
  BY <1>1 DEF Become, Returned, Outcome
<1>. HIDE DEF o
<1>4. ret' = Reply("insert", x, FALSE, NoItem)
  BY <1>1, <1>2, Zenon
<1>5. TypeOK'
  BY <1>3, <1>4, ReplyType, IdleIsCallState, Zenon DEF Inv, TypeOK, Idle
<1>6. OwnBucket' /\ NeverFatal' /\ HandInOwnBucket'
  BY <1>3 DEF Inv, OwnBucket, NeverFatal, HandInOwnBucket, Idle
<1>. QED
  BY <1>3, <1>4, <1>5, <1>6, Zenon DEF Inv, Insert, Idle

(* A turn of the eviction loop keeps the invariant, and stores the item in
   hand or exchanges it for the one it displaces (table.go:142-153). *)
LEMMA EvictKeeps ==
  ASSUME Inv, Evict
  PROVE  /\ Inv'
         /\ \/ Stores(call.item, [ret EXCEPT !.ok = TRUE])
            \/ Swaps(call.item)
<1>. DEFINE x == call.item
            b == call.next
            n == call.evictions + 1
<1>1. /\ table \in Table
      /\ x \in Item
      /\ b \in {x.bucket1, x.bucket2}
  BY DEF Inv, TypeOK, HandInOwnBucket, Evict
<1>2. n \in 0 .. MaxEvictions
  BY TableParams DEF Inv, TypeOK, CallState, Evict
<1>3. PICK o \in EvictStep(table, x, b) :
        Become(o, n) /\ ret' = [ret EXCEPT !.ok = (o.status = "done")]
  BY DEF Evict
<1>4. PICK s \in Slot :
        /\ s[1] = b
        /\ \/ /\ ~ table[s].filled
              /\ o = Returned(Filling(table, s, x), "done")
           \/ /\ table[s].filled
              /\ o = Outcome(Filling(table, s, x), "evicting", table[s].item,
                             Alternate(table[s].item, b))
  BY <1>1, EvictStepCases
<1>5. s[1] \in {x.bucket1, x.bucket2}
  BY <1>1, <1>4
<1>6. CASE ~ table[s].filled
  <2>1. o = Returned(Filling(table, s, x), "done")
    BY <1>4, <1>6
  <2>2. (o.status = "done") = TRUE
    BY <2>1 DEF Returned, Outcome
  <2>3. ret' = [ret EXCEPT !.ok = TRUE]
    BY <1>3, <2>2, Zenon
  <2>4. ret' \in Replies
    BY <2>3, Zenon DEF Inv, TypeOK, Replies
  <2>. HIDE DEF n, x
  <2>5. /\ Inv'
        /\ table' = Filling(table, s, x)
        /\ call' = Idle
    BY <1>1, <1>2, <1>3, <1>5, <2>1, <2>4, BecomeDone
  <2>. QED
    BY <1>6, <2>3, <2>5 DEF Stores, x
<1>7. CASE table[s].filled
  <2>. DEFINE y == table[s].item
  <2>1. Become(Outcome(Filling(table, s, x), "evicting", y, Alternate(y, b)), n)
    BY <1>3, <1>4, <1>7
  <2>2. y \in Item /\ Filling(table, s, x) \in Table
    BY <1>1, FillingType, Zenon DEF Table, Cell
  <2>3. Alternate(y, b) \in {y.bucket1, y.bucket2}
    BY DEF Alternate
  <2>4. \A r \in Slot : Filling(table, s, x)[r].filled =>
           r[1] \in {Filling(table, s, x)[r].item.bucket1,
                     Filling(table, s, x)[r].item.bucket2}
    BY <1>1, <1>5, FillingKeepsPlacement DEF Inv, OwnBucket
  <2>5. (o.status = "done") = FALSE
    BY <1>4, <1>7 DEF Outcome
  <2>6. ret' = [ret EXCEPT !.ok = FALSE]
    BY <1>3, <2>5, Zenon
  <2>7. ret \in Replies /\ ret.ok = FALSE
    BY DEF Inv, TypeOK, Replies, Evict
  <2>8. ret' = ret
    BY <2>6, <2>7 DEF Replies
  <2>. HIDE DEF y, n
  <2>9. /\ Inv'
        /\ table' = Filling(table, s, x)
        /\ call'.status = "evicting"
        /\ call'.item = y
    BY <1>2, <2>1, <2>2, <2>3, <2>4, <2>7, <2>8, BecomeEvicting
  <2>. QED
    BY <1>7, <2>8, <2>9 DEF Swaps, y
<1>. QED
  BY <1>6, <1>7

(* Giving up after MaxEvictions keeps the invariant (table.go:155-156). *)
LEMMA GiveUpKeeps ==
  ASSUME Inv, GiveUp
  PROVE  Inv'
<1>1. ret' \in Replies
  BY DEF Inv, TypeOK, GiveUp, Replies
<1>2. TypeOK'
  BY <1>1, IdleIsCallState DEF Inv, TypeOK, GiveUp, Idle
<1>3. OwnBucket' /\ NeverFatal' /\ HandInOwnBucket'
  BY DEF Inv, OwnBucket, NeverFatal, HandInOwnBucket, Idle, GiveUp
<1>. QED
  BY <1>2, <1>3 DEF Inv

(* Remove clears a slot holding an equal item, or finds none in the table. *)
LEMMA RemoveStep ==
  ASSUME Inv, NEW x \in Request, Remove(x)
  PROVE  /\ Inv'
         /\ call' = call
         /\ \/ \E s \in Slot : /\ Holds(table, s, x)
                               /\ table' = Clear(table, s)
                               /\ ret' = Reply("remove", x, TRUE, NoItem)
            \/ /\ \A s \in Slot : ~ Holds(table, s, x)
               /\ table' = table
               /\ ret' = Reply("remove", x, FALSE, NoItem)
<1>1. table \in Table
  BY DEF Inv, TypeOK
<1>2. PICK o \in RemoveOutcomes(table, x) : /\ table' = o.table
                                            /\ ret' = Reply("remove", x, o.ok, NoItem)
  BY DEF Remove
<1>3. call' = call /\ call.status = "idle"
  BY DEF Remove
<1>4. CASE \E s \in Slot : /\ Holds(table, s, x)
                           /\ o = [table |-> Clear(table, s), ok |-> TRUE]
  <2>1. PICK s \in Slot : /\ Holds(table, s, x)
                          /\ o = [table |-> Clear(table, s), ok |-> TRUE]
    BY <1>4, Zenon
  <2>2. table' = Clear(table, s) /\ ret' = Reply("remove", x, TRUE, NoItem)
    BY <1>2, <2>1
  <2>3. TypeOK'
    BY <1>1, <1>3, <2>2, ClearType, ReplyType, Zenon DEF Inv, TypeOK
  <2>4. OwnBucket'
    <3>1. SUFFICES ASSUME NEW r \in Slot, table'[r].filled
                   PROVE  r[1] \in {table'[r].item.bucket1, table'[r].item.bucket2}
      BY DEF OwnBucket
    <3>2. r # s
      BY <1>1, <2>2, <3>1 DEF Clear, Table
    <3>3. table'[r] = table[r]
      BY <1>1, <2>2, <3>2 DEF Clear, Table
    <3>. QED
      BY <3>1, <3>3 DEF Inv, OwnBucket
  <2>5. NeverFatal' /\ HandInOwnBucket'
    BY <1>3 DEF Inv, NeverFatal, HandInOwnBucket
  <2>. QED
    BY <1>3, <2>1, <2>2, <2>3, <2>4, <2>5, Zenon DEF Inv
<1>5. CASE /\ o = [table |-> table, ok |-> FALSE]
           /\ InRange(x) => /\ ~ isInBucket(table, x.bucket1, x)
                            /\ ~ isInBucket(table, x.bucket2, x)
  <2>1. table' = table /\ ret' = Reply("remove", x, FALSE, NoItem)
    BY <1>2, <1>5
  <2>2. Inv'
    <3>1. TypeOK'
      BY <1>3, <2>1, ReplyType, Zenon DEF Inv, TypeOK
    <3>. QED
      BY <1>3, <2>1, <3>1 DEF Inv, OwnBucket, NeverFatal, HandInOwnBucket
  <2>3. \A s \in Slot : ~ Holds(table, s, x)
    <3>1. SUFFICES ASSUME NEW s \in Slot, Holds(table, s, x) PROVE FALSE
      OBVIOUS
    <3>2. PICK b \in Bucket, i \in Depth : s = <<b, i>>
      BY DEF Slot
    <3>3. table[s].item \in Item
      BY <1>1 DEF Table, Cell
    <3>4. b \in {x.bucket1, x.bucket2} /\ InRange(x)
      BY <3>1, <3>2, <3>3, ItemBuckets DEF Inv, OwnBucket, Holds, Equals, InRange
    <3>5. isInBucket(table, b, x)
      BY <3>1, <3>2 DEF isInBucket
    <3>. QED
      BY <1>5, <3>4, <3>5
  <2>. QED
    BY <1>3, <2>1, <2>2, <2>3, Zenon
<1>. QED
  BY <1>1, <1>4, <1>5, RemoveCases, Zenon

(* The invariant is kept by every step: one step per action. *)
LEMMA NextInv == Inv /\ [Next]_vars => Inv'
<1>. SUFFICES ASSUME Inv, [Next]_vars PROVE Inv'
  OBVIOUS
<1>1. ASSUME NEW x \in Request, Insert(x) PROVE Inv'
  <2>1. CASE Insertable(x)
    BY <1>1, <2>1, InsertStep, RequestAssumption, Zenon
  <2>2. CASE ~ Insertable(x)
    BY <1>1, <2>2, RefusedStep, Zenon
  <2>. QED
    BY <2>1, <2>2
<1>2. ASSUME NEW x \in Request, Remove(x) PROVE Inv'
  BY <1>2, RemoveStep, Zenon
<1>3. CASE Evict
  BY <1>3, EvictKeeps
<1>4. CASE GiveUp
  BY <1>4, GiveUpKeeps
<1>5. CASE UNCHANGED vars
  BY <1>5 DEF vars, Inv, TypeOK, OwnBucket, NeverFatal, HandInOwnBucket
<1>. QED
  BY <1>1, <1>2, <1>3, <1>4, <1>5 DEF Next

(* The inductive invariant holds in every reachable state. *)
LEMMA Invariance == Spec => []Inv
BY InitInv, NextInv, PTL DEF Spec

(* Type correctness for every size of table and every set of requests. *)
THEOREM TypeCorrect == Spec => []TypeOK
BY Invariance, PTL DEF Inv

(* Every stored item is always in one of its own two buckets. *)
THEOREM Placement == Spec => []OwnBucket
BY Invariance, PTL DEF Inv

(* Neither log.Fatalf of the cuckoo table can be reached. *)
THEOREM TableNeverFatal == Spec => []NeverFatal
BY Invariance, PTL DEF Inv

-----------------------------------------------------------------------------
(* How many cells hold item z. *)
Count(t, z) == Cardinality(Cells(t, z))

(* The cells that hold an item are the slots tallied for it. *)
LEMMA CountIsTally ==
  ASSUME NEW t, NEW z
  PROVE  Count(t, z) = Tally(t, {z}) /\ Count(t, z) \in Nat
<1>1. Cells(t, z) = Held(t, {z})
  BY DEF Cells, Held
<1>. QED
  BY <1>1, HeldFinite DEF Count, Tally

(* Storing an item in an empty slot adds one copy of it and changes the count
   of no other item (table.go:213-227). *)
LEMMA CountFillEmpty ==
  ASSUME NEW t \in Table, NEW s \in Slot, NEW x \in Item, NEW z \in Item,
         ~ t[s].filled
  PROVE  Count(Filling(t, s, x), z) = IF z = x THEN Count(t, z) + 1
                                                ELSE Count(t, z)
<1>1. Tally(Filling(t, s, x), {z}) + 0 = Tally(t, {z}) + Weight(x, {z})
  BY TallyFilling
<1>. QED
  BY <1>1, CountIsTally DEF Weight

(* Storing an item over another adds a copy of the one and takes a copy of the
   other (table.go:237-255). *)
LEMMA CountFillFull ==
  ASSUME NEW t \in Table, NEW s \in Slot, NEW x \in Item, NEW z \in Item,
         t[s].filled
  PROVE  Count(Filling(t, s, x), z) + (IF z = t[s].item THEN 1 ELSE 0) =
           Count(t, z) + (IF z = x THEN 1 ELSE 0)
<1>1. Tally(Filling(t, s, x), {z}) + Weight(t[s].item, {z}) = Tally(t, {z}) + Weight(x, {z})
  BY TallyFilling
<1>. QED
  BY <1>1, CountIsTally DEF Weight

(* Clearing a filled slot takes away one copy of its item (table.go:262-270). *)
LEMMA CountClear ==
  ASSUME NEW t \in Table, NEW s \in Slot, NEW z \in Item, t[s].filled
  PROVE  Count(Clear(t, s), z) = IF z = t[s].item THEN Count(t, z) - 1
                                                  ELSE Count(t, z)
<1>1. Tally(Clear(t, s), {z}) + Weight(t[s].item, {z}) = Tally(t, {z})
  BY TallyClear
<1>. QED
  BY <1>1, CountIsTally DEF Weight

(* An item is stored exactly when some filled cell holds it. *)
LEMMA CountPositive ==
  ASSUME NEW t \in Table, NEW z \in Item
  PROVE  Count(t, z) > 0 <=> \E s \in Slot : t[s].filled /\ t[s].item = z
<1>1. Tally(t, {z}) > 0 <=> \E s \in Slot : t[s].filled /\ t[s].item \in {z}
  BY HeldFinite
<1>2. Count(t, z) = Tally(t, {z})
  BY CountIsTally
<1>. QED
  BY <1>1, <1>2

-----------------------------------------------------------------------------
(* The copies the refinement mapping counts: in the table and in hand. *)
LEMMA CopiesAre ==
  /\ Copies = [z \in Item |-> Count(table, z) + InHand(z)]
  /\ Copies' = [z \in Item |-> Count(table', z) + InHand(z)']
BY DEF Copies, Count

(* The initial table maps to the empty store. *)
LEMMA InitRefines == Init => Store!Init
<1>. SUFFICES ASSUME Init PROVE Store!Init
  OBVIOUS
<1>1. \A z \in Item : Cells(table, z) = {}
  BY DEF Init, NewTable, Cells
<1>2. \A z \in Item : Cardinality(Cells(table, z)) = 0
  BY <1>1, FS_EmptySet
<1>3. call.status = "idle"
  BY DEF Init, Idle
<1>4. \A z \in Item : InHand(z) = 0
  BY <1>3 DEF InHand
<1>5. Copies = [z \in Item |-> 0]
  BY <1>2, <1>4 DEF Copies
<1>. QED
  BY <1>3, <1>5 DEF Init, Store!Init, Reply, Store!Reply

(* A first attempt that stores, or goes on with, the item is Add. *)
LEMMA InsertRefines ==
  ASSUME Inv, NEW x \in Item, x \in Request, Insert(x)
  PROVE  Store!Add(x)
<1>1. table \in Table /\ call.status = "idle"
  BY DEF Inv, TypeOK, Insert
<1>2. \/ Stores(x, Reply("insert", x, TRUE, NoItem))
      \/ Picks(x, Reply("insert", x, FALSE, NoItem))
  BY InsertStep, Zenon
<1>3. \A z \in Item : Count(table, z) \in Nat
  BY CountIsTally, Zenon
<1>4. CASE Stores(x, Reply("insert", x, TRUE, NoItem))
  <2>1. PICK s \in Slot : /\ ~ table[s].filled
                          /\ table' = Filling(table, s, x)
                          /\ call' = Idle
                          /\ ret' = Reply("insert", x, TRUE, NoItem)
    BY <1>4 DEF Stores
  <2>2. call'.status = "idle"
    BY <2>1 DEF Idle
  <2>3. \A z \in Item : InHand(z) = 0 /\ InHand(z)' = 0
    BY <1>1, <2>2 DEF InHand
  <2>4. \A z \in Item : Count(table', z) = IF z = x THEN Count(table, z) + 1
                                                    ELSE Count(table, z)
    BY <1>1, <2>1, CountFillEmpty
  <2>5. Copies' = [Copies EXCEPT ![x] = @ + 1]
    BY <1>3, <2>3, <2>4, CopiesAre
  <2>. QED
    BY <1>1, <2>1, <2>2, <2>5 DEF Store!Add, Store!Plus, Reply, Store!Reply
<1>5. CASE Picks(x, Reply("insert", x, FALSE, NoItem))
  <2>1. /\ table' = table
        /\ call'.status = "evicting"
        /\ call'.item = x
        /\ ret' = Reply("insert", x, FALSE, NoItem)
    BY <1>5 DEF Picks
  <2>2. \A z \in Item : InHand(z) = 0 /\ InHand(z)' = IF z = x THEN 1 ELSE 0
    BY <1>1, <2>1 DEF InHand
  <2>3. Copies' = [Copies EXCEPT ![x] = @ + 1]
    BY <1>3, <2>1, <2>2, CopiesAre
  <2>. QED
    BY <1>1, <2>1, <2>3 DEF Store!Add, Store!Plus, Reply, Store!Reply
<1>. QED
  BY <1>2, <1>4, <1>5, Zenon

(* A turn of the eviction loop finishes the call or is invisible. *)
LEMMA EvictRefines ==
  ASSUME Inv, Evict
  PROVE  Store!Finish \/ UNCHANGED Store!storeVars
<1>. DEFINE x == call.item
<1>1. table \in Table /\ call.status = "evicting" /\ x \in Item
  BY DEF Inv, TypeOK, Evict
<1>2. Stores(x, [ret EXCEPT !.ok = TRUE]) \/ Swaps(x)
  BY EvictKeeps
<1>3. \A z \in Item : Count(table, z) \in Nat
  BY CountIsTally, Zenon
<1>4. \A z \in Item : InHand(z) = IF z = x THEN 1 ELSE 0
  BY <1>1 DEF InHand
<1>5. CASE Stores(x, [ret EXCEPT !.ok = TRUE])
  <2>1. PICK s \in Slot : /\ ~ table[s].filled
                          /\ table' = Filling(table, s, x)
                          /\ call' = Idle
                          /\ ret' = [ret EXCEPT !.ok = TRUE]
    BY <1>5 DEF Stores
  <2>2. call'.status = "idle"
    BY <2>1 DEF Idle
  <2>3. \A z \in Item : InHand(z)' = 0
    BY <2>2 DEF InHand
  <2>4. \A z \in Item : Count(table', z) = IF z = x THEN Count(table, z) + 1
                                                    ELSE Count(table, z)
    BY <1>1, <2>1, CountFillEmpty
  <2>5. \A z \in Item : Count(table', z) + InHand(z)' = Count(table, z) + InHand(z)
    BY <1>3, <1>4, <2>3, <2>4
  <2>6. Copies' = Copies
    BY <2>5, CopiesAre
  <2>. QED
    BY <1>1, <2>1, <2>2, <2>6 DEF Store!Finish
<1>6. CASE Swaps(x)
  <2>1. PICK s \in Slot : /\ table[s].filled
                          /\ table' = Filling(table, s, x)
                          /\ call'.status = "evicting"
                          /\ call'.item = table[s].item
                          /\ ret' = ret
    BY <1>6 DEF Swaps
  <2>2. \A z \in Item : InHand(z)' = IF z = table[s].item THEN 1 ELSE 0
    BY <2>1 DEF InHand
  <2>3. \A z \in Item :
          Count(table', z) + (IF z = table[s].item THEN 1 ELSE 0) =
            Count(table, z) + (IF z = x THEN 1 ELSE 0)
    BY <1>1, <2>1, CountFillFull
  <2>4. \A z \in Item : Count(table', z) + InHand(z)' = Count(table, z) + InHand(z)
    BY <1>4, <2>2, <2>3
  <2>5. Copies' = Copies
    BY <2>4, CopiesAre
  <2>. QED
    BY <1>1, <2>1, <2>5 DEF Store!storeVars
<1>. QED
  BY <1>2, <1>5, <1>6

(* Giving up hands the item in hand back. *)
LEMMA GiveUpRefines ==
  ASSUME Inv, GiveUp
  PROVE  Store!HandBack(call.item) /\ call.item \in Item
<1>. DEFINE x == call.item
<1>1. table \in Table /\ call.status = "evicting" /\ x \in Item
  BY DEF Inv, TypeOK, GiveUp
<1>2. table' = table /\ call'.status = "idle" /\ ret' = [ret EXCEPT !.item = x]
  BY DEF GiveUp, Idle
<1>3. \A z \in Item : Count(table, z) \in Nat
  BY CountIsTally, Zenon
<1>4. \A z \in Item : /\ InHand(z) = IF z = x THEN 1 ELSE 0
                      /\ InHand(z)' = 0
  BY <1>1, <1>2 DEF InHand
<1>5. Copies[x] > 0
  BY <1>1, <1>3, <1>4, CopiesAre
<1>6. Copies' = [Copies EXCEPT ![x] = @ - 1]
  BY <1>2, <1>3, <1>4, CopiesAre
<1>. QED
  BY <1>1, <1>2, <1>5, <1>6 DEF Store!HandBack, Store!Minus

(* Remove takes one equal item, or misses because there is none. *)
LEMMA RemoveRefines ==
  ASSUME Inv, NEW x \in Request, Remove(x)
  PROVE  Store!Take(x) \/ Store!Miss(x)
<1>1. table \in Table /\ call.status = "idle" /\ call' = call
  BY DEF Inv, TypeOK, Remove
<1>2. \A z \in Item : Count(table, z) \in Nat
  BY CountIsTally, Zenon
<1>3. \A z \in Item : InHand(z) = 0 /\ InHand(z)' = 0
  BY <1>1 DEF InHand
<1>4. CASE \E s \in Slot : /\ Holds(table, s, x)
                           /\ table' = Clear(table, s)
                           /\ ret' = Reply("remove", x, TRUE, NoItem)
  <2>1. PICK s \in Slot : /\ Holds(table, s, x)
                          /\ table' = Clear(table, s)
                          /\ ret' = Reply("remove", x, TRUE, NoItem)
    BY <1>4
  <2>. DEFINE y == table[s].item
  <2>2. y \in Item /\ table[s].filled /\ Equals(x, y)
    BY <1>1, <2>1 DEF Table, Cell, Holds
  <2>3. \A z \in Item : Count(table', z) = IF z = y THEN Count(table, z) - 1
                                                    ELSE Count(table, z)
    BY <1>1, <2>1, <2>2, CountClear
  <2>4. Count(table, y) > 0
    BY <1>1, <2>2, CountPositive
  <2>. HIDE DEF y
  <2>5. Copies[y] > 0
    BY <1>2, <1>3, <2>2, <2>4, CopiesAre
  <2>6. Copies' = [Copies EXCEPT ![y] = @ - 1]
    BY <1>2, <1>3, <2>2, <2>3, CopiesAre
  <2>7. y \in Store!Present(x)
    BY <2>2, <2>5 DEF Store!Present
  <2>. QED
    BY <1>1, <2>1, <2>6, <2>7, Zenon
       DEF Store!Take, Store!Minus, Reply, Store!Reply
<1>5. CASE /\ \A s \in Slot : ~ Holds(table, s, x)
           /\ table' = table
           /\ ret' = Reply("remove", x, FALSE, NoItem)
  <2>1. \A z \in Item : Copies[z] > 0 => ~ Equals(x, z)
    <3>1. SUFFICES ASSUME NEW z \in Item, Copies[z] > 0 PROVE ~ Equals(x, z)
      OBVIOUS
    <3>2. Count(table, z) > 0
      BY <1>2, <1>3, <3>1, CopiesAre
    <3>3. PICK s \in Slot : table[s].filled /\ table[s].item = z
      BY <1>1, <3>2, CountPositive
    <3>. QED
      BY <1>5, <3>3 DEF Holds
  <2>2. Store!Present(x) = {}
    BY <2>1 DEF Store!Present
  <2>3. Copies' = Copies
    BY <1>3, <1>5, CopiesAre
  <2>. QED
    BY <1>1, <1>5, <2>2, <2>3 DEF Store!Miss, Reply, Store!Reply
<1>. QED
  BY <1>4, <1>5, RemoveStep, Zenon

(* Every step of the table is a step of the store or leaves it unchanged. *)
LEMMA NextRefines == Inv /\ [Next]_vars => [Store!Next]_Store!storeVars
<1>. SUFFICES ASSUME Inv, [Next]_vars
              PROVE  Store!Next \/ UNCHANGED Store!storeVars
  OBVIOUS
<1>1. ASSUME NEW x \in Request, Insert(x) PROVE Store!Next
  <2>1. CASE Insertable(x)
    <3>1. x \in Item
      BY <2>1, RequestAssumption
    <3>. QED
      BY <1>1, <3>1, InsertRefines DEF Store!Next
  <2>2. CASE ~ Insertable(x)
    <3>1. x \notin Item
      BY <2>2 DEF Insertable, InRange, Item
    <3>2. /\ table' = table
          /\ call.status = "idle" /\ call'.status = "idle"
          /\ ret' = Reply("insert", x, FALSE, NoItem)
      BY <1>1, <2>2, RefusedStep, Zenon
    <3>3. \A z \in Item : InHand(z) = 0 /\ InHand(z)' = 0
      BY <3>2 DEF InHand
    <3>4. Copies' = Copies
      BY <3>2, <3>3, CopiesAre
    <3>5. Store!Refuse(x)
      BY <3>1, <3>2, <3>4 DEF Store!Refuse, Reply, Store!Reply
    <3>. QED
      BY <3>5 DEF Store!Next
  <2>. QED
    BY <2>1, <2>2
<1>2. ASSUME NEW x \in Request, Remove(x) PROVE Store!Next
  BY <1>2, RemoveRefines DEF Store!Next
<1>3. CASE Evict
  BY <1>3, EvictRefines DEF Store!Next
<1>4. CASE GiveUp
  BY <1>4, GiveUpRefines DEF Store!Next
<1>5. CASE UNCHANGED vars
  <2>1. Copies' = Copies
    BY <1>5 DEF vars, Copies, InHand
  <2>. QED
    BY <1>5, <2>1 DEF vars, Store!storeVars
<1>. QED
  BY <1>1, <1>2, <1>3, <1>4, <1>5 DEF Next

(* The cuckoo table implements the bag of items: for every table size and
   every run of the PRNG no displacement loses, duplicates or alters an item,
   and the replies of Insert and Remove are those of the bag. *)
THEOREM TableImplementsStore == Spec => StoreSpec
<1>1. Spec => Store!Init /\ [][Store!Next]_Store!storeVars
  BY InitRefines, NextRefines, Invariance, PTL DEF Spec
<1>. QED
  BY <1>1 DEF StoreSpec, Store!Spec
=============================================================================
