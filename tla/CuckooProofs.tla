---------------------------- MODULE CuckooProofs ----------------------------
(***************************************************************************)
(* What the operators of Cuckoo do to a table, for every number of         *)
(* buckets, bucket depth and eviction bound: the facts the proofs about    *)
(* the table, the shard and the coordinator rest on.                       *)
(***************************************************************************)
EXTENDS Cuckoo, FiniteSetTheorems, TLAPS

-----------------------------------------------------------------------------
(* A nonempty set of depths has a least element: the first slot that a loop
   over a bucket meets (table.go:215, 263). *)
LEMMA LeastDepth ==
  ASSUME NEW S \in SUBSET Depth, S # {}
  PROVE  \E i \in S : \A j \in Depth : j < i => j \notin S
<1>1. S \in SUBSET Nat
  BY DEF Depth
<1>2. PICK i \in S : \A j \in S : <<j, i>> \notin OpToRel(<, Nat)
  BY <1>1, NatLessThanWellFounded, WFMin, Zenon
<1>3. \A j \in S : ~ (j < i)
  BY <1>1, <1>2, Zenon DEF OpToRel
<1>. QED
  BY <1>3

(* Counting up from 0 reaches every number: induction for a loop that runs
   n times, as evictOldItems and the eviction loop do (shard.go:219-229,
   table.go:142). *)
LEMMA CountingUp ==
  ASSUME NEW n \in Nat, NEW S, 0 \in S,
         \A k \in 0 .. n - 1 : k \in S => k + 1 \in S
  PROVE  \A k \in 0 .. n : k \in S
<1>. DEFINE R == {k \in 0 .. n : k \notin S}
<1>. SUFFICES ASSUME R # {} PROVE FALSE
  OBVIOUS
<1>1. R \in SUBSET Nat
  OBVIOUS
<1>2. PICK i \in R : \A j \in R : <<j, i>> \notin OpToRel(<, Nat)
  BY <1>1, NatLessThanWellFounded, WFMin, Zenon
<1>3. \A j \in R : ~ (j < i)
  BY <1>1, <1>2, Zenon DEF OpToRel
<1>4. i \in 0 .. n /\ i # 0 /\ i \notin S
  OBVIOUS
<1>5. i - 1 \in 0 .. n - 1 /\ i - 1 < i /\ (i - 1) + 1 = i
  BY <1>4
<1>6. i - 1 \notin R
  BY <1>3, <1>5
<1>7. i - 1 \in S
  BY <1>5, <1>6
<1>. QED
  BY <1>4, <1>5, <1>7

(* A new table is empty (table.go:41-58). *)
LEMMA NewTableEmpty == NewTable \in Table /\ \A s \in Slot : ~ NewTable[s].filled
<1>1. ZeroItem \in Item
  BY TableParams DEF ZeroItem, Item, Bucket
<1>. QED
  BY <1>1 DEF NewTable, Table, Cell

(* The slot tryInsertToBucket selects exists and is empty. *)
LEMMA FirstEmptyIsEmpty ==
  ASSUME NEW t, NEW b, HasRoom(t, b)
  PROVE  /\ FirstEmpty(t, b) \in Depth
         /\ ~ t[<<b, FirstEmpty(t, b)>>].filled
<1>. DEFINE S == {i \in Depth : ~ t[<<b, i>>].filled}
<1>1. S \in SUBSET Depth /\ S # {}
  BY DEF HasRoom
<1>2. PICK i \in S : \A j \in Depth : j < i => j \notin S
  BY <1>1, LeastDepth, Zenon
<1>3. /\ i \in Depth
      /\ ~ t[<<b, i>>].filled
      /\ \A j \in Depth : j < i => t[<<b, j>>].filled
  BY <1>2
<1>. QED
  BY <1>3 DEF FirstEmpty

(* The slot removeFromBucket clears exists and holds an equal item
   (table.go:262-270). *)
LEMMA FirstHoldingHolds ==
  ASSUME NEW t, NEW b, NEW x, isInBucket(t, b, x)
  PROVE  /\ FirstHolding(t, b, x) \in Depth
         /\ Holds(t, <<b, FirstHolding(t, b, x)>>, x)
<1>. DEFINE S == {i \in Depth : Holds(t, <<b, i>>, x)}
<1>1. S \in SUBSET Depth /\ S # {}
  BY DEF isInBucket
<1>2. PICK i \in S : \A j \in Depth : j < i => j \notin S
  BY <1>1, LeastDepth, Zenon
<1>3. /\ i \in Depth
      /\ Holds(t, <<b, i>>, x)
      /\ \A j \in Depth : j < i => ~ Holds(t, <<b, j>>, x)
  BY <1>2
<1>. QED
  BY <1>3 DEF FirstHolding

-----------------------------------------------------------------------------
(* The table with item x written to slot s. *)
Filling(t, s, x) == [t EXCEPT ![s] = [filled |-> TRUE, item |-> x]]

(* tryInsertToBucket writes exactly one slot, an empty one of bucket b. *)
LEMMA PutFills ==
  ASSUME NEW t \in Table, NEW b \in Bucket, NEW x \in Item, HasRoom(t, b)
  PROVE  \E i \in Depth : /\ ~ t[<<b, i>>].filled
                          /\ Put(t, b, x) = Filling(t, <<b, i>>, x)
BY FirstEmptyIsEmpty DEF Put, Filling

(* Writing an item to a slot leaves a table (table.go:213-227). *)
LEMMA FillingType ==
  ASSUME NEW t \in Table, NEW s \in Slot, NEW x \in Item
  PROVE  /\ Filling(t, s, x) \in Table
         /\ Filling(t, s, x)[s] = [filled |-> TRUE, item |-> x]
         /\ \A r \in Slot : r # s => Filling(t, s, x)[r] = t[r]
BY DEF Filling, Table, Cell

(* Clearing the filled flag of a slot leaves a table (table.go:262-270). *)
LEMMA ClearType ==
  ASSUME NEW t \in Table, NEW s \in Slot
  PROVE  /\ Clear(t, s) \in Table
         /\ Clear(t, s)[s] = [filled |-> FALSE, item |-> t[s].item]
         /\ \A r \in Slot : r # s => Clear(t, s)[r] = t[r]
BY DEF Clear, Table, Cell

(* A bucket and a depth make a slot: the flat index of table.go:214. *)
LEMMA SlotPairs ==
  ASSUME NEW b \in Bucket, NEW i \in Depth
  PROVE  <<b, i>> \in Slot
BY DEF Slot

(* insertAndEvict on a full bucket exchanges the item in hand with the one
   in slot i; its second tryInsertToBucket finds room (table.go:246-254). *)
LEMMA DisplaceExchanges ==
  ASSUME NEW t \in Table, NEW b \in Bucket, NEW x \in Item, NEW i \in Depth,
         ~ HasRoom(t, b)
  PROVE  /\ t[<<b, i>>].filled
         /\ Displace(t, x, b, i) =
              Outcome(Filling(t, <<b, i>>, x), "evicting", t[<<b, i>>].item,
                      Alternate(t[<<b, i>>].item, b))
<1>. DEFINE s == <<b, i>>
            c == Clear(t, s)
<1>1. t[s].filled
  BY DEF HasRoom
<1>2. s \in Slot
  BY SlotPairs
<1>3. /\ c \in Table
      /\ c[s] = [filled |-> FALSE, item |-> t[s].item]
      /\ \A r \in Slot : r # s => c[r] = t[r]
  BY <1>2, ClearType
<1>4. HasRoom(c, b)
  BY <1>3 DEF HasRoom
<1>5. PICK j \in Depth : /\ ~ c[<<b, j>>].filled
                         /\ Put(c, b, x) = Filling(c, <<b, j>>, x)
  BY <1>3, <1>4, PutFills
<1>6. j = i
  <2>1. SUFFICES ASSUME j # i PROVE FALSE
    OBVIOUS
  <2>2. <<b, j>> # s /\ <<b, j>> \in Slot
    BY <2>1, SlotPairs
  <2>3. c[<<b, j>>] = t[<<b, j>>]
    BY <2>2, <1>3
  <2>. QED
    BY <2>3, <1>5 DEF HasRoom
<1>7. Filling(c, s, x) = Filling(t, s, x)
  BY <1>2 DEF Filling, Clear, Table
<1>. QED
  BY <1>1, <1>4, <1>5, <1>6, <1>7 DEF Displace

(* What one turn of the eviction loop does when the item in hand is tried in
   one of its own buckets: it is stored, or exchanged for another one. *)
LEMMA EvictStepCases ==
  ASSUME NEW t \in Table, NEW x \in Item, NEW b \in {x.bucket1, x.bucket2},
         NEW o \in EvictStep(t, x, b)
  PROVE  \E s \in Slot :
           /\ s[1] = b
           /\ \/ /\ ~ t[s].filled
                 /\ o = Returned(Filling(t, s, x), "done")
              \/ /\ t[s].filled
                 /\ o = Outcome(Filling(t, s, x), "evicting", t[s].item,
                                Alternate(t[s].item, b))
<1>1. b \in Bucket
  BY DEF Item
<1>2. CASE HasRoom(t, b)
  <2>1. o = Returned(Put(t, b, x), "done")
    BY <1>2 DEF EvictStep
  <2>2. PICK i \in Depth : /\ ~ t[<<b, i>>].filled
                           /\ Put(t, b, x) = Filling(t, <<b, i>>, x)
    BY <1>1, <1>2, PutFills
  <2>3. <<b, i>> \in Slot /\ <<b, i>>[1] = b
    BY <1>1, SlotPairs
  <2>. QED
    BY <2>1, <2>2, <2>3
<1>3. CASE ~ HasRoom(t, b)
  <2>1. PICK i \in Depth : o = Displace(t, x, b, i)
    BY <1>3 DEF EvictStep
  <2>2. <<b, i>> \in Slot /\ <<b, i>>[1] = b
    BY <1>1, SlotPairs
  <2>. QED
    BY <1>1, <1>3, <2>1, <2>2, DisplaceExchanges
<1>. QED
  BY <1>2, <1>3

(* What the first attempt of Insert does (table.go:115-138). *)
LEMMA InsertStartCases ==
  ASSUME NEW t \in Table, NEW x \in Item, NEW o \in InsertStart(t, x)
  PROVE  \/ \E s \in Slot : /\ s[1] \in {x.bucket1, x.bucket2}
                            /\ ~ t[s].filled
                            /\ o = Returned(Filling(t, s, x), "done")
         \/ \E b \in {x.bucket1, x.bucket2} : o = Outcome(t, "evicting", x, b)
<1>1. Insertable(x) /\ x.bucket1 \in Bucket /\ x.bucket2 \in Bucket
  BY DEF Insertable, InRange, Item
<1>2. PICK b \in {x.bucket1, x.bucket2}, c \in {x.bucket1, x.bucket2} :
        o = TryFirst(t, x, b, c)
  BY <1>1 DEF InsertStart
<1>3. CASE HasRoom(t, b)
  <2>1. o = Returned(Put(t, b, x), "done")
    BY <1>2, <1>3 DEF TryFirst
  <2>2. PICK i \in Depth : /\ ~ t[<<b, i>>].filled
                           /\ Put(t, b, x) = Filling(t, <<b, i>>, x)
    BY <1>1, <1>3, PutFills
  <2>3. <<b, i>> \in Slot /\ <<b, i>>[1] = b
    BY <1>1, SlotPairs
  <2>. QED
    BY <2>1, <2>2, <2>3
<1>4. CASE ~ HasRoom(t, b)
  BY <1>2, <1>4 DEF TryFirst
<1>. QED
  BY <1>3, <1>4

(* What Remove does: it clears one slot of the item's buckets that holds an
   equal item, or reports that neither bucket holds one (table.go:166-184). *)
LEMMA RemoveCases ==
  ASSUME NEW t \in Table, NEW x, NEW o \in RemoveOutcomes(t, x)
  PROVE  \/ \E s \in Slot : /\ Holds(t, s, x)
                            /\ o = [table |-> Clear(t, s), ok |-> TRUE]
         \/ /\ o = [table |-> t, ok |-> FALSE]
            /\ InRange(x) => /\ ~ isInBucket(t, x.bucket1, x)
                             /\ ~ isInBucket(t, x.bucket2, x)
<1>1. CASE ~ InRange(x)
  BY <1>1 DEF RemoveOutcomes
<1>2. CASE InRange(x)
  <2>1. PICK b \in {x.bucket1, x.bucket2}, c \in {x.bucket1, x.bucket2} :
          /\ o = RemoveFrom(t, x, b, c)
          /\ {b, c} = {x.bucket1, x.bucket2}
    BY <1>2 DEF RemoveOutcomes
  <2>2. b \in Bucket /\ c \in Bucket
    BY <1>2 DEF InRange
  <2>3. CASE isInBucket(t, b, x)
    <3>1. o = [table |-> Clear(t, <<b, FirstHolding(t, b, x)>>), ok |-> TRUE]
      BY <2>1, <2>3 DEF RemoveFrom
    <3>. QED
      BY <3>1, <2>2, <2>3, FirstHoldingHolds, SlotPairs, Zenon
  <2>4. CASE ~ isInBucket(t, b, x) /\ isInBucket(t, c, x)
    <3>1. o = [table |-> Clear(t, <<c, FirstHolding(t, c, x)>>), ok |-> TRUE]
      BY <2>1, <2>4 DEF RemoveFrom
    <3>. QED
      BY <3>1, <2>2, <2>4, FirstHoldingHolds, SlotPairs, Zenon
  <2>5. CASE ~ isInBucket(t, b, x) /\ ~ isInBucket(t, c, x)
    <3>1. o = [table |-> t, ok |-> FALSE]
      BY <2>1, <2>5 DEF RemoveFrom
    <3>2. ~ isInBucket(t, x.bucket1, x) /\ ~ isInBucket(t, x.bucket2, x)
      BY <2>1, <2>5
    <3>. QED
      BY <3>1, <3>2
  <2>. QED
    BY <2>3, <2>4, <2>5
<1>. QED
  BY <1>1, <1>2

(* The buckets of an item are buckets of the table (item.go:4-9). *)
LEMMA ItemBuckets ==
  ASSUME NEW x \in Item
  PROVE  x.bucket1 \in Bucket /\ x.bucket2 \in Bucket
BY DEF Item

(* Writing an item to a slot of one of its buckets keeps the placement. *)
LEMMA FillingKeepsPlacement ==
  ASSUME NEW t \in Table, NEW s \in Slot, NEW x \in Item,
         s[1] \in {x.bucket1, x.bucket2},
         \A r \in Slot : t[r].filled =>
           r[1] \in {t[r].item.bucket1, t[r].item.bucket2}
  PROVE  \A r \in Slot : Filling(t, s, x)[r].filled =>
           r[1] \in {Filling(t, s, x)[r].item.bucket1,
                     Filling(t, s, x)[r].item.bucket2}
<1>. TAKE r \in Slot
<1>1. CASE r = s
  <2>1. Filling(t, s, x)[r] = [filled |-> TRUE, item |-> x]
    BY <1>1, FillingType
  <2>. QED
    BY <1>1, <2>1
<1>2. CASE r # s
  <2>1. Filling(t, s, x)[r] = t[r]
    BY <1>2 DEF Filling, Table
  <2>. QED
    BY <2>1
<1>. QED
  BY <1>1, <1>2

-----------------------------------------------------------------------------
(* Every stored item is one of G, in one of its own buckets. *)
Stocked(t, G) ==
  /\ t \in Table
  /\ \A s \in Slot : t[s].filled =>
       /\ t[s].item \in G
       /\ s[1] \in {t[s].item.bucket1, t[s].item.bucket2}

(* An item equal to z is stored, or is the one in hand. *)
Kept(t, hand, z) ==
  \/ \E s \in Slot : Holds(t, s, z)
  \/ hand # NoItem /\ Equals(hand, z)

(* The branches of an Insert that does not end the process, with x in hand: x
   is stored in an empty slot, takes the place of another item, or waits. *)
ItemStored(t, x, o) ==
  \E s \in Slot : /\ s[1] \in {x.bucket1, x.bucket2}
                  /\ ~ t[s].filled
                  /\ o = Returned(Filling(t, s, x), "done")

ItemSwapped(t, x, o) ==
  \E s \in Slot : /\ s[1] \in {x.bucket1, x.bucket2}
                  /\ t[s].filled
                  /\ o = Outcome(Filling(t, s, x), "evicting", t[s].item,
                                 Alternate(t[s].item, s[1]))

ItemWaits(t, x, o) ==
  \E b \in {x.bucket1, x.bucket2} : o = Outcome(t, "evicting", x, b)

Proceeds(t, x, o) == ItemStored(t, x, o) \/ ItemSwapped(t, x, o) \/ ItemWaits(t, x, o)

(* The first attempt of Insert on an acceptable item proceeds. *)
LEMMA InsertStartProceeds ==
  ASSUME NEW t \in Table, NEW x \in Item, NEW o \in InsertStart(t, x)
  PROVE  Proceeds(t, x, o)
BY InsertStartCases DEF Proceeds, ItemStored, ItemWaits

(* So does every turn of the eviction loop, for one of the item's buckets. *)
LEMMA EvictStepProceeds ==
  ASSUME NEW t \in Table, NEW x \in Item, NEW b \in {x.bucket1, x.bucket2},
         NEW o \in EvictStep(t, x, b)
  PROVE  Proceeds(t, x, o)
<1>1. PICK s \in Slot :
        /\ s[1] = b
        /\ \/ /\ ~ t[s].filled
              /\ o = Returned(Filling(t, s, x), "done")
           \/ /\ t[s].filled
              /\ o = Outcome(Filling(t, s, x), "evicting", t[s].item,
                             Alternate(t[s].item, b))
  BY EvictStepCases
<1>. QED
  BY <1>1 DEF Proceeds, ItemStored, ItemSwapped

(* Where an Insert that proceeds leaves the call: returned, or with an item
   of G in hand for one of that item's own buckets. *)
Standing(o, G) ==
  \/ o.status = "done" /\ o.item = NoItem
  \/ /\ o.status = "evicting"
     /\ o.item \in G
     /\ o.next \in {o.item.bucket1, o.item.bucket2}

(* NoItem is no item. *)
LEMMA NoItemIsNone == NoItem \notin Item
<1>1. Item \subseteq [id : ID, data : Data, bucket1 : Nat, bucket2 : Nat]
  BY TableParams DEF Item, Bucket
<1>. QED
  BY <1>1, NoItemAssumption

(* An Insert that proceeds leaves every stored item in one of its buckets. *)
LEMMA ProceedsStocked ==
  ASSUME NEW G \in SUBSET Item, NEW t, Stocked(t, G), NEW x \in G, NEW o,
         Proceeds(t, x, o)
  PROVE  Stocked(o.table, G) /\ Standing(o, G)
<1>1. t \in Table /\ x \in Item
  BY DEF Stocked
<1>2. ASSUME NEW s \in Slot, s[1] \in {x.bucket1, x.bucket2}
      PROVE  Stocked(Filling(t, s, x), G)
  <2>1. /\ Filling(t, s, x) \in Table
        /\ Filling(t, s, x)[s] = [filled |-> TRUE, item |-> x]
        /\ \A r \in Slot : r # s => Filling(t, s, x)[r] = t[r]
    BY <1>1, FillingType
  <2>. QED
    BY <1>2, <2>1 DEF Stocked
<1>3. CASE ItemStored(t, x, o)
  BY SMTT(20), <1>2, <1>3 DEF ItemStored, Standing, Returned, Outcome
<1>4. CASE ItemSwapped(t, x, o)
  <2>1. PICK s \in Slot :
          /\ s[1] \in {x.bucket1, x.bucket2}
          /\ t[s].filled
          /\ o = Outcome(Filling(t, s, x), "evicting", t[s].item,
                         Alternate(t[s].item, s[1]))
    BY <1>4 DEF ItemSwapped
  <2>2. /\ o.table = Filling(t, s, x) /\ o.status = "evicting"
        /\ o.item = t[s].item /\ o.next = Alternate(t[s].item, s[1])
    BY <2>1 DEF Outcome
  <2>3. t[s].item \in G
    BY <2>1 DEF Stocked
  <2>. QED
    BY <1>2, <2>1, <2>2, <2>3 DEF Standing, Alternate
<1>5. CASE ItemWaits(t, x, o)
  BY <1>5 DEF ItemWaits, Standing, Outcome
<1>. QED
  BY <1>3, <1>4, <1>5 DEF Proceeds

(* It loses no item: what was stored or in hand is stored or in hand. *)
LEMMA ProceedsKeeps ==
  ASSUME NEW t \in Table, NEW x \in Item, NEW o, Proceeds(t, x, o), NEW z,
         Kept(t, x, z)
  PROVE  Kept(o.table, o.item, z)
<1>1. ASSUME NEW s \in Slot
      PROVE  /\ Filling(t, s, x)[s] = [filled |-> TRUE, item |-> x]
             /\ \A r \in Slot : r # s => Filling(t, s, x)[r] = t[r]
  BY <1>1, FillingType
<1>2. Equals(x, z) = Equals(z, x)
  BY DEF Equals
<1>3. ASSUME NEW s \in Slot, Equals(x, z)
      PROVE  Holds(Filling(t, s, x), s, z)
  BY <1>1, <1>3 DEF Holds, Equals
<1>4. ASSUME NEW s \in Slot, NEW r \in Slot, r # s, Holds(t, r, z)
      PROVE  Holds(Filling(t, s, x), r, z)
  BY <1>1, <1>4 DEF Holds
<1>5. CASE ItemStored(t, x, o)
  <2>1. PICK s \in Slot : ~ t[s].filled /\ o = Returned(Filling(t, s, x), "done")
    BY <1>5 DEF ItemStored
  <2>2. o.table = Filling(t, s, x)
    BY <2>1 DEF Returned, Outcome
  <2>3. ~ Holds(t, s, z)
    BY <2>1 DEF Holds
  <2>. QED
    BY <1>3, <1>4, <2>2, <2>3, Zenon DEF Kept
<1>6. CASE ItemSwapped(t, x, o)
  <2>1. PICK s \in Slot :
          /\ t[s].filled
          /\ o = Outcome(Filling(t, s, x), "evicting", t[s].item,
                         Alternate(t[s].item, s[1]))
    BY <1>6 DEF ItemSwapped
  <2>2. o.table = Filling(t, s, x) /\ o.item = t[s].item
    BY <2>1 DEF Outcome
  <2>3. Holds(t, s, z) => Equals(o.item, z)
    BY <2>2 DEF Holds, Equals
  <2>4. o.item # NoItem
    BY <2>2, NoItemIsNone DEF Table, Cell
  <2>. QED
    BY <1>3, <1>4, <2>2, <2>3, <2>4, Zenon DEF Kept
<1>7. CASE ItemWaits(t, x, o)
  BY <1>7 DEF ItemWaits, Outcome
<1>. QED
  BY <1>5, <1>6, <1>7 DEF Proceeds

(* Remove leaves every other item where it is (table.go:166-184). *)
LEMMA RemoveStocked ==
  ASSUME NEW G \in SUBSET Item, NEW t, Stocked(t, G), NEW x,
         NEW o \in RemoveOutcomes(t, x)
  PROVE  /\ Stocked(o.table, G)
         /\ \A z : \A s \in Slot :
              Holds(t, s, z) /\ ~ Equals(x, z) => Holds(o.table, s, z)
<1>1. t \in Table
  BY DEF Stocked
<1>2. CASE o.table = t
  BY <1>2
<1>3. ASSUME NEW s \in Slot, Holds(t, s, x), o.table = Clear(t, s)
      PROVE  /\ Stocked(o.table, G)
             /\ \A z : \A r \in Slot :
                  Holds(t, r, z) /\ ~ Equals(x, z) => Holds(o.table, r, z)
  <2>1. /\ o.table \in Table
        /\ o.table[s] = [filled |-> FALSE, item |-> t[s].item]
        /\ \A r \in Slot : r # s => o.table[r] = t[r]
    BY <1>1, <1>3, ClearType
  <2>2. Stocked(o.table, G)
    BY <2>1 DEF Stocked
  <2>3. ASSUME NEW z, NEW r \in Slot, Holds(t, r, z), ~ Equals(x, z)
        PROVE  Holds(o.table, r, z)
    <3>1. r # s
      BY <1>3, <2>3 DEF Holds, Equals
    <3>. QED
      BY <2>1, <2>3, <3>1 DEF Holds
  <2>. QED
    BY <2>2, <2>3
<1>4. \/ \E s \in Slot : Holds(t, s, x) /\ o = [table |-> Clear(t, s), ok |-> TRUE]
      \/ o = [table |-> t, ok |-> FALSE]
  BY <1>1, RemoveCases, Zenon
<1>5. o.table = t \/ \E s \in Slot : Holds(t, s, x) /\ o.table = Clear(t, s)
  BY <1>4
<1>. QED
  BY <1>2, <1>3, <1>5, Zenon

-----------------------------------------------------------------------------
(* Counting. *)

(* The slots that hold an item of K, their number, and what one item adds. *)
Held(t, K) == {s \in Slot : t[s].filled /\ t[s].item \in K}

Tally(t, K) == Cardinality(Held(t, K))

Weight(x, K) == IF x \in K THEN 1 ELSE 0

(* There are finitely many slots, so they can be counted. *)
LEMMA HeldFinite ==
  ASSUME NEW t, NEW K
  PROVE  /\ IsFiniteSet(Held(t, K))
         /\ Tally(t, K) \in Nat
         /\ Tally(t, K) > 0 <=> \E s \in Slot : t[s].filled /\ t[s].item \in K
<1>1. IsFiniteSet(Bucket) /\ IsFiniteSet(Depth)
  BY TableParams, FS_Interval DEF Bucket, Depth
<1>2. IsFiniteSet(Slot)
  BY <1>1, FS_Product DEF Slot
<1>3. Held(t, K) \in SUBSET Slot
  BY DEF Held
<1>4. IsFiniteSet(Held(t, K))
  BY <1>2, <1>3, FS_Subset
<1>5. Tally(t, K) \in Nat
  BY <1>4, FS_CardinalityType DEF Tally
<1>6. Tally(t, K) = 0 <=> Held(t, K) = {}
  BY <1>4, FS_EmptySet DEF Tally
<1>7. Tally(t, K) > 0 <=> \E s \in Slot : t[s].filled /\ t[s].item \in K
  BY <1>5, <1>6 DEF Held
<1>. QED
  BY <1>4, <1>5, <1>7

(* Writing x to slot s adds s to the slots of x and takes it away from those
   of the item it held, if any. *)
LEMMA HeldFilling ==
  ASSUME NEW t \in Table, NEW s \in Slot, NEW x \in Item, NEW K
  PROVE  Held(Filling(t, s, x), K) =
           IF x \in K THEN Held(t, K) \cup {s} ELSE Held(t, K) \ {s}
<1>. DEFINE f == Filling(t, s, x)
<1>1. f[s].filled /\ f[s].item = x
  BY DEF Filling, Table
<1>2. \A r \in Slot : r # s => f[r] = t[r]
  BY DEF Filling, Table
<1>. HIDE DEF f
<1>3. \A r \in Slot : r \in Held(f, K) <=> IF r = s THEN x \in K ELSE r \in Held(t, K)
  BY <1>1, <1>2 DEF Held
<1>4. Held(f, K) \subseteq Slot /\ Held(t, K) \subseteq Slot
  BY DEF Held
<1>5. CASE x \in K
  BY <1>3, <1>4, <1>5 DEF f
<1>6. CASE x \notin K
  BY <1>3, <1>4, <1>6 DEF f
<1>. QED
  BY <1>5, <1>6

(* Storing x over slot s adds one item and takes away the one it held, if any
   (table.go:213-227, 237-255). *)
LEMMA TallyFilling ==
  ASSUME NEW t \in Table, NEW s \in Slot, NEW x \in Item, NEW K
  PROVE  Tally(Filling(t, s, x), K) + (IF t[s].filled THEN Weight(t[s].item, K) ELSE 0) =
           Tally(t, K) + Weight(x, K)
<1>1. s \in Held(t, K) <=> t[s].filled /\ t[s].item \in K
  BY DEF Held
<1>2. (IF t[s].filled THEN Weight(t[s].item, K) ELSE 0) = IF s \in Held(t, K) THEN 1 ELSE 0
  BY <1>1 DEF Weight
<1>3. IsFiniteSet(Held(t, K)) /\ Tally(t, K) \in Nat
  BY HeldFinite
<1>4. CASE x \in K
  <2>1. Held(Filling(t, s, x), K) = Held(t, K) \cup {s}
    BY <1>4, HeldFilling
  <2>2. Cardinality(Held(t, K) \cup {s}) =
          IF s \in Held(t, K) THEN Cardinality(Held(t, K)) ELSE Cardinality(Held(t, K)) + 1
    BY <1>3, FS_AddElement, Zenon
  <2>3. Tally(Filling(t, s, x), K) = IF s \in Held(t, K) THEN Tally(t, K) ELSE Tally(t, K) + 1
    BY <2>1, <2>2 DEF Tally
  <2>. QED
    BY <1>2, <1>3, <1>4, <2>3 DEF Weight
<1>5. CASE x \notin K
  <2>1. Held(Filling(t, s, x), K) = Held(t, K) \ {s}
    BY <1>5, HeldFilling
  <2>2. Cardinality(Held(t, K) \ {s}) =
          IF s \in Held(t, K) THEN Cardinality(Held(t, K)) - 1 ELSE Cardinality(Held(t, K))
    BY <1>3, FS_RemoveElement, Zenon
  <2>3. Tally(Filling(t, s, x), K) = IF s \in Held(t, K) THEN Tally(t, K) - 1 ELSE Tally(t, K)
    BY <2>1, <2>2 DEF Tally
  <2>. QED
    BY <1>2, <1>3, <1>5, <2>3 DEF Weight
<1>. QED
  BY <1>4, <1>5

(* Clearing a filled slot takes away its item (table.go:262-270). *)
LEMMA TallyClear ==
  ASSUME NEW t \in Table, NEW s \in Slot, NEW K, t[s].filled
  PROVE  Tally(Clear(t, s), K) + Weight(t[s].item, K) = Tally(t, K)
<1>1. s \in Held(t, K) <=> t[s].item \in K
  BY DEF Held
<1>2. IsFiniteSet(Held(t, K)) /\ Tally(t, K) \in Nat
  BY HeldFinite
<1>3. Held(Clear(t, s), K) = Held(t, K) \ {s}
  <2>1. /\ ~ Clear(t, s)[s].filled
        /\ \A r \in Slot : r # s => Clear(t, s)[r] = t[r]
    BY DEF Clear, Table
  <2>2. \A r \in Slot : r \in Held(Clear(t, s), K) <=> r # s /\ r \in Held(t, K)
    BY <2>1 DEF Held
  <2>3. Held(Clear(t, s), K) \subseteq Slot /\ Held(t, K) \subseteq Slot
    BY DEF Held
  <2>. QED
    BY <2>2, <2>3
<1>4. Cardinality(Held(t, K) \ {s}) =
        IF s \in Held(t, K) THEN Cardinality(Held(t, K)) - 1 ELSE Cardinality(Held(t, K))
  BY <1>2, FS_RemoveElement, Zenon
<1>5. Tally(Clear(t, s), K) = IF s \in Held(t, K) THEN Tally(t, K) - 1 ELSE Tally(t, K)
  BY <1>3, <1>4 DEF Tally
<1>. QED
  BY <1>1, <1>2, <1>5 DEF Weight

(* The item an Insert still has in hand counts too. *)
HandWeight(o, K) == IF o.status = "evicting" THEN Weight(o.item, K) ELSE 0

(* An Insert that proceeds neither loses nor duplicates an item. *)
LEMMA ProceedsTally ==
  ASSUME NEW t \in Table, NEW x \in Item, NEW o, Proceeds(t, x, o), NEW K
  PROVE  Tally(o.table, K) + HandWeight(o, K) = Tally(t, K) + Weight(x, K)
<1>1. CASE ItemStored(t, x, o)
  <2>1. PICK s \in Slot : ~ t[s].filled /\ o = Returned(Filling(t, s, x), "done")
    BY <1>1 DEF ItemStored
  <2>2. o.table = Filling(t, s, x) /\ o.status = "done"
    BY <2>1 DEF Returned, Outcome
  <2>3. HandWeight(o, K) = IF t[s].filled THEN Weight(t[s].item, K) ELSE 0
    BY <2>1, <2>2 DEF HandWeight
  <2>. QED
    BY <2>2, <2>3, TallyFilling
<1>2. CASE ItemSwapped(t, x, o)
  <2>1. PICK s \in Slot :
          /\ t[s].filled
          /\ o = Outcome(Filling(t, s, x), "evicting", t[s].item,
                         Alternate(t[s].item, s[1]))
    BY <1>2 DEF ItemSwapped
  <2>2. o.table = Filling(t, s, x) /\ o.status = "evicting" /\ o.item = t[s].item
    BY <2>1 DEF Outcome
  <2>3. HandWeight(o, K) = IF t[s].filled THEN Weight(t[s].item, K) ELSE 0
    BY <2>1, <2>2 DEF HandWeight
  <2>. QED
    BY <2>2, <2>3, TallyFilling
<1>3. CASE ItemWaits(t, x, o)
  <2>1. o.table = t /\ o.status = "evicting" /\ o.item = x
    BY <1>3 DEF ItemWaits, Outcome
  <2>. QED
    BY <2>1 DEF HandWeight
<1>. QED
  BY <1>1, <1>2, <1>3 DEF Proceeds

-----------------------------------------------------------------------------
(* Insert as a whole. *)

(* What a call of Insert(x) on table t has reached after n turns of its loop. *)
Running(f, t, x, n) ==
  f = [k \in 0 .. n |->
         IF k = 0 THEN InsertStart(t, x)
         ELSE UNION {IF o.status = "evicting" THEN EvictStep(o.table, o.item, o.next)
                                              ELSE {o} : o \in f[k - 1]}]

(* The eviction loop can be run any number of times (table.go:142-158). *)
LEMMA RunningExists ==
  ASSUME NEW t, NEW x, NEW n \in Nat
  PROVE  \E f : Running(f, t, x, n)
<1>. DEFINE S == {k \in 0 .. n : \E f : Running(f, t, x, k)}
            Turn(X) == UNION {IF o.status = "evicting" THEN EvictStep(o.table, o.item, o.next)
                                                       ELSE {o} : o \in X}
<1>1. 0 \in S
  <2>1. Running([k \in 0 .. 0 |-> InsertStart(t, x)], t, x, 0)
    BY DEF Running
  <2>. QED
    BY <2>1
<1>2. ASSUME NEW k \in 0 .. n - 1, k \in S
      PROVE  k + 1 \in S
  <2>1. PICK f : Running(f, t, x, k)
    BY <1>2
  <2>2. f = [j \in 0 .. k |-> IF j = 0 THEN InsertStart(t, x) ELSE Turn(f[j - 1])]
    BY Zenon, <2>1 DEF Running
  <2>. DEFINE g == [j \in 0 .. k + 1 |-> IF j = k + 1 THEN Turn(f[k]) ELSE f[j]]
  <2>. HIDE DEF Turn
  <2>3. \A j \in 0 .. k + 1 : g[j] = IF j = 0 THEN InsertStart(t, x) ELSE Turn(g[j - 1])
    <3>. TAKE j \in 0 .. k + 1
    <3>1. CASE j = k + 1
      <4>1. g[j] = Turn(f[k]) /\ j # 0
        BY <3>1
      <4>2. g[j - 1] = f[k]
        BY <3>1
      <4>. QED
        BY <3>1, <4>1, <4>2
    <3>2. CASE j # k + 1
      <4>1. j \in 0 .. k /\ (j # 0 => j - 1 \in 0 .. k)
        BY <3>2
      <4>2. g[j] = f[j] /\ (j # 0 => g[j - 1] = f[j - 1])
        BY <4>1
      <4>3. f[j] = IF j = 0 THEN InsertStart(t, x) ELSE Turn(f[j - 1])
        BY <2>2, <4>1
      <4>. QED
        BY <4>2, <4>3
    <3>. QED
      BY <3>1, <3>2
  <2>4. g = [j \in 0 .. k + 1 |-> IF j = 0 THEN InsertStart(t, x) ELSE Turn(g[j - 1])]
    BY <2>3
  <2>5. Running(g, t, x, k + 1)
    BY Zenon, <2>4 DEF Running, Turn
  <2>6. k + 1 \in 0 .. n
    OBVIOUS
  <2>. QED
    BY <2>5, <2>6, Zenon
<1>3. n \in S
  <2>. HIDE DEF S
  <2>1. \A k \in 0 .. n : k \in S
    BY <1>1, <1>2, CountingUp
  <2>. QED
    BY <2>1
<1>. QED
  BY <1>3

(* Insert ends well or with one item in hand, never in log.Fatalf; what is in
   the table, and that item, is what was there before and the new item
   (table.go:113-162). *)
LEMMA InsertAdds ==
  ASSUME NEW G \in SUBSET Item, NEW t, Stocked(t, G), NEW x \in G,
         NEW o \in InsertOutcomes(t, x)
  PROVE  /\ Stocked(o.table, G)
         /\ Standing(o, G)
         /\ \A K : Tally(o.table, K) + HandWeight(o, K) = Tally(t, K) + Weight(x, K)
<1>. DEFINE n == MaxEvictions
            Adds(p) == \A K : Tally(p.table, K) + HandWeight(p, K) = Tally(t, K) + Weight(x, K)
<1>0. n \in Nat
  BY TableParams
<1>1. PICK f : Running(f, t, x, n) /\ InsertOutcomes(t, x) = f[n]
  <2>. DEFINE f == CHOOSE f : Running(f, t, x, n)
  <2>1. Running(f, t, x, n)
    BY <1>0, RunningExists
  <2>2. InsertOutcomes(t, x) = f[n]
    BY DEF InsertOutcomes, Running
  <2>. QED
    BY Zenon, <2>1, <2>2
<1>. DEFINE S == {k \in 0 .. n : \A p \in f[k] : Stocked(p.table, G) /\ Standing(p, G) /\ Adds(p)}
<1>. HIDE DEF n
<1>2. t \in Table /\ x \in Item
  BY DEF Stocked
<1>3. 0 \in S
  <2>1. f[0] = InsertStart(t, x) /\ 0 \in 0 .. n
    BY <1>0, <1>1 DEF Running
  <2>2. ASSUME NEW p \in InsertStart(t, x)
        PROVE  Stocked(p.table, G) /\ Standing(p, G) /\ Adds(p)
    <3>1. Proceeds(t, x, p)
      BY <1>2, <2>2, InsertStartProceeds
    <3>. QED
      BY <1>2, <3>1, ProceedsStocked, ProceedsTally
  <2>. QED
    BY <2>1, <2>2
<1>4. ASSUME NEW k \in 0 .. n - 1, k \in S
      PROVE  k + 1 \in S
  <2>0. k + 1 \in 0 .. n /\ k + 1 # 0 /\ (k + 1) - 1 = k
    BY <1>0
  <2>1. ASSUME NEW p \in f[k + 1] PROVE Stocked(p.table, G) /\ Standing(p, G) /\ Adds(p)
    <3>1. f[k + 1] = UNION {IF q.status = "evicting" THEN EvictStep(q.table, q.item, q.next)
                                                     ELSE {q} : q \in f[k]}
      BY <1>1, <2>0, Zenon DEF Running
    <3>2. PICK q \in f[k] :
            p \in IF q.status = "evicting" THEN EvictStep(q.table, q.item, q.next) ELSE {q}
      BY <2>1, <3>1
    <3>3. Stocked(q.table, G) /\ Standing(q, G) /\ Adds(q)
      BY <1>4
    <3>4. CASE q.status # "evicting"
      BY <3>2, <3>3, <3>4
    <3>5. CASE q.status = "evicting"
      <4>1. /\ q.item \in G /\ q.item \in Item /\ q.table \in Table
            /\ q.next \in {q.item.bucket1, q.item.bucket2}
            /\ p \in EvictStep(q.table, q.item, q.next)
        BY <3>2, <3>3, <3>5 DEF Standing, Stocked
      <4>2. Proceeds(q.table, q.item, p)
        BY <4>1, EvictStepProceeds
      <4>3. Stocked(p.table, G) /\ Standing(p, G)
        BY <3>3, <4>1, <4>2, ProceedsStocked
      <4>4. ASSUME NEW K
            PROVE  Tally(p.table, K) + HandWeight(p, K) = Tally(t, K) + Weight(x, K)
        <5>1. Tally(p.table, K) + HandWeight(p, K) = Tally(q.table, K) + Weight(q.item, K)
          BY <4>1, <4>2, ProceedsTally
        <5>2. Tally(q.table, K) + HandWeight(q, K) = Tally(t, K) + Weight(x, K)
          BY <3>3
        <5>3. HandWeight(q, K) = Weight(q.item, K)
          BY <3>5 DEF HandWeight
        <5>. QED
          BY <5>1, <5>2, <5>3
      <4>. QED
        BY <4>3, <4>4
    <3>. QED
      BY <3>4, <3>5
  <2>. QED
    BY <2>0, <2>1
<1>5. n \in S
  <2>. HIDE DEF S
  <2>1. \A k \in 0 .. n : k \in S
    BY <1>0, <1>3, <1>4, CountingUp
  <2>. QED
    BY <1>0, <2>1
<1>. QED
  BY <1>1, <1>5

(* Remove of a stored item takes away exactly one equal item (table.go:166-184). *)
LEMMA RemoveTakes ==
  ASSUME NEW G \in SUBSET Item, NEW t, Stocked(t, G), NEW x \in G,
         \A y, z \in G : Equals(y, z) => y = z,
         Tally(t, {x}) > 0, NEW o \in RemoveOutcomes(t, x)
  PROVE  /\ Stocked(o.table, G)
         /\ \A K : Tally(o.table, K) + Weight(x, K) = Tally(t, K)
<1>1. t \in Table /\ x \in Item
  BY DEF Stocked
<1>2. PICK s \in Slot : t[s].filled /\ t[s].item = x
  BY HeldFinite
<1>3. Holds(t, s, x) /\ s[1] \in {x.bucket1, x.bucket2}
  BY <1>2 DEF Holds, Equals, Stocked
<1>4. isInBucket(t, x.bucket1, x) \/ isInBucket(t, x.bucket2, x)
  <2>1. s = <<s[1], s[2]>> /\ s[2] \in Depth
    BY DEF Slot
  <2>. QED
    BY <1>3, <2>1 DEF isInBucket
<1>5. InRange(x)
  BY <1>1, ItemBuckets DEF InRange
<1>6. PICK r \in Slot : Holds(t, r, x) /\ o = [table |-> Clear(t, r), ok |-> TRUE]
  BY <1>1, <1>4, <1>5, RemoveCases, Zenon
<1>7. t[r].filled /\ t[r].item = x /\ o.table = Clear(t, r)
  BY <1>6 DEF Holds, Stocked
<1>8. \A K : Tally(o.table, K) + Weight(x, K) = Tally(t, K)
  BY <1>1, <1>7, TallyClear
<1>. QED
  BY <1>8, RemoveStocked

=============================================================================
