------------------------------- MODULE Cuckoo -------------------------------
(***************************************************************************)
(* The cuckoo table of cuckoo/table.go and cuckoo/item.go as operators on  *)
(* a table value.  A table is a function from slots to cells; a cell keeps *)
(* the item last written to it, so that clearing the filled flag leaves    *)
(* the bytes in place, as Remove and insertAndEvict do.  The flat index    *)
(* bucket*bucketDepth + i of the code is the pair <<bucket, i>> here.      *)
(*                                                                         *)
(* Insert is split where the code decides something: the first attempt     *)
(* (InsertStart) and one turn of the eviction loop (EvictStep).  Each      *)
(* yields the set of outcomes the private PRNG of the table can select.    *)
(***************************************************************************)
EXTENDS Integers, FiniteSets

CONSTANTS
  NumBuckets,    \* number of buckets
  BucketDepth,   \* items in each bucket
  MaxEvictions,  \* chained evictions before an insert gives up
  ID,            \* item identifiers
  Data,          \* payloads of exactly itemSize bytes
  ZeroData,      \* the payload of freshly allocated memory
  NoItem         \* the nil *Item

ASSUME TableParams ==
  /\ NumBuckets \in Nat \ {0}
  /\ BucketDepth \in Nat \ {0}
  /\ MaxEvictions \in Nat
  /\ 0 \in ID
  /\ ZeroData \in Data

ASSUME NoItemAssumption ==
  NoItem \notin [id : ID, data : Data, bucket1 : Nat, bucket2 : Nat]

Bucket == 0 .. NumBuckets - 1
Depth == 0 .. BucketDepth - 1
Slot == Bucket \X Depth

Item == [id : ID, data : Data, bucket1 : Bucket, bucket2 : Bucket]
ZeroItem == [id |-> 0, data |-> ZeroData, bucket1 |-> 0, bucket2 |-> 0]

Cell == [filled : BOOLEAN, item : Item]
Table == [Slot -> Cell]

NewTable == [s \in Slot |-> [filled |-> FALSE, item |-> ZeroItem]]

-----------------------------------------------------------------------------
(* Item.Equals compares buckets and identifier, never the payload. *)
Equals(x, y) ==
  /\ x.bucket1 = y.bucket1
  /\ x.bucket2 = y.bucket2
  /\ x.id = y.id

InRange(x) == x.bucket1 \in Bucket /\ x.bucket2 \in Bucket

(* What Insert accepts: buckets in range and a payload of itemSize bytes. *)
Insertable(x) == InRange(x) /\ x.data \in Data

Holds(t, s, x) == t[s].filled /\ Equals(x, t[s].item)

isInBucket(t, b, x) == \E i \in Depth : Holds(t, <<b, i>>, x)

Contains(t, x) ==
  /\ InRange(x)
  /\ isInBucket(t, x.bucket1, x) \/ isInBucket(t, x.bucket2, x)

Filled(t) == {s \in Slot : t[s].filled}

GetCapacity == NumBuckets * BucketDepth

GetNumElements(t) == Cardinality(Filled(t))

-----------------------------------------------------------------------------
HasRoom(t, b) == \E i \in Depth : ~ t[<<b, i>>].filled

FirstEmpty(t, b) ==
  CHOOSE i \in Depth : /\ ~ t[<<b, i>>].filled
                       /\ \A j \in Depth : j < i => t[<<b, j>>].filled

(* Variant: the flat index takes the number of buckets for the depth's
   stride. *)
Put_Strided(t, b, x) ==
  LET k == b + FirstEmpty(t, b) * NumBuckets
  IN  [t EXCEPT ![<<k \div BucketDepth, k % BucketDepth>>] =
         [filled |-> TRUE, item |-> x]]

(* The successful path of tryInsertToBucket: first empty slot of bucket b. *)
Put(t, b, x) ==
  [t EXCEPT ![<<b, FirstEmpty(t, b)>>] = [filled |-> TRUE, item |-> x]]

Clear(t, s) == [t EXCEPT ![s] = [filled |-> FALSE, item |-> @.item]]

(* The bucket an item displaced from b is tried in next. *)
Alternate(x, b) == IF x.bucket1 = b THEN x.bucket2 ELSE x.bucket1

(***************************************************************************)
(* An outcome of a step of Insert: the table, where the call stands, the   *)
(* item in hand and the bucket it is tried in next.                        *)
(*   "done"     returned (true, nil)                                       *)
(*   "refused"  returned (false, nil)                                      *)
(*   "evicting" the loop goes on with the item in hand                     *)
(*   "fatal"    one of the two log.Fatalf branches                         *)
(***************************************************************************)
Outcome(t, status, x, b) ==
  [table |-> t, status |-> status, item |-> x, next |-> b]

Returned(t, status) == Outcome(t, status, NoItem, 0)

TryFirst(t, x, b, other) ==
  IF HasRoom(t, b) THEN Returned(Put(t, b, x), "done")
                   ELSE Outcome(t, "evicting", x, other)

InsertStart(t, x) ==
  IF Insertable(x)
    THEN {TryFirst(t, x, x.bucket1, x.bucket2),
          TryFirst(t, x, x.bucket2, x.bucket1)}
    ELSE {Returned(t, "refused")}

(* Variant: the next bucket is that of the inserted item. *)
Displace_NextOfHand(t, x, b, i) ==
  LET removed == t[<<b, i>>].item
  IN  Outcome(Put(Clear(t, <<b, i>>), b, x), "evicting", removed,
              Alternate(x, b))

(* insertAndEvict on a full bucket: the item in slot i makes way for x. *)
Displace(t, x, b, i) ==
  LET removed == t[<<b, i>>].item
      cleared == Clear(t, <<b, i>>)
  IN  IF HasRoom(cleared, b)
        THEN Outcome(Put(cleared, b, x), "evicting", removed,
                     Alternate(removed, b))
        ELSE Outcome(cleared, "fatal", removed, b)

(* One turn of the eviction loop with x in hand and b the next bucket. *)
EvictStep(t, x, b) ==
  IF b \notin {x.bucket1, x.bucket2}
    THEN {Outcome(t, "fatal", x, b)}
    ELSE IF HasRoom(t, b)
           THEN {Returned(Put(t, b, x), "done")}
           ELSE {Displace(t, x, b, i) : i \in Depth}

(* The whole of Insert: "evicting" is left when MaxEvictions is reached. *)
InsertOutcomes(t, x) ==
  LET run[n \in 0 .. MaxEvictions] ==
        IF n = 0
          THEN InsertStart(t, x)
          ELSE UNION {IF o.status = "evicting"
                        THEN EvictStep(o.table, o.item, o.next)
                        ELSE {o} : o \in run[n - 1]}
  IN  run[MaxEvictions]

-----------------------------------------------------------------------------
FirstHolding(t, b, x) ==
  CHOOSE i \in Depth : /\ Holds(t, <<b, i>>, x)
                       /\ \A j \in Depth : j < i => ~ Holds(t, <<b, j>>, x)

(* Variant: only the first bucket is searched. *)
RemoveFrom_FirstOnly(t, x, b, other) ==
  IF isInBucket(t, b, x)
    THEN [table |-> Clear(t, <<b, FirstHolding(t, b, x)>>), ok |-> TRUE]
    ELSE [table |-> t, ok |-> FALSE]

(* Remove looking in bucket b first and in bucket other second. *)
RemoveFrom(t, x, b, other) ==
  IF isInBucket(t, b, x)
    THEN [table |-> Clear(t, <<b, FirstHolding(t, b, x)>>), ok |-> TRUE]
    ELSE IF isInBucket(t, other, x)
      THEN [table |-> Clear(t, <<other, FirstHolding(t, other, x)>>),
            ok |-> TRUE]
      ELSE [table |-> t, ok |-> FALSE]

RemoveOutcomes(t, x) ==
  IF InRange(x)
    THEN {RemoveFrom(t, x, x.bucket1, x.bucket2),
          RemoveFrom(t, x, x.bucket2, x.bucket1)}
    ELSE {[table |-> t, ok |-> FALSE]}
=============================================================================
