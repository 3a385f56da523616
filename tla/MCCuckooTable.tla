--------------------------- MODULE MCCuckooTable ---------------------------
EXTENDS CuckooTable

It(i, d, b, c) == [id |-> i, data |-> d, bucket1 |-> b, bucket2 |-> c]

(* Three requests share both buckets, two of them Equals with different
   payloads, one with the contents of fresh memory; one has equal buckets; the
   last two have a bucket out of range and a payload of the wrong size. *)
MCRequest ==
  {It(0, "zero", 0, 1), It(0, "p", 0, 1), It(1, "p", 1, 0), It(1, "p", 1, 1),
   It(1, "p", 0, NumBuckets), It(1, "short", 0, 1)}
=============================================================================
