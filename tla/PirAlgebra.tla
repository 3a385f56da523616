----------------------------- MODULE PirAlgebra -----------------------------
(***************************************************************************)
(* Request vectors, reads on the CPU and pads (pir/pirclient, pir/pircpu,  *)
(* pir/xor, drbg).                                                         *)
(*                                                                         *)
(* Everything here is linear over XOR, so a byte is the set of the terms   *)
(* XORed into it: a byte of the database and a byte of a pad are a term    *)
(* each.  Two bytes are equal for every database and all seeds just when   *)
(* their sets are.  A request vector is the set of its bits.               *)
(***************************************************************************)
EXTENDS Integers, Sequences, FiniteSetsExt

CONSTANTS
  NumServers,   \* trust domains
  NumBuckets,   \* CellCount
  BucketBytes,  \* CellLength
  ByteSize,     \* bits of a byte
  WordSize      \* bytes of a machine word, and of the kernels' DATA_TYPE

(* Configure *)
ASSUME Sizing ==
  /\ NumServers \in Nat /\ NumServers > 1
  /\ ByteSize \in Nat \ {0} /\ WordSize \in Nat \ {0}
  /\ NumBuckets \in Nat \ {0} /\ NumBuckets % ByteSize = 0
  /\ BucketBytes \in Nat \ {0} /\ BucketBytes % WordSize = 0

Server == 1 .. NumServers
Bucket == 0 .. NumBuckets - 1
Byte == 0 .. BucketBytes - 1

Xor(a, b) == SymDiff(a, b)

(* The bytes XORed by fastXORBytes, whole words first and then the rest, and by
   fastXORWords. *)
WordsOf(n) == {k \in 0 .. n - 1 : k < (n \div WordSize) * WordSize}
BytesOf(n) == WordsOf(n) \cup {k \in 0 .. n - 1 : k >= n - (n % WordSize)}

XorOn(positions, a, b) == [k \in Byte |-> IF k \in positions THEN Xor(a[k], b[k]) ELSE a[k]]

-----------------------------------------------------------------------------
(* GenerateRequestVectors: the last NumServers - 1 vectors are random, the first
   is what makes all of them together the bit of the bucket. *)
RandomBits == SUBSET (0 .. NumBuckets - 1)

(* Variant: only the first random vector is XORed into the secret. *)
GenerateRequestVectors_OneMask(bucket, random) == <<Xor({bucket}, random[1])>> \o random

GenerateRequestVectors(bucket, random) ==
  LET secret[j \in 0 .. NumServers - 1] ==
        IF j = 0 THEN {bucket} ELSE Xor(secret[j - 1], random[j])
  IN  <<secret[NumServers - 1]>> \o random

Zeros == [k \in Byte |-> {}]

(* XOR of the buckets selected by req, on the given bytes of each. *)
ReadOn(db, req, positions) ==
  LET response[i \in 0 .. NumBuckets] ==
        IF i = 0 THEN Zeros
        ELSE IF i - 1 \in req THEN XorOn(positions, response[i - 1], db[i - 1])
                              ELSE response[i - 1]
  IN  response[NumBuckets]

(* Read of a ShardCPU, by version. *)
ReadCPU(version, db, req) ==
  CASE version = "read0" -> ReadOn(db, req, WordsOf(BucketBytes))
    [] version = "read1" -> ReadOn(db, req, BytesOf(BucketBytes))
    [] version = "read2" -> ReadOn(db, req, Byte)

(* Overlay: the stream of HashDrbg depends on the seed only. *)
Overlay(seed, data) == [k \in Byte |-> Xor(data[k], {<<"pad", seed, k>>})]

Combine(data, other) == XorOn(Byte, data, other)

=============================================================================
