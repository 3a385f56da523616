--------------------------- MODULE PirReadProofs ---------------------------
(***************************************************************************)
(* Proofs about private reads, for any number of servers, buckets, bytes,  *)
(* queries, snapshots and threads: what the request vectors hide, what the *)
(* kernels compute, and what clients decode.                               *)
(***************************************************************************)
EXTENDS PirRead, FiniteSetTheorems, SequenceTheorems, TLAPS

-----------------------------------------------------------------------------
(* Loops and XOR. *)

(* Counting up from 0 reaches every number: induction for the loops over
   buckets and servers (shard_cpu.go:181-203, handle.go:175-186). *)
LEMMA CountingUp ==
  ASSUME NEW n \in Nat, NEW S, 0 \in S,
         \A k \in 0 .. n - 1 : k \in S => k + 1 \in S
  PROVE  \A k \in 0 .. n : k \in S
<1>. DEFINE R == {k \in 0 .. n : k \notin S}
<1>. SUFFICES ASSUME R # {} PROVE FALSE
  BY Zenon
<1>1. R \in SUBSET Nat
  OBVIOUS
<1>2. PICK i \in R : \A j \in R : <<j, i>> \notin OpToRel(<, Nat)
  BY <1>1, NatLessThanWellFounded, WFMin, Zenon
<1>3. \A j \in R : ~ (j < i)
  BY <1>1, <1>2, Zenon DEF OpToRel
<1>4. i \in 0 .. n /\ i # 0 /\ i \notin S
  BY Zenon
<1>5. i - 1 \in 0 .. n - 1 /\ i - 1 < i /\ (i - 1) + 1 = i
  BY <1>4
<1>6. i - 1 \notin R
  BY <1>3, <1>5, Zenon
<1>7. i - 1 \in S
  BY <1>5, <1>6
<1>. QED
  BY <1>4, <1>5, <1>7, Zenon

(* f[j] is the variable of a loop after j of n rounds of its body G. *)
Run(f, n, X, a, G) ==
  /\ f \in [0 .. n -> X] /\ f[0] = a
  /\ \A j \in 1 .. n : f[j] = G[<<f[j - 1], j>>]

(* Every loop has a run. *)
LEMMA LoopRuns ==
  ASSUME NEW n \in Nat, NEW X, NEW a \in X, NEW G \in [X \X (1 .. n) -> X]
  PROVE  \E f : Run(f, n, X, a, G)
<1>. DEFINE Runs(f, k) == /\ f \in [0 .. k -> X] /\ f[0] = a
                          /\ \A j \in 1 .. k : f[j] = G[<<f[j - 1], j>>]
            S == {k \in 0 .. n : \E f : Runs(f, k)}
<1>1. 0 \in S
  <2>1. Runs([k \in 0 .. 0 |-> a], 0) /\ 0 \in 0 .. n
    OBVIOUS
  <2>. HIDE DEF Runs
  <2>. QED
    BY <2>1, Zenon
<1>2. ASSUME NEW k \in 0 .. n - 1, k \in S
      PROVE  k + 1 \in S
  <2>1. PICK f : Runs(f, k)
    BY <1>2, Zenon
  <2>. DEFINE g == [j \in 0 .. k + 1 |-> IF j = k + 1 THEN G[<<f[k], k + 1>>] ELSE f[j]]
  <2>2. f[k] \in X /\ k + 1 \in 1 .. n
    BY <2>1
  <2>3. G[<<f[k], k + 1>>] \in X
    BY <2>2, Zenon
  <2>4. \A j \in 0 .. k + 1 : j = k + 1 \/ j \in 0 .. k
    OBVIOUS
  <2>5. g \in [0 .. k + 1 -> X]
    BY <2>1, <2>3, <2>4
  <2>6. g[0] = a /\ g[k + 1] = G[<<f[k], k + 1>>] /\ \A j \in 0 .. k : g[j] = f[j]
    BY <2>1
  <2>7. \A j \in 1 .. k : j \in 0 .. k /\ j - 1 \in 0 .. k
    OBVIOUS
  <2>8. \A j \in 1 .. k + 1 : j = k + 1 \/ j \in 1 .. k
    OBVIOUS
  <2>9. (k + 1) - 1 = k /\ k \in 0 .. k
    OBVIOUS
  <2>. HIDE DEF g
  <2>10. \A j \in 1 .. k + 1 : g[j] = G[<<g[j - 1], j>>]
    BY <2>1, <2>6, <2>7, <2>8, <2>9, ZenonT(40)
  <2>11. Runs(g, k + 1)
    BY <2>5, <2>6, <2>10, Zenon
  <2>. QED
    BY <2>11
<1>3. n \in S
  <2>. HIDE DEF S
  <2>. QED
    BY <1>1, <1>2, CountingUp
<1>. QED
  BY <1>3, Zenon DEF Run

(* What is in an XOR. *)
LEMMA XorMember ==
  ASSUME NEW a, NEW b, NEW x
  PROVE  x \in Xor(a, b) <=> (x \in a) # (x \in b)
BY DEF Xor, SymDiff

-----------------------------------------------------------------------------
(* Request vectors. *)

(* secret[j] is the first vector once j random ones are XORed into it. *)
Masked(secret, bucket, random) ==
  /\ secret[0] = {bucket}
  /\ \A j \in 1 .. NumServers - 1 : secret[j] = Xor(secret[j - 1], random[j])

(* The vectors of a query: the masked bit, then the masks
   (pirclient/client.go:28-62). *)
LEMMA VectorsAre ==
  ASSUME NEW bucket \in Bucket, NEW random \in [1 .. NumServers - 1 -> RandomBits]
  PROVE  \E secret : /\ Masked(secret, bucket, random)
                     /\ GenerateRequestVectors(bucket, random)[1] = secret[NumServers - 1]
                     /\ \A s \in 2 .. NumServers :
                          GenerateRequestVectors(bucket, random)[s] = random[s - 1]
<1>. DEFINE n == NumServers - 1
            Eqn(f) == f = [j \in 0 .. n |-> IF j = 0 THEN {bucket} ELSE Xor(f[j - 1], random[j])]
            G == [p \in RandomBits \X (1 .. n) |-> Xor(p[1], random[p[2]])]
            secret == CHOOSE f : Eqn(f)
<1>0. n \in Nat \ {0} /\ NumServers = n + 1
  BY Sizing
<1>1. {bucket} \in RandomBits
  BY Zenon DEF RandomBits, Bucket
<1>2. G \in [RandomBits \X (1 .. n) -> RandomBits]
  <2>1. ASSUME NEW p \in RandomBits \X (1 .. n) PROVE Xor(p[1], random[p[2]]) \in RandomBits
    BY Zenon DEF RandomBits, Xor, SymDiff
  <2>. QED
    BY <2>1, Zenon
<1>3. PICK f \in [0 .. n -> RandomBits] :
         f[0] = {bucket} /\ \A j \in 1 .. n : f[j] = G[<<f[j - 1], j>>]
  <2>1. n \in Nat
    BY <1>0, Zenon
  <2>. HIDE DEF G, n
  <2>2. PICK f : Run(f, n, RandomBits, {bucket}, G)
    BY <1>1, <1>2, <2>1, LoopRuns, Zenon
  <2>. QED
    BY <2>2, Zenon DEF Run
<1>4. ASSUME NEW j \in 1 .. n PROVE f[j] = Xor(f[j - 1], random[j])
  <2>1. j - 1 \in 0 .. n
    BY <1>0
  <2>2. <<f[j - 1], j>> \in RandomBits \X (1 .. n)
    BY <2>1, Zenon
  <2>3. G[<<f[j - 1], j>>] = Xor(f[j - 1], random[j])
    BY <2>2, Zenon
  <2>. QED
    BY <1>3, <2>3, Zenon
<1>5. Eqn(f)
  <2>1. \A j \in 0 .. n : j # 0 => j \in 1 .. n
    BY <1>0
  <2>. QED
    BY <1>3, <1>4, <2>1
<1>6. Eqn(secret)
  BY <1>5, Zenon
<1>7. GenerateRequestVectors(bucket, random) = <<secret[n]>> \o random
  BY Zenon DEF GenerateRequestVectors
<1>. HIDE DEF secret
<1>8. Masked(secret, bucket, random)
  <2>1. \A j \in 1 .. n : j \in 0 .. n /\ j # 0
    BY <1>0
  <2>2. 0 \in 0 .. n
    BY <1>0
  <2>. QED
    BY <1>6, <2>1, <2>2, Zenon DEF Masked
<1>9. ASSUME NEW x PROVE /\ (<<x>> \o random)[1] = x
                         /\ \A s \in 2 .. NumServers : (<<x>> \o random)[s] = random[s - 1]
  <2>. DEFINE T == RandomBits \cup {x}
  <2>1. <<x>> \in Seq(T) /\ Len(<<x>>) = 1 /\ <<x>>[1] = x
    OBVIOUS
  <2>2. random \in Seq(T) /\ Len(random) = n
    BY <1>0
  <2>3. \A i \in 1 .. 1 + n : (<<x>> \o random)[i] = IF i <= 1 THEN <<x>>[i] ELSE random[i - 1]
    BY <2>1, <2>2, ConcatProperties
  <2>. QED
    BY <1>0, <2>1, <2>3
<1>10. /\ GenerateRequestVectors(bucket, random)[1] = secret[NumServers - 1]
       /\ \A s \in 2 .. NumServers : GenerateRequestVectors(bucket, random)[s] = random[s - 1]
  <2>1. /\ (<<secret[n]>> \o random)[1] = secret[n]
        /\ \A s \in 2 .. NumServers : (<<secret[n]>> \o random)[s] = random[s - 1]
    BY <1>9, Zenon
  <2>. QED
    BY <1>7, <2>1, Zenon
<1>. QED
  BY <1>8, <1>10, Zenon
(* XOR can be reordered, and what is XORed twice is gone. *)
LEMMA XorLaws ==
  ASSUME NEW a, NEW b, NEW c
  PROVE  /\ Xor(Xor(a, c), b) = Xor(Xor(a, b), c)
         /\ Xor(Xor(a, c), Xor(b, c)) = Xor(a, b)
         /\ Xor(a, Xor(b, a)) = b
         /\ Xor(a, {}) = a
         /\ Xor(a, a) = {}
BY Zenon DEF Xor, SymDiff

(* An inner term can be taken out. *)
LEMMA XorRegroup ==
  ASSUME NEW a, NEW b, NEW c, NEW d
  PROVE  Xor(a, Xor(Xor(b, c), d)) = Xor(Xor(a, Xor(b, d)), c)
BY Zenon DEF Xor, SymDiff

(* Whatever bucket was asked for, other masks would have sent the same vectors
   to all servers but one for any other bucket (pirclient/client.go:48-59). *)
LEMMA HiddenFromAllButOne ==
  ASSUME NEW bucket \in Bucket, NEW random \in [1 .. NumServers - 1 -> RandomBits],
         NEW b \in Bucket, NEW s \in Server
  PROVE  \E r \in [1 .. NumServers - 1 -> RandomBits] : \A t \in Server \ {s} :
           GenerateRequestVectors(b, r)[t] = GenerateRequestVectors(bucket, random)[t]
<1>. DEFINE n == NumServers - 1
<1>0. n \in Nat \ {0} /\ NumServers = n + 1 /\ Server = 1 .. n + 1
  BY Sizing DEF Server
<1>1. PICK secret : /\ Masked(secret, bucket, random)
                    /\ GenerateRequestVectors(bucket, random)[1] = secret[n]
                    /\ \A t \in 2 .. NumServers :
                         GenerateRequestVectors(bucket, random)[t] = random[t - 1]
  BY VectorsAre, Zenon
<1>2. \A t \in Server : t = 1 \/ t \in 2 .. NumServers
  BY <1>0
<1>3. CASE s = 1
  <2>1. \A t \in 2 .. NumServers : GenerateRequestVectors(b, random)[t] = random[t - 1]
    BY VectorsAre, Zenon
  <2>2. \A t \in Server \ {s} :
          GenerateRequestVectors(b, random)[t] = GenerateRequestVectors(bucket, random)[t]
    BY <1>1, <1>2, <1>3, <2>1, Zenon
  <2>. QED
    BY <2>2, Zenon
<1>4. CASE s # 1
  <2>. DEFINE m == s - 1
              D == Xor({b}, {bucket})
              r == [random EXCEPT ![m] = Xor(random[m], D)]
  <2>1. m \in 1 .. n /\ s = m + 1
    BY <1>0, <1>4
  <2>2. Xor(random[m], D) \in RandomBits
    BY <2>1, Zenon DEF RandomBits, Xor, SymDiff, Bucket
  <2>. HIDE DEF m, D
  <2>3. /\ r \in [1 .. NumServers - 1 -> RandomBits]
        /\ r[m] = Xor(random[m], D) /\ \A j \in 1 .. n : j # m => r[j] = random[j]
    BY <2>1, <2>2, Zenon
  <2>. HIDE DEF r, n
  <2>4. r \in [1 .. NumServers - 1 -> RandomBits]
    BY <2>3, Zenon
  <2>5. PICK other : /\ Masked(other, b, r)
                     /\ GenerateRequestVectors(b, r)[1] = other[n]
                     /\ \A t \in 2 .. NumServers : GenerateRequestVectors(b, r)[t] = r[t - 1]
    BY <2>4, VectorsAre, Zenon DEF n
  <2>. DEFINE Same(j) == other[j] = IF j < m THEN Xor(secret[j], D) ELSE secret[j]
              S == {j \in 0 .. n : Same(j)}
  <2>6. 0 \in S
    <3>1. {b} = Xor({bucket}, D)
      BY XorLaws DEF D
    <3>2. other[0] = {b} /\ secret[0] = {bucket}
      BY <1>1, <2>5, Zenon DEF Masked
    <3>3. 0 \in 0 .. n /\ 0 < m
      BY <1>0, <2>1
    <3>. QED
      BY <3>1, <3>2, <3>3, Zenon
  <2>7. ASSUME NEW j \in 0 .. n - 1, j \in S PROVE j + 1 \in S
    <3>1. j + 1 \in 1 .. n /\ j + 1 \in 0 .. n /\ (j + 1) - 1 = j
      BY <1>0
    <3>2. other[j + 1] = Xor(other[j], r[j + 1]) /\ secret[j + 1] = Xor(secret[j], random[j + 1])
      BY <1>1, <2>5, <3>1, Zenon DEF Masked, n
    <3>3. CASE j + 1 < m
      <4>1. other[j] = Xor(secret[j], D) /\ r[j + 1] = random[j + 1]
        BY <2>1, <2>3, <2>7, <3>1, <3>3
      <4>2. other[j + 1] = Xor(secret[j + 1], D)
        BY <3>2, <4>1, XorLaws
      <4>. QED
        BY <3>1, <3>3, <4>2, Zenon
    <3>4. CASE j + 1 = m
      <4>1. other[j] = Xor(secret[j], D) /\ r[j + 1] = Xor(random[j + 1], D)
        BY <2>1, <2>3, <2>7, <3>1, <3>4
      <4>2. other[j + 1] = secret[j + 1]
        BY <3>2, <4>1, XorLaws
      <4>. QED
        BY <3>1, <3>4, <4>2
    <3>5. CASE j + 1 > m
      <4>1. other[j] = secret[j] /\ r[j + 1] = random[j + 1]
        BY <2>1, <2>3, <2>7, <3>1, <3>5
      <4>2. other[j + 1] = secret[j + 1]
        BY <3>2, <4>1, Zenon
      <4>3. ~ (j + 1 < m)
        BY <2>1, <3>1, <3>5
      <4>. QED
        BY <3>1, <4>2, <4>3, Zenon
    <3>. QED
      BY <2>1, <3>1, <3>3, <3>4, <3>5
  <2>8. other[n] = secret[n]
    <3>1. n \in S
      <4>. HIDE DEF S
      <4>. QED
        BY <1>0, <2>6, <2>7, CountingUp
    <3>. QED
      BY <1>0, <2>1, <3>1
  <2>9. ASSUME NEW t \in Server \ {s}
        PROVE  GenerateRequestVectors(b, r)[t] = GenerateRequestVectors(bucket, random)[t]
    <3>1. CASE t = 1
      BY <1>1, <2>5, <2>8, <3>1
    <3>2. CASE t \in 2 .. NumServers
      <4>1. t - 1 \in 1 .. n /\ t - 1 # m
        BY <1>0, <2>1, <2>9, <3>2
      <4>. QED
        BY <1>1, <2>3, <2>5, <3>2, <4>1
    <3>. QED
      BY <1>2, <3>1, <3>2, Zenon
  <2>. QED
    BY <2>4, <2>9, Zenon
<1>. QED
  BY <1>3, <1>4, Zenon

QueriesInv == batch \in Batches

(* The queries do not change during a batch. *)
LEMMA BatchFixed == Spec => []QueriesInv
<1>1. Init => QueriesInv
  BY Zenon DEF Init, QueriesInv
<1>2. QueriesInv /\ [Next]_vars => QueriesInv'
  BY Zenon DEF QueriesInv, Next, Work, ReadOnCPU, Launch, Step, Finish, Decode, Flip, vars
<1>. QED
  BY <1>1, <1>2, PTL DEF Spec

(* A query of the batch. *)
LEMMA QueryOf ==
  ASSUME QueriesInv, NEW q \in DOMAIN batch
  PROVE  /\ batch[q].bucket \in Bucket
         /\ batch[q].random \in [1 .. NumServers - 1 -> RandomBits]
         /\ q \in 1 .. ReadBatch
<1>. DEFINE Q == [bucket : Bucket, random : [1 .. NumServers - 1 -> RandomBits]]
<1>1. batch \in Seq(Q) /\ Len(batch) \in 1 .. ReadBatch /\ ReadBatch \in Nat
  BY PirReadParams, Zenon DEF QueriesInv
<1>2. q \in 1 .. Len(batch) /\ Len(batch) \in Nat
  BY <1>1
<1>. HIDE DEF Q
<1>3. batch[q] \in Q
  BY <1>1, <1>2
<1>4. q \in 1 .. ReadBatch
  BY <1>1, <1>2
<1>. QED
  BY <1>3, <1>4, Zenon DEF Q

(* The servers but one cannot tell from their vectors which bucket a client of
   the batch reads, for any number of servers (pirclient/client.go:48-59). *)
THEOREM VectorsHideBucket == Spec => []ViewHidesBucket
<1>1. QueriesInv => ViewHidesBucket
  <2>. SUFFICES ASSUME QueriesInv, NEW q \in DOMAIN batch,
                       NEW s \in Server, NEW b \in Bucket
                PROVE  \E random \in [1 .. NumServers - 1 -> RandomBits] :
                         \A t \in Server \ {s} :
                           GenerateRequestVectors(b, random)[t] = Vectors(q)[t]
    BY Zenon DEF ViewHidesBucket
  <2>. DEFINE asked == batch[q].bucket
              masks == batch[q].random
  <2>1. asked \in Bucket /\ masks \in [1 .. NumServers - 1 -> RandomBits]
    BY QueryOf, Zenon
  <2>. HIDE DEF asked, masks
  <2>2. \E r \in [1 .. NumServers - 1 -> RandomBits] : \A t \in Server \ {s} :
          GenerateRequestVectors(b, r)[t] = GenerateRequestVectors(asked, masks)[t]
    BY <2>1, HiddenFromAllButOne
  <2>. QED
    BY <2>2, Zenon DEF Vectors, asked, masks
<1>. QED
  BY <1>1, BatchFixed, PTL

-----------------------------------------------------------------------------
(* Reads. *)

(* When a byte of bucket b last changed, in snapshot n. *)
Stamp(b, n) == Max({0} \cup {m \in 1 .. n : b \in Changed(m)})

Term(b, n, k) == <<"db", <<b, Stamp(b, n)>>, k>>

(* The answer a replica should give: every byte has the terms of the buckets
   selected. *)
Wanted(n, req) == [k \in Byte |-> {Term(b, n, k) : b \in Bucket \cap req}]

(* A loop over the buckets XORs those selected (shard_cpu.go:181-203). *)
LEMMA ReadOnIsWanted ==
  ASSUME NEW n, NEW req
  PROVE  ReadOn(DB(n), req, Byte) = Wanted(n, req)
<1>. DEFINE Past(i) == [k \in Byte |-> {Term(b, n, k) : b \in (0 .. i - 1) \cap req}]
            Body(r, i) == IF i - 1 \in req THEN XorOn(Byte, r, DB(n)[i - 1]) ELSE r
            Eqn(f) == f = [i \in 0 .. NumBuckets |-> IF i = 0 THEN Zeros ELSE Body(f[i - 1], i)]
            response == CHOOSE f : Eqn(f)
<1>0. NumBuckets \in Nat \ {0} /\ Bucket = 0 .. NumBuckets - 1
  BY Sizing, Zenon DEF Bucket
<1>1. Past(0) = Zeros
  BY DEF Zeros
<1>2. ASSUME NEW i \in 1 .. NumBuckets PROVE Past(i) = Body(Past(i - 1), i)
  <2>1. i - 1 \in Bucket /\ i \in Nat
    BY <1>0
  <2>2. \A b : b \in 0 .. i - 1 <=> b \in 0 .. (i - 1) - 1 \/ b = i - 1
    BY <2>1
  <2>3. i - 1 \notin 0 .. (i - 1) - 1
    BY <2>1
  <2>4. CASE i - 1 \notin req
    <3>1. (0 .. i - 1) \cap req = (0 .. (i - 1) - 1) \cap req
      BY <2>2, <2>4, Zenon
    <3>. QED
      BY <2>4, <3>1, Zenon
  <2>5. CASE i - 1 \in req
    <3>1. (0 .. i - 1) \cap req = ((0 .. (i - 1) - 1) \cap req) \cup {i - 1}
      BY <2>2, <2>5, Zenon
    <3>2. ASSUME NEW k \in Byte
          PROVE  Past(i)[k] = Xor(Past(i - 1)[k], DB(n)[i - 1][k])
      <4>1. DB(n)[i - 1][k] = {Term(i - 1, n, k)}
        BY <2>1, Zenon DEF DB, Term, Stamp
      <4>2. Past(i)[k] = Past(i - 1)[k] \cup {Term(i - 1, n, k)}
        BY <3>1, Zenon
      <4>3. Term(i - 1, n, k) \notin Past(i - 1)[k]
        BY <2>3, Zenon DEF Term
      <4>. QED
        BY <4>1, <4>2, <4>3, Zenon DEF Xor, SymDiff
    <3>3. XorOn(Byte, Past(i - 1), DB(n)[i - 1]) =
            [k \in Byte |-> Xor(Past(i - 1)[k], DB(n)[i - 1][k])]
      BY Zenon DEF XorOn
    <3>. HIDE DEF Past
    <3>4. Past(i) = [k \in Byte |-> Past(i)[k]]
      BY Zenon DEF Past
    <3>. QED
      BY <2>5, <3>2, <3>3, <3>4, Zenon
  <2>. QED
    BY <2>4, <2>5, Zenon
<1>. HIDE DEF Past, Body
<1>3. \A i \in 0 .. NumBuckets : i # 0 => i \in 1 .. NumBuckets /\ i - 1 \in 0 .. NumBuckets
  BY <1>0
<1>4. Eqn([i \in 0 .. NumBuckets |-> Past(i)])
  BY <1>1, <1>2, <1>3, Zenon
<1>5. Eqn(response)
  BY <1>4, Zenon
<1>6. ReadOn(DB(n), req, Byte) = response[NumBuckets]
  BY Zenon DEF ReadOn, Body
<1>. HIDE DEF response
<1>. DEFINE S == {i \in 0 .. NumBuckets : response[i] = Past(i)}
<1>7. 0 \in S
  BY <1>0, <1>1, <1>5
<1>8. ASSUME NEW i \in 0 .. NumBuckets - 1, i \in S PROVE i + 1 \in S
  <2>1. i + 1 \in 1 .. NumBuckets /\ i + 1 \in 0 .. NumBuckets /\ i + 1 # 0 /\ (i + 1) - 1 = i
    BY <1>0
  <2>2. response[i + 1] = Body(response[i], i + 1)
    BY <1>5, <2>1, Zenon
  <2>3. Past(i + 1) = Body(Past(i), i + 1)
    BY <1>2, <2>1, Zenon
  <2>. QED
    BY <1>8, <2>1, <2>2, <2>3
<1>9. NumBuckets \in S
  <2>1. NumBuckets \in Nat /\ NumBuckets \in 0 .. NumBuckets
    BY <1>0
  <2>. HIDE DEF S
  <2>2. \A i \in 0 .. NumBuckets : i \in S
    BY <1>7, <1>8, <2>1, CountingUp, Zenon
  <2>. QED
    BY <2>1, <2>2, Zenon
<1>10. Past(NumBuckets) = Wanted(n, req)
  BY <1>0, Zenon DEF Past, Wanted
<1>. QED
  BY <1>6, <1>9, <1>10, Zenon

(* Every version of the CPU read XORs all bytes, as a bucket is whole words
   (shard_cpu.go:95-203, xor.go:36-79). *)
LEMMA ReadCPUIsWanted ==
  ASSUME NEW n, NEW req, NEW version \in {"read0", "read1", "read2"}
  PROVE  ReadCPU(version, DB(n), req) = Wanted(n, req)
<1>1. /\ BucketBytes \in Nat \ {0} /\ WordSize \in Nat \ {0}
      /\ (BucketBytes \div WordSize) * WordSize = BucketBytes /\ BucketBytes % WordSize = 0
  BY Sizing
<1>2. WordsOf(BucketBytes) = Byte /\ BytesOf(BucketBytes) = Byte
  BY <1>1 DEF WordsOf, BytesOf, Byte
<1>. QED
  BY <1>2, ReadOnIsWanted, Zenon DEF ReadCPU

-----------------------------------------------------------------------------
(* Answers. *)

(* All vectors of a query together are the bit of its bucket
   (pirclient/client.go:48-59). *)
LEMMA VectorsTogether ==
  ASSUME NEW bucket \in Bucket, NEW random \in [1 .. NumServers - 1 -> RandomBits]
  PROVE  \E joint : /\ joint[0] = {} /\ joint[NumServers] = {bucket}
                    /\ \A s \in Server :
                         joint[s] = Xor(joint[s - 1], GenerateRequestVectors(bucket, random)[s])
<1>. DEFINE n == NumServers - 1
            v == GenerateRequestVectors(bucket, random)
<1>0. n \in Nat \ {0} /\ NumServers = n + 1 /\ Server = 1 .. n + 1
  BY Sizing DEF Server
<1>1. PICK secret : /\ Masked(secret, bucket, random) /\ v[1] = secret[n]
                    /\ \A s \in 2 .. NumServers : v[s] = random[s - 1]
  BY VectorsAre, Zenon
<1>. HIDE DEF v, n
<1>. DEFINE joint == [s \in 0 .. NumServers |->
                        IF s = 0 THEN {} ELSE Xor(secret[n], Xor(secret[s - 1], {bucket}))]
<1>2. /\ joint[0] = {}
      /\ \A s \in Server : joint[s] = Xor(secret[n], Xor(secret[s - 1], {bucket}))
  BY <1>0
<1>. HIDE DEF joint
<1>3. joint[NumServers] = {bucket}
  <2>1. NumServers \in Server /\ NumServers - 1 = n
    BY <1>0
  <2>2. Xor(secret[n], Xor(secret[n], {bucket})) = {bucket}
    BY Zenon DEF Xor, SymDiff
  <2>. QED
    BY <1>2, <2>1, <2>2, Zenon
<1>4. ASSUME NEW s \in Server PROVE joint[s] = Xor(joint[s - 1], v[s])
  <2>1. CASE s = 1
    <3>1. secret[0] = {bucket} /\ s - 1 = 0
      BY <1>1, <2>1 DEF Masked
    <3>2. Xor(secret[n], Xor({bucket}, {bucket})) = Xor({}, secret[n])
      BY Zenon DEF Xor, SymDiff
    <3>. QED
      BY <1>1, <1>2, <2>1, <3>1, <3>2, Zenon
  <2>2. CASE s # 1
    <3>1. s - 1 \in 1 .. n /\ s - 1 \in Server /\ s \in 2 .. NumServers
      BY <1>0, <2>2
    <3>2. secret[s - 1] = Xor(secret[(s - 1) - 1], random[s - 1])
      BY <1>1, <3>1, Zenon DEF Masked, n
    <3>3. v[s] = random[s - 1]
      BY <1>1, <3>1, Zenon
    <3>4. joint[s - 1] = Xor(secret[n], Xor(secret[(s - 1) - 1], {bucket}))
      BY <1>2, <3>1, Zenon
    <3>6. Xor(secret[n], Xor(Xor(secret[(s - 1) - 1], random[s - 1]), {bucket})) =
            Xor(Xor(secret[n], Xor(secret[(s - 1) - 1], {bucket})), random[s - 1])
      BY XorRegroup
    <3>7. joint[s] = Xor(secret[n], Xor(secret[s - 1], {bucket}))
      BY <1>2, Zenon
    <3>. QED
      BY <3>2, <3>3, <3>4, <3>6, <3>7, Zenon
  <2>. QED
    BY <2>1, <2>2, Zenon
<1>. QED
  BY <1>2, <1>3, <1>4, Zenon DEF v

Pad(q, s, k) == <<"pad", <<q, s>>, k>>

(* sum[s] is what the frontend has once it combined s replies. *)
Summed(sum, q) ==
  /\ \A s \in 0 .. NumServers : sum[s] = [k \in Byte |-> sum[s][k]]
  /\ \A k \in Byte : sum[0][k] = {}
  /\ \A s \in Server, k \in Byte : sum[s][k] = Xor(sum[s - 1][k], replies[s][q][k])

(* Combine XORs one reply after the other into zeros (frontend.go:290-296). *)
LEMMA CombinedIsSum ==
  ASSUME NEW q
  PROVE  \E sum : Summed(sum, q) /\ Combined(q) = sum[NumServers]
<1>. DEFINE W == UNION {replies[s][q][k] : s \in Server, k \in Byte}
            X == [Byte -> SUBSET W]
            G == [p \in X \X (1 .. NumServers) |-> Combine(p[1], replies[p[2]][q])]
            Eqn(f) == f = [s \in 0 .. NumServers |->
                             IF s = 0 THEN Zeros ELSE Combine(f[s - 1], replies[s][q])]
            sum == CHOOSE f : Eqn(f)
<1>0. NumServers \in Nat \ {0} /\ Server = 1 .. NumServers
  BY Sizing DEF Server
<1>1. Zeros \in X
  BY DEF Zeros
<1>2. G \in [X \X (1 .. NumServers) -> X]
  <2>1. ASSUME NEW r \in X, NEW s \in Server PROVE Combine(r, replies[s][q]) \in X
    <3>1. ASSUME NEW k \in Byte PROVE Xor(r[k], replies[s][q][k]) \in SUBSET W
      BY <2>1 DEF Xor, SymDiff
    <3>. HIDE DEF W
    <3>. QED
      BY <3>1, Zenon DEF Combine, XorOn
  <2>. HIDE DEF X
  <2>. QED
    BY <1>0, <2>1, Zenon
<1>3. PICK f : Run(f, NumServers, X, Zeros, G)
  <2>. HIDE DEF X, G
  <2>. QED
    BY <1>0, <1>1, <1>2, LoopRuns, Zenon
<1>4. Eqn(f)
  <2>1. f \in [0 .. NumServers -> X] /\ f[0] = Zeros
    BY <1>3 DEF Run
  <2>2. ASSUME NEW s \in 1 .. NumServers PROVE f[s] = Combine(f[s - 1], replies[s][q])
    <3>1. f[s] = G[<<f[s - 1], s>>]
      <4>. HIDE DEF X, G
      <4>. QED
        BY <1>3, Zenon DEF Run
    <3>2. s - 1 \in 0 .. NumServers
      BY <1>0
    <3>. HIDE DEF X
    <3>3. <<f[s - 1], s>> \in X \X (1 .. NumServers)
      BY <2>1, <3>2, Zenon
    <3>. QED
      BY <3>1, <3>3, Zenon
  <2>3. \A s \in 0 .. NumServers : s # 0 => s \in 1 .. NumServers
    BY <1>0
  <2>. HIDE DEF X
  <2>. QED
    BY <2>1, <2>2, <2>3
<1>5. Eqn(sum)
  BY <1>4, Zenon
<1>6. Combined(q) = sum[NumServers]
  BY Zenon DEF Combined
<1>. HIDE DEF sum
<1>7. sum[0] = Zeros /\ \A s \in Server : sum[s] = Combine(sum[s - 1], replies[s][q])
  <2>1. 0 \in 0 .. NumServers /\ \A s \in Server : s \in 0 .. NumServers /\ s # 0
    BY <1>0
  <2>. QED
    BY <1>5, <2>1, Zenon
<1>8. Summed(sum, q)
  <2>1. \A s \in 0 .. NumServers : s = 0 \/ s \in Server
    BY <1>0
  <2>2. \A s \in 0 .. NumServers : sum[s] = [k \in Byte |-> sum[s][k]]
    BY <1>7, <2>1, ZenonT(40) DEF Zeros, Combine, XorOn
  <2>3. \A k \in Byte : sum[0][k] = {}
    BY <1>7, Zenon DEF Zeros
  <2>4. \A s \in Server, k \in Byte : sum[s][k] = Xor(sum[s - 1][k], replies[s][q][k])
    BY <1>7, Zenon DEF Combine, XorOn
  <2>. QED
    BY <2>2, <2>3, <2>4, Zenon DEF Summed
<1>. QED
  BY <1>6, <1>8, Zenon

PadsOf(q, k) == {Pad(q, s, k) : s \in Server}

OnBytes(data) == data = [k \in Byte |-> data[k]]

Bared(q, data) == [k \in Byte |-> Xor(data[k], PadsOf(q, k))]

(* retrieveResponse XORs the pads of all servers, each once
   (handle.go:175-186). *)
LEMMA StripRemovesPads ==
  ASSUME NEW q, NEW data, OnBytes(data)
  PROVE  Strip(q, data) = Bared(q, data)
<1>. DEFINE Pads(n, k) == {Pad(q, s, k) : s \in 1 .. n}
            Bare(n) == [k \in Byte |-> Xor(data[k], Pads(n, k))]
            Eqn(f) == f = [s \in 0 .. NumServers |->
                             IF s = 0 THEN data ELSE Overlay(<<q, s>>, f[s - 1])]
            bare == CHOOSE f : Eqn(f)
<1>0. NumServers \in Nat \ {0} /\ Server = 1 .. NumServers
  BY Sizing DEF Server
<1>1. Bare(0) = data
  <2>1. \A k \in Byte : Pads(0, k) = {}
    OBVIOUS
  <2>2. \A k \in Byte : Xor(data[k], Pads(0, k)) = data[k]
    BY <2>1, XorLaws, Zenon
  <2>. HIDE DEF Pads
  <2>. QED
    BY <2>2, Zenon DEF OnBytes
<1>2. ASSUME NEW s \in 1 .. NumServers PROVE Bare(s) = Overlay(<<q, s>>, Bare(s - 1))
  <2>1. \A t : t \in 1 .. s <=> t \in 1 .. s - 1 \/ t = s
    BY <1>0
  <2>2. s \notin 1 .. s - 1
    BY <1>0
  <2>3. ASSUME NEW k \in Byte
        PROVE  Xor(data[k], Pads(s, k)) = Xor(Xor(data[k], Pads(s - 1, k)), {<<"pad", <<q, s>>, k>>})
    <3>1. Pads(s, k) = Pads(s - 1, k) \cup {Pad(q, s, k)}
      BY <2>1, Zenon
    <3>2. Pad(q, s, k) \notin Pads(s - 1, k)
      BY <2>2, Zenon DEF Pad
    <3>. HIDE DEF Pads
    <3>. QED
      BY <3>1, <3>2, Zenon DEF Xor, SymDiff, Pad
  <2>. HIDE DEF Pads
  <2>. QED
    BY <2>3, Zenon DEF Overlay
<1>. HIDE DEF Bare
<1>3. \A s \in 0 .. NumServers : s # 0 => s \in 1 .. NumServers /\ s - 1 \in 0 .. NumServers
  BY <1>0
<1>4. Eqn([s \in 0 .. NumServers |-> Bare(s)])
  BY <1>1, <1>2, <1>3, Zenon
<1>5. Eqn(bare)
  BY <1>4, Zenon
<1>6. Strip(q, data) = bare[NumServers]
  BY Zenon DEF Strip
<1>. HIDE DEF bare
<1>. DEFINE S == {s \in 0 .. NumServers : bare[s] = Bare(s)}
<1>7. 0 \in S
  BY <1>0, <1>1, <1>5
<1>8. ASSUME NEW s \in 0 .. NumServers - 1, s \in S PROVE s + 1 \in S
  <2>1. s + 1 \in 1 .. NumServers /\ s + 1 \in 0 .. NumServers /\ s + 1 # 0 /\ (s + 1) - 1 = s
    BY <1>0
  <2>2. bare[s + 1] = Overlay(<<q, s + 1>>, bare[s])
    BY <1>5, <2>1, Zenon
  <2>3. Bare(s + 1) = Overlay(<<q, s + 1>>, Bare(s))
    BY <1>2, <2>1, Zenon
  <2>. QED
    BY <1>8, <2>1, <2>2, <2>3, Zenon
<1>9. NumServers \in S
  <2>1. NumServers \in Nat /\ NumServers \in 0 .. NumServers
    BY <1>0
  <2>. HIDE DEF S
  <2>2. \A s \in 0 .. NumServers : s \in S
    BY <1>7, <1>8, <2>1, CountingUp, Zenon
  <2>. QED
    BY <2>1, <2>2, Zenon
<1>. QED
  BY <1>0, <1>6, <1>9, Zenon DEF Bare, Bared, PadsOf

(* The stamps of bucket c among the terms of a byte. *)
Stamps(x, c, k) ==
  {v \in {Stamp(c, readFrom[s]) : s \in Server} : <<"db", <<c, v>>, k>> \in x}

(* Nothing is even, one is odd. *)
LEMMA NoneOne == 0 % 2 # 1 /\ 1 % 2 = 1
OBVIOUS

(* One more or less makes an odd number even and an even one odd. *)
LEMMA OddEven ==
  ASSUME NEW c \in Nat
  PROVE  (c + 1) % 2 # c % 2 /\ c % 2 \in {0, 1} /\ (c + 1) % 2 \in {0, 1}
OBVIOUS

(* A term more or less changes whether the stamps are odd in number. *)
LEMMA StampsToggle ==
  ASSUME NEW S, IsFiniteSet(S), NEW v
  PROVE  /\ IsFiniteSet(Xor(S, {v}))
         /\ Cardinality(Xor(S, {v})) % 2 # Cardinality(S) % 2
         /\ Cardinality(S) % 2 \in {0, 1}
         /\ Cardinality(Xor(S, {v})) % 2 \in {0, 1}
<1>. DEFINE m == Cardinality(S)
            x == Xor(S, {v})
            l == Cardinality(x)
<1>1. m \in Nat
  BY FS_CardinalityType, Zenon
<1>2. CASE v \in S
  <2>1. x = S \ {v}
    BY <1>2, Zenon DEF Xor, SymDiff
  <2>2. IsFiniteSet(x) /\ l = m - 1
    BY <1>2, <2>1, FS_RemoveElement, Zenon
  <2>3. l \in Nat
    BY <2>2, FS_CardinalityType, Zenon
  <2>. HIDE DEF m, x, l
  <2>4. m = l + 1
    BY <1>1, <2>2, <2>3
  <2>5. m % 2 # l % 2 /\ l % 2 \in {0, 1} /\ m % 2 \in {0, 1}
    BY <2>3, <2>4, OddEven, Zenon
  <2>. QED
    BY <2>2, <2>5, Zenon DEF m, x, l
<1>3. CASE v \notin S
  <2>1. x = S \cup {v}
    BY <1>3, Zenon DEF Xor, SymDiff
  <2>2. IsFiniteSet(x) /\ l = m + 1
    BY <1>3, <2>1, FS_AddElement, Zenon
  <2>. HIDE DEF m, x, l
  <2>3. l % 2 # m % 2 /\ m % 2 \in {0, 1} /\ l % 2 \in {0, 1}
    BY <1>1, <2>2, OddEven, Zenon
  <2>. QED
    BY <2>2, <2>3, Zenon DEF m, x, l
<1>. QED
  BY <1>2, <1>3, Zenon
(* A server's reply to query q is the answer it should give, padded. *)
Answered(q, s) == replies[s][q] = Overlay(<<q, s>>, Wanted(readFrom[s], Vectors(q)[s]))

(* The terms of a reply. *)
LEMMA ReplyTerms ==
  ASSUME NEW q, NEW s \in Server, Answered(q, s), NEW k \in Byte, NEW x
  PROVE  x \in replies[s][q][k] <=>
           \/ \E b \in Bucket : b \in Vectors(q)[s] /\ x = Term(b, readFrom[s], k)
           \/ x = Pad(q, s, k)
<1>. DEFINE T == {Term(b, readFrom[s], k) : b \in Bucket \cap Vectors(q)[s]}
<1>1. replies[s][q][k] = Xor(T, {Pad(q, s, k)})
  BY Zenon DEF Answered, Overlay, Wanted, Pad
<1>2. Pad(q, s, k) \notin T
  BY Zenon DEF Pad, Term
<1>3. x \in T <=> \E b \in Bucket : b \in Vectors(q)[s] /\ x = Term(b, readFrom[s], k)
  BY Zenon
<1>. HIDE DEF T
<1>. QED
  BY <1>1, <1>2, <1>3, Zenon DEF Xor, SymDiff

(* A reply adds or takes away the stamp of each bucket it selects. *)
LEMMA ReplyStamps ==
  ASSUME NEW q, NEW s \in Server, Answered(q, s), NEW k \in Byte, NEW a, NEW c \in Bucket
  PROVE  Stamps(Xor(a, replies[s][q][k]), c, k) =
           IF c \in Vectors(q)[s] THEN Xor(Stamps(a, c, k), {Stamp(c, readFrom[s])})
                                  ELSE Stamps(a, c, k)
<1>. DEFINE M == replies[s][q][k]
            d(v) == <<"db", <<c, v>>, k>>
            V == Vectors(q)[s]
            w == Stamp(c, readFrom[s])
<1>1. ASSUME NEW v PROVE d(v) \in M <=> c \in V /\ v = w
  <2>1. d(v) # Pad(q, s, k)
    BY Zenon DEF Pad
  <2>2. \A b : d(v) = Term(b, readFrom[s], k) <=> b = c /\ v = w
    BY Zenon DEF Term
  <2>3. d(v) \in M <=> \/ \E b \in Bucket : b \in V /\ d(v) = Term(b, readFrom[s], k)
                       \/ d(v) = Pad(q, s, k)
    BY ReplyTerms
  <2>. HIDE DEF M, V, d, w
  <2>. QED
    BY <2>1, <2>2, <2>3, Zenon
<1>2. \A x : x \in Xor(a, M) <=> (x \in a /\ x \notin M) \/ (x \notin a /\ x \in M)
  BY Zenon DEF Xor, SymDiff
<1>3. w \in {Stamp(c, readFrom[t]) : t \in Server}
  BY Zenon
<1>. HIDE DEF M, V, w
<1>4. ASSUME NEW v PROVE
        v \in Stamps(Xor(a, M), c, k) <=>
          IF c \in V THEN v \in Xor(Stamps(a, c, k), {w}) ELSE v \in Stamps(a, c, k)
  <2>1. \A x : v \in Stamps(x, c, k) <=>
          v \in {Stamp(c, readFrom[t]) : t \in Server} /\ d(v) \in x
    BY Zenon DEF Stamps
  <2>. HIDE DEF d
  <2>. QED
    BY <1>1, <1>2, <1>3, <2>1, Zenon DEF Xor, SymDiff
<1>. QED
  BY <1>4, Zenon DEF M, V, w

(* What a client decodes when every reply is right: terms of the snapshots read,
   and an odd number of stamps of its own bucket only. *)
Decoded(q, r) ==
  /\ OnBytes(r)
  /\ \A k \in Byte : \A x \in r[k] : \E c \in Bucket, s \in Server : x = Term(c, readFrom[s], k)
  /\ \A k \in Byte, c \in Bucket :
       Cardinality(Stamps(r[k], c, k)) % 2 = 1 <=> c = batch[q].bucket

(* Combining and stripping right replies decodes (frontend.go:290-296,
   handle.go:175-186). *)
LEMMA RightRepliesDecode ==
  ASSUME QueriesInv, NEW q \in DOMAIN batch, \A s \in Server : Answered(q, s)
  PROVE  Decoded(q, Strip(q, Combined(q)))
<1>0. NumServers \in Nat \ {0} /\ Server = 1 .. NumServers
  BY Sizing DEF Server
<1>1. PICK joint : /\ joint[0] = {} /\ joint[NumServers] = {batch[q].bucket}
                   /\ \A s \in Server : joint[s] = Xor(joint[s - 1], Vectors(q)[s])
  <2>. DEFINE asked == batch[q].bucket
              masks == batch[q].random
  <2>1. asked \in Bucket /\ masks \in [1 .. NumServers - 1 -> RandomBits]
    BY QueryOf, Zenon
  <2>. HIDE DEF asked, masks
  <2>2. \E j : /\ j[0] = {} /\ j[NumServers] = {asked}
               /\ \A s \in Server : j[s] = Xor(j[s - 1], GenerateRequestVectors(asked, masks)[s])
    BY <2>1, VectorsTogether, Zenon
  <2>. QED
    BY <2>2, Zenon DEF Vectors, asked, masks
<1>2. PICK sum : Summed(sum, q) /\ Combined(q) = sum[NumServers]
  BY CombinedIsSum, Zenon
<1>. DEFINE Good(k, s) ==
       /\ \A x \in sum[s][k] : \/ \E c \in Bucket, t \in Server : x = Term(c, readFrom[t], k)
                               \/ \E t \in 1 .. s : x = Pad(q, t, k)
       /\ \A t \in 1 .. s : Pad(q, t, k) \in sum[s][k]
       /\ \A c \in Bucket :
            /\ IsFiniteSet(Stamps(sum[s][k], c, k))
            /\ Cardinality(Stamps(sum[s][k], c, k)) % 2 = 1 <=> c \in joint[s]
<1>3. ASSUME NEW k \in Byte PROVE Good(k, NumServers)
  <2>. DEFINE S == {s \in 0 .. NumServers : Good(k, s)}
  <2>1. 0 \in S
    <3>1. sum[0][k] = {} /\ joint[0] = {}
      BY <1>1, <1>2, Zenon DEF Summed
    <3>2. \A c \in Bucket : Stamps({}, c, k) = {}
      BY Zenon DEF Stamps
    <3>3. IsFiniteSet({}) /\ Cardinality({}) = 0 /\ 0 % 2 # 1
      BY FS_EmptySet
    <3>4. Good(k, 0)
      BY <3>1, <3>2, <3>3
    <3>. HIDE DEF Good
    <3>. QED
      BY <1>0, <3>4
  <2>2. ASSUME NEW p \in 0 .. NumServers - 1, p \in S PROVE p + 1 \in S
    <3>. DEFINE s == p + 1
                M == replies[s][q][k]
    <3>1. s \in Server /\ s \in 0 .. NumServers /\ s - 1 = p
      BY <1>0
    <3>2. sum[s][k] = Xor(sum[p][k], M) /\ joint[s] = Xor(joint[p], Vectors(q)[s])
      BY <1>1, <1>2, <3>1 DEF Summed
    <3>3. Good(k, p)
      BY <2>2, Zenon
    <3>4. Answered(q, s)
      BY <3>1, Zenon
    <3>5. \A t : t \in 1 .. s <=> t \in 1 .. p \/ t = s
      BY <1>0
    <3>6. s \notin 1 .. p
      BY <1>0
    <3>. HIDE DEF s
    <3>7. \A x : x \in M <=> \/ \E b \in Bucket : b \in Vectors(q)[s] /\ x = Term(b, readFrom[s], k)
                             \/ x = Pad(q, s, k)
      BY <3>1, <3>4, ReplyTerms
    <3>8. \A x : x \in sum[s][k] <=> (x \in sum[p][k] /\ x \notin M) \/ (x \notin sum[p][k] /\ x \in M)
      BY <3>2 DEF Xor, SymDiff
    <3>9. \A t, u, b, n : Pad(q, t, k) # Term(b, n, k) /\ (Pad(q, t, k) = Pad(q, u, k) => t = u)
      BY Zenon DEF Pad, Term
    <3>. HIDE DEF M
    <3>10. \A x \in sum[s][k] : \/ \E c \in Bucket, t \in Server : x = Term(c, readFrom[t], k)
                                \/ \E t \in 1 .. s : x = Pad(q, t, k)
      BY <3>1, <3>3, <3>5, <3>7, <3>8
    <3>11. Pad(q, s, k) \notin sum[p][k]
      BY <3>3, <3>6, <3>9
    <3>12. ASSUME NEW t \in 1 .. s PROVE Pad(q, t, k) \in sum[s][k]
      <4>1. CASE t = s
        BY <3>7, <3>8, <3>11, <4>1
      <4>2. CASE t # s
        <5>1. Pad(q, t, k) \in sum[p][k]
          BY <3>3, <3>5, <4>2, Zenon
        <5>2. Pad(q, t, k) \notin M
          BY <3>7, <3>9, <4>2
        <5>. QED
          BY <3>8, <5>1, <5>2, Zenon
      <4>. QED
        BY <4>1, <4>2, Zenon
    <3>13. ASSUME NEW c \in Bucket
           PROVE  /\ IsFiniteSet(Stamps(sum[s][k], c, k))
                  /\ Cardinality(Stamps(sum[s][k], c, k)) % 2 = 1 <=> c \in joint[s]
      <4>. DEFINE old == Stamps(sum[p][k], c, k)
                  new == Stamps(sum[s][k], c, k)
                  w == Stamp(c, readFrom[s])
      <4>1. new = IF c \in Vectors(q)[s] THEN Xor(old, {w}) ELSE old
        BY <3>1, <3>2, <3>4, ReplyStamps DEF M
      <4>2. IsFiniteSet(old) /\ (Cardinality(old) % 2 = 1 <=> c \in joint[p])
        BY <3>3, Zenon
      <4>3. c \in joint[s] <=> (c \in joint[p] /\ c \notin Vectors(q)[s]) \/
                               (c \notin joint[p] /\ c \in Vectors(q)[s])
        BY <3>2, Zenon DEF Xor, SymDiff
      <4>. HIDE DEF old, new, w
      <4>4. CASE c \in Vectors(q)[s]
        <5>1. /\ IsFiniteSet(new) /\ Cardinality(new) % 2 # Cardinality(old) % 2
              /\ Cardinality(old) % 2 \in {0, 1} /\ Cardinality(new) % 2 \in {0, 1}
          BY <4>1, <4>2, <4>4, StampsToggle, Zenon
        <5>. QED
          BY <4>2, <4>3, <4>4, <5>1 DEF new
      <4>5. CASE c \notin Vectors(q)[s]
        BY <4>1, <4>2, <4>3, <4>5, Zenon DEF new
      <4>. QED
        BY <4>4, <4>5, Zenon
    <3>14. Good(k, s)
      BY <3>10, <3>12, <3>13, Zenon
    <3>. HIDE DEF Good
    <3>. QED
      BY <3>1, <3>14, Zenon DEF s
  <2>3. NumServers \in S
    <3>1. NumServers \in Nat /\ NumServers \in 0 .. NumServers
      BY <1>0
    <3>. HIDE DEF S
    <3>2. \A p \in 0 .. NumServers : p \in S
      BY <2>1, <2>2, <3>1, CountingUp, Zenon
    <3>. QED
      BY <3>1, <3>2, Zenon
  <2>. QED
    BY <2>3, Zenon
<1>. DEFINE data == sum[NumServers]
            r == Strip(q, data)
            Pads(k) == PadsOf(q, k)
<1>4. OnBytes(data)
  BY <1>0, <1>2 DEF Summed, OnBytes
<1>5. r = [k \in Byte |-> Xor(data[k], Pads(k))]
  <2>. HIDE DEF data
  <2>. QED
    BY <1>4, StripRemovesPads, Zenon DEF Bared
<1>. HIDE DEF r
<1>6. OnBytes(r)
  BY <1>5, Zenon DEF OnBytes
<1>7. ASSUME NEW k \in Byte PROVE
        /\ \A x \in r[k] : \E c \in Bucket, s \in Server : x = Term(c, readFrom[s], k)
        /\ \A c \in Bucket : Cardinality(Stamps(r[k], c, k)) % 2 = 1 <=> c = batch[q].bucket
  <2>1. Good(k, NumServers)
    BY <1>3, Zenon
  <2>2. \A x : x \in r[k] <=> x \in data[k] /\ x \notin Pads(k)
    <3>1. r[k] = Xor(data[k], Pads(k))
      BY <1>5, Zenon
    <3>2. \A x \in Pads(k) : x \in data[k]
      BY <1>0, <2>1, Zenon DEF PadsOf
    <3>. HIDE DEF data, Pads
    <3>. QED
      BY <3>1, <3>2, Zenon DEF Xor, SymDiff
  <2>3. \A x \in r[k] : \E c \in Bucket, s \in Server : x = Term(c, readFrom[s], k)
    BY <1>0, <2>1, <2>2, Zenon DEF PadsOf
  <2>4. ASSUME NEW c \in Bucket
        PROVE  Cardinality(Stamps(r[k], c, k)) % 2 = 1 <=> c = batch[q].bucket
    <3>1. \A v : <<"db", <<c, v>>, k>> \notin Pads(k)
      BY Zenon DEF Pad, PadsOf
    <3>. HIDE DEF Pads
    <3>2. Stamps(r[k], c, k) = Stamps(data[k], c, k)
      BY <2>2, <3>1, Zenon DEF Stamps
    <3>3. Cardinality(Stamps(data[k], c, k)) % 2 = 1 <=> c \in joint[NumServers]
      BY <2>1, Zenon
    <3>. QED
      BY <1>1, <3>2, <3>3, Zenon
  <2>. QED
    BY <2>3, <2>4, Zenon
<1>8. Strip(q, Combined(q)) = r
  BY <1>2, Zenon DEF r
<1>. QED
  BY <1>6, <1>7, <1>8, Zenon DEF Decoded

-----------------------------------------------------------------------------
(* Kernels. *)

(* The terms of word w for those buckets of B that a request selects, in a copy
   of the table; and request i in the copy that is read. *)
PartAt(n, req, w, B) == {Term(b, n, w) : b \in B \cap req}
Part(i, w, B) == PartAt(snapshot[server], PirVector(server)[i], w, B)

(* The cell of word w of response i. *)
Cell(i, w) == Output((i - 1) * BucketWords + w)

Request == 1 .. ReadBatch
WordIndex == 0 .. BucketWords - 1

(* The buckets whose word w has been XORed by a kernel with a thread for each
   word of the database. *)
Done(w) == {b \in Bucket : phase[b * BucketWords + w] = 2}

(* The thread of a group that has word o of a buffer. *)
Worker(i, o) == (i - 1) * Local("cl0") + (o % Local("cl0"))

(* A group's scratch is zeroed before it is added to, and added to before it is
   stored. *)
InvCL0 ==
  \A i \in Request, w \in WordIndex :
    /\ phase[Worker(i, w)] >= 1 =>
         memory[Scratch(i - 1, w)] =
           Part(i, w, {b \in Bucket : phase[Worker(i, b * BucketWords + w)] >= 2})
    /\ phase[Worker(i, w)] = 3 => memory[Cell(i, w)] = Part(i, w, Bucket)

InvCL1 ==
  \A i \in Request, w \in WordIndex :
    phase[(i - 1) * BucketWords + w] = 1 => memory[Cell(i, w)] = Part(i, w, Bucket)

(* A word of the output that has been zeroed holds what has been XORed. *)
InvCL2 ==
  \A i \in Request, w \in WordIndex, g \in Threads("cl2") :
    Cell(i, w) \in Zeroed("cl2", g) /\ phase[g] >= 1 => memory[Cell(i, w)] = Part(i, w, Done(w))

(* Threads beyond the database have returned. *)
InvCUDA ==
  /\ \A g \in Threads("cuda") : g >= GlobalSize("cuda") => phase[g] = 2
  /\ \A i \in Request, w \in WordIndex : memory[Cell(i, w)] = Part(i, w, Done(w))

(* Threads of a group are at most a barrier apart. *)
InStep(k) ==
  \A g, t \in Threads(k) :
    g < GlobalSize(k) /\ Group(k, t) = Group(k, g) => phase[t] >= phase[g] - 1

(* The kernel's memory. *)
OnCells(k) == memory = [c \in Cells(k) |-> memory[c]]

(* What a thread does next. *)
Operation(k, g) == Program(k)[phase[g] + 1]

(* A kernel that runs. *)
KernelInv ==
  /\ backend \in Backends /\ snapshot = [s \in Server |-> snapshot[s]]
  /\ phase # <<>> =>
       /\ server \in Server /\ IsKernel(backend[server])
       /\ phase \in [Threads(backend[server]) -> 0 .. Len(Program(backend[server]))]
       /\ OnCells(backend[server])
       /\ InStep(backend[server])
       /\ backend[server] = "cl0" => InvCL0
       /\ backend[server] = "cl1" => InvCL1
       /\ backend[server] = "cl2" => InvCL2
       /\ backend[server] = "cuda" => InvCUDA

(* Where KernelCL2 runs, it runs in one group: its barrier does not hold groups
   together (kernel_cl.go:112-147). *)
OneGroup ==
  \A b \in Backends, s \in Server : b[s] = "cl2" => GlobalSize("cl2") <= GroupSize("cl2")

(* Row and column of a position in a grid of rows of d. *)
LEMMA Divided ==
  ASSUME NEW x \in Nat, NEW d \in Nat \ {0}
  PROVE  /\ x \div d \in Nat /\ x % d \in 0 .. d - 1
         /\ x = (x \div d) * d + (x % d)
OBVIOUS

(* Row and column determine the place of a cell in memory laid out row by row. *)
LEMMA Quotient ==
  ASSUME NEW d \in Nat \ {0}, NEW a \in Nat, NEW c \in Nat, NEW v \in 0 .. d - 1, NEW w \in 0 .. d - 1,
         a * d + v = c * d + w
  PROVE  a = c /\ v = w
<1>1. CASE a < c
  <2>1. (a + 1) * d <= c * d
    BY <1>1
  <2>. QED
    BY <2>1
<1>2. CASE c < a
  <2>1. (c + 1) * d <= a * d
    BY <1>2
  <2>. QED
    BY <2>1
<1>. QED
  BY <1>1, <1>2

(* The place of a cell gives its row and column back, as the kernels compute
   them (kernel_cl.go:67-73). *)
LEMMA Composed ==
  ASSUME NEW d \in Nat \ {0}, NEW a \in Nat, NEW w \in 0 .. d - 1
  PROVE  a * d + w \in Nat /\ (a * d + w) \div d = a /\ (a * d + w) % d = w
<1>. DEFINE x == a * d + w
<1>1. x \in Nat
  OBVIOUS
<1>. HIDE DEF x
<1>2. x \div d \in Nat /\ x % d \in 0 .. d - 1 /\ x = (x \div d) * d + (x % d)
  BY <1>1, Divided, Zenon
<1>3. (x \div d) * d + (x % d) = a * d + w
  BY <1>2, Zenon DEF x
<1>4. x \div d = a /\ x % d = w
  BY <1>2, <1>3, Quotient, ZenonT(40)
<1>. QED
  BY <1>1, <1>4, Zenon DEF x

(* The cells of m rows of d fill the first m * d places. *)
LEMMA InGrid ==
  ASSUME NEW d \in Nat \ {0}, NEW m \in Nat
  PROVE  /\ \A a \in 0 .. m - 1, w \in 0 .. d - 1 : a * d + w \in 0 .. m * d - 1
         /\ \A x \in 0 .. m * d - 1 : x \div d \in 0 .. m - 1
<1>1. ASSUME NEW a \in 0 .. m - 1, NEW w \in 0 .. d - 1 PROVE a * d + w \in 0 .. m * d - 1
  <2>1. (a + 1) * d <= m * d /\ (a + 1) * d = a * d + d /\ a * d \in Nat /\ m * d \in Nat
    OBVIOUS
  <2>. QED
    BY <2>1
<1>2. ASSUME NEW x \in 0 .. m * d - 1 PROVE x \div d \in 0 .. m - 1
  <2>0. m * d \in Nat /\ x \in Nat
    OBVIOUS
  <2>1. x \div d \in Nat /\ x % d \in 0 .. d - 1 /\ x = (x \div d) * d + (x % d)
    BY <2>0, Divided, Zenon
  <2>2. CASE x \div d >= m
    <3>1. (x \div d) * d >= m * d
      BY <2>1, <2>2
    <3>. QED
      BY <2>0, <2>1, <3>1
  <2>. QED
    BY <2>1, <2>2
<1>. QED
  BY <1>1, <1>2, Zenon

(* Sizes. *)
LEMMA WordSizes ==
  /\ BucketWords \in Nat \ {0} /\ WordSize \in Nat \ {0} /\ ReadBatch \in Nat \ {0}
  /\ NumBuckets \in Nat \ {0} /\ BucketBytes = BucketWords * WordSize
  /\ OutputWords \in Nat \ {0} /\ OutputWords = ReadBatch * BucketWords
  /\ Bucket = 0 .. NumBuckets - 1 /\ Byte = 0 .. BucketBytes - 1
<1>1. /\ WordSize \in Nat \ {0} /\ BucketBytes \in Nat \ {0} /\ BucketBytes % WordSize = 0
      /\ ReadBatch \in Nat \ {0} /\ NumBuckets \in Nat \ {0}
  BY Sizing, PirReadParams, Zenon
<1>2. BucketWords \in Nat /\ BucketBytes = BucketWords * WordSize
  BY <1>1, Divided DEF BucketWords
<1>3. BucketWords # 0
  BY <1>1, <1>2
<1>4. OutputWords \in Nat \ {0}
  BY <1>1, <1>2, <1>3 DEF OutputWords
<1>. QED
  BY <1>1, <1>2, <1>3, <1>4 DEF OutputWords, Bucket, Byte

(* A word of the database is one term. *)
LEMMA WordIs ==
  ASSUME NEW b \in Bucket, NEW w \in WordIndex
  PROVE  Word(server, b, w) = {Term(b, snapshot[server], w)}
<1>1. w * WordSize \in Byte
  <2>1. w * WordSize + 0 \in 0 .. BucketWords * WordSize - 1
    BY WordSizes, InGrid DEF WordIndex
  <2>2. w * WordSize \in Nat
    BY WordSizes DEF WordIndex
  <2>. QED
    BY <2>1, <2>2, WordSizes
<1>2. DB(snapshot[server])[b][w * WordSize] = {Term(b, snapshot[server], w * WordSize)}
  BY <1>1, Zenon DEF DB, Term, Stamp
<1>. QED
  BY <1>2 DEF Word, Term

(* Positions in the output. *)
LEMMA OutputPlaces ==
  /\ \A i \in Request, w \in WordIndex :
       /\ (i - 1) * BucketWords + w \in 0 .. OutputWords - 1
       /\ ((i - 1) * BucketWords + w) % BucketWords = w
       /\ ((i - 1) * BucketWords + w) \div BucketWords = i - 1
  /\ \A i, j \in Request, v, w \in WordIndex : Cell(i, v) = Cell(j, w) => i = j /\ v = w
<1>1. ASSUME NEW i \in Request, NEW w \in WordIndex
      PROVE  /\ (i - 1) * BucketWords + w \in 0 .. OutputWords - 1
             /\ ((i - 1) * BucketWords + w) % BucketWords = w
             /\ ((i - 1) * BucketWords + w) \div BucketWords = i - 1
  <2>1. i - 1 \in 0 .. ReadBatch - 1 /\ i - 1 \in Nat
    BY WordSizes DEF Request
  <2>2. (i - 1) * BucketWords + w \in 0 .. ReadBatch * BucketWords - 1
    BY <2>1, WordSizes, InGrid, Zenon DEF WordIndex
  <2>. QED
    BY <2>1, <2>2, WordSizes, Composed, Zenon DEF WordIndex
<1>2. ASSUME NEW i \in Request, NEW j \in Request, NEW v \in WordIndex, NEW w \in WordIndex,
             Cell(i, v) = Cell(j, w)
      PROVE  i = j /\ v = w
  <2>. DEFINE a == i - 1
              c == j - 1
  <2>1. a \in Nat /\ c \in Nat
    BY WordSizes DEF Request
  <2>2. a * BucketWords + v = c * BucketWords + w
    BY <1>2, Zenon DEF Cell, Output
  <2>. HIDE DEF a, c
  <2>3. a = c /\ v = w
    BY <2>1, <2>2, WordSizes, Quotient DEF WordIndex
  <2>. QED
    BY <2>3, WordSizes DEF Request, a, c
<1>. QED
  BY <1>1, <1>2, Zenon

(* Positions in the database. *)
LEMMA TablePlaces ==
  /\ \A b \in Bucket, w \in WordIndex :
       /\ b * BucketWords + w \in 0 .. NumBuckets * BucketWords - 1
       /\ (b * BucketWords + w) % BucketWords = w
       /\ (b * BucketWords + w) \div BucketWords = b
  /\ \A o \in 0 .. NumBuckets * BucketWords - 1 :
       /\ o \div BucketWords \in Bucket /\ o % BucketWords \in WordIndex
       /\ o = (o \div BucketWords) * BucketWords + (o % BucketWords)
<1>1. ASSUME NEW b \in Bucket, NEW w \in WordIndex
      PROVE  /\ b * BucketWords + w \in 0 .. NumBuckets * BucketWords - 1
             /\ (b * BucketWords + w) % BucketWords = w
             /\ (b * BucketWords + w) \div BucketWords = b
  <2>1. b \in 0 .. NumBuckets - 1 /\ b \in Nat
    BY WordSizes
  <2>2. b * BucketWords + w \in 0 .. NumBuckets * BucketWords - 1
    BY <2>1, WordSizes, InGrid, Zenon DEF WordIndex
  <2>. QED
    BY <2>1, <2>2, WordSizes, Composed DEF WordIndex
<1>2. ASSUME NEW o \in 0 .. NumBuckets * BucketWords - 1
      PROVE  /\ o \div BucketWords \in Bucket /\ o % BucketWords \in WordIndex
             /\ o = (o \div BucketWords) * BucketWords + (o % BucketWords)
  <2>1. o \in Nat
    BY WordSizes
  <2>2. o \div BucketWords \in 0 .. NumBuckets - 1
    BY WordSizes, InGrid, Zenon
  <2>. QED
    BY <2>1, <2>2, WordSizes, Divided DEF WordIndex
<1>. QED
  BY <1>1, <1>2, Zenon

(* Parts for different buckets XORed are the part for all of them. *)
LEMMA PartsJoin ==
  ASSUME NEW i, NEW w, NEW A, NEW B, A \cap B = {}
  PROVE  Xor(Part(i, w, A), Part(i, w, B)) = Part(i, w, A \cup B)
<1>1. \A a, b : Term(a, snapshot[server], w) = Term(b, snapshot[server], w) => a = b
  BY DEF Term
<1>2. \A x : x \in Xor(Part(i, w, A), Part(i, w, B)) <=>
              (x \in Part(i, w, A) /\ x \notin Part(i, w, B)) \/ (x \in Part(i, w, B) /\ x \notin Part(i, w, A))
  BY XorMember
<1>3. \A x, C : x \in Part(i, w, C) <=>
         \E b \in C \cap PirVector(server)[i] : x = Term(b, snapshot[server], w)
  BY DEF Part, PartAt
<1>4. ASSUME NEW x
      PROVE  x \in Xor(Part(i, w, A), Part(i, w, B)) <=> x \in Part(i, w, A \cup B)
  <2>. HIDE DEF Part
  <2>1. ~ (x \in Part(i, w, A) /\ x \in Part(i, w, B))
    BY <1>1, <1>3
  <2>2. x \in Part(i, w, A \cup B) <=> x \in Part(i, w, A) \/ x \in Part(i, w, B)
    BY <1>3
  <2>. QED
    BY <1>2, <2>1, <2>2, Zenon
<1>. QED
  BY SMTT(20), <1>4

(* Groups and threads of KernelCL0: a group for each request. *)
LEMMA Workers ==
  /\ Local("cl0") \in Nat \ {0} /\ GlobalSize("cl0") \in Nat
  /\ Threads("cl0") = 0 .. GlobalSize("cl0") - 1
  /\ \A i \in Request, o \in Nat :
       /\ Worker(i, o) \in Threads("cl0") /\ Group("cl0", Worker(i, o)) = i - 1
       /\ Worker(i, o) % Local("cl0") = o % Local("cl0")
  /\ \A g \in Threads("cl0") :
       /\ Group("cl0", g) \in Nat /\ Group("cl0", g) + 1 \in Request
       /\ \A i \in Request, o \in Nat :
            Worker(i, o) = g <=> i = Group("cl0", g) + 1 /\ o % Local("cl0") = g % Local("cl0")
<1>. DEFINE L == Local("cl0")
<1>1. /\ L \in Nat \ {0} /\ GlobalSize("cl0") = ReadBatch * L /\ ReadBatch * L \in Nat
      /\ Threads("cl0") = 0 .. ReadBatch * L - 1
  <2>1. GroupSize("cl0") \in Nat \ {0}
    BY PirReadParams, Zenon
  <2>2. GlobalSize("cl0") = ReadBatch * GroupSize("cl0")
    BY Zenon DEF GlobalSize
  <2>3. ReadBatch * GroupSize("cl0") >= GroupSize("cl0")
    BY <2>1, WordSizes
  <2>4. L = GroupSize("cl0")
    BY <2>1, <2>2, <2>3, WordSizes DEF Local
  <2>. QED
    BY <2>1, <2>2, <2>4, WordSizes DEF Threads
<1>. HIDE DEF L
<1>2. ASSUME NEW i \in Request, NEW o \in Nat
      PROVE  /\ Worker(i, o) \in Threads("cl0") /\ Worker(i, o) \div L = i - 1
             /\ Worker(i, o) % L = o % L
  <2>. DEFINE a == i - 1
              v == o % L
  <2>1. a \in 0 .. ReadBatch - 1 /\ a \in Nat /\ v \in 0 .. L - 1
    BY SMTT(20), <1>1, WordSizes, Divided DEF Request
  <2>2. Worker(i, o) = a * L + v
    BY Zenon DEF Worker, L
  <2>. HIDE DEF a, v
  <2>3. a * L + v \in 0 .. ReadBatch * L - 1
    BY <1>1, <2>1, InGrid, WordSizes, Zenon
  <2>4. (a * L + v) \div L = a /\ (a * L + v) % L = v
    BY <1>1, <2>1, Composed, Zenon
  <2>. QED
    BY <1>1, <2>2, <2>3, <2>4, Zenon DEF a, v
<1>3. ASSUME NEW g \in Threads("cl0")
      PROVE  /\ g \div L \in Nat /\ g \div L + 1 \in Request
             /\ \A i \in Request, o \in Nat :
                  Worker(i, o) = g <=> i = g \div L + 1 /\ o % L = g % L
  <2>1. g \in 0 .. ReadBatch * L - 1 /\ g \in Nat
    BY <1>1, WordSizes
  <2>2. g \div L \in 0 .. ReadBatch - 1
    BY <1>1, <2>1, InGrid, WordSizes, Zenon
  <2>3. g = (g \div L) * L + (g % L)
    BY <1>1, <2>1, Divided, Zenon
  <2>4. g \div L \in Nat /\ g \div L + 1 \in Request
    BY <2>2, WordSizes DEF Request
  <2>5. ASSUME NEW i \in Request, NEW o \in Nat, i = g \div L + 1, o % L = g % L
        PROVE  Worker(i, o) = g
    <3>1. i - 1 = g \div L
      BY <2>2, <2>5, WordSizes
    <3>. QED
      BY <2>3, <2>5, <3>1 DEF Worker, L
  <2>6. ASSUME NEW i \in Request, NEW o \in Nat, Worker(i, o) = g
        PROVE  i = g \div L + 1 /\ o % L = g % L
    <3>1. g \div L = i - 1 /\ g % L = o % L
      BY <1>2, <2>6, Zenon
    <3>. QED
      BY <3>1, WordSizes DEF Request
  <2>. QED
    BY <2>4, <2>5, <2>6
<1>. QED
  BY <1>1, <1>2, <1>3, Zenon DEF L, Group

(* A thread of KernelCL0 adds its share of the table to the scratch of its group
   (kernel_cl.go:62-77). *)
LEMMA AddedCL0 ==
  ASSUME NEW g \in Threads("cl0")
  PROVE  /\ \A i \in Request, w \in WordIndex :
              Accumulated("cl0", g, Scratch(i - 1, w)) =
                Part(i, w, {b \in Bucket : Worker(i, b * BucketWords + w) = g})
         /\ \A n : Accumulated("cl0", g, Output(n)) = {}
<1>. DEFINE r == Group("cl0", g)
            req == PirVector(server)
            Mine(c) == {o \in Strided("cl0", g, NumBuckets * BucketWords) :
                          o \div BucketWords \in req[r + 1] /\ c = Scratch(r, o % BucketWords)}
            word(o) == Word(server, o \div BucketWords, o % BucketWords)
<1>1. \A c : Accumulated("cl0", g, c) = UNION {word(o) : o \in Mine(c)}
  BY Zenon DEF Accumulated
<1>2. \A n, o : Output(n) # Scratch(r, o)
  BY Zenon DEF Output, Scratch
<1>3. ASSUME NEW i \in Request, NEW w \in WordIndex
      PROVE  Accumulated("cl0", g, Scratch(i - 1, w)) =
               Part(i, w, {b \in Bucket : Worker(i, b * BucketWords + w) = g})
  <2>. DEFINE c == Scratch(i - 1, w)
              B == {b \in Bucket : Worker(i, b * BucketWords + w) = g}
  <2>0. r \in Nat /\ r + 1 \in Request
    BY Workers, Zenon
  <2>1. r + 1 \in Request /\ (r = i - 1 <=> i = r + 1)
    <3>. HIDE DEF r
    <3>. QED
      BY <2>0, WordSizes DEF Request
  <2>2. ASSUME NEW b \in B \cap req[i]
        PROVE  b * BucketWords + w \in Mine(c) /\ word(b * BucketWords + w) = {Term(b, snapshot[server], w)}
    <3>1. /\ b * BucketWords + w \in 0 .. NumBuckets * BucketWords - 1
          /\ (b * BucketWords + w) % BucketWords = w
          /\ (b * BucketWords + w) \div BucketWords = b
          /\ b * BucketWords + w \in Nat
      <4>1. b \in Bucket
        BY Zenon
      <4>2. /\ b * BucketWords + w \in 0 .. NumBuckets * BucketWords - 1
            /\ (b * BucketWords + w) % BucketWords = w
            /\ (b * BucketWords + w) \div BucketWords = b
        BY <4>1, TablePlaces, Zenon
      <4>. QED
        BY <4>2
    <3>2. i = r + 1 /\ (b * BucketWords + w) % Local("cl0") = g % Local("cl0")
      BY <3>1, Workers
    <3>3. b * BucketWords + w \in Mine(c)
      BY <2>1, <3>1, <3>2 DEF Strided
    <3>. QED
      BY <3>1, <3>3, WordIs
  <2>3. ASSUME NEW o \in Mine(c)
        PROVE  \E b \in B \cap req[i] : word(o) = {Term(b, snapshot[server], w)}
    <3>1. /\ o \in 0 .. NumBuckets * BucketWords - 1 /\ o % Local("cl0") = g % Local("cl0")
          /\ o \div BucketWords \in req[r + 1] /\ r = i - 1 /\ w = o % BucketWords
      BY Zenon DEF Strided, Scratch
    <3>2. /\ o \div BucketWords \in Bucket
          /\ o = (o \div BucketWords) * BucketWords + w /\ o \in Nat
      BY <3>1, TablePlaces
    <3>3. Worker(i, o) = g
      BY <2>1, <3>1, <3>2, Workers
    <3>4. o \div BucketWords \in B \cap req[i]
      BY <2>1, <3>1, <3>2, <3>3, Zenon
    <3>5. word(o) = {Term(o \div BucketWords, snapshot[server], w)}
      BY <3>1, <3>2, WordIs, Zenon
    <3>. QED
      BY <3>4, <3>5
  <2>. HIDE DEF Mine, word, B, c
  <2>4. UNION {word(o) : o \in Mine(c)} = Part(i, w, B)
    BY <2>2, <2>3 DEF Part, PartAt
  <2>. QED
    BY <1>1, <2>4, Zenon DEF B, c
<1>4. ASSUME NEW n PROVE Accumulated("cl0", g, Output(n)) = {}
  <2>1. Mine(Output(n)) = {}
    BY <1>2, Zenon
  <2>. HIDE DEF Mine, word
  <2>. QED
    BY <1>1, <2>1
<1>. QED
  BY <1>3, <1>4

(* A thread of KernelCL1 has all terms of its word (kernel_cl.go:98-108). *)
LEMMA AddedCL1 ==
  ASSUME NEW i \in Request, NEW w \in WordIndex
  PROVE  Accumulated("cl1", (i - 1) * BucketWords + w, Cell(i, w)) = Part(i, w, Bucket)
<1>. DEFINE g == (i - 1) * BucketWords + w
            req == PirVector(server)
<1>1. g % BucketWords = w /\ g \div BucketWords = i - 1 /\ g \div BucketWords + 1 = i
  BY OutputPlaces, WordSizes DEF Request
<1>2. Cell(i, w) = Output(g)
  BY Zenon DEF Cell
<1>. HIDE DEF g
<1>3. Accumulated("cl1", g, Output(g)) = UNION {Word(server, b, w) : b \in Bucket \cap req[i]}
  BY <1>1 DEF Accumulated
<1>4. \A b \in Bucket : Word(server, b, w) = {Term(b, snapshot[server], w)}
  BY WordIs, Zenon
<1>. QED
  BY <1>2, <1>3, <1>4 DEF g, Part, PartAt

(* A thread of KernelCL2 or of the CUDA kernel adds its word of the table to every
   request that selects it (kernel_cl.go:136-145, kernel.cu:44-56). *)
LEMMA AddedWord ==
  ASSUME NEW k \in {"cl2", "cuda"}, NEW g \in 0 .. NumBuckets * BucketWords - 1,
         NEW i \in Request, NEW w \in WordIndex
  PROVE  Accumulated(k, g, Cell(i, w)) = Part(i, w, {b \in Bucket : b * BucketWords + w = g})
<1>. DEFINE req == PirVector(server)
            a == g \div BucketWords
            v == g % BucketWords
            B == {b \in Bucket : b * BucketWords + w = g}
            J == {j \in Request : a \in req[j] /\ Cell(i, w) = Cell(j, v)}
<1>1. a \in Bucket /\ v \in WordIndex /\ g = a * BucketWords + v
  BY TablePlaces, Zenon
<1>2. Word(server, a, v) = {Term(a, snapshot[server], v)}
  BY <1>1, WordIs
<1>3. Accumulated(k, g, Cell(i, w)) = UNION {Word(server, a, v) : j \in J}
  BY Zenon DEF Accumulated, Cell, Request
<1>4. J = IF a \in req[i] /\ w = v THEN {i} ELSE {}
  BY <1>1, OutputPlaces
<1>5. B = IF w = v THEN {a} ELSE {}
  BY <1>1, TablePlaces
<1>. HIDE DEF a, v, B, J
<1>6. UNION {Word(server, a, v) : j \in J} = Part(i, w, B)
  BY <1>2, <1>4, <1>5 DEF Part, PartAt
<1>. QED
  BY <1>3, <1>6, Zenon DEF B

(* What a thread does between two barriers: it moves on by one, nobody in its
   group falls further behind, and its writes are those of its operation. *)
LEMMA ThreadRuns ==
  ASSUME NEW k \in {"cl0", "cl1", "cl2", "cuda"}, NEW g \in Threads(k),
         phase \in [Threads(k) -> 0 .. Len(Program(k))],
         OnCells(k), InStep(k), RunThread(k, g)
  PROVE  /\ phase[g] \in 0 .. Len(Program(k)) - 1 /\ phase'[g] = phase[g] + 1
         /\ \A t \in Threads(k) : t # g => phase'[t] = phase[t]
         /\ phase' \in [Threads(k) -> 0 .. Len(Program(k))]
         /\ OnCells(k)' /\ InStep(k)'
         /\ \A t \in Threads(k) : Group(k, t) = Group(k, g) => phase[t] >= phase[g]
<1>1. Len(Program(k)) \in Nat
  BY DEF Program
<1>2. /\ phase[g] < Len(Program(k)) /\ Barrier(k, g)
      /\ phase' = [phase EXCEPT ![g] = @ + 1]
      /\ DOMAIN memory' = DOMAIN memory /\ memory' = [c \in DOMAIN memory |-> memory'[c]]
  BY DEF RunThread
<1>3. /\ phase[g] \in 0 .. Len(Program(k)) - 1 /\ phase'[g] = phase[g] + 1
      /\ \A t \in Threads(k) : t # g => phase'[t] = phase[t]
      /\ phase' \in [Threads(k) -> 0 .. Len(Program(k))]
  BY <1>1, <1>2
<1>4. OnCells(k)'
  BY <1>2, Zenon DEF OnCells
<1>5. \A t \in Threads(k) : Group(k, t) = Group(k, g) => phase[t] >= phase[g]
  BY <1>2 DEF Barrier
<1>6. ASSUME NEW a \in Threads(k), NEW t \in Threads(k), a < GlobalSize(k), Group(k, t) = Group(k, a)
      PROVE  phase'[t] >= phase'[a] - 1
  <2>1. phase[t] \in Nat /\ phase[a] \in Nat /\ phase'[t] >= phase[t]
    BY <1>3
  <2>2. CASE a = g
    BY <1>3, <1>5, <1>6, <2>1, <2>2
  <2>3. CASE a # g
    BY <1>3, <1>6, <2>1, <2>3 DEF InStep
  <2>. QED
    BY <2>2, <2>3
<1>7. InStep(k)'
  BY <1>6 DEF InStep
<1>. QED
  BY <1>3, <1>4, <1>5, <1>7, Zenon

(* The cells a thread of KernelCL0 stores to. *)
Stored(g) == {Output(Group("cl0", g) * BucketWords + o) : o \in Strided("cl0", g, BucketWords)}

(* The writes of each operation. *)
LEMMA ThreadWrites ==
  ASSUME NEW k \in {"cl0", "cl1", "cl2", "cuda"}, NEW g, NEW c \in Cells(k),
         OnCells(k), RunThread(k, g)
  PROVE  /\ Operation(k, g) = "enter" => memory'[c] = memory[c]
         /\ Operation(k, g) = "zero" => memory'[c] = IF c \in Zeroed(k, g) THEN {} ELSE memory[c]
         /\ Operation(k, g) = "set" => memory'[c] = IF c = Output(g) THEN Accumulated(k, g, c) ELSE memory[c]
         /\ Operation(k, g) = "xor" => memory'[c] = Xor(memory[c], Accumulated(k, g, c))
         /\ Operation(k, g) = "store" /\ k = "cl0" =>
              memory'[c] = IF c \in Stored(g) THEN memory[Scratch(Group(k, g), c[3] % BucketWords)]
                                              ELSE memory[c]
<1>. DEFINE op == Operation(k, g)
            stored == {Output(Group(k, g) * BucketWords + o) : o \in Strided(k, g, BucketWords)}
<1>1. memory'[c] =
        CASE op = "zero" /\ c \in Zeroed(k, g) -> {}
          [] op = "set" /\ c = Output(g) -> Accumulated(k, g, c)
          [] op = "xor" -> Xor(memory[c], Accumulated(k, g, c))
          [] op = "store" /\ c \in stored -> memory[Scratch(Group(k, g), c[3] % BucketWords)]
          [] OTHER -> memory[c]
  BY DEF RunThread, OnCells, Operation
<1>2. k = "cl0" => stored = Stored(g)
  BY Zenon DEF Stored
<1>. HIDE DEF stored, op
<1>. QED
  BY <1>1, <1>2 DEF op

(* The threads of the other kernels: one for each word. *)
LEMMA WordThreads ==
  /\ Threads("cl1") = 0 .. OutputWords - 1
  /\ GlobalSize("cl2") = NumBuckets * BucketWords /\ GlobalSize("cuda") = NumBuckets * BucketWords
  /\ NumBuckets * BucketWords \in Nat \ {0}
  /\ Threads("cl2") = 0 .. NumBuckets * BucketWords - 1
  /\ 0 .. NumBuckets * BucketWords - 1 \subseteq Threads("cuda")
<1>. DEFINE N == NumBuckets * BucketWords
            L == Local("cuda")
<1>1. N \in Nat \ {0}
  BY WordSizes
<1>2. GlobalSize("cl2") = N /\ GlobalSize("cuda") = N /\ GlobalSize("cl1") = OutputWords
  BY Zenon DEF GlobalSize
<1>3. Threads("cl1") = 0 .. OutputWords - 1 /\ Threads("cl2") = 0 .. N - 1
      /\ Threads("cuda") = 0 .. ((N - 1) \div L + 1) * L - 1
  BY <1>2, Zenon DEF Threads
<1>. HIDE DEF N
<1>4. L \in Nat \ {0}
  BY <1>1, <1>2, PirReadParams DEF Local
<1>. HIDE DEF L
<1>. DEFINE p == N - 1
            m == p \div L
<1>p. p \in Nat
  BY <1>1
<1>. HIDE DEF p
<1>5. m \in Nat /\ p % L \in 0 .. L - 1 /\ p = m * L + (p % L)
  BY <1>p, <1>4, Divided, Zenon
<1>. HIDE DEF m
<1>6. (m + 1) * L = m * L + L /\ m * L \in Nat
  BY <1>4, <1>5
<1>7. 0 .. N - 1 \subseteq 0 .. (m + 1) * L - 1
  BY <1>1, <1>4, <1>5, <1>6 DEF p
<1>. QED
  BY <1>1, <1>2, <1>3, <1>7, Zenon DEF N, m, p

(* The words of the output are cells of every kernel. *)
LEMMA OutputCells ==
  ASSUME NEW k
  PROVE  /\ \A i \in Request, w \in WordIndex : Cell(i, w) \in Cells(k)
         /\ \A i \in Request, w \in WordIndex : Scratch(i - 1, w) \in Cells("cl0")
<1>1. ASSUME NEW i \in Request, NEW w \in WordIndex PROVE Cell(i, w) \in Cells(k)
  <2>1. (i - 1) * BucketWords + w \in 0 .. OutputWords - 1
    BY OutputPlaces, Zenon
  <2>. QED
    BY <2>1, Zenon DEF Cells, Cell, Output
<1>2. ASSUME NEW i \in Request, NEW w \in WordIndex PROVE Scratch(i - 1, w) \in Cells("cl0")
  <2>1. i - 1 \in 0 .. ReadBatch - 1 /\ w \in 0 .. BucketWords - 1
    BY WordSizes DEF Request, WordIndex
  <2>. QED
    BY <2>1 DEF Cells, Scratch
<1>. QED
  BY <1>1, <1>2, Zenon

(* While a replica is asked, its copy of the table and the requests stay. *)
Asking == UNCHANGED <<batch, backend, server>> /\ snapshot'[server] = snapshot[server]

(* A step that keeps batch and snapshot keeps what the kernel reads. *)
LEMMA AskingKeeps ==
  ASSUME Asking
  PROVE  PirVector(server)' = PirVector(server) /\ snapshot'[server'] = snapshot[server]
BY Zenon DEF Asking, PirVector, Vectors

(* A step of KernelCL1. *)
LEMMA StepCL1 ==
  ASSUME NEW g \in Threads("cl1"), phase \in [Threads("cl1") -> 0 .. Len(Program("cl1"))],
         OnCells("cl1"), InStep("cl1"), InvCL1, RunThread("cl1", g), Asking
  PROVE  InvCL1'
<1>1. /\ phase'[g] = phase[g] + 1 /\ phase[g] = 0
      /\ \A t \in Threads("cl1") : t # g => phase'[t] = phase[t]
  BY ThreadRuns DEF Program
<1>2. Operation("cl1", g) = "set"
  BY <1>1 DEF Program, Operation
<1>3. ASSUME NEW i \in Request, NEW w \in WordIndex, phase'[(i - 1) * BucketWords + w] = 1
      PROVE  memory'[Cell(i, w)] = Part(i, w, Bucket)
  <2>. DEFINE t == (i - 1) * BucketWords + w
  <2>1. t \in Threads("cl1")
    BY OutputPlaces, WordThreads, Zenon
  <2>2. memory'[Cell(i, w)] = IF Cell(i, w) = Output(g) THEN Accumulated("cl1", g, Cell(i, w))
                                                        ELSE memory[Cell(i, w)]
    BY <1>2, OutputCells, ThreadWrites
  <2>3. Cell(i, w) = Output(g) <=> t = g
    BY Zenon DEF Cell, Output
  <2>4. CASE t = g
    BY SMTT(20), <2>2, <2>3, <2>4, AddedCL1
  <2>5. CASE t # g
    BY SMTT(20), <1>1, <1>3, <2>1, <2>2, <2>3, <2>5 DEF InvCL1
  <2>. QED
    BY <2>4, <2>5, Zenon
<1>. QED
  BY <1>3, AskingKeeps DEF InvCL1, Part

(* A step of KernelCL2 or of the CUDA kernel adds a word when it is the second of
   its thread. *)
LEMMA WordAdded ==
  ASSUME NEW k \in {"cl2", "cuda"}, NEW g \in 0 .. NumBuckets * BucketWords - 1,
         phase[g] \in {0, 1}, phase'[g] = phase[g] + 1,
         \A t \in Threads(k) : t # g => phase'[t] = phase[t],
         NEW i \in Request, NEW w \in WordIndex
  PROVE  /\ phase[g] = 0 => Done(w)' = Done(w)
         /\ phase[g] = 1 => Xor(Part(i, w, Done(w)), Accumulated(k, g, Cell(i, w))) =
                              PartAt(snapshot[server], PirVector(server)[i], w, Done(w)')
<1>. DEFINE B == {b \in Bucket : b * BucketWords + w = g}
<1>1. \A b \in Bucket : b * BucketWords + w \in Threads(k)
  BY TablePlaces, WordThreads, Zenon
<1>2. ASSUME phase[g] = 0 PROVE Done(w)' = Done(w)
  <2>1. \A b \in Bucket : phase'[b * BucketWords + w] = 2 <=> phase[b * BucketWords + w] = 2
    BY <1>1, <1>2
  <2>. QED
    BY <2>1, Zenon DEF Done
<1>3. ASSUME phase[g] = 1
      PROVE  Xor(Part(i, w, Done(w)), Accumulated(k, g, Cell(i, w))) =
               PartAt(snapshot[server], PirVector(server)[i], w, Done(w)')
  <2>1. \A b \in Bucket : phase'[b * BucketWords + w] = 2 <=>
                            phase[b * BucketWords + w] = 2 \/ b \in B
    BY <1>1, <1>3
  <2>2. Done(w)' = Done(w) \cup B
    BY <2>1, Zenon DEF Done
  <2>3. Done(w) \cap B = {}
    BY <1>3 DEF Done
  <2>4. Accumulated(k, g, Cell(i, w)) = Part(i, w, B)
    BY AddedWord
  <2>5. Xor(Part(i, w, Done(w)), Part(i, w, B)) = Part(i, w, Done(w) \cup B)
    BY <2>3, PartsJoin
  <2>. HIDE DEF B
  <2>. QED
    BY <2>2, <2>4, <2>5, Zenon DEF Part
<1>. QED
  BY <1>2, <1>3

(* A step of the CUDA kernel. *)
LEMMA StepCUDA ==
  ASSUME NEW g \in Threads("cuda"), phase \in [Threads("cuda") -> 0 .. Len(Program("cuda"))],
         OnCells("cuda"), InStep("cuda"), InvCUDA, RunThread("cuda", g), Asking
  PROVE  InvCUDA'
<1>1. /\ phase'[g] = phase[g] + 1 /\ phase[g] \in {0, 1}
      /\ \A t \in Threads("cuda") : t # g => phase'[t] = phase[t]
  BY ThreadRuns DEF Program
<1>2. Threads("cuda") \subseteq Nat
  BY DEF Threads
<1>3. g \in 0 .. NumBuckets * BucketWords - 1
  BY <1>1, <1>2, WordThreads DEF InvCUDA
<1>4. Operation("cuda", g) = IF phase[g] = 0 THEN "enter" ELSE "xor"
  BY <1>1 DEF Program, Operation
<1>5. ASSUME NEW i \in Request, NEW w \in WordIndex
      PROVE  memory'[Cell(i, w)] =
               PartAt(snapshot[server], PirVector(server)[i], w, Done(w)')
  <2>1. memory[Cell(i, w)] = Part(i, w, Done(w))
    BY DEF InvCUDA
  <2>2. CASE phase[g] = 0
    <3>1. memory'[Cell(i, w)] = memory[Cell(i, w)]
      BY <1>4, <2>2, OutputCells, ThreadWrites
    <3>2. Done(w)' = Done(w)
      BY SMTT(20), <1>1, <1>3, <2>2, WordAdded
    <3>. QED
      BY <2>1, <3>1, <3>2, Zenon DEF Part
  <2>3. CASE phase[g] = 1
    <3>1. memory'[Cell(i, w)] = Xor(memory[Cell(i, w)], Accumulated("cuda", g, Cell(i, w)))
      BY <1>4, <2>3, OutputCells, ThreadWrites
    <3>. QED
      BY SMTT(20), <1>1, <1>3, <2>1, <2>3, <3>1, WordAdded
  <2>. QED
    BY <1>1, <2>2, <2>3
<1>6. ASSUME NEW t \in Threads("cuda"), t >= GlobalSize("cuda") PROVE phase'[t] = 2
  BY <1>1, <1>3, <1>6, WordThreads DEF InvCUDA
<1>. QED
  BY <1>5, <1>6, AskingKeeps DEF InvCUDA, Part

(* A step of KernelCL2 in one group. *)
LEMMA StepCL2 ==
  ASSUME NEW g \in Threads("cl2"), phase \in [Threads("cl2") -> 0 .. Len(Program("cl2"))],
         OnCells("cl2"), InStep("cl2"), InvCL2, RunThread("cl2", g), Asking,
         GlobalSize("cl2") <= GroupSize("cl2")
  PROVE  InvCL2'
<1>1. /\ phase'[g] = phase[g] + 1 /\ phase[g] \in {0, 1}
      /\ \A t \in Threads("cl2") : t # g => phase'[t] = phase[t]
      /\ \A t \in Threads("cl2") : Group("cl2", t) = Group("cl2", g) => phase[t] >= phase[g]
  BY ThreadRuns DEF Program
<1>2. g \in 0 .. NumBuckets * BucketWords - 1
  BY WordThreads
<1>3. \A t \in Threads("cl2") : Group("cl2", t) = Group("cl2", g)
  <2>. DEFINE N == NumBuckets * BucketWords
  <2>1. N \in Nat \ {0} /\ Threads("cl2") = 0 .. N - 1 /\ GlobalSize("cl2") = N
    BY WordThreads
  <2>2. Local("cl2") = N
    BY <2>1, PirReadParams DEF Local
  <2>. HIDE DEF N
  <2>3. \A t \in 0 .. N - 1 : t \div N = 0
    BY <2>1
  <2>. QED
    BY <2>1, <2>2, <2>3 DEF Group
<1>4. Operation("cl2", g) = IF phase[g] = 0 THEN "zero" ELSE "xor"
  BY <1>1 DEF Program, Operation
<1>5. ASSUME NEW i \in Request, NEW w \in WordIndex, NEW h \in Threads("cl2"),
             Cell(i, w) \in Zeroed("cl2", h), phase'[h] >= 1
      PROVE  memory'[Cell(i, w)] = PartAt(snapshot[server], PirVector(server)[i], w, Done(w)')
  <2>1. CASE phase[g] = 0
    <3>1. \A t \in Threads("cl2") : phase[t] # 2
      <4>1. g < GlobalSize("cl2") /\ \A t \in Threads("cl2") : t < GlobalSize("cl2")
        BY WordThreads
      <4>. QED
        BY <1>3, <2>1, <4>1 DEF InStep
    <3>2. Done(w) = {}
      BY <3>1, TablePlaces, WordThreads, Zenon DEF Done
    <3>3. Done(w)' = {}
      BY <1>1, <1>2, <2>1, <3>2, WordAdded
    <3>4. Part(i, w, Done(w)) = {} /\ PartAt(snapshot[server], PirVector(server)[i], w, Done(w)') = {}
      BY <3>2, <3>3, Zenon DEF Part, PartAt
    <3>5. memory'[Cell(i, w)] = IF Cell(i, w) \in Zeroed("cl2", g) THEN {} ELSE memory[Cell(i, w)]
      BY SMTT(20), <1>4, <2>1, OutputCells, ThreadWrites
    <3>6. CASE h = g
      BY SMTT(20), <1>5, <3>4, <3>5, <3>6
    <3>7. CASE h # g
      BY SMTT(20), <1>1, <1>5, <3>4, <3>5, <3>7 DEF InvCL2
    <3>. QED
      BY <3>6, <3>7, Zenon
  <2>2. CASE phase[g] = 1
    <3>1. phase[h] >= 1
      BY <1>1, <1>3, <2>2
    <3>2. memory[Cell(i, w)] = Part(i, w, Done(w))
      BY SMTT(20), <1>5, <3>1 DEF InvCL2
    <3>3. memory'[Cell(i, w)] = Xor(memory[Cell(i, w)], Accumulated("cl2", g, Cell(i, w)))
      BY <1>4, <2>2, OutputCells, ThreadWrites
    <3>. QED
      BY SMTT(20), <1>1, <1>2, <2>2, <3>2, <3>3, WordAdded
  <2>. QED
    BY <1>1, <2>1, <2>2, Zenon
<1>. QED
  BY <1>5, AskingKeeps, Zenon DEF InvCL2, Part

(* XOR with nothing. *)
LEMMA XorNothing == \A x : Xor(x, {}) = x
BY Zenon DEF Xor, SymDiff

(* A step of KernelCL0. *)
LEMMA StepCL0 ==
  ASSUME NEW g \in Threads("cl0"), phase \in [Threads("cl0") -> 0 .. Len(Program("cl0"))],
         OnCells("cl0"), InStep("cl0"), InvCL0, RunThread("cl0", g), Asking
  PROVE  InvCL0'
<1>. DEFINE Added(i, w) == {b \in Bucket : phase[Worker(i, b * BucketWords + w)] >= 2}
            Added1(i, w) == {b \in Bucket : phase'[Worker(i, b * BucketWords + w)] >= 2}
<1>1. /\ phase'[g] = phase[g] + 1 /\ phase[g] \in {0, 1, 2}
      /\ \A t \in Threads("cl0") : phase[t] \in 0 .. 3 /\ (t # g => phase'[t] = phase[t])
      /\ \A t \in Threads("cl0") : Group("cl0", t) = Group("cl0", g) => phase[t] >= phase[g]
  BY ThreadRuns DEF Program
<1>2. Operation("cl0", g) =
        IF phase[g] = 0 THEN "zero" ELSE IF phase[g] = 1 THEN "xor" ELSE "store"
  BY <1>1 DEF Program, Operation
<1>3. ASSUME NEW i \in Request, NEW w \in WordIndex
      PROVE  /\ phase'[Worker(i, w)] >= 1 => memory'[Scratch(i - 1, w)] = Part(i, w, Added1(i, w))
             /\ phase'[Worker(i, w)] = 3 => memory'[Cell(i, w)] = Part(i, w, Bucket)
  <2>0. w \in Nat
    BY WordSizes DEF WordIndex
  <2>1. /\ Worker(i, w) \in Threads("cl0") /\ Group("cl0", Worker(i, w)) = i - 1
        /\ \A b \in Bucket : /\ Worker(i, b * BucketWords + w) \in Threads("cl0")
                             /\ Group("cl0", Worker(i, b * BucketWords + w)) = i - 1
    <3>1. \A b \in Bucket : b * BucketWords + w \in Nat
      BY <2>0, WordSizes
    <3>. QED
      BY <2>0, <3>1, Workers, Zenon
  <2>2. /\ phase[Worker(i, w)] >= 1 => memory[Scratch(i - 1, w)] = Part(i, w, Added(i, w))
        /\ phase[Worker(i, w)] = 3 => memory[Cell(i, w)] = Part(i, w, Bucket)
    BY Zenon DEF InvCL0
  <2>3. Scratch(i - 1, w) \in Cells("cl0") /\ Cell(i, w) \in Cells("cl0")
    BY OutputCells
  <2>4. Worker(i, w) = g <=> i = Group("cl0", g) + 1 /\ w % Local("cl0") = g % Local("cl0")
    BY <2>0, Workers, ZenonT(40)
  <2>5. CASE phase[g] = 0
    <3>0. Operation("cl0", g) = "zero"
      BY <1>2, <2>5
    <3>1. /\ memory'[Scratch(i - 1, w)] =
               IF Scratch(i - 1, w) \in Zeroed("cl0", g) THEN {} ELSE memory[Scratch(i - 1, w)]
          /\ memory'[Cell(i, w)] = IF Cell(i, w) \in Zeroed("cl0", g) THEN {} ELSE memory[Cell(i, w)]
      BY <2>3, <3>0, ThreadWrites
    <3>2. Cell(i, w) \notin Zeroed("cl0", g)
      BY Zenon DEF Cell, Output, Zeroed, Scratch
    <3>3. Added1(i, w) = Added(i, w)
      BY <1>1, <2>1, <2>5
    <3>4. CASE Worker(i, w) = g
      <4>1. Scratch(i - 1, w) \in Zeroed("cl0", g)
        BY <2>1, <2>4, <3>4 DEF Zeroed, Strided, WordIndex
      <4>2. \A b \in Bucket : phase[Worker(i, b * BucketWords + w)] < 2
        <5>1. \A t \in Threads("cl0") : t < GlobalSize("cl0")
          BY Workers
        <5>. QED
          BY <1>1, <2>1, <2>5, <3>4, <5>1 DEF InStep
      <4>3. Added1(i, w) = {}
        BY <3>3, <4>2, <1>1, <2>1
      <4>4. Part(i, w, {}) = {}
        BY Zenon DEF Part, PartAt
      <4>5. memory'[Scratch(i - 1, w)] = {}
        BY <3>1, <4>1, Zenon
      <4>6. phase'[Worker(i, w)] # 3
        BY <1>1, <2>5, <3>4
      <4>. HIDE DEF Added1
      <4>. QED
        BY <4>3, <4>4, <4>5, <4>6, Zenon
    <3>5. CASE Worker(i, w) # g
      <4>1. Scratch(i - 1, w) \notin Zeroed("cl0", g)
        BY <2>1, <2>4, <3>5, Workers DEF Zeroed, Strided, Scratch
      <4>. QED
        BY <1>1, <2>1, <2>2, <3>1, <3>2, <3>3, <3>5, <4>1, Zenon
    <3>. QED
      BY <3>4, <3>5, Zenon
  <2>6. CASE phase[g] = 1
    <3>. DEFINE B == {b \in Bucket : Worker(i, b * BucketWords + w) = g}
    <3>0. Operation("cl0", g) = "xor"
      BY SMTT(20), <1>2, <2>6
    <3>1. /\ memory'[Scratch(i - 1, w)] =
               Xor(memory[Scratch(i - 1, w)], Accumulated("cl0", g, Scratch(i - 1, w)))
          /\ memory'[Cell(i, w)] = Xor(memory[Cell(i, w)], Accumulated("cl0", g, Cell(i, w)))
      BY <2>3, <3>0, ThreadWrites
    <3>2. Accumulated("cl0", g, Scratch(i - 1, w)) = Part(i, w, B) /\ Accumulated("cl0", g, Cell(i, w)) = {}
      BY AddedCL0, Zenon DEF Cell
    <3>3. Added1(i, w) = Added(i, w) \cup B /\ Added(i, w) \cap B = {}
      BY <1>1, <2>1, <2>6
    <3>. HIDE DEF B, Added, Added1
    <3>4. Xor(Part(i, w, Added(i, w)), Part(i, w, B)) = Part(i, w, Added1(i, w))
      BY SMTT(20), <3>3, PartsJoin
    <3>5. phase'[Worker(i, w)] >= 1 => memory'[Scratch(i - 1, w)] = Part(i, w, Added1(i, w))
      <4>1. phase'[Worker(i, w)] >= 1 => phase[Worker(i, w)] >= 1
        BY <1>1, <2>1, <2>6, Zenon
      <4>. QED
        BY <2>2, <3>1, <3>2, <3>4, <4>1
    <3>6. phase'[Worker(i, w)] = 3 => memory'[Cell(i, w)] = Part(i, w, Bucket)
      <4>1. phase'[Worker(i, w)] = 3 => phase[Worker(i, w)] = 3
        BY <1>1, <2>1, <2>6
      <4>. QED
        BY <2>2, <3>1, <3>2, <4>1, XorNothing, ZenonT(30)
    <3>. QED
      BY <3>5, <3>6
  <2>7. CASE phase[g] = 2
    <3>0. Operation("cl0", g) = "store"
      BY SMTT(20), <1>2, <2>7
    <3>1. /\ memory'[Scratch(i - 1, w)] = IF Scratch(i - 1, w) \in Stored(g)
                THEN memory[Scratch(Group("cl0", g), Scratch(i - 1, w)[3] % BucketWords)]
                ELSE memory[Scratch(i - 1, w)]
          /\ memory'[Cell(i, w)] = IF Cell(i, w) \in Stored(g)
                THEN memory[Scratch(Group("cl0", g), Cell(i, w)[3] % BucketWords)]
                ELSE memory[Cell(i, w)]
      BY <2>3, <3>0, ThreadWrites
    <3>2. Scratch(i - 1, w) \notin Stored(g)
      BY Zenon DEF Stored, Output, Scratch
    <3>3. Added1(i, w) = Added(i, w)
      BY <1>1, <2>1, <2>7
    <3>4. CASE Worker(i, w) = g
      <4>1. Group("cl0", g) = i - 1 /\ Cell(i, w)[3] % BucketWords = w
        BY <2>1, <3>4, OutputPlaces, Zenon DEF Cell, Output
      <4>2. Cell(i, w) \in Stored(g)
        BY <2>4, <3>4, <4>1 DEF Stored, Strided, Cell, WordIndex
      <4>3. Added(i, w) = Bucket
        BY <1>1, <2>1, <2>7, <3>4
      <4>. HIDE DEF Added, Added1
      <4>4. memory[Scratch(i - 1, w)] = Part(i, w, Added(i, w))
        BY SMTT(20), <2>2, <2>7, <3>4
      <4>5. memory'[Scratch(i - 1, w)] = Part(i, w, Added1(i, w))
        BY SMTT(20), <3>1, <3>2, <3>3, <4>4
      <4>6. memory'[Cell(i, w)] = Part(i, w, Bucket)
        BY <3>1, <4>1, <4>2, <4>3, <4>4
      <4>. QED
        BY <4>5, <4>6
    <3>5. CASE Worker(i, w) # g
      <4>1. Cell(i, w) \notin Stored(g)
        <5>. SUFFICES ASSUME NEW o \in Strided("cl0", g, BucketWords),
                             Cell(i, w) = Output(Group("cl0", g) * BucketWords + o)
                      PROVE  FALSE
          BY Zenon DEF Stored
        <5>. DEFINE j == Group("cl0", g) + 1
        <5>1. j \in Request /\ j - 1 = Group("cl0", g) /\ o \in WordIndex
          BY Workers DEF Strided, WordIndex
        <5>2. Cell(i, w) = Cell(j, o)
          BY <5>1 DEF Cell
        <5>3. i = j /\ w = o
          BY <5>1, <5>2, OutputPlaces
        <5>. QED
          BY <2>4, <3>5, <5>3 DEF Strided
      <4>. QED
        BY <1>1, <2>1, <2>2, <3>1, <3>2, <3>3, <3>5, <4>1, Zenon
    <3>. QED
      BY <3>4, <3>5
  <2>. QED
    BY <1>1, <2>5, <2>6, <2>7
<1>. QED
  BY <1>3, AskingKeeps, ZenonT(40) DEF InvCL0, Part

(* No kernel runs when a batch begins. *)
LEMMA KernelInit == Init => KernelInv
BY Zenon DEF Init, KernelInv

(* A kernel starts. *)
LEMMA LaunchStarts ==
  ASSUME KernelInv, Launch
  PROVE  KernelInv'
<1>0. PICK k : k = backend[server]
  BY Zenon
<1>1. k \in {"cl0", "cl1", "cl2", "cuda"} /\ server \in Server
  BY <1>0, Zenon DEF Launch, IsKernel
<1>2. /\ phase' = [g \in Threads(k) |-> IF g < GlobalSize(k) THEN 0 ELSE Len(Program(k))]
      /\ memory' = Fresh(k) /\ UNCHANGED <<batch, backend, snapshot, server>>
  BY <1>0 DEF Launch
<1>3. Len(Program(k)) \in Nat /\ (k = "cuda" => Len(Program(k)) = 2)
  BY <1>1 DEF Program
<1>4. phase' \in [Threads(k) -> 0 .. Len(Program(k))]
  BY <1>2, <1>3
<1>5. OnCells(k)'
  BY <1>2, Zenon DEF OnCells, Fresh
<1>6. InStep(k)'
  BY <1>2, <1>3 DEF InStep
<1>7. ASSUME k = "cl0" PROVE InvCL0'
  <2>1. \A i \in Request, w \in WordIndex : w \in Nat /\ Worker(i, w) \in Threads("cl0")
    BY Workers, WordSizes DEF WordIndex
  <2>2. \A t \in Threads("cl0") : phase'[t] = 0
    BY <1>2, <1>7, Workers
  <2>. QED
    BY <2>1, <2>2 DEF InvCL0
<1>8. ASSUME k = "cl1" PROVE InvCL1'
  <2>1. \A t \in Threads("cl1") : phase'[t] = 0
    BY SMTT(20), <1>2, <1>8, WordThreads, WordSizes DEF GlobalSize
  <2>2. \A i \in Request, w \in WordIndex : (i - 1) * BucketWords + w \in Threads("cl1")
    BY OutputPlaces, WordThreads, Zenon
  <2>. QED
    BY <2>1, <2>2 DEF InvCL1
<1>9. ASSUME k = "cl2" PROVE InvCL2'
  <2>1. \A t \in Threads("cl2") : phase'[t] = 0
    BY <1>2, <1>9, WordThreads
  <2>. QED
    BY <2>1 DEF InvCL2
<1>10. ASSUME k = "cuda" PROVE InvCUDA'
  <2>1. ASSUME NEW t \in Threads("cuda"), t >= GlobalSize("cuda") PROVE phase'[t] = 2
    <3>1. t \in Int /\ GlobalSize("cuda") \in Int
      BY WordThreads DEF Threads
    <3>. QED
      BY SMTT(20), <1>2, <1>3, <1>10, <2>1, <3>1
  <2>2. ASSUME NEW i \in Request, NEW w \in WordIndex
        PROVE  memory'[Cell(i, w)] = {} /\ Done(w)' = {}
    <3>1. memory'[Cell(i, w)] = {}
      BY <1>2, <1>10, OutputCells DEF Fresh
    <3>2. \A b \in Bucket : phase'[b * BucketWords + w] = 0
      BY <1>2, <1>10, TablePlaces, WordThreads
    <3>. QED
      BY <3>1, <3>2 DEF Done
  <2>. QED
    BY <2>1, <2>2, Zenon DEF InvCUDA, Part, PartAt
<1>. QED
  BY SMTT(20), <1>0, <1>1, <1>2, <1>4, <1>5, <1>6, <1>7, <1>8, <1>9, <1>10 DEF KernelInv, IsKernel

(* Somebody else's step. *)
LEMMA KernelRests ==
  ASSUME KernelInv, Asking, UNCHANGED <<phase, memory>>, snapshot' = [s \in Server |-> snapshot'[s]]
  PROVE  KernelInv'
<1>1. \A w : Done(w)' = Done(w)
  BY Zenon DEF Done
<1>3. InvCL0 => InvCL0'
  BY AskingKeeps DEF InvCL0, Part
<1>4. InvCL1 => InvCL1'
  BY AskingKeeps, Zenon DEF InvCL1, Part
<1>5. InvCL2 => InvCL2'
  BY <1>1, AskingKeeps DEF InvCL2, Part
<1>6. InvCUDA => InvCUDA'
  BY <1>1, AskingKeeps, Zenon DEF InvCUDA, Part
<1>7. \A k : (OnCells(k) => OnCells(k)') /\ (InStep(k) => InStep(k)')
  BY DEF OnCells, InStep
<1>. QED
  BY <1>3, <1>4, <1>5, <1>6, <1>7, Zenon DEF KernelInv, Asking

(* A thread of the kernel runs. *)
LEMMA KernelRuns ==
  ASSUME KernelInv, Step, OneGroup
  PROVE  KernelInv'
<1>0. PICK k : k = backend[server]
  BY Zenon
<1>1. /\ k \in {"cl0", "cl1", "cl2", "cuda"} /\ server \in Server /\ backend \in Backends
      /\ phase \in [Threads(k) -> 0 .. Len(Program(k))] /\ OnCells(k) /\ InStep(k)
  BY <1>0, Zenon DEF Step, KernelInv, IsKernel
<1>2. PICK g \in Threads(k) : RunThread(k, g)
  BY <1>0, <1>1 DEF Step
<1>3. Asking /\ UNCHANGED <<batch, backend, snapshot, server>>
  BY Zenon DEF Asking, Step
<1>4. k = "cl2" => GlobalSize("cl2") <= GroupSize("cl2")
  BY <1>0, <1>1, Zenon DEF OneGroup
<1>5. /\ (k = "cl0" => InvCL0) /\ (k = "cl1" => InvCL1)
      /\ (k = "cl2" => InvCL2) /\ (k = "cuda" => InvCUDA)
  BY <1>0, Zenon DEF Step, KernelInv
<1>6. phase' \in [Threads(k) -> 0 .. Len(Program(k))] /\ OnCells(k)' /\ InStep(k)'
  BY <1>1, <1>2, ThreadRuns
<1>7. k = "cl0" => InvCL0'
  BY <1>1, <1>2, <1>3, <1>5, StepCL0
<1>8. k = "cl1" => InvCL1'
  BY SMTT(20), <1>1, <1>2, <1>3, <1>5, StepCL1
<1>9. k = "cl2" => InvCL2'
  BY SMTT(20), <1>1, <1>2, <1>3, <1>4, <1>5, StepCL2
<1>10. k = "cuda" => InvCUDA'
  BY <1>1, <1>2, <1>3, <1>5, StepCUDA
<1>. QED
  BY SMTT(20), <1>0, <1>1, <1>3, <1>6, <1>7, <1>8, <1>9, <1>10 DEF KernelInv, IsKernel

(* Steps keep the kernel's invariant. *)
LEMMA KernelStep ==
  ASSUME KernelInv, OneGroup, [Next]_vars
  PROVE  KernelInv'
<1>0. NumServers \in Nat /\ Server = 1 .. NumServers
  BY Sizing, Zenon DEF Server
<1>1. CASE Launch
  BY <1>1, LaunchStarts
<1>2. CASE Step
  BY <1>2, KernelRuns
<1>3. CASE ReadOnCPU \/ Finish \/ Decode
  <2>1. phase' = <<>> /\ UNCHANGED <<backend, snapshot>>
    BY <1>0, <1>3 DEF ReadOnCPU, Finish, Decode, KernelInv
  <2>. QED
    BY <2>1 DEF KernelInv
<1>4. ASSUME NEW s \in Server, Flip(s) PROVE KernelInv'
  <2>1. /\ snapshot' = [snapshot EXCEPT ![s] = @ + 1] /\ ~ (s = server /\ phase # <<>>)
        /\ UNCHANGED <<batch, backend, server, phase, memory>>
    BY <1>4, Zenon DEF Flip
  <2>2. snapshot' = [t \in Server |-> snapshot'[t]]
    BY <2>1, Zenon DEF KernelInv
  <2>3. CASE phase = <<>>
    BY <2>1, <2>2, <2>3 DEF KernelInv
  <2>4. CASE phase # <<>>
    <3>1. Asking
      BY <2>1, <2>4 DEF Asking, KernelInv
    <3>. QED
      BY <2>1, <2>2, <3>1, KernelRests
  <2>. QED
    BY <2>3, <2>4, Zenon
<1>5. CASE UNCHANGED vars
  <2>1. Asking /\ UNCHANGED <<phase, memory>> /\ snapshot' = [t \in Server |-> snapshot'[t]]
    BY <1>5, Zenon DEF Asking, KernelInv, vars
  <2>. QED
    BY <2>1, KernelRests, Zenon
<1>. QED
  BY <1>1, <1>2, <1>3, <1>4, <1>5 DEF Next, Work

(* Every word of the output is zeroed by some thread of KernelCL2
   (kernel_cl.go:123-134). *)
LEMMA AllZeroed ==
  ASSUME NEW i \in Request, NEW w \in WordIndex
  PROVE  \E g \in Threads("cl2") : Cell(i, w) \in Zeroed("cl2", g)
<1>. DEFINE N == NumBuckets * BucketWords
            W == OutputWords
            n == (i - 1) * BucketWords + w
            m == W \div N + 1
<1>1. /\ N \in Nat \ {0} /\ Threads("cl2") = 0 .. N - 1 /\ GlobalSize("cl2") = N
      /\ W \in Nat \ {0} /\ n \in 0 .. W - 1 /\ Cell(i, w) = Output(n)
  BY WordThreads, WordSizes, OutputPlaces, Zenon DEF Cell
<1>2. \A g : Zeroed("cl2", g) =
        IF N >= W THEN {Output(j) : j \in {g} \cap (0 .. W - 1)}
                  ELSE {Output(j) : j \in (g * m .. (g + 1) * m - 1) \cap (0 .. W - 1)}
  BY <1>1, Zenon DEF Zeroed
<1>. HIDE DEF N, W, n
<1>3. CASE N >= W
  <2>1. n \in Threads("cl2") /\ Output(n) \in Zeroed("cl2", n)
    BY <1>1, <1>2, <1>3
  <2>. QED
    BY <1>1, <2>1, Zenon
<1>4. CASE ~ (N >= W)
  <2>1. m \in Nat \ {0} /\ W < N * m
    <3>1. W \div N \in Nat /\ W % N \in 0 .. N - 1 /\ W = (W \div N) * N + (W % N)
      BY <1>1, Divided, Zenon
    <3>2. N * m = (W \div N) * N + N /\ (W \div N) * N \in Nat
      BY <1>1, <3>1
    <3>. QED
      BY <1>1, <3>1, <3>2
  <2>. HIDE DEF m
  <2>. DEFINE g == n \div m
  <2>2. g \in Nat /\ n % m \in 0 .. m - 1 /\ n = g * m + (n % m)
    <3>1. n \in Nat
      BY <1>1
    <3>. QED
      BY <2>1, <3>1, Divided, Zenon
  <2>3. g \in 0 .. N - 1
    <3>1. n \in 0 .. N * m - 1
      BY <1>1, <2>1
    <3>. QED
      BY <1>1, <2>1, <3>1, InGrid, Zenon
  <2>. HIDE DEF g
  <2>4. n \in g * m .. (g + 1) * m - 1
    <3>1. (g + 1) * m = g * m + m /\ g * m \in Nat
      BY <2>1, <2>2
    <3>. QED
      BY <2>1, <2>2, <3>1
  <2>5. Output(n) \in Zeroed("cl2", g)
    BY <1>1, <1>2, <1>4, <2>4
  <2>. QED
    BY <1>1, <2>3, <2>5
<1>. QED
  BY <1>3, <1>4, Zenon

(* When all threads are through, the output is complete. *)
LEMMA KernelDone ==
  ASSUME KernelInv, Finished, NEW i \in Request, NEW w \in WordIndex
  PROVE  memory[Cell(i, w)] = Part(i, w, Bucket)
<1>0. PICK k : k = backend[server]
  BY Zenon
<1>1. /\ k \in {"cl0", "cl1", "cl2", "cuda"}
      /\ \A g \in Threads(k) : phase[g] = Len(Program(k))
      /\ (k = "cl0" => InvCL0) /\ (k = "cl1" => InvCL1)
      /\ (k = "cl2" => InvCL2) /\ (k = "cuda" => InvCUDA)
  BY <1>0, Zenon DEF Finished, KernelInv, IsKernel
<1>2. CASE k = "cl0"
  <2>1. w \in Nat
    BY WordSizes DEF WordIndex
  <2>2. phase[Worker(i, w)] = 3
    BY <1>1, <1>2, <2>1, Workers DEF Program
  <2>. QED
    BY <1>1, <1>2, <2>2, Zenon DEF InvCL0
<1>3. CASE k = "cl1"
  <2>1. (i - 1) * BucketWords + w \in Threads("cl1")
    BY OutputPlaces, WordThreads, Zenon
  <2>2. phase[(i - 1) * BucketWords + w] = 1
    BY <1>1, <1>3, <2>1, Zenon DEF Program
  <2>. QED
    BY <1>1, <1>3, <2>2 DEF InvCL1
<1>4. CASE k \in {"cl2", "cuda"}
  <2>1. \A g \in Threads(k) : phase[g] = 2
    BY <1>1, <1>4 DEF Program
  <2>2. \A b \in Bucket : b * BucketWords + w \in Threads(k)
    BY <1>4, TablePlaces, WordThreads, Zenon
  <2>3. Done(w) = Bucket
    BY <2>1, <2>2, Zenon DEF Done
  <2>4. CASE k = "cl2"
    BY <1>1, <2>1, <2>3, <2>4, AllZeroed DEF InvCL2
  <2>5. CASE k = "cuda"
    BY <1>1, <2>3, <2>5 DEF InvCUDA
  <2>. QED
    BY <1>4, <2>4, <2>5, Zenon
<1>. QED
  BY <1>1, <1>2, <1>3, <1>4

(* The bytes read back are the answer. *)
LEMMA BytesAreWanted ==
  ASSUME KernelInv, Finished, NEW i \in Request
  PROVE  ReadBuffer(i) = Wanted(snapshot[server], PirVector(server)[i])
<1>1. ASSUME NEW c \in Byte
      PROVE  c \div WordSize \in WordIndex
  <2>1. c \in 0 .. BucketWords * WordSize - 1
    BY WordSizes, Zenon
  <2>. QED
    BY <2>1, WordSizes, InGrid, Zenon DEF WordIndex
<1>2. ASSUME NEW c \in Byte
      PROVE  {<<t[1], t[2], c>> : t \in memory[Output((i - 1) * BucketWords + c \div WordSize)]} =
               {Term(b, snapshot[server], c) : b \in Bucket \cap PirVector(server)[i]}
  <2>. DEFINE w == c \div WordSize
  <2>1. memory[Output((i - 1) * BucketWords + w)] =
          {Term(b, snapshot[server], w) : b \in Bucket \cap PirVector(server)[i]}
    BY <1>1, KernelDone, Zenon DEF Cell, Part, PartAt
  <2>2. \A b, v : <<Term(b, snapshot[server], v)[1], Term(b, snapshot[server], v)[2], c>> =
                    Term(b, snapshot[server], c)
    BY Zenon DEF Term
  <2>. HIDE DEF w
  <2>3. {<<t[1], t[2], c>> : t \in {Term(b, snapshot[server], w) : b \in Bucket \cap PirVector(server)[i]}} =
          {Term(b, snapshot[server], c) : b \in Bucket \cap PirVector(server)[i]}
    BY <2>2
  <2>. QED
    BY <2>1, <2>3, Zenon DEF w
<1>. QED
  BY <1>2, Zenon DEF ReadBuffer, Wanted

(* The invariant of the kernels, whatever their threads' order. *)
LEMMA KernelsRun ==
  ASSUME OneGroup
  PROVE  Spec => []KernelInv
<1>1. KernelInv /\ [Next]_vars => KernelInv'
  BY KernelStep, Zenon
<1>. QED
  BY <1>1, KernelInit, PTL DEF Spec

(* However its threads interleave, a kernel of any size computes what the CPU
   computes; KernelCL2 as long as it runs in one group. *)
THEOREM KernelsAgree ==
  ASSUME OneGroup
  PROVE  Spec => []KernelMatchesCPU
<1>1. KernelInv => KernelMatchesCPU
  <2>. SUFFICES ASSUME KernelInv, Finished, NEW i \in 1 .. ReadBatch
                PROVE  ReadBuffer(i) = ReadCPU("read2", DB(snapshot[server]), PirVector(server)[i])
    BY Zenon DEF KernelMatchesCPU
  <2>1. ReadBuffer(i) = Wanted(snapshot[server], PirVector(server)[i])
    BY BytesAreWanted, Zenon DEF Request
  <2>2. ReadCPU("read2", DB(snapshot[server]), PirVector(server)[i]) =
          Wanted(snapshot[server], PirVector(server)[i])
    BY ReadCPUIsWanted, Zenon
  <2>. QED
    BY <2>1, <2>2, Zenon
<1>. QED
  BY <1>1, KernelsRun, PTL

-----------------------------------------------------------------------------
(* The batch. *)

(* A sequence, whatever its elements are. *)
IsSeq(s) == Len(s) \in Nat /\ s = [i \in 1 .. Len(s) |-> s[i]]

(* Append, for a sequence of anything. *)
LEMMA AppendIsSeq ==
  ASSUME NEW s, IsSeq(s), NEW e
  PROVE  /\ IsSeq(Append(s, e))
         /\ Len(Append(s, e)) = Len(s) + 1
         /\ \A i \in 1 .. Len(s) : Append(s, e)[i] = s[i]
         /\ Append(s, e)[Len(s) + 1] = e
<1>. DEFINE S == {s[i] : i \in 1 .. Len(s)} \cup {e}
<1>1. s \in Seq(S)
  BY DEF IsSeq
<1>2. e \in S
  BY Zenon
<1>. HIDE DEF S
<1>3. Append(s, e) \in Seq(S)
  BY <1>1, <1>2
<1>4. ASSUME NEW t \in Seq(S) PROVE IsSeq(t)
  BY DEF IsSeq
<1>5. IsSeq(Append(s, e))
  BY <1>3, <1>4, Zenon
<1>. QED
  BY <1>1, <1>2, <1>5

(* The replies so far are right ones, one per server asked, and the result is
   what they decode to. *)
AnswerInv ==
  /\ QueriesInv
  /\ backend \in Backends
  /\ server \in 1 .. NumServers + 1
  /\ phase # <<>> => server \in Server /\ IsKernel(backend[server])
  /\ IsSeq(replies) /\ Len(replies) = server - 1
  /\ IsSeq(readFrom) /\ Len(readFrom) = server - 1
  /\ \A q \in DOMAIN batch, s \in 1 .. server - 1 : Answered(q, s)
  /\ \/ result = <<>>
     \/ /\ server = NumServers + 1 /\ DOMAIN result = DOMAIN batch
        /\ \A q \in DOMAIN batch : Decoded(q, result[q])

(* A batch begins with the first server and no replies. *)
LEMMA AnswerInit == Init => AnswerInv
<1>. SUFFICES ASSUME Init PROVE AnswerInv
  BY Zenon
<1>1. IsSeq(<<>>) /\ Len(<<>>) = 0
  BY DEF IsSeq
<1>2. NumServers \in Nat \ {0}
  BY SMTT(20), Sizing
<1>. QED
  BY <1>1, <1>2 DEF Init, AnswerInv, QueriesInv

(* A server that was asked answers as it should, whatever its back end, if a
   kernel computes what the CPU computes (replica.go:90-136). *)
LEMMA ServerAnswers ==
  ASSUME AnswerInv, KernelMatchesCPU, ReadOnCPU \/ Finish
  PROVE  AnswerInv'
<1>. DEFINE R(q) == Wanted(snapshot[server], Vectors(q)[server])
            reply == [q \in DOMAIN batch |-> Overlay(<<q, server>>, R(q))]
<1>0. NumServers \in Nat \ {0} /\ Server = 1 .. NumServers
  BY Sizing DEF Server
<1>1. server \in Server
  BY Zenon DEF ReadOnCPU, Finish, Finished, AnswerInv
<1>2. ASSUME NEW q \in DOMAIN batch
      PROVE  q \in 1 .. ReadBatch /\ PirVector(server)[q] = Vectors(q)[server]
  BY QueryOf, Zenon DEF AnswerInv, PirVector
<1>3. replies' = Append(replies, reply)
  <2>1. CASE ReadOnCPU
    <3>. DEFINE T == [i \in 1 .. ReadBatch |->
                        ReadCPU(backend[server], DB(snapshot[server]), PirVector(server)[i])]
    <3>1. replies' = Append(replies, [q \in DOMAIN batch |-> Overlay(<<q, server>>, T[q])])
      BY <2>1, Zenon DEF ReadOnCPU, Answer
    <3>2. backend[server] \in {"read0", "read1", "read2"}
      BY <1>1, <2>1, PirReadParams, Zenon DEF ReadOnCPU, IsKernel, AnswerInv
    <3>3. ASSUME NEW q \in DOMAIN batch PROVE T[q] = R(q)
      <4>1. T[q] = ReadCPU(backend[server], DB(snapshot[server]), Vectors(q)[server])
        BY <1>2, Zenon
      <4>. QED
        BY <3>2, <4>1, ReadCPUIsWanted, Zenon
    <3>. HIDE DEF T, R
    <3>. QED
      BY <3>1, <3>3, Zenon
  <2>2. CASE Finish
    <3>. DEFINE T == [i \in 1 .. ReadBatch |-> ReadBuffer(i)]
    <3>1. replies' = Append(replies, [q \in DOMAIN batch |-> Overlay(<<q, server>>, T[q])])
      BY <2>2, Zenon DEF Finish, Answer
    <3>2. ASSUME NEW q \in DOMAIN batch PROVE T[q] = R(q)
      <4>1. T[q] = ReadCPU("read2", DB(snapshot[server]), PirVector(server)[q])
        BY <1>2, <2>2, Zenon DEF Finish, KernelMatchesCPU
      <4>2. T[q] = ReadCPU("read2", DB(snapshot[server]), Vectors(q)[server])
        BY <1>2, <4>1, Zenon
      <4>. QED
        BY <4>2, ReadCPUIsWanted, Zenon
    <3>. HIDE DEF T, R
    <3>. QED
      BY <3>1, <3>2, Zenon
  <2>. QED
    BY <2>1, <2>2, Zenon
<1>4. /\ readFrom' = Append(readFrom, snapshot[server]) /\ server' = server + 1
      /\ UNCHANGED <<batch, backend, result>> /\ (phase' # <<>> => phase' = phase /\ ReadOnCPU)
  BY Zenon DEF ReadOnCPU, Finish, Answer
<1>. HIDE DEF reply
<1>5. /\ IsSeq(replies') /\ Len(replies') = server
      /\ replies'[server] = reply /\ \A s \in 1 .. server - 1 : replies'[s] = replies[s]
  <2>1. IsSeq(replies) /\ Len(replies) = server - 1 /\ server \in Nat
    BY <1>0, <1>1 DEF AnswerInv
  <2>. QED
    BY <1>3, <2>1, AppendIsSeq
<1>6. /\ IsSeq(readFrom') /\ Len(readFrom') = server
      /\ readFrom'[server] = snapshot[server] /\ \A s \in 1 .. server - 1 : readFrom'[s] = readFrom[s]
  <2>1. IsSeq(readFrom) /\ Len(readFrom) = server - 1 /\ server \in Nat
    BY <1>0, <1>1 DEF AnswerInv
  <2>. QED
    BY <1>4, <2>1, AppendIsSeq
<1>7. \A q, s : Vectors(q)' = Vectors(q)
  BY <1>4, Zenon DEF Vectors
<1>8. ASSUME NEW q \in DOMAIN batch, NEW s \in 1 .. server PROVE Answered(q, s)'
  <2>1. CASE s = server
    <3>1. replies'[s][q] = Overlay(<<q, s>>, Wanted(readFrom'[s], Vectors(q)[s]))
      BY SMTT(20), <1>5, <1>6, <2>1 DEF reply
    <3>. QED
      BY <1>7, <3>1, Zenon DEF Answered, Overlay, Wanted, Term, Stamp
  <2>2. CASE s # server
    <3>1. s \in 1 .. server - 1
      BY <1>0, <1>1, <2>2
    <3>2. replies[s][q] = Overlay(<<q, s>>, Wanted(readFrom[s], Vectors(q)[s]))
      BY <3>1, Zenon DEF AnswerInv, Answered
    <3>. QED
      BY <1>5, <1>6, <1>7, <3>1, <3>2 DEF Answered
  <2>. QED
    BY <2>1, <2>2, Zenon
<1>9. server' - 1 = server /\ server' \in 1 .. NumServers + 1
  BY <1>0, <1>1, <1>4
<1>10. phase' = <<>>
  BY <1>4, Zenon DEF AnswerInv, ReadOnCPU
<1>11. result' = <<>>
  BY <1>0, <1>1, <1>4 DEF AnswerInv
<1>. QED
  BY SMTT(20), <1>4, <1>5, <1>6, <1>8, <1>9, <1>10, <1>11 DEF AnswerInv, QueriesInv

(* The frontend and the clients work on right replies (frontend.go:290-296). *)
LEMMA DecodeAnswers ==
  ASSUME AnswerInv, Decode
  PROVE  AnswerInv'
<1>0. NumServers \in Nat \ {0} /\ Server = 1 .. NumServers
  BY Sizing DEF Server
<1>1. /\ server = NumServers + 1 /\ result' = [q \in DOMAIN batch |-> Strip(q, Combined(q))]
      /\ UNCHANGED <<batch, backend, server, phase, replies, readFrom>>
  BY <1>0 DEF AnswerInv, Decode
<1>2. ASSUME NEW q \in DOMAIN batch PROVE Decoded(q, result'[q])
  <2>1. \A s \in Server : Answered(q, s)
    BY <1>0, <1>1 DEF AnswerInv
  <2>2. Decoded(q, Strip(q, Combined(q)))
    BY <2>1, RightRepliesDecode, Zenon DEF AnswerInv
  <2>. QED
    BY <1>1, <2>2, Zenon
<1>3. ASSUME NEW q \in DOMAIN batch, NEW r, Decoded(q, r)
      PROVE  /\ OnBytes(r)
             /\ \A k \in Byte : \A x \in r[k] :
                  \E c \in Bucket, s \in Server : x = Term(c, readFrom[s], k)
             /\ \A k \in Byte, c \in Bucket :
                  Cardinality(Stamps(r[k], c, k)) % 2 = 1 <=> c = batch[q].bucket
  BY <1>3, Zenon DEF Decoded
<1>4. ASSUME NEW q \in DOMAIN batch PROVE Decoded(q, result[q])'
  <2>. DEFINE r == result'[q]
  <2>1. Decoded(q, r)
    BY <1>2, Zenon
  <2>. HIDE DEF r
  <2>2. \A x, c, k : Stamps(x, c, k)' = Stamps(x, c, k)
    BY <1>1, Zenon DEF Stamps, Stamp
  <2>. QED
    BY <1>1, <1>3, <2>1, <2>2 DEF Decoded, OnBytes, r
<1>5. \A q \in DOMAIN batch, s \in 1 .. server - 1 : Answered(q, s)'
  BY <1>1, Zenon DEF AnswerInv, Answered, Vectors
<1>. QED
  BY <1>1, <1>4, <1>5, Zenon DEF AnswerInv, QueriesInv, IsSeq

(* Nothing else touches replies or results. *)
LEMMA AnswerStep ==
  AnswerInv /\ KernelMatchesCPU /\ [Next]_vars => AnswerInv'
<1>. SUFFICES ASSUME AnswerInv, KernelMatchesCPU, [Next]_vars PROVE AnswerInv'
  BY Zenon
<1>1. CASE ReadOnCPU \/ Finish
  BY <1>1, ServerAnswers, Zenon
<1>2. CASE Decode
  BY <1>2, DecodeAnswers, Zenon
<1>3. CASE /\ UNCHANGED <<batch, backend, server, replies, readFrom, result>>
           /\ phase' # <<>> => server \in Server /\ IsKernel(backend[server])
  <2>1. \A x, c, k : Stamps(x, c, k)' = Stamps(x, c, k)
    BY <1>3, Zenon DEF Stamps
  <2>2. ASSUME NEW q, NEW s PROVE Answered(q, s)' <=> Answered(q, s)
    BY <1>3, ZenonT(30) DEF Answered, Vectors
  <2>3. ASSUME NEW q PROVE Decoded(q, result[q])' <=> Decoded(q, result[q])
    BY <1>3, <2>1 DEF Decoded
  <2>. QED
    BY <1>3, <2>2, <2>3, Zenon DEF AnswerInv, QueriesInv
<1>4. CASE Launch \/ Step \/ (\E s \in Server : Flip(s)) \/ UNCHANGED vars
  <2>1. UNCHANGED <<batch, backend, server, replies, readFrom, result>>
    BY <1>4, Zenon DEF Launch, Step, Flip, vars
  <2>2. phase' # <<>> => server \in Server /\ IsKernel(backend[server])
    BY <1>4, Zenon DEF Launch, Step, Flip, vars, AnswerInv
  <2>. QED
    BY <1>3, <2>1, <2>2, Zenon
<1>. QED
  BY <1>1, <1>2, <1>4, Zenon DEF Next, Work

(* The invariant of a batch. *)
LEMMA Answers ==
  ASSUME OneGroup
  PROVE  Spec => []AnswerInv
BY AnswerInit, AnswerStep, KernelsAgree, PTL DEF Spec

(* When all replicas answered from one snapshot, every client of the batch
   decodes the bucket it asked for, for any number of servers, whatever the
   random vectors, the back ends and the order of their threads
   (pirclient/client.go:28-62, frontend.go:290-296, handle.go:175-186). *)
THEOREM ClientsDecodeBucket ==
  ASSUME OneGroup
  PROVE  Spec => []AnswerIsBucket
<1>1. AnswerInv => AnswerIsBucket
  <2>. SUFFICES ASSUME AnswerInv, NEW q \in DOMAIN result,
                       \A s \in Server : readFrom[s] = readFrom[1]
                PROVE  result[q] = DB(readFrom[1])[batch[q].bucket]
    BY Zenon DEF AnswerIsBucket
  <2>. DEFINE n == readFrom[1]
              a == batch[q].bucket
              r == result[q]
  <2>1. q \in DOMAIN batch /\ Decoded(q, r)
    BY DEF AnswerInv
  <2>2. a \in Bucket
    BY <2>1, QueryOf, Zenon DEF AnswerInv
  <2>3. ASSUME NEW k \in Byte PROVE r[k] = {Term(a, n, k)}
    <3>1. \A c \in Bucket : Stamps(r[k], c, k) = IF Term(c, n, k) \in r[k] THEN {Stamp(c, n)} ELSE {}
      <4>1. \A c \in Bucket : {Stamp(c, readFrom[s]) : s \in Server} \subseteq {Stamp(c, n)}
        BY Zenon
      <4>2. 1 \in Server
        BY Sizing DEF Server
      <4>3. \A c \in Bucket : {Stamp(c, readFrom[s]) : s \in Server} = {Stamp(c, n)}
        BY <4>1, <4>2
      <4>. HIDE DEF n
      <4>. QED
        BY <4>3, Zenon DEF Stamps, Term
    <3>2. Cardinality({}) % 2 # 1 /\ \A v : Cardinality({v}) % 2 = 1
      <4>1. Cardinality({}) = 0 /\ \A v : Cardinality({v}) = 1
        BY FS_EmptySet, FS_Singleton, Zenon
      <4>. QED
        BY <4>1, NoneOne, Zenon
    <3>3. \A c \in Bucket : Term(c, n, k) \in r[k] <=> c = a
      BY <2>1, <3>1, <3>2, Zenon DEF Decoded
    <3>4. \A x \in r[k] : \E c \in Bucket : x = Term(c, n, k)
      BY <2>1, Zenon DEF Decoded
    <3>. HIDE DEF n, a, r
    <3>. QED
      BY <2>2, <3>3, <3>4
  <2>4. r = [k \in Byte |-> {Term(a, n, k)}]
    BY <2>1, <2>3, Zenon DEF Decoded, OnBytes
  <2>. QED
    BY <2>2, <2>4, Zenon DEF DB, Term, Stamp
<1>. QED
  BY <1>1, Answers, PTL

(* Even when the replicas answered from different snapshots, what a client
   decodes is no bucket but the one it asked for, in any snapshot
   (shard.go:142-143, frontend.go:267). *)
THEOREM NoOtherBucket ==
  ASSUME OneGroup
  PROVE  Spec => []NeverWrongBucket
<1>1. AnswerInv => NeverWrongBucket
  <2>. SUFFICES ASSUME AnswerInv, NEW q \in DOMAIN result, NEW b \in Bucket, NEW n,
                       result[q] = DB(n)[b]
                PROVE  b = batch[q].bucket
    BY Zenon DEF NeverWrongBucket
  <2>. DEFINE r == result[q]
  <2>1. q \in DOMAIN batch /\ Decoded(q, r)
    BY DEF AnswerInv
  <2>2. 0 \in Byte
    BY Sizing DEF Byte
  <2>3. r[0] = {Term(b, n, 0)}
    BY <2>2, Zenon DEF DB, Term, Stamp
  <2>. HIDE DEF r
  <2>4. PICK c \in Bucket, s \in Server : Term(b, n, 0) = Term(c, readFrom[s], 0)
    BY <2>1, <2>2, <2>3, Zenon DEF Decoded
  <2>5. c = b /\ Stamp(b, n) = Stamp(b, readFrom[s])
    BY <2>4, Zenon DEF Term
  <2>6. Stamps(r[0], b, 0) = {Stamp(b, n)}
    BY <2>3, <2>5 DEF Stamps, Term
  <2>7. Cardinality({Stamp(b, n)}) = 1
    BY FS_Singleton, Zenon
  <2>. QED
    BY <2>1, <2>2, <2>6, <2>7, NoneOne, Zenon DEF Decoded
<1>. QED
  BY <1>1, Answers, PTL

=============================================================================
