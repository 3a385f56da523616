------------------------------ MODULE PirRead ------------------------------
(***************************************************************************)
(* A batch of private reads from the clients' request vectors to the       *)
(* decoded buckets: triggerBatchRead asks one replica after the other,     *)
(* each answers from its copy of the table with its back end, pads the     *)
(* answers, and the frontend combines them.                                *)
(*                                                                         *)
(* A GPU back end runs the threads of a kernel (pir/pircl/kernel_cl.go,    *)
(* pir/pircuda/kernel.cu) in groups; a barrier holds a group together, not *)
(* the groups.  Memory that nobody wrote holds a term of its own.          *)
(*                                                                         *)
(* The copies of the replicas are replaced one by one (Shard.tla).         *)
(***************************************************************************)
EXTENDS PirAlgebra

CONSTANTS
  ReadBatch,      \* Config.ReadBatch
  Batches,        \* sequences of queries [bucket, random]
  Backends,       \* back ends of the replicas: Server -> name
  GroupSize(_),   \* work-group size of a kernel
  Versions,       \* number of snapshots (bound)
  Changed(_)      \* buckets in which a snapshot differs from the one before

ASSUME PirReadParams ==
  /\ ReadBatch \in Nat \ {0} /\ Versions \in Nat \ {0}
  /\ \A batch \in Batches :
       /\ batch \in Seq([bucket : Bucket, random : [1 .. NumServers - 1 -> RandomBits]])
       /\ Len(batch) \in 1 .. ReadBatch
  /\ Backends \subseteq [Server -> {"read0", "read1", "read2", "cl0", "cl1", "cl2", "cuda"}]
  /\ \A k \in {"cl0", "cl1", "cl2", "cuda"} : GroupSize(k) \in Nat \ {0}

VARIABLES
  batch,     \* the queries
  backend,   \* per replica
  snapshot,  \* per replica: the copy of the table it reads
  server,    \* the replica being asked
  phase,     \* per thread of its kernel: barriers passed
  memory,    \* output and scratch of the kernel
  replies,   \* per replica that answered: a response for each query
  readFrom,  \* history: per replica, the snapshot it answered from
  result     \* per query: the bytes the client decodes

vars == <<batch, backend, snapshot, server, phase, memory, replies, readFrom, result>>

(* A snapshot's buckets: a bucket's bytes are named after the snapshot they
   changed in. *)
DB(n) ==
  [b \in Bucket |-> [k \in Byte |->
    {<<"db", <<b, Max({0} \cup {m \in 1 .. n : b \in Changed(m)})>>, k>>}]]

(* Variant: buckets are counted from 1. *)
Vectors_NextBucket(q) ==
  GenerateRequestVectors((batch[q].bucket + 1) % NumBuckets, batch[q].random)

(* makeReadArg: the vectors of one query. *)
Vectors(q) == GenerateRequestVectors(batch[q].bucket, batch[q].random)

(* The replica makes ReadBatch requests of a batch; batchRead copies their vectors
   into one of zeros. *)
PirVector(s) ==
  [i \in 1 .. ReadBatch |-> IF i \in DOMAIN batch THEN Vectors(i)[s] ELSE {}]

-----------------------------------------------------------------------------
(* Kernels.  Thread g of group g \div Local works on words. *)
BucketWords == BucketBytes \div WordSize
OutputWords == ReadBatch * BucketWords

IsKernel(b) == b \in {"cl0", "cl1", "cl2", "cuda"}

(* numThreads: a group for each request, a thread for each word of the output,
   a thread for each word of the database. *)
GlobalSize(k) ==
  CASE k = "cl0" -> ReadBatch * GroupSize(k)
    [] k = "cl1" -> OutputWords
    [] k \in {"cl2", "cuda"} -> NumBuckets * BucketWords

Local(k) == IF GlobalSize(k) < GroupSize(k) THEN GlobalSize(k) ELSE GroupSize(k)

(* CUDA starts whole groups; the threads beyond globalSize return at once. *)
Threads(k) ==
  0 .. (IF k = "cuda" THEN ((GlobalSize(k) - 1) \div Local(k) + 1) * Local(k)
                      ELSE GlobalSize(k)) - 1

Group(k, g) == g \div Local(k)
Strided(k, g, n) == {o \in 0 .. n - 1 : o % Local(k) = g % Local(k)}

(* A kernel's code, cut at its barriers. *)
Program(k) ==
  CASE k = "cl0" -> <<"zero", "xor", "store">>
    [] k = "cl1" -> <<"set">>
    [] k = "cl2" -> <<"zero", "xor">>
    [] k = "cuda" -> <<"enter", "xor">>

(* Variant: no barrier. *)
Barrier_None(k, g) == TRUE

(* Variant: a thread that returned at once has not come to the barrier. *)
Barrier_Returned(k, g) ==
  \A t \in Threads(k) : Group(k, t) = Group(k, g) =>
    t < GlobalSize(k) /\ phase[t] >= phase[g]

(* Every thread of the group has come as far as this one. *)
Barrier(k, g) ==
  \A t \in Threads(k) : Group(k, t) = Group(k, g) => phase[t] >= phase[g]

Word(s, b, w) == {<<"db", t[2], w>> : t \in DB(snapshot[s])[b][w * WordSize]}

Cells(k) ==
  ({"output"} \X {0} \X (0 .. OutputWords - 1)) \cup
  IF k = "cl0" THEN {"scratch"} \X (0 .. ReadBatch - 1) \X (0 .. BucketWords - 1) ELSE {}

(* CreateBuffer, and MemsetD8 for CUDA. *)
Fresh(k) == [c \in Cells(k) |-> IF k = "cuda" THEN {} ELSE {<<c[1], <<c[2], c[3]>>, 0>>}]

Output(i) == <<"output", 0, i>>
Scratch(g, o) == <<"scratch", g, o>>

(* The cells a thread sets to 0 before the first barrier. *)
Zeroed(k, g) ==
  CASE k = "cl0" -> {Scratch(Group(k, g), o) : o \in Strided(k, g, BucketWords)}
    [] k = "cl2" ->
         LET multiplier == OutputWords \div GlobalSize(k) + 1 IN
         IF GlobalSize(k) >= OutputWords
           THEN {Output(i) : i \in {g} \cap (0 .. OutputWords - 1)}
           ELSE {Output(i) : i \in (g * multiplier .. (g + 1) * multiplier - 1)
                                     \cap (0 .. OutputWords - 1)}
    [] OTHER -> {}

(* The terms a thread XORs into each cell: db word o for the requests with the
   bit of its bucket. *)
Accumulated(k, g, c) ==
  LET req == PirVector(server)
      bucket(o) == o \div BucketWords
      word(o) == Word(server, bucket(o), o % BucketWords) IN
  CASE k = "cl0" ->
         UNION {word(o) : o \in {o \in Strided(k, g, NumBuckets * BucketWords) :
                  bucket(o) \in req[Group(k, g) + 1]
                    /\ c = Scratch(Group(k, g), o % BucketWords)}}
    [] k = "cl1" ->
         UNION {Word(server, b, g % BucketWords) :
                  b \in {b \in Bucket : c = Output(g) /\ b \in req[g \div BucketWords + 1]}}
    [] OTHER ->
         UNION {word(g) : i \in {i \in 1 .. ReadBatch :
                  bucket(g) \in req[i] /\ c = Output((i - 1) * BucketWords + (g % BucketWords))}}

(* What a thread does between two barriers.  The XORs are atomic, so the order of
   those of one thread does not matter. *)
RunThread(k, g) ==
  LET op == Program(k)[phase[g] + 1]
      stored == {Output(Group(k, g) * BucketWords + o) : o \in Strided(k, g, BucketWords)}
      after(c) ==
        CASE op = "zero" /\ c \in Zeroed(k, g) -> {}
          [] op = "set" /\ c = Output(g) -> Accumulated(k, g, c)
          [] op = "xor" -> Xor(memory[c], Accumulated(k, g, c))
          [] op = "store" /\ c \in stored -> memory[Scratch(Group(k, g), c[3] % BucketWords)]
          [] OTHER -> memory[c] IN
  /\ phase[g] < Len(Program(k)) /\ Barrier(k, g)
  /\ phase' = [phase EXCEPT ![g] = @ + 1]
  /\ memory' = [c \in DOMAIN memory |-> after(c)]

(* EnqueueReadBuffer: the words of response i as bytes. *)
ReadBuffer(i) ==
  [b \in Byte |->
    {<<t[1], t[2], b>> : t \in memory[Output((i - 1) * BucketWords + b \div WordSize)]}]

-----------------------------------------------------------------------------
Init ==
  /\ batch \in Batches /\ backend \in Backends
  /\ snapshot = [s \in Server |-> 0]
  /\ server = 1 /\ phase = <<>> /\ memory = <<>>
  /\ replies = <<>> /\ readFrom = <<>> /\ result = <<>>

(* SetDB at one replica. *)
Flip(s) ==
  /\ snapshot[s] < Versions - 1 /\ ~ (s = server /\ phase # <<>>)
  /\ snapshot' = [snapshot EXCEPT ![s] = @ + 1]
  /\ UNCHANGED <<batch, backend, server, phase, memory, replies, readFrom, result>>

(* BatchRead of the replica has its responses: pad them and return those that
   were asked for. *)
Answer(responses) ==
  /\ replies' = Append(replies, [q \in DOMAIN batch |-> Overlay(<<q, server>>, responses[q])])
  /\ readFrom' = Append(readFrom, snapshot[server])
  /\ server' = server + 1

ReadOnCPU ==
  /\ server \in Server /\ ~ IsKernel(backend[server])
  /\ Answer([i \in 1 .. ReadBatch |->
              ReadCPU(backend[server], DB(snapshot[server]), PirVector(server)[i])])
  /\ UNCHANGED <<batch, backend, snapshot, phase, memory, result>>

Launch ==
  /\ server \in Server /\ IsKernel(backend[server]) /\ phase = <<>>
  /\ phase' = [g \in Threads(backend[server]) |->
                IF g < GlobalSize(backend[server]) THEN 0
                                                   ELSE Len(Program(backend[server]))]
  /\ memory' = Fresh(backend[server])
  /\ UNCHANGED <<batch, backend, snapshot, server, replies, readFrom, result>>

Step ==
  /\ phase # <<>>
  /\ \E g \in DOMAIN phase : RunThread(backend[server], g)
  /\ UNCHANGED <<batch, backend, snapshot, server, replies, readFrom, result>>

Finished ==
  phase # <<>> /\ \A g \in DOMAIN phase : phase[g] = Len(Program(backend[server]))

(* Finish, then the responses are read back. *)
Finish ==
  /\ Finished
  /\ Answer([i \in 1 .. ReadBatch |-> ReadBuffer(i)])
  /\ phase' = <<>> /\ memory' = <<>>
  /\ UNCHANGED <<batch, backend, snapshot, result>>

(* Variant: the pad of the first server stays. *)
Strip_AllButOne(q, data) ==
  LET bare[s \in 0 .. NumServers] ==
        IF s \in 0 .. 1 THEN data ELSE Overlay(<<q, s>>, bare[s - 1])
  IN  bare[NumServers]

(* retrieveResponse: every server's pad is taken off. *)
Strip(q, data) ==
  LET bare[s \in 0 .. NumServers] ==
        IF s = 0 THEN data ELSE Overlay(<<q, s>>, bare[s - 1])
  IN  bare[NumServers]

(* The frontend XORs the replies of the servers to a query. *)
Combined(q) ==
  LET sum[s \in 0 .. NumServers] ==
        IF s = 0 THEN Zeros ELSE Combine(sum[s - 1], replies[s][q])
  IN  sum[NumServers]

(* The replies are combined and the client decodes them. *)
Decode ==
  /\ server > NumServers /\ result = <<>>
  /\ result' = [q \in DOMAIN batch |-> Strip(q, Combined(q))]
  /\ UNCHANGED <<batch, backend, snapshot, server, phase, memory, replies, readFrom>>

Work == ReadOnCPU \/ Launch \/ Step \/ Finish \/ Decode

Next == Work \/ \E s \in Server : Flip(s)

Spec == Init /\ [][Next]_vars

(* Replicas and devices keep working. *)
FairSpec == Spec /\ WF_vars(Work)

-----------------------------------------------------------------------------
(* However its threads interleave, a kernel computes what the CPU computes
   (kernel_cl.go:47-147, kernel.cu:26-57, shard_cpu.go:181-203). *)
KernelMatchesCPU ==
  Finished =>
    \A i \in 1 .. ReadBatch :
      ReadBuffer(i) = ReadCPU("read2", DB(snapshot[server]), PirVector(server)[i])

(* When the replicas answered from the same snapshot, every client of a batch
   decodes the bucket it asked for (pirclient/client.go:28-62, replica.go:90-136,
   frontend_protocol.go:58-66, handle.go:175-186). *)
AnswerIsBucket ==
  \A q \in DOMAIN result :
    (\A s \in Server : readFrom[s] = readFrom[1]) =>
      result[q] = DB(readFrom[1])[batch[q].bucket]

(* When a snapshot changed in between, a client decodes bytes of the bucket it asked
   for or a mixture, never another bucket (shard.go:142-143, frontend.go:267). *)
NeverWrongBucket ==
  \A q \in DOMAIN result : \A b \in Bucket, n \in 0 .. Versions - 1 :
    result[q] = DB(n)[b] => b = batch[q].bucket

(* The vectors sent to all servers but one could have been sent for any bucket
   (pirclient/client.go:48-59). *)
ViewHidesBucket ==
  server = 1 /\ phase = <<>> => \A q \in DOMAIN batch : \A s \in Server, b \in Bucket :
    \E random \in [1 .. NumServers - 1 -> RandomBits] :
      \A t \in Server \ {s} : GenerateRequestVectors(b, random)[t] = Vectors(q)[t]

(* A batch is answered: no group waits at a barrier for a thread that has
   returned (kernel.cu:39-42). *)
BatchAnswered == <>(result # <<>>)

=============================================================================
