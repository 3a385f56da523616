------------------------- MODULE CoordinatorProofs -------------------------
(***************************************************************************)
(* Invariants of the coordinator, proved for every size of table, window,  *)
(* threshold and vector and any number of callers.  Only the last part     *)
(* depends on what the table does with an item.                            *)
(***************************************************************************)
EXTENDS Coordinator, CuckooProofs, SequenceTheorems

-----------------------------------------------------------------------------
(* The threshold. *)

(* ThresholdKept is about the moments nothing is on its way.  Inductive is what
   holds at all others: commits that reach the threshold have somebody who will
   look at them. *)
ThresholdInv ==
  /\ committer \in [Committers -> {"idle", "notify"}]
  /\ numNewCommits \in Nat
  /\ numNewCommits >= SnapshotThreshold =>
       \/ loop \in {"check", "exited"}
       \/ \E c \in Committers : committer[c] = "notify"

(* A new coordinator has no commits (server.go:51-101). *)
LEMMA ThresholdInit == Init => ThresholdInv
BY CoordinatorParams DEF Init, ThresholdInv

(* Every step keeps the promise of Commit, which counts under the lock and
   notifies after it (server.go:189-217). *)
LEMMA ThresholdStep == ThresholdInv /\ [Next]_vars => ThresholdInv'
<1> SUFFICES ASSUME ThresholdInv, [Next]_vars PROVE ThresholdInv'
  OBVIOUS
<1>0. SnapshotThreshold \in Nat \ {0}
  BY CoordinatorParams
<1>1. ASSUME NEW c \in Committers, NEW args \in Commits, Commit(c, args)
      PROVE  ThresholdInv'
  BY <1>1 DEF Commit, ThresholdInv
<1>2. ASSUME NEW c \in Committers, NotifyLoop(c)
      PROVE  ThresholdInv'
  BY <1>2 DEF NotifyLoop, ThresholdInv, snapVars
<1>3. CASE LoopCheck
  BY <1>0, <1>3 DEF LoopCheck, NotifySnapshot, BuildSnapshot, ThresholdInv, snapVars
<1>4. CASE LoopTick \/ ForceSnapshot
  BY <1>0, <1>4 DEF LoopTick, ForceSnapshot, NotifySnapshot, BuildSnapshot, ThresholdInv
<1>5. CASE Close
  BY <1>5 DEF Close, ThresholdInv, snapVars
<1>6. CASE UNCHANGED <<committer, numNewCommits, loop>>
  BY <1>6 DEF ThresholdInv
<1>7. ASSUME NEW s \in Servers, AddServer(s)
      PROVE  UNCHANGED <<committer, numNewCommits, loop>>
  BY <1>7 DEF AddServer, snapVars
<1>8. ASSUME NEW n \in notices, Notify(n)
      PROVE  UNCHANGED <<committer, numNewCommits, loop>>
  BY <1>8 DEF Notify, snapVars
<1>9. ASSUME NEW f \in Fetchers,
             (\E k \in 1 .. 2, s \in 0 .. 1 : GetLayout(f, s, k)) \/ GetIntVec(f) \/ Encode(f)
      PROVE  UNCHANGED <<committer, numNewCommits, loop>>
  BY <1>9 DEF GetLayout, GetIntVec, Encode, Fetched, snapVars
<1>10. CASE UNCHANGED vars
  BY <1>6, <1>10 DEF vars
<1> QED
  BY <1>1, <1>2, <1>3, <1>4, <1>5, <1>6, <1>7, <1>8, <1>9, <1>10 DEF Next

(* No commit misses the threshold, for any number of concurrent callers: when
   nobody is about to notify and the loop is idle, fewer commits than the
   threshold wait (server.go:204-216, 244-253, 286-291). *)
THEOREM NoCommitMissed == Spec => []ThresholdKept
<1>1. ThresholdInv => ThresholdKept
  BY CoordinatorParams DEF ThresholdInv, ThresholdKept
<1> QED
  BY <1>1, ThresholdInit, ThresholdStep, PTL DEF Spec

-----------------------------------------------------------------------------
(* Replies. *)

(* The element a layout may have when snapshot id was asked for. *)
NotOlder(id, l, i) ==
  \/ id = 0 /\ l[i] = 0
  \/ \E n \in DOMAIN snaps : n >= id /\ l[i] = DecodeLayout(snaps[n].table)[i]

(* The bits of snapshot id. *)
BitsOf(id) == IF id = 0 THEN {} ELSE buildInterestVector(snaps[id].log)

(* A reply refers to a snapshot that was built, an interest vector to the slice of
   that snapshot, and a layout being encoded to contents that are not older. *)
ReplyInv(f) ==
  fetch[f].pc # "idle" =>
    /\ fetch[f].id \in 0 .. Len(snaps)
    /\ fetch[f].kind = "intvec" => fetch[f].bits = BitsOf(fetch[f].id)
    /\ fetch[f].kind = "layout" =>
         /\ fetch[f].slots \subseteq SlotNo
         /\ \A l \in fetch[f].seen, i \in fetch[f].slots : NotOlder(fetch[f].id, l, i)

(* The history is a sequence, whatever its elements are. *)
IsSeq(s) == Len(s) \in Nat /\ s = [i \in 1 .. Len(s) |-> s[i]]

(* The current layout and vector are those of the last snapshot. *)
SnapshotInv ==
  /\ IsSeq(snaps)
  /\ snapshotCount = Len(snaps)
  /\ intVec = BitsOf(snapshotCount)
  /\ \A i \in SlotNo : NotOlder(snapshotCount, lastLayout, i)
  /\ DOMAIN fetch = Fetchers
  /\ \A f \in Fetchers : ReplyInv(f)

(* Append, for a sequence of anything. *)
LEMMA AppendIsSeq ==
  ASSUME NEW s, IsSeq(s), NEW e
  PROVE  /\ IsSeq(Append(s, e))
         /\ Len(Append(s, e)) = Len(s) + 1
         /\ DOMAIN s = 1 .. Len(s)
         /\ DOMAIN Append(s, e) = 1 .. Len(s) + 1
         /\ \A i \in 1 .. Len(s) : Append(s, e)[i] = s[i]
         /\ Append(s, e)[Len(s) + 1] = e
<1> DEFINE S == {s[i] : i \in 1 .. Len(s)} \cup {e}
<1>1. s \in Seq(S)
  BY DEF IsSeq
<1>2. e \in S
  OBVIOUS
<1> HIDE DEF S
<1>3. Append(s, e) \in Seq(S)
  BY <1>1, <1>2
<1>4. ASSUME NEW t \in Seq(S) PROVE IsSeq(t)
  BY DEF IsSeq
<1>5. IsSeq(Append(s, e))
  BY <1>3, <1>4, Zenon
<1> QED
  BY <1>1, <1>2, <1>5

(* A new coordinator has an empty layout and no snapshot (server.go:51-101). *)
LEMMA SnapshotInit == Init => SnapshotInv
<1> SUFFICES ASSUME Init PROVE SnapshotInv
  OBVIOUS
<1>1. snaps = <<>> /\ snapshotCount = 0 /\ lastLayout = [i \in SlotNo |-> 0]
  BY DEF Init
<1>2. intVec = {}
  BY DEF Init, buildInterestVector
<1>3. fetch = [f \in Fetchers |-> IdleFetch]
  BY DEF Init
<1> QED
  BY <1>1, <1>2, <1>3 DEF SnapshotInv, IsSeq, BitsOf, NotOlder, ReplyInv, IdleFetch

(* A snapshot is numbered, its vector is a new slice, and a layout that is being
   encoded may show it (server.go:251-275). *)
LEMMA BuildKeepsReplies == SnapshotInv /\ BuildSnapshot => SnapshotInv'
<1> SUFFICES ASSUME SnapshotInv, BuildSnapshot PROVE SnapshotInv'
  OBVIOUS
<1> DEFINE new == [log |-> commitLog, table |-> table]
<1>1. snaps' = Append(snaps, new)
  BY DEF BuildSnapshot
<1>2. /\ IsSeq(snaps') /\ Len(snaps') = Len(snaps) + 1 /\ Len(snaps) \in Nat
      /\ DOMAIN snaps = 1 .. Len(snaps) /\ DOMAIN snaps' = 1 .. Len(snaps) + 1
      /\ \A i \in 1 .. Len(snaps) : snaps'[i] = snaps[i]
      /\ snaps'[Len(snaps) + 1] = new
  BY <1>1, AppendIsSeq DEF SnapshotInv, IsSeq
<1>3. snapshotCount' = Len(snaps) + 1 /\ snapshotCount' # 0
  BY <1>2 DEF BuildSnapshot, SnapshotInv
<1>4. intVec' = BitsOf(snapshotCount)'
  BY <1>2, <1>3 DEF BuildSnapshot, BitsOf
<1>5. ASSUME NEW id \in 0 .. Len(snaps) + 1, NEW i \in SlotNo
      PROVE  NotOlder(id, lastLayout, i)'
  <2>1. lastLayout'[i] = DecodeLayout(snaps'[Len(snaps) + 1].table)[i]
    BY <1>2 DEF BuildSnapshot
  <2> QED
    BY <1>2, <1>5, <2>1 DEF NotOlder
<1>6. ASSUME NEW id, NEW l, NEW i, NotOlder(id, l, i)
      PROVE  NotOlder(id, l, i)'
  BY <1>2, <1>6 DEF NotOlder
<1>7. ASSUME NEW id \in 0 .. Len(snaps)
      PROVE  BitsOf(id)' = BitsOf(id)
  BY <1>2, <1>7 DEF BitsOf
<1>8. DOMAIN fetch' = Fetchers
  BY DEF BuildSnapshot
<1>9. ASSUME NEW f \in Fetchers
      PROVE  ReplyInv(f)'
  <2>1. ReplyInv(f)
    BY <1>9 DEF SnapshotInv
  <2>2. /\ fetch'[f].pc = fetch[f].pc /\ fetch'[f].id = fetch[f].id
        /\ fetch'[f].kind = fetch[f].kind /\ fetch'[f].bits = fetch[f].bits
        /\ fetch'[f].slots = fetch[f].slots
        /\ fetch'[f].seen \subseteq fetch[f].seen \cup {lastLayout'}
    BY <1>9 DEF BuildSnapshot
  <2> QED
    BY <1>2, <1>5, <1>6, <1>7, <2>1, <2>2 DEF ReplyInv
<1> QED
  BY <1>2, <1>3, <1>4, <1>5, <1>8, <1>9 DEF SnapshotInv

(* Only BuildSnapshot changes what replies are compared with. *)
LEMMA RepliesUntouched ==
  SnapshotInv /\ UNCHANGED <<snapshotCount, lastLayout, intVec, snaps, fetch>> => SnapshotInv'
BY DEF SnapshotInv, IsSeq, NotOlder, BitsOf, ReplyInv

(* Every step keeps replies tied to their snapshot. *)
LEMMA SnapshotStep == SnapshotInv /\ [Next]_vars => SnapshotInv'
<1> SUFFICES ASSUME SnapshotInv, [Next]_vars PROVE SnapshotInv'
  OBVIOUS
<1>1. ASSUME NEW c \in Committers, (\E args \in Commits : Commit(c, args)) \/ NotifyLoop(c)
      PROVE  SnapshotInv'
  BY <1>1, RepliesUntouched DEF Commit, NotifyLoop, snapVars
<1>2. ASSUME NEW force \in BOOLEAN, NotifySnapshot(force)
      PROVE  SnapshotInv'
  BY <1>2, RepliesUntouched, BuildKeepsReplies DEF NotifySnapshot, snapVars
<1>3. CASE LoopCheck \/ LoopTick \/ ForceSnapshot
  BY <1>2, <1>3, Zenon DEF LoopCheck, LoopTick, ForceSnapshot
<1>4. CASE Close
  BY <1>4, RepliesUntouched DEF Close, snapVars
<1>5. ASSUME NEW s \in Servers, AddServer(s)
      PROVE  SnapshotInv'
  BY <1>5, RepliesUntouched DEF AddServer, snapVars
<1>6. ASSUME NEW n \in notices, Notify(n)
      PROVE  SnapshotInv'
  BY <1>6, RepliesUntouched DEF Notify, snapVars
<1>7. ASSUME NEW f \in Fetchers, NEW rep, Fetched(f, rep),
             rep.id = snapshotCount, rep.seen = {lastLayout},
             rep.kind = "intvec" => rep.bits = intVec,
             rep.kind = "layout" => rep.slots \subseteq SlotNo
      PROVE  SnapshotInv'
  <2>1. UNCHANGED <<snapshotCount, lastLayout, intVec, snaps>>
    BY <1>7 DEF Fetched, snapVars
  <2>2. DOMAIN fetch' = Fetchers /\ fetch'[f] = rep
        /\ \A g \in Fetchers \ {f} : fetch'[g] = fetch[g]
    BY <1>7 DEF Fetched, SnapshotInv
  <2>3. ASSUME NEW g \in Fetchers PROVE ReplyInv(g)'
    <3>1. CASE g # f
      BY <2>1, <2>2, <3>1 DEF ReplyInv, SnapshotInv, NotOlder, BitsOf
    <3>2. CASE g = f
      BY <1>7, <2>1, <2>2, <3>2 DEF ReplyInv, SnapshotInv, NotOlder, BitsOf, IsSeq
    <3> QED
      BY <3>1, <3>2
  <2> QED
    BY <2>1, <2>2, <2>3 DEF SnapshotInv, IsSeq, NotOlder, BitsOf
<1>8. ASSUME NEW f \in Fetchers, NEW k \in 1 .. 2, NEW s \in 0 .. 1, GetLayout(f, s, k)
      PROVE  SnapshotInv'
  <2> DEFINE shardSize == GetCapacity \div k
             idx == s * shardSize
             rep == [IdleFetch EXCEPT !.pc = "encode", !.kind = "layout",
                       !.id = snapshotCount, !.slots = idx .. idx + shardSize - 1,
                       !.seen = {lastLayout}]
  <2>1. Fetched(f, rep) /\ idx + shardSize <= GetCapacity
    BY <1>8 DEF GetLayout
  <2>2. GetCapacity \in Nat
    BY TableParams DEF GetCapacity
  <2>3. shardSize \in Nat
    BY <2>2
  <2>4. idx \in Nat
    BY <2>3
  <2>5. idx .. idx + shardSize - 1 \subseteq SlotNo
    BY <2>1, <2>2, <2>3, <2>4 DEF SlotNo
  <2>6. rep.id = snapshotCount /\ rep.seen = {lastLayout} /\ rep.kind = "layout"
        /\ rep.slots = idx .. idx + shardSize - 1
    BY DEF IdleFetch
  <2> QED
    BY <1>7, <2>1, <2>5, <2>6, Zenon
<1>9. ASSUME NEW f \in Fetchers, GetIntVec(f)
      PROVE  SnapshotInv'
  <2> DEFINE rep == [IdleFetch EXCEPT !.pc = "encode", !.kind = "intvec",
                       !.id = snapshotCount, !.seen = {lastLayout}, !.bits = intVec]
  <2>1. rep.id = snapshotCount /\ rep.seen = {lastLayout} /\ rep.kind = "intvec"
        /\ rep.bits = intVec
    BY DEF IdleFetch
  <2>2. Fetched(f, rep)
    BY <1>9 DEF GetIntVec
  <2> QED
    BY <1>7, <2>1, <2>2, Zenon
<1>10. ASSUME NEW f \in Fetchers, Encode(f)
       PROVE  SnapshotInv'
  <2>1. UNCHANGED <<snapshotCount, lastLayout, intVec, snaps>>
    BY <1>10 DEF Encode, snapVars
  <2>2. PICK l \in [fetch[f].slots -> ID] :
          /\ \A i \in fetch[f].slots : \E m \in fetch[f].seen : l[i] = m[i]
          /\ fetch' = [fetch EXCEPT ![f].pc = "sent", ![f].seen = {l}]
    BY <1>10, Zenon DEF Encode
  <2>3. fetch[f].pc = "encode"
    BY <1>10 DEF Encode
  <2>4. /\ DOMAIN fetch' = Fetchers
        /\ \A g \in Fetchers \ {f} : fetch'[g] = fetch[g]
        /\ fetch'[f].id = fetch[f].id /\ fetch'[f].kind = fetch[f].kind
        /\ fetch'[f].bits = fetch[f].bits /\ fetch'[f].slots = fetch[f].slots
        /\ fetch'[f].seen \subseteq {l}
    BY <2>2 DEF SnapshotInv
  <2>5. ASSUME NEW g \in Fetchers PROVE ReplyInv(g)'
    <3>1. CASE g # f
      BY <2>1, <2>4, <3>1 DEF ReplyInv, SnapshotInv, NotOlder, BitsOf
    <3>2. CASE g = f
      <4>1. ReplyInv(f)
        BY DEF SnapshotInv
      <4>2. ASSUME NEW i \in fetch[f].slots, fetch[f].kind = "layout"
            PROVE  NotOlder(fetch[f].id, l, i)
        BY <2>2, <2>3, <4>1, <4>2 DEF ReplyInv, NotOlder
      <4> QED
        BY <2>1, <2>3, <2>4, <3>2, <4>1, <4>2 DEF ReplyInv, NotOlder, BitsOf
    <3> QED
      BY <3>1, <3>2
  <2> QED
    BY <2>1, <2>4, <2>5 DEF SnapshotInv, IsSeq, NotOlder, BitsOf
<1>11. CASE UNCHANGED vars
  BY <1>11, RepliesUntouched DEF vars
<1> QED
  BY <1>1, <1>3, <1>4, <1>5, <1>6, <1>8, <1>9, <1>10, <1>11 DEF Next

(* An interest vector sent for a snapshot has the bits of that snapshot's commits,
   however many snapshots were built before it was encoded (server.go:168-186, 256). *)
THEOREM VectorsOfSnapshot == Spec => []IntVecOfSnapshot
<1>1. SnapshotInv => IntVecOfSnapshot
  BY DEF SnapshotInv, ReplyInv, BitsOf, IntVecOfSnapshot
<1> QED
  BY <1>1, SnapshotInit, SnapshotStep, PTL DEF Spec

(* No element of a layout that is sent is older than the snapshot asked for,
   although the reply shares its memory with later ones (server.go:134-165,
   259-262). *)
THEOREM LayoutsNotOlder == Spec => []LayoutNotOlder
<1>1. SnapshotInv => LayoutNotOlder
  BY DEF SnapshotInv, ReplyInv, NotOlder, LayoutNotOlder
<1> QED
  BY <1>1, SnapshotInit, SnapshotStep, PTL DEF Spec

-----------------------------------------------------------------------------
(* The table and the log. *)

(* The items commits turn into: the payload is the identifier. *)
Genuine == {x \in Item : x.data = x.id}

(* The commits of a log that turn into an item of K. *)
Logged(log, K) == {j \in DOMAIN log : asCuckooItem(log[j]) \in K}

(* Every commit turns into an item the table accepts (server.go:198-210). *)
LEMMA CommitIsItem ==
  ASSUME NEW c \in Commits
  PROVE  asCuckooItem(c) \in Genuine
<1>1. c.id \in ID /\ c.bucket1 \in Nat /\ c.bucket2 \in Nat
  BY CommitsAssumption
<1>2. NumBuckets \in Nat \ {0} /\ ID = Data
  BY TableParams, CoordinatorParams
<1>3. c.bucket1 % NumBuckets \in Bucket /\ c.bucket2 % NumBuckets \in Bucket
  BY <1>1, <1>2 DEF Bucket
<1>. QED
  BY <1>1, <1>2, <1>3 DEF asCuckooItem, Genuine, Item

(* Equal items of the coordinator are the same (item.go:17-21). *)
LEMMA GenuineEquals ==
  ASSUME NEW x \in Genuine, NEW y \in Genuine, Equals(x, y)
  PROVE  x = y
BY DEF Genuine, Item, Equals

(* The numbers from 1 to n are n. *)
LEMMA IntervalCardinality ==
  ASSUME NEW n \in Nat
  PROVE  IsFiniteSet(1 .. n) /\ Cardinality(1 .. n) = n
<1>1. /\ IsFiniteSet(1 .. n)
      /\ Cardinality(1 .. n) = IF 1 > n THEN 0 ELSE n - 1 + 1
  <2>1. 1 \in Int /\ n \in Int
    OBVIOUS
  <2>. QED
    BY <2>1, FS_Interval, Zenon
<1>2. (IF 1 > n THEN 0 ELSE n - 1 + 1) = n
  OBVIOUS
<1>. QED
  BY <1>1, <1>2

(* The commits of a log can be counted. *)
LEMMA LoggedFinite ==
  ASSUME NEW log \in Seq(Commits), NEW K
  PROVE  /\ IsFiniteSet(Logged(log, K))
         /\ Cardinality(Logged(log, K)) \in Nat
<1>1. DOMAIN log = 1 .. Len(log) /\ Len(log) \in Nat
  OBVIOUS
<1>2. IsFiniteSet(DOMAIN log)
  BY <1>1, IntervalCardinality, Zenon
<1>3. Logged(log, K) \in SUBSET DOMAIN log
  BY DEF Logged
<1>4. IsFiniteSet(Logged(log, K))
  BY <1>2, <1>3, FS_Subset, Zenon
<1>. QED
  BY <1>4, FS_CardinalityType

(* A commit that is appended counts once. *)
LEMMA LoggedAppend ==
  ASSUME NEW log \in Seq(Commits), NEW c \in Commits, NEW K
  PROVE  Cardinality(Logged(Append(log, c), K)) =
           Cardinality(Logged(log, K)) + Weight(asCuckooItem(c), K)
<1>. DEFINE n == Len(log) + 1
            new == Append(log, c)
<1>1. /\ Len(log) \in Nat /\ DOMAIN log = 1 .. Len(log) /\ DOMAIN new = 1 .. n
      /\ new[n] = c /\ \A j \in 1 .. Len(log) : new[j] = log[j]
  OBVIOUS
<1>2. n \notin Logged(log, K)
  BY <1>1 DEF Logged
<1>3. \A j \in 1 .. n : j = n \/ j \in 1 .. Len(log)
  BY <1>1
<1>. HIDE DEF new
<1>4. CASE asCuckooItem(c) \in K
  <2>1. Logged(new, K) = Logged(log, K) \cup {n}
    BY <1>1, <1>3, <1>4 DEF Logged
  <2>2. Cardinality(Logged(log, K) \cup {n}) = Cardinality(Logged(log, K)) + 1
    BY <1>2, LoggedFinite, FS_AddElement, Zenon
  <2>. QED
    BY <1>4, <2>1, <2>2 DEF Weight, new
<1>5. CASE asCuckooItem(c) \notin K
  <2>1. Logged(new, K) = Logged(log, K)
    BY <1>1, <1>3, <1>5 DEF Logged
  <2>. QED
    BY <1>5, <2>1, LoggedFinite DEF Weight, new
<1>. QED
  BY <1>4, <1>5

(* A commit that is dropped at the front counts once less. *)
LEMMA LoggedTail ==
  ASSUME NEW log \in Seq(Commits), Len(log) >= 1, NEW K
  PROVE  /\ SubSeq(log, 2, Len(log)) \in Seq(Commits)
         /\ Len(SubSeq(log, 2, Len(log))) = Len(log) - 1
         /\ Cardinality(Logged(SubSeq(log, 2, Len(log)), K)) + Weight(asCuckooItem(log[1]), K) =
              Cardinality(Logged(log, K))
<1>. DEFINE rest == SubSeq(log, 2, Len(log))
            A == Logged(rest, K)
            B == Logged(log, K) \ {1}
            f == [j \in A |-> j + 1]
<1>1. /\ Len(log) \in Nat /\ DOMAIN log = 1 .. Len(log)
      /\ rest \in Seq(Commits) /\ Len(rest) = Len(log) - 1
      /\ DOMAIN rest = 1 .. Len(log) - 1
      /\ \A j \in 1 .. Len(log) - 1 : rest[j] = log[j + 1]
  <2>1. Len(log) \in Nat /\ DOMAIN log = 1 .. Len(log)
    OBVIOUS
  <2>2. \A j \in 2 .. Len(log) : log[j] \in Commits
    BY <2>1
  <2>3. rest \in Seq(Commits) /\ Len(rest) = Len(log) - 1
    BY <2>1, <2>2, SubSeqProperties
  <2>4. DOMAIN rest = 1 .. Len(log) - 1
    BY <2>3
  <2>5. ASSUME NEW j \in 1 .. Len(log) - 1 PROVE rest[j] = log[j + 1]
    <3>1. j \in 1 .. (Len(log) - 2 + 1) /\ 2 + j - 1 = j + 1
      BY <2>1, <2>5
    <3>. QED
      BY <2>1, <3>1, SubSeqProperties
  <2>. QED
    BY <2>1, <2>3, <2>4, <2>5
<1>. HIDE DEF rest
<1>2. f \in [A -> B]
  BY <1>1 DEF Logged
<1>3. \A i, j \in A : f[i] = f[j] => i = j
  BY <1>1 DEF Logged
<1>4. ASSUME NEW b \in B PROVE \E a \in A : f[a] = b
  <2>. DEFINE a == b - 1
  <2>1. a \in A
    BY <1>1, <1>4 DEF Logged
  <2>2. b \in Nat
    BY <1>1, <1>4 DEF Logged
  <2>3. f[a] = b
    BY <2>1, <2>2
  <2>. QED
    BY <2>1, <2>3
<1>5. f \in Bijection(A, B)
  <2>. HIDE DEF f, A, B
  <2>1. DOMAIN f = A
    BY <1>2
  <2>. QED
    BY <1>2, <1>3, <1>4, <2>1, Zenon DEF Bijection, Injection, Surjection, IsInjective
<1>6. ExistsBijection(A, B)
  BY <1>5, Zenon DEF ExistsBijection
<1>7. IsFiniteSet(A) /\ Cardinality(A) \in Nat
  BY <1>1, LoggedFinite
<1>8. Cardinality(B) = Cardinality(A)
  BY <1>6, <1>7, FS_Bijection, Zenon
<1>9. IsFiniteSet(Logged(log, K)) /\ Cardinality(Logged(log, K)) \in Nat
  BY LoggedFinite
<1>10. Cardinality(B) = IF 1 \in Logged(log, K) THEN Cardinality(Logged(log, K)) - 1
                                               ELSE Cardinality(Logged(log, K))
  BY <1>9, FS_RemoveElement, Zenon
<1>11. 1 \in Logged(log, K) <=> asCuckooItem(log[1]) \in K
  BY <1>1 DEF Logged
<1>. QED
  BY <1>1, <1>7, <1>8, <1>9, <1>10, <1>11 DEF Weight, rest

(* TableIsLog counts the items of the window.  Inductive is the count for every
   set of items, that each item stands in one of its buckets (else Remove would
   not find it), and that the log is never longer than the window. *)
LogInv ==
  /\ commitLog \in Seq(Commits)
  /\ Len(commitLog) <= WindowSize
  /\ ~ crashed =>
       /\ Stocked(table, Genuine)
       /\ \A K : Tally(table, K) = Cardinality(Logged(commitLog, K))

(* A new coordinator has an empty table and an empty log (server.go:51-101). *)
LEMMA LogInit == Init => LogInv
<1>. SUFFICES ASSUME Init PROVE LogInv
  OBVIOUS
<1>1. commitLog = <<>> /\ table = NewTable
  BY DEF Init
<1>2. NewTable \in Table /\ \A s \in Slot : ~ NewTable[s].filled
  BY NewTableEmpty
<1>3. Stocked(table, Genuine)
  BY <1>1, <1>2 DEF Stocked
<1>4. ASSUME NEW K PROVE Tally(table, K) = Cardinality(Logged(commitLog, K))
  <2>1. Held(table, K) = {} /\ Logged(commitLog, K) = {}
    BY <1>1, <1>2 DEF Held, Logged
  <2>. QED
    BY <2>1 DEF Tally
<1>. QED
  BY <1>1, <1>3, <1>4, CoordinatorParams DEF LogInv

(* The log that is left when the commits in excess are dropped, with the tables
   that may be left: the log has room for one commit more, and the counts agree
   (server.go:198-203). *)
LEMMA CollectedAgrees ==
  ASSUME LogInv, ~ crashed, NEW t \in Collected(Excess)
  PROVE  LET rest == SubSeq(commitLog, Excess + 1, Len(commitLog))
         IN  /\ rest \in Seq(Commits) /\ Len(rest) < WindowSize
             /\ Stocked(t, Genuine)
             /\ \A K : Tally(t, K) = Cardinality(Logged(rest, K))
<1>. DEFINE L == Len(commitLog)
            rest == SubSeq(commitLog, Excess + 1, L)
            first == asCuckooItem(commitLog[1])
            Step(S, k) == UNION {{o.table : o \in RemoveOutcomes(u, asCuckooItem(commitLog[k]))} :
                                 u \in S}
            Left(f, n) == f = [k \in 0 .. n |-> IF k = 0 THEN {table} ELSE Step(f[k - 1], k)]
<1>1. /\ commitLog \in Seq(Commits) /\ L \in Nat /\ L <= WindowSize
      /\ WindowSize \in Nat \ {0} /\ Stocked(table, Genuine)
      /\ \A K : Tally(table, K) = Cardinality(Logged(commitLog, K))
  BY CoordinatorParams DEF LogInv
<1>2. CASE L < WindowSize
  <2>1. Excess = 0
    BY <1>1, <1>2 DEF Excess
  <2>2. rest = commitLog
    BY <1>1, <2>1, SubSeqFull
  <2>3. Left([k \in 0 .. 0 |-> {table}], 0)
    OBVIOUS
  <2>4. \A f : Left(f, 0) => f[0] = {table}
    OBVIOUS
  <2>5. Collected(0) = (CHOOSE f : Left(f, 0))[0]
    BY DEF Collected
  <2>. HIDE DEF Left
  <2>6. Collected(0) = {table}
    BY <2>3, <2>4, <2>5
  <2>7. t = table
    BY <2>1, <2>6
  <2>. QED
    BY Zenon, <1>1, <1>2, <2>2, <2>7
<1>3. CASE L = WindowSize
  <2>1. Excess = 1 /\ L >= 1
    BY <1>1, <1>3 DEF Excess
  <2>2. commitLog[1] \in Commits /\ first \in Genuine
    BY <1>1, <2>1, CommitIsItem
  <2>. DEFINE g == [k \in 0 .. 1 |-> IF k = 0 THEN {table} ELSE Step({table}, 1)]
  <2>. HIDE DEF Step
  <2>3. Left(g, 1)
    OBVIOUS
  <2>4. \A f : Left(f, 1) => f[1] = Step({table}, 1)
    <3>. SUFFICES ASSUME NEW f, Left(f, 1) PROVE f[1] = Step({table}, 1)
      OBVIOUS
    <3>1. f[0] = {table} /\ f[1] = Step(f[0], 1)
      OBVIOUS
    <3>. QED
      BY <3>1
  <2>5. Collected(1) = (CHOOSE f : Left(f, 1))[1]
    BY DEF Collected, Step
  <2>. HIDE DEF Left, g
  <2>6. Collected(1) = Step({table}, 1)
    BY <2>3, <2>4, <2>5
  <2>7. PICK o \in RemoveOutcomes(table, first) : t = o.table
    BY <2>1, <2>6 DEF Step
  <2>8. /\ rest \in Seq(Commits) /\ Len(rest) = L - 1
        /\ \A K : Cardinality(Logged(rest, K)) + Weight(first, K) = Cardinality(Logged(commitLog, K))
    BY SMTT(20), <1>1, <2>1, LoggedTail
  <2>9. /\ Tally(table, {first}) \in Nat
        /\ Tally(table, {first}) = Cardinality(Logged(rest, {first})) + 1
        /\ Cardinality(Logged(rest, {first})) \in Nat
    BY Zenon, <1>1, <2>8, LoggedFinite, HeldFinite DEF Weight
  <2>10. Genuine \in SUBSET Item
    BY DEF Genuine
  <2>11. \A y, z \in Genuine : Equals(y, z) => y = z
    BY GenuineEquals
  <2>12. Tally(table, {first}) > 0
    BY <2>9
  <2>. HIDE DEF first
  <2>13. /\ Stocked(t, Genuine)
         /\ \A K : Tally(t, K) + Weight(first, K) = Tally(table, K)
    BY Zenon, <1>1, <2>2, <2>7, <2>10, <2>11, <2>12, RemoveTakes
  <2>14. ASSUME NEW K PROVE Tally(t, K) = Cardinality(Logged(rest, K))
    <3>1. Tally(t, K) \in Nat /\ Cardinality(Logged(rest, K)) \in Nat
      BY Zenon, <2>8, LoggedFinite, HeldFinite
    <3>2. Weight(first, K) \in Nat
      BY DEF Weight
    <3>3. Tally(t, K) + Weight(first, K) = Cardinality(Logged(rest, K)) + Weight(first, K)
      BY <1>1, <2>8, <2>13
    <3>. QED
      BY <3>1, <3>2, <3>3
  <2>. QED
    BY <1>1, <1>3, <2>8, <2>13, <2>14
<1>. QED
  BY <1>1, <1>2, <1>3

(* Commit drops what leaves the window from log and table, and adds the new
   commit to both (server.go:189-217). *)
LEMMA LogCommit ==
  ASSUME LogInv, ~ crashed, NEW c \in Committers, NEW args \in Commits, Commit(c, args)
  PROVE  LogInv'
<1>. DEFINE rest == SubSeq(commitLog, Excess + 1, Len(commitLog))
            x == asCuckooItem(args)
<1>1. PICK t \in Collected(Excess) : \E o \in InsertOutcomes(t, x) :
             table' = o.table /\ crashed' = (o.status # "done")
  BY DEF Commit
<1>2. PICK o \in InsertOutcomes(t, x) : table' = o.table /\ crashed' = (o.status # "done")
  BY <1>1
<1>3. commitLog' = Append(rest, args)
  BY DEF Commit
<1>4. /\ rest \in Seq(Commits) /\ Len(rest) < WindowSize
      /\ Stocked(t, Genuine)
      /\ \A K : Tally(t, K) = Cardinality(Logged(rest, K))
  BY CollectedAgrees
<1>5. x \in Genuine
  BY CommitIsItem
<1>6. Genuine \in SUBSET Item
  BY DEF Genuine
<1>. HIDE DEF rest, x
<1>7. /\ Stocked(o.table, Genuine)
      /\ \A K : Tally(o.table, K) + HandWeight(o, K) = Tally(t, K) + Weight(x, K)
  BY <1>4, <1>5, <1>6, InsertAdds
<1>8. commitLog' \in Seq(Commits) /\ Len(commitLog') <= WindowSize
  BY <1>3, <1>4, CoordinatorParams
<1>9. ASSUME ~ crashed', NEW K PROVE Tally(table', K) = Cardinality(Logged(commitLog', K))
  <2>1. HandWeight(o, K) = 0
    BY Zenon, <1>2, <1>9 DEF HandWeight
  <2>2. Tally(o.table, K) \in Nat
    BY HeldFinite
  <2>3. Cardinality(Logged(commitLog', K)) = Cardinality(Logged(rest, K)) + Weight(x, K)
    BY <1>3, <1>4, LoggedAppend DEF x
  <2>4. Tally(o.table, K) + HandWeight(o, K) = Tally(t, K) + Weight(x, K)
    BY <1>7
  <2>. QED
    BY <1>2, <1>4, <2>1, <2>2, <2>3, <2>4
<1>10. ~ crashed' => Stocked(table', Genuine)
  BY <1>2, <1>7
<1>11. ASSUME NEW K PROVE Tally(table, K)' = Tally(table', K)
  BY DEF Tally, Held
<1>12. ASSUME NEW K PROVE Logged(commitLog, K)' = Logged(commitLog', K)
  BY DEF Logged, asCuckooItem
<1>13. Stocked(table, Genuine)' <=> Stocked(table', Genuine)
  BY DEF Stocked, Genuine
<1>. QED
  BY <1>8, <1>9, <1>10, <1>11, <1>12, <1>13 DEF LogInv

(* Every other step leaves log and table alone. *)
LEMMA LogStep == LogInv /\ [Next]_vars => LogInv'
<1>. SUFFICES ASSUME LogInv, [Next]_vars PROVE LogInv'
  OBVIOUS
<1>1. ASSUME NEW c \in Committers, NEW args \in Commits, ~ crashed, Commit(c, args)
      PROVE  LogInv'
  BY <1>1, LogCommit
<1>2. CASE UNCHANGED <<table, commitLog, crashed>>
  BY Zenon, <1>2 DEF LogInv, Stocked, Tally, Held, Logged
<1>3. ASSUME NEW c \in Committers, NotifyLoop(c)
      PROVE  UNCHANGED <<table, commitLog, crashed>>
  BY <1>3 DEF NotifyLoop, logVars
<1>4. CASE LoopCheck \/ LoopTick \/ ForceSnapshot \/ Close
  <2>1. UNCHANGED <<table, commitLog, crashed>>
    BY Zenon, <1>4 DEF LoopCheck, LoopTick, ForceSnapshot, Close, logVars
  <2>. QED
    BY <1>2, <2>1
<1>5. ASSUME NEW s \in Servers, AddServer(s)
      PROVE  UNCHANGED <<table, commitLog, crashed>>
  BY <1>5 DEF AddServer, logVars
<1>6. ASSUME NEW n \in notices, Notify(n)
      PROVE  UNCHANGED <<table, commitLog, crashed>>
  BY <1>6 DEF Notify, logVars
<1>7. ASSUME NEW f \in Fetchers,
             (\E k \in 1 .. 2, s \in 0 .. 1 : GetLayout(f, s, k)) \/ GetIntVec(f) \/ Encode(f)
      PROVE  UNCHANGED <<table, commitLog, crashed>>
  BY <1>7 DEF GetLayout, GetIntVec, Encode, Fetched, logVars
<1>8. CASE UNCHANGED vars
  BY SMTT(20), <1>2, <1>8 DEF vars
<1>. QED
  BY SMTT(20), <1>1, <1>2, <1>3, <1>4, <1>5, <1>6, <1>7, <1>8 DEF Next

(* The table holds exactly the commits of the window, each as often as it was
   committed, for every table, window and sequence of commits, whatever Insert
   displaced on its way (server.go:198-210). *)
THEOREM TableHoldsLog == Spec => []TableIsLog
<1>1. LogInv => TableIsLog
  <2>. SUFFICES ASSUME LogInv, ~ crashed PROVE
         /\ GetNumElements(table) = Len(commitLog)
         /\ \A i \in DOMAIN commitLog :
              Cardinality({s \in Slot : Holds(table, s, asCuckooItem(commitLog[i]))}) =
              Cardinality({j \in DOMAIN commitLog :
                             Equals(asCuckooItem(commitLog[i]), asCuckooItem(commitLog[j]))})
    BY Zenon DEF TableIsLog
  <2>1. /\ commitLog \in Seq(Commits) /\ Len(commitLog) \in Nat
        /\ DOMAIN commitLog = 1 .. Len(commitLog)
        /\ \A i \in DOMAIN commitLog : asCuckooItem(commitLog[i]) \in Genuine
    BY CommitIsItem DEF LogInv
  <2>2. /\ Stocked(table, Genuine)
        /\ \A K : Tally(table, K) = Cardinality(Logged(commitLog, K))
    BY DEF LogInv
  <2>3. GetNumElements(table) = Len(commitLog)
    <3>1. Held(table, Genuine) = {s \in Slot : table[s].filled}
      BY <2>2 DEF Held, Stocked
    <3>2. Logged(commitLog, Genuine) = 1 .. Len(commitLog)
      BY <2>1 DEF Logged
    <3>3. Cardinality(1 .. Len(commitLog)) = Len(commitLog)
      BY <2>1, IntervalCardinality, Zenon
    <3>. QED
      BY Zenon, <2>2, <3>1, <3>2, <3>3 DEF Tally, GetNumElements, Filled
  <2>4. ASSUME NEW i \in DOMAIN commitLog
        PROVE  Cardinality({s \in Slot : Holds(table, s, asCuckooItem(commitLog[i]))}) =
               Cardinality({j \in DOMAIN commitLog :
                              Equals(asCuckooItem(commitLog[i]), asCuckooItem(commitLog[j]))})
    <3>. DEFINE x == asCuckooItem(commitLog[i])
    <3>1. x \in Genuine
      BY <2>1
    <3>2. Equals(x, x)
      BY DEF Equals
    <3>3. ASSUME NEW y \in Genuine PROVE Equals(x, y) <=> y = x
      BY SMTT(20), <3>1, <3>2, <3>3, GenuineEquals
    <3>. HIDE DEF x
    <3>4. {s \in Slot : Holds(table, s, x)} = Held(table, {x})
      BY SMTT(20), <2>2, <3>3 DEF Held, Holds, Stocked
    <3>5. {j \in DOMAIN commitLog : Equals(x, asCuckooItem(commitLog[j]))} = Logged(commitLog, {x})
      BY SMTT(20), <2>1, <3>3 DEF Logged
    <3>6. Cardinality({s \in Slot : Holds(table, s, x)}) =
          Cardinality({j \in DOMAIN commitLog : Equals(x, asCuckooItem(commitLog[j]))})
      BY <2>2, <3>4, <3>5 DEF Tally
    <3>. QED
      BY <3>6 DEF x
  <2>. QED
    BY <2>3, <2>4
<1>. QED
  BY <1>1, LogInit, LogStep, PTL DEF Spec

=============================================================================
