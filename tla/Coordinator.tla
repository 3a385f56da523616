----------------------------- MODULE Coordinator -----------------------------
(***************************************************************************)
(* The central coordinator (server/coordinator/server.go): the commit log  *)
(* and its cuckoo table, snapshots of the layout and of the interest       *)
(* vector, the loop that builds them and the notifications it sends.       *)
(*                                                                         *)
(* A section under s.lock is one step.  What a method does outside the     *)
(* lock is a step of its own: the send on notifyChan, a notification, and  *)
(* the encoding of a reply, which reads the slice the reply holds.         *)
(***************************************************************************)
EXTENDS Cuckoo, Sequences

CONSTANTS
  WindowSize,        \* config.WindowSize()
  SnapshotThreshold, \* commits that make a snapshot due
  NumBits, NumHash,  \* bloom.EstimateParameters(WindowSize, fp)
  IDSize,            \* bytes of an encoded ID in the table
  Commits,           \* the CommitArgs clients send
  Committers,        \* concurrent callers of Commit
  Fetchers,          \* concurrent callers of GetLayout and GetIntVec
  Servers,           \* servers that are notified
  FirstServers,      \* those given to NewServer
  MaxCommits,        \* bound: Commit calls
  MaxForced,         \* bound: forced snapshots with nothing new
  MaxFetches         \* bound: replies

ASSUME CoordinatorParams ==
  /\ WindowSize \in Nat \ {0} /\ SnapshotThreshold \in Nat \ {0}
  /\ NumBits \in Nat \ {0} /\ NumHash \in Nat /\ IDSize \in Nat \ {0}
  /\ ID \subseteq 0 .. 127 /\ Data = ID /\ ZeroData = 0
  /\ FirstServers \subseteq Servers

(* The fields of CommitArgs: 64-bit numbers without sign. *)
ASSUME CommitsAssumption ==
  \A c \in Commits : c.id \in ID /\ c.bucket1 \in Nat /\ c.bucket2 \in Nat

VARIABLES
  table,         \* s.cuckooTable over s.cuckooData
  commitLog,     \* the window of commits, oldest first
  numNewCommits, \* commits since the last snapshot
  snapshotCount, \* number of the last snapshot
  lastLayout,    \* decoded IDs, by slot number
  intVec,        \* bits of the interest vector
  committer,     \* Commit callers: idle, or sending on notifyChan
  loop,          \* pc of loop()
  fetch,         \* GetLayout and GetIntVec calls: pc and reply
  servers,       \* registered servers
  notices,       \* notifications under way
  told,          \* per server: snapshots it was notified of
  crashed,       \* log.Fatalf in Commit
  count,         \* commits, forced snapshots and fetches so far
  snaps          \* history: log and slots when each snapshot was built

vars == <<table, commitLog, numNewCommits, snapshotCount, lastLayout, intVec,
          committer, loop, fetch, servers, notices, told, crashed, count, snaps>>

logVars == <<table, commitLog>>
snapVars == <<numNewCommits, snapshotCount, lastLayout, intVec, snaps>>
noteVars == <<servers, notices, told>>

SlotNo == 0 .. GetCapacity - 1
SlotAt(k) == <<k \div BucketDepth, k % BucketDepth>>

LayoutStride == 8

(* Byte j of cuckooData: an ID below 128 is its first byte, then zeroes. *)
DataByte(t, j) ==
  IF j % IDSize = 0 THEN t[SlotAt(j \div IDSize)].item.data ELSE 0

(* NotifySnapshot decodes a varint every LayoutStride bytes. *)
DecodeLayout(t) == [i \in SlotNo |-> DataByte(t, i * LayoutStride)]

asCuckooItem(c) ==
  [id |-> c.id, data |-> c.id, bucket1 |-> c.bucket1 % NumBuckets,
   bucket2 |-> c.bucket2 % NumBuckets]

(* The bits of locations of a bloom filter: those SetLocations sets. *)
SetLocations(locations) == {locations[j] % NumBits : j \in DOMAIN locations}

(* The locations of a commit, cut off after NumHash. *)
IntVecLoc(c) == SubSeq(c.loc, 1, IF Len(c.loc) > NumHash THEN NumHash ELSE Len(c.loc))

buildInterestVector(log) == UNION {SetLocations(IntVecLoc(log[i])) : i \in DOMAIN log}

IdleFetch == [pc |-> "idle", kind |-> "none", id |-> 0, slots |-> {},
              seen |-> {}, bits |-> {}]

(* NewServer *)
Init ==
  /\ table = NewTable
  /\ commitLog = <<>>
  /\ numNewCommits = 0
  /\ snapshotCount = 0
  /\ lastLayout = [i \in SlotNo |-> 0]
  /\ intVec = buildInterestVector(<<>>)
  /\ committer = [c \in Committers |-> "idle"]
  /\ loop = "select"
  /\ fetch = [f \in Fetchers |-> IdleFetch]
  /\ servers = FirstServers
  /\ notices = {}
  /\ told = [s \in Servers |-> {}]
  /\ crashed = FALSE
  /\ count = [commits |-> 0, forced |-> 0, fetches |-> 0]
  /\ snaps = <<>>

-----------------------------------------------------------------------------
(* Commit *)

(* Variant: the log is trimmed but the table is not. *)
Collected_LogOnly(n) == {table}

(* The tables left when the n oldest commits are removed. *)
Collected(n) ==
  LET left[k \in 0 .. n] ==
        IF k = 0 THEN {table}
        ELSE UNION {{o.table : o \in RemoveOutcomes(t, asCuckooItem(commitLog[k]))} :
                    t \in left[k - 1]}
  IN  left[n]

(* How many commits the loop "for len(commitLog) >= windowSize" removes. *)
Excess == IF Len(commitLog) >= WindowSize THEN Len(commitLog) - WindowSize + 1
                                          ELSE 0

Commit(c, args) ==
  /\ committer[c] = "idle"
  /\ count.commits < MaxCommits
  /\ count' = [count EXCEPT !.commits = @ + 1]
  /\ numNewCommits' = numNewCommits + 1
  /\ commitLog' = Append(SubSeq(commitLog, Excess + 1, Len(commitLog)), args)
  /\ \E t \in Collected(Excess) :
       \E o \in InsertOutcomes(t, asCuckooItem(args)) :
         /\ table' = o.table
         /\ crashed' = (o.status # "done")
  /\ committer' = [committer EXCEPT ![c] = "notify"]
  /\ UNCHANGED <<snapshotCount, lastLayout, intVec, snaps, loop, fetch, noteVars>>

(* s.notifyChan <- false is received by the loop. *)
NotifyLoop(c) ==
  /\ committer[c] = "notify"
  /\ loop = "select"
  /\ committer' = [committer EXCEPT ![c] = "idle"]
  /\ loop' = "check"
  /\ UNCHANGED <<logVars, snapVars, fetch, noteVars, crashed, count>>

-----------------------------------------------------------------------------
(* Snapshots *)

(* Variant: the bits of the last vector are kept and set again in place. *)
BuildSnapshot_InPlace ==
  /\ numNewCommits' = 0
  /\ snapshotCount' = snapshotCount + 1
  /\ intVec' = intVec \cup buildInterestVector(commitLog)
  /\ lastLayout' = DecodeLayout(table)
  /\ notices' = notices \cup (servers \X {snapshotCount + 1})
  /\ fetch' = [f \in Fetchers |->
       IF fetch[f].pc = "encode"
         THEN [fetch[f] EXCEPT !.seen = @ \cup {DecodeLayout(table)}]
         ELSE fetch[f]]
  /\ snaps' = Append(snaps, [log |-> commitLog, table |-> table])

(* Variant: the layout is left as it was. *)
BuildSnapshot_OldLayout ==
  /\ numNewCommits' = 0
  /\ snapshotCount' = snapshotCount + 1
  /\ intVec' = buildInterestVector(commitLog)
  /\ notices' = notices \cup (servers \X {snapshotCount + 1})
  /\ snaps' = Append(snaps, [log |-> commitLog, table |-> table])
  /\ UNCHANGED <<lastLayout, fetch>>

(* Variant: servers are notified when there are at least two. *)
BuildSnapshot_TwoServers ==
  /\ numNewCommits' = 0
  /\ snapshotCount' = snapshotCount + 1
  /\ intVec' = buildInterestVector(commitLog)
  /\ lastLayout' = DecodeLayout(table)
  /\ notices' = notices \cup
       IF Cardinality(servers) > 1 THEN servers \X {snapshotCount + 1} ELSE {}
  /\ UNCHANGED fetch
  /\ snaps' = Append(snaps, [log |-> commitLog, table |-> table])

(* The body of NotifySnapshot once a snapshot is due. *)
BuildSnapshot ==
  /\ numNewCommits' = 0
  /\ snapshotCount' = snapshotCount + 1
  /\ intVec' = buildInterestVector(commitLog)
  /\ lastLayout' = DecodeLayout(table)
  /\ notices' = notices \cup (servers \X {snapshotCount + 1})
  /\ fetch' = [f \in Fetchers |->
       IF fetch[f].pc = "encode"
         THEN [fetch[f] EXCEPT !.seen = @ \cup {DecodeLayout(table)}]
         ELSE fetch[f]]
  /\ snaps' = Append(snaps, [log |-> commitLog, table |-> table])

(* Variant: one commit more than the threshold is needed. *)
NotifySnapshot_Above(force) ==
  IF ~ force /\ numNewCommits <= SnapshotThreshold
    THEN UNCHANGED <<snapVars, notices, fetch>>
    ELSE BuildSnapshot

NotifySnapshot(force) ==
  IF ~ force /\ numNewCommits < SnapshotThreshold
    THEN UNCHANGED <<snapVars, notices, fetch>>
    ELSE BuildSnapshot

LoopCheck ==
  /\ loop = "check"
  /\ NotifySnapshot(FALSE)
  /\ loop' = "select"
  /\ UNCHANGED <<logVars, committer, servers, told, crashed, count>>

(* The bound on snapshots with nothing new. *)
ForcedBound ==
  /\ numNewCommits > 0 \/ count.forced < MaxForced
  /\ count' = IF numNewCommits > 0 THEN count
                                   ELSE [count EXCEPT !.forced = @ + 1]

(* Variant: the timer does not force a snapshot. *)
LoopTick_NotForced ==
  /\ loop = "select"
  /\ ForcedBound
  /\ NotifySnapshot(FALSE)
  /\ UNCHANGED <<logVars, loop, committer, servers, told, crashed>>

LoopTick ==
  /\ loop = "select"
  /\ ForcedBound
  /\ NotifySnapshot(TRUE)
  /\ UNCHANGED <<logVars, loop, committer, servers, told, crashed>>

(* A caller of the public method, next to the loop. *)
ForceSnapshot ==
  /\ ForcedBound
  /\ NotifySnapshot(TRUE)
  /\ UNCHANGED <<logVars, loop, committer, servers, told, crashed>>

(* Close: the loop receives from closeChan. *)
Close ==
  /\ loop = "select"
  /\ loop' = "exited"
  /\ UNCHANGED <<logVars, snapVars, committer, fetch, noteVars, crashed, count>>

AddServer(s) ==
  /\ s \notin servers
  /\ servers' = servers \cup {s}
  /\ UNCHANGED <<logVars, snapVars, committer, loop, fetch, notices, told,
                 crashed, count>>

(* One goroutine per server: notifications overtake each other. *)
Notify(n) ==
  /\ notices' = notices \ {n}
  /\ told' = [told EXCEPT ![n[1]] = @ \cup {n[2]}]
  /\ UNCHANGED <<logVars, snapVars, committer, loop, fetch, servers, crashed,
                 count>>

-----------------------------------------------------------------------------
(* GetLayout and GetIntVec for the current snapshot; a call with another
   SnapshotID, no shards or a shard out of bounds is refused and changes
   nothing. *)
Fetched(f, rep) ==
  /\ fetch[f].pc \in {"idle", "sent"}
  /\ count.fetches < MaxFetches
  /\ count' = [count EXCEPT !.fetches = @ + 1]
  /\ fetch' = [fetch EXCEPT ![f] = rep]
  /\ UNCHANGED <<logVars, snapVars, committer, loop, noteVars, crashed>>

(* The reply holds a sub-slice of lastLayout, not a copy. *)
GetLayout(f, ShardID, NumShards) ==
  LET shardSize == GetCapacity \div NumShards
      idx == ShardID * shardSize
  IN  /\ idx + shardSize <= GetCapacity
      /\ Fetched(f, [IdleFetch EXCEPT !.pc = "encode", !.kind = "layout",
                       !.id = snapshotCount, !.slots = idx .. idx + shardSize - 1,
                       !.seen = {lastLayout}])

(* The reply holds the intVec of this snapshot; the next one is a new slice. *)
GetIntVec(f) ==
  Fetched(f, [IdleFetch EXCEPT !.pc = "encode", !.kind = "intvec",
                !.id = snapshotCount, !.seen = {lastLayout}, !.bits = intVec])

(* The RPC layer encodes the reply after RUnlock.  Each element of a layout
   is read at some point since then, from whatever lastLayout held. *)
Encode(f) ==
  /\ fetch[f].pc = "encode"
  /\ \E l \in [fetch[f].slots -> ID] :
       /\ \A i \in fetch[f].slots : \E m \in fetch[f].seen : l[i] = m[i]
       /\ fetch' = [fetch EXCEPT ![f].pc = "sent", ![f].seen = {l}]
  /\ UNCHANGED <<logVars, snapVars, committer, loop, noteVars, crashed, count>>

-----------------------------------------------------------------------------
Next ==
  /\ ~ crashed
  /\ \/ \E c \in Committers : \/ \E args \in Commits : Commit(c, args)
                              \/ NotifyLoop(c)
     \/ LoopCheck
     \/ LoopTick
     \/ ForceSnapshot
     \/ Close
     \/ \E s \in Servers : AddServer(s)
     \/ \E n \in notices : Notify(n)
     \/ \E f \in Fetchers : \/ \E k \in 1 .. 2, s \in 0 .. 1 : GetLayout(f, s, k)
                            \/ GetIntVec(f)
                            \/ Encode(f)

Spec == Init /\ [][Next]_vars

(* The loop goroutine runs, its timer fires, select passes over no sender for
   ever, and notifications go out. *)
Fairness ==
  /\ WF_vars(~ crashed /\ LoopCheck)
  /\ SF_vars(~ crashed /\ LoopTick)
  /\ \A c \in Committers : SF_vars(~ crashed /\ NotifyLoop(c))
  /\ WF_vars(~ crashed /\ \E n \in notices : Notify(n))

FairSpec == Spec /\ Fairness

-----------------------------------------------------------------------------
(* The table holds exactly the commits of the window, each as often as it was
   committed, whatever was collected and displaced (server.go:198-210). *)
TableIsLog ==
  ~ crashed =>
    /\ GetNumElements(table) = Len(commitLog)
    /\ \A i \in DOMAIN commitLog :
         LET x == asCuckooItem(commitLog[i])
         IN  Cardinality({s \in Slot : Holds(table, s, x)}) =
             Cardinality({j \in DOMAIN commitLog :
                            Equals(x, asCuckooItem(commitLog[j]))})

(* When no Commit is about to notify and the loop is idle, fewer commits than
   the threshold are waiting for a snapshot: counting under the lock and
   notifying after it misses none (server.go:204-216, 244-253, 286-291). *)
ThresholdKept ==
  loop = "select" /\ ~ crashed /\ (\A c \in Committers : committer[c] = "idle") =>
    numNewCommits < SnapshotThreshold

(* An interest vector sent for a snapshot has exactly the bits of the commits
   that were in the window when that snapshot was built, however many
   snapshots were built before it was encoded (server.go:168-186, 256). *)
IntVecOfSnapshot ==
  \A f \in Fetchers : fetch[f].pc = "sent" /\ fetch[f].kind = "intvec" =>
    fetch[f].bits = IF fetch[f].id = 0 THEN {}
                    ELSE buildInterestVector(snaps[fetch[f].id].log)

(* GetLayout's reply shares memory with lastLayout, so it may be newer than
   its SnapshotID or mixed; it is never older: each element is that of the
   snapshot asked for or of a later one (server.go:134-165, 259-262). *)
LayoutNotOlder ==
  \A f \in Fetchers : fetch[f].pc = "sent" /\ fetch[f].kind = "layout" =>
    \A l \in fetch[f].seen, i \in fetch[f].slots :
      \/ fetch[f].id = 0 /\ l[i] = 0
      \/ \E n \in DOMAIN snaps : /\ n >= fetch[f].id
                                 /\ l[i] = DecodeLayout(snaps[n].table)[i]

(* A commit reaches a snapshot, by the threshold or by the timer, unless the
   server is closed (server.go:281-302). *)
CommitsSnapshotted ==
  numNewCommits > 0 ~> (numNewCommits = 0 \/ loop = "exited" \/ crashed)

(* Every server known from the start is told of every snapshot
   (server.go:267-270, 337-350). *)
EveryoneTold ==
  \A s \in FirstServers, n \in 1 .. MaxCommits + MaxForced :
    snapshotCount = n ~> (n \in told[s] \/ crashed)

=============================================================================
