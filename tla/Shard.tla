-------------------------------- MODULE Shard --------------------------------
(***************************************************************************)
(* One shard of the PIR database (server/shard.go) with the part of the    *)
(* PIR server it drives (pir/libpir.go): the three goroutines              *)
(* processWrites, processReads and processReplies, the channels between    *)
(* them, and callers of Write, BatchRead and Close.                        *)
(*                                                                         *)
(* An unbuffered channel is a joint step of sender and receiver; a caller  *)
(* that is still blocked in its first send has changed nothing, so a call  *)
(* of Write or BatchRead starts with the step that is received.            *)
(*                                                                         *)
(* The table memory is shared: after applyWrites has met processReads the  *)
(* writer goes on filling slots while SetDB copies the same bytes, one     *)
(* slot per step here.                                                     *)
(***************************************************************************)
EXTENDS Cuckoo, Sequences

CONSTANTS
  WindowSize,     \* int(capacity * MaxLoadFactor)
  RemoveStep,     \* int(capacity * LoadFactorStep)
  Readers,        \* callers of BatchRead, each with a reply channel
  Closers,        \* callers of Close
  Placements,     \* <<bucket1, bucket2>> pairs clients choose, valid or not
  MaxWrites,      \* bound: writes in a behaviour
  MaxEpochs,      \* bound: epoch writes in a behaviour
  MaxReads,       \* bound: batch reads in a behaviour
  Torn            \* bytes of a slot that was copied while it was written

ASSUME ShardParams ==
  /\ WindowSize \in Nat /\ RemoveStep \in Nat
  /\ MaxWrites \in Nat /\ MaxEpochs \in Nat /\ MaxReads \in Nat
  /\ 0 .. MaxWrites \subseteq ID /\ 0 .. MaxWrites \subseteq Data
  /\ Torn \notin Data

VARIABLES
  table,            \* s.Table over the memory of s.DB
  Entries,          \* the window, oldest first
  sinceFlip,        \* writes since the last applyWrites
  writer,           \* processWrites: pc and the Insert it is running
  reader,           \* processReads: pc, request, position of the SetDB copy
  pirDB,            \* memory of the shard the PIR server reads
  replier,          \* processReplies: pc, reply and output channel
  outstandingReads, \* buffered channel of reply channels
  caller,           \* BatchRead callers: waiting or not
  closer,           \* Close callers: pc
  dead,             \* s.dead
  calls,            \* writes, epochs and reads issued so far
  applied,          \* history: entries in the window at the last applyWrites
  overlap,          \* history: a slot was written during the last copy
  misrouted         \* history: a caller got the reply to another request

vars == <<table, Entries, sinceFlip, writer, reader, pirDB, replier,
          outstandingReads, caller, closer, dead, calls, applied, overlap,
          misrouted>>

writeVars == <<table, Entries, sinceFlip, writer>>
readVars == <<reader, pirDB>>
replyVars == <<replier, outstandingReads, caller, misrouted>>
closeVars == <<closer, dead>>

OutstandingLimit == GetCapacity \div 2

ReplyCapacity == 5

SlotCount == NumBuckets * BucketDepth
SlotAt(k) == <<k \div BucketDepth, k % BucketDepth>>

MemoryOf(t) == [s \in Slot |-> t[s].item.data]

WriterAt(pc) ==
  [pc |-> pc, item |-> NoItem, next |-> 0, evictions |-> 0, ok |-> TRUE]

ReaderAt(pc) == [pc |-> pc, req |-> NoItem, pos |-> 0, raced |-> FALSE]

ReplierAt(pc) == [pc |-> pc, reply |-> NoItem, out |-> NoItem]

(* NewShard: empty table, SetDB of the zeroed region, three goroutines. *)
Init ==
  /\ table = NewTable
  /\ Entries = <<>>
  /\ sinceFlip = 0
  /\ writer = WriterAt("select")
  /\ reader = ReaderAt("select")
  /\ pirDB = MemoryOf(NewTable)
  /\ replier = ReplierAt("select")
  /\ outstandingReads = <<>>
  /\ caller = [r \in Readers |-> "idle"]
  /\ closer = [c \in Closers |-> "idle"]
  /\ dead = FALSE
  /\ calls = [writes |-> 0, epochs |-> 0, reads |-> 0]
  /\ applied = {}
  /\ overlap = FALSE
  /\ misrouted = FALSE

-----------------------------------------------------------------------------
(* processWrites *)

(* The table memory becomes that of t; a copy in progress may see it. *)
Touch(t) ==
  LET written == {s \in Slot : t[s].item.data # table[s].item.data}
      copying == reader.pc = "copy"
  IN  /\ table' = t
      /\ overlap' = (overlap \/ (copying /\ written # {}))
      /\ reader' = [reader EXCEPT
           !.raced = @ \/ (copying /\ SlotAt(reader.pos) \in written)]

Finished(pc) == IF pc = "insert" THEN "inserted" ELSE "reinserted"

(* Where processWrites stands after a step of the Insert it runs at pc. *)
InsertAt(pc, o, n) ==
  IF o.status = "evicting"
    THEN [pc |-> pc, item |-> o.item, next |-> o.next, evictions |-> n,
          ok |-> TRUE]
    ELSE [WriterAt(IF o.status = "fatal" THEN "fatal" ELSE Finished(pc))
            EXCEPT !.ok = (o.status = "done")]

asCuckooItem(seqNo, p) ==
  [id |-> seqNo, data |-> seqNo, bucket1 |-> p[1], bucket2 |-> p[2]]

(* Receive a write: append it to the window and start inserting it. *)
Write(p) ==
  /\ writer.pc = "select"
  /\ calls.writes < MaxWrites
  /\ calls' = [calls EXCEPT !.writes = @ + 1]
  /\ LET itm == asCuckooItem(calls.writes + 1, p)
     IN  /\ Entries' = Append(Entries, itm)
         /\ \E o \in InsertStart(table, itm) :
              /\ Touch(o.table)
              /\ writer' = InsertAt("insert", o, 0)
  /\ UNCHANGED <<sinceFlip, pirDB, applied, replyVars, closeVars>>

(* One turn of the eviction loop of the first or of the second Insert. *)
Evict ==
  /\ writer.pc \in {"insert", "reinsert"}
  /\ writer.evictions < MaxEvictions
  /\ \E o \in EvictStep(table, writer.item, writer.next) :
       /\ Touch(o.table)
       /\ writer' = InsertAt(writer.pc, o, writer.evictions + 1)
  /\ UNCHANGED <<Entries, sinceFlip, pirDB, calls, applied, replyVars,
                 closeVars>>

(* Insert failed: (false, item in hand). *)
GiveUp ==
  /\ writer.pc \in {"insert", "reinsert"}
  /\ writer.evictions = MaxEvictions
  /\ writer' = [WriterAt(Finished(writer.pc))
                  EXCEPT !.item = writer.item, !.ok = FALSE]
  /\ UNCHANGED <<table, Entries, sinceFlip, pirDB, reader, calls, applied,
                 overlap, replyVars, closeVars>>

(* evictOldItems: the tables that removing the n oldest entries can leave. *)
WithoutOldest(n) ==
  LET left[k \in 0 .. n] ==
        IF k = 0 THEN {table}
        ELSE UNION {{o.table : o \in RemoveOutcomes(t, Entries[k])} :
                    t \in left[k - 1]}
  IN  left[n]

(* Variant: one item too few. *)
toRemove_OneLess ==
  IF RemoveStep >= Len(Entries) THEN Len(Entries) - 1 ELSE RemoveStep - 1

toRemove ==
  IF RemoveStep >= Len(Entries) THEN Len(Entries) - 1 ELSE RemoveStep

(* Variant: flips one write late. *)
Counted_Late == IF sinceFlip > OutstandingLimit THEN "sync" ELSE "select"

(* The end of the loop body: count the write, flip when enough are due. *)
Counted == IF sinceFlip + 1 > OutstandingLimit THEN "sync" ELSE "select"

(* Variant: the item that came back is not inserted again. *)
AfterInsert_DropEvicted ==
  /\ writer.pc = "inserted"
  /\ LET n == IF ~ writer.ok \/ Len(Entries) > WindowSize THEN toRemove ELSE 0
     IN  /\ Entries' = SubSeq(Entries, n + 1, Len(Entries))
         /\ \E t \in WithoutOldest(n) : Touch(t)
         /\ writer' = WriterAt(Counted)
         /\ sinceFlip' = sinceFlip + 1
  /\ UNCHANGED <<pirDB, calls, applied, replyVars, closeVars>>

(* After the first Insert: make room if it failed or the window is full,
   then insert the item that came back, if any. *)
AfterInsert ==
  /\ writer.pc = "inserted"
  /\ LET n == IF ~ writer.ok \/ Len(Entries) > WindowSize THEN toRemove ELSE 0
     IN  /\ Entries' = SubSeq(Entries, n + 1, Len(Entries))
         /\ \E t \in WithoutOldest(n) :
              IF writer.item = NoItem
                THEN /\ Touch(t)
                     /\ writer' = WriterAt(Counted)
                     /\ sinceFlip' = sinceFlip + 1
                ELSE \E o \in InsertStart(t, writer.item) :
                       /\ Touch(o.table)
                       /\ writer' = InsertAt("reinsert", o, 0)
                       /\ UNCHANGED sinceFlip
  /\ UNCHANGED <<pirDB, calls, applied, replyVars, closeVars>>

(* After the second Insert: log.Fatalf unless it succeeded. *)
AfterReinsert ==
  /\ writer.pc = "reinserted"
  /\ IF writer.ok
       THEN writer' = WriterAt(Counted) /\ sinceFlip' = sinceFlip + 1
       ELSE writer' = WriterAt("fatal") /\ UNCHANGED sinceFlip
  /\ UNCHANGED <<table, Entries, pirDB, reader, calls, applied, overlap,
                 replyVars, closeVars>>

(* Receive an epoch write. *)
WriteEpoch ==
  /\ writer.pc = "select"
  /\ calls.epochs < MaxEpochs
  /\ calls' = [calls EXCEPT !.epochs = @ + 1]
  /\ writer' = WriterAt("sync")
  /\ UNCHANGED <<table, Entries, sinceFlip, readVars, applied, overlap,
                 replyVars, closeVars>>

(* applyWrites meets processReads on syncChan; SetDB begins. *)
ApplyWrites ==
  /\ writer.pc = "sync"
  /\ reader.pc = "select"
  /\ writer' = WriterAt("select")
  /\ sinceFlip' = 0
  /\ reader' = ReaderAt("copy")
  /\ applied' = {Entries[i] : i \in DOMAIN Entries}
  /\ overlap' = FALSE
  /\ UNCHANGED <<table, Entries, pirDB, calls, replyVars, closeVars>>

-----------------------------------------------------------------------------
(* processReads and processReplies *)

(* Variant: the copy stops one slot short. *)
CopySlot_Short ==
  /\ reader.pc = "copy"
  /\ LET s == SlotAt(reader.pos)
     IN  pirDB' = [pirDB EXCEPT ![s] = table[s].item.data]
  /\ reader' = IF reader.pos + 2 = SlotCount
                 THEN ReaderAt("select")
                 ELSE [ReaderAt("copy") EXCEPT !.pos = reader.pos + 1]
  /\ UNCHANGED <<writeVars, calls, applied, overlap, replyVars, closeVars>>

(* SetDB copies the slot at reader.pos; a slot written while it is being
   copied may come out mixed. *)
CopySlot ==
  /\ reader.pc = "copy"
  /\ LET s == SlotAt(reader.pos)
     IN  \E d \in {table[s].item.data} \cup IF reader.raced THEN {Torn} ELSE {} :
           pirDB' = [pirDB EXCEPT ![s] = d]
  /\ reader' = IF reader.pos + 1 = SlotCount
                 THEN ReaderAt("select")
                 ELSE [ReaderAt("copy") EXCEPT !.pos = reader.pos + 1]
  /\ UNCHANGED <<writeVars, calls, applied, overlap, replyVars, closeVars>>

(* A caller's batch of the right size is read; of the wrong size refused. *)
BatchRead(r, sized) ==
  /\ reader.pc = "select"
  /\ caller[r] = "idle"
  /\ calls.reads < MaxReads
  /\ calls' = [calls EXCEPT !.reads = @ + 1]
  /\ caller' = [caller EXCEPT ![r] = "waiting"]
  /\ reader' = [ReaderAt(IF sized THEN "reply" ELSE "refuse") EXCEPT !.req = r]
  /\ UNCHANGED <<writeVars, pirDB, replier, outstandingReads, misrouted,
                 applied, overlap, closeVars>>

(* Variant: a refused request is left in outstandingReads too. *)
RefuseBatch_Push ==
  /\ reader.pc = "refuse"
  /\ caller[reader.req] = "waiting"
  /\ caller' = [caller EXCEPT ![reader.req] = "idle"]
  /\ reader' = [reader EXCEPT !.pc = "push"]
  /\ UNCHANGED <<writeVars, pirDB, replier, outstandingReads, misrouted,
                 calls, applied, overlap, closeVars>>

(* "Invalid batch size." goes straight to the request's own channel. *)
RefuseBatch ==
  /\ reader.pc = "refuse"
  /\ caller[reader.req] = "waiting"
  /\ caller' = [caller EXCEPT ![reader.req] = "idle"]
  /\ reader' = ReaderAt("select")
  /\ UNCHANGED <<writeVars, pirDB, replier, outstandingReads, misrouted,
                 calls, applied, overlap, closeVars>>

(* Server.Read hands the response to processReplies over readReplies. *)
SendReply ==
  /\ reader.pc = "reply"
  /\ replier.pc = "select"
  /\ replier' = [ReplierAt("pop") EXCEPT !.reply = reader.req]
  /\ reader' = [reader EXCEPT !.pc = "push"]
  /\ UNCHANGED <<writeVars, pirDB, outstandingReads, caller, misrouted, calls,
                 applied, overlap, closeVars>>

(* Variant: the reply channel is not queued. *)
PushOutstanding_Lost ==
  /\ reader.pc = "push"
  /\ reader' = ReaderAt("select")
  /\ UNCHANGED <<writeVars, pirDB, replyVars, calls, applied, overlap,
                 closeVars>>

PushOutstanding ==
  /\ reader.pc = "push"
  /\ Len(outstandingReads) < ReplyCapacity
  /\ outstandingReads' = Append(outstandingReads, reader.req)
  /\ reader' = ReaderAt("select")
  /\ UNCHANGED <<writeVars, pirDB, replier, caller, misrouted, calls, applied,
                 overlap, closeVars>>

PopOutstanding ==
  /\ replier.pc = "pop"
  /\ outstandingReads # <<>>
  /\ replier' = [replier EXCEPT !.pc = "send", !.out = Head(outstandingReads)]
  /\ outstandingReads' = Tail(outstandingReads)
  /\ UNCHANGED <<writeVars, readVars, caller, misrouted, calls, applied,
                 overlap, closeVars>>

DeliverReply ==
  /\ replier.pc = "send"
  /\ caller[replier.out] = "waiting"
  /\ caller' = [caller EXCEPT ![replier.out] = "idle"]
  /\ misrouted' = (misrouted \/ replier.out # replier.reply)
  /\ replier' = ReplierAt("select")
  /\ UNCHANGED <<writeVars, readVars, outstandingReads, calls, applied,
                 overlap, closeVars>>

-----------------------------------------------------------------------------
(* Close *)

CloserAt(c, from, to) ==
  /\ closer[c] = from
  /\ closer' = [closer EXCEPT ![c] = to]

(* The test of s.dead and its assignment are two accesses. *)
CheckDead(c) ==
  /\ CloserAt(c, "idle", IF dead THEN "done" ELSE "mark")
  /\ UNCHANGED <<writeVars, readVars, replyVars, calls, applied, overlap, dead>>

MarkDead(c) ==
  /\ CloserAt(c, "mark", "stopWrites")
  /\ dead' = TRUE
  /\ UNCHANGED <<writeVars, readVars, replyVars, calls, applied, overlap>>

(* Variant: Close does not wait for processWrites. *)
StopWrites_NoWait(c) ==
  /\ CloserAt(c, "stopWrites", "stopReads")
  /\ UNCHANGED <<writeVars, readVars, replyVars, calls, applied, overlap, dead>>

StopWrites(c) ==
  /\ CloserAt(c, "stopWrites", "stopReads")
  /\ writer.pc = "select"
  /\ writer' = WriterAt("exited")
  /\ UNCHANGED <<table, Entries, sinceFlip, readVars, replyVars, calls,
                 applied, overlap, dead>>

(* Variant: processReads leaves without answering on syncChan. *)
StopReads_Silent(c) ==
  /\ CloserAt(c, "stopReads", "sync")
  /\ reader.pc = "select"
  /\ reader' = ReaderAt("exited")
  /\ UNCHANGED <<writeVars, pirDB, replyVars, calls, applied, overlap, dead>>

StopReads(c) ==
  /\ CloserAt(c, "stopReads", "sync")
  /\ reader.pc = "select"
  /\ reader' = ReaderAt("closing")
  /\ UNCHANGED <<writeVars, pirDB, replyVars, calls, applied, overlap, dead>>

(* processReads answers on syncChan and exits; the database is freed. *)
FinishClose(c) ==
  /\ CloserAt(c, "sync", "done")
  /\ reader.pc = "closing"
  /\ reader' = ReaderAt("exited")
  /\ UNCHANGED <<writeVars, pirDB, replyVars, calls, applied, overlap, dead>>

-----------------------------------------------------------------------------
WriterStep ==
  Evict \/ GiveUp \/ AfterInsert \/ AfterReinsert \/ ApplyWrites

ReaderStep ==
  CopySlot \/ RefuseBatch \/ SendReply \/ PushOutstanding

ReplierStep == PopOutstanding \/ DeliverReply

CloseStep(c) ==
  MarkDead(c) \/ StopWrites(c) \/ StopReads(c) \/ FinishClose(c)

(* log.Fatalf ends the process. *)
Alive == writer.pc # "fatal"

Next ==
  /\ Alive
  /\ \/ \E p \in Placements : Write(p)
     \/ WriteEpoch
     \/ WriterStep
     \/ \E r \in Readers, sized \in BOOLEAN : BatchRead(r, sized)
     \/ ReaderStep
     \/ ReplierStep
     \/ \E c \in Closers : CheckDead(c) \/ CloseStep(c)

Spec == Init /\ [][Next]_vars

(* Each goroutine keeps running; a Close that started keeps running.  New
   calls need not come. *)
Fairness ==
  /\ WF_vars(WriterStep)
  /\ WF_vars(Alive /\ ReaderStep)
  /\ WF_vars(Alive /\ ReplierStep)
  /\ \A c \in Closers : WF_vars(Alive /\ CloseStep(c))

FairSpec == Spec /\ Fairness

-----------------------------------------------------------------------------
InTable(x) == \E s \in Slot : Holds(table, s, x)

Window == {Entries[i] : i \in DOMAIN Entries}

(* Until the shard gives up with log.Fatalf, no item of the window is lost:
   it is in the table or in the hand of processWrites, through failed
   inserts, evictions of old items and re-insertion (shard.go:188-201). *)
InWindowKept ==
  writer.pc # "fatal" =>
    \A x \in Window : Insertable(x) =>
      \/ InTable(x)
      \/ writer.item # NoItem /\ Equals(writer.item, x)

(* The window never outgrows its share of the table between writes, through
   failed inserts and whatever the eviction step is, as long as it is not 0;
   otherwise Entries would grow for ever (shard.go:191-193, 219-229). *)
WindowBounded ==
  writer.pc = "select" /\ RemoveStep > 0 /\ WindowSize > 0 => Len(Entries) <= WindowSize

(* Between writes at most outstandingLimit entries are not yet covered by an
   applyWrites, whether it came from an epoch or from the count of writes
   (shard.go:202-216). *)
StalenessBounded ==
  writer.pc = "select" => Cardinality(Window \ applied) <= OutstandingLimit

(* A snapshot taken while no slot was written holds every entry of the
   window it was taken for, in one of the entry's two buckets, until the
   entry leaves the window (shard.go:142-143, libpir.go:77-90). *)
QuietSnapshotComplete ==
  reader.pc # "copy" /\ ~ overlap =>
    \A x \in applied \cap Window : Insertable(x) =>
      \E s \in Slot : s[1] \in {x.bucket1, x.bucket2} /\ pirDB[s] = x.data

(* A batch read gets the reply computed for it: the one-at-a-time handover
   over readReplies keeps outstandingReads in step (shard.go:153-171, 253-259). *)
RepliesRouted == ~ misrouted /\ Len(outstandingReads) <= 1

(* While Close waits on syncChan the only sender can be processReads leaving:
   the 1 of applyWrites is never taken for the end of the shutdown
   (shard.go:119-121, 137, 215). *)
SyncUnambiguous ==
  \A c \in Closers : closer[c] = "sync" => writer.pc # "sync"

(* An accepted batch read is answered (shard.go:107-173). *)
ReadsAnswered ==
  \A r \in Readers :
    caller[r] = "waiting" ~> (caller[r] = "idle" \/ writer.pc = "fatal")

(* A call of Close returns.  Only one that passed the test of dead together
   with another, which has shut the shard down, is left waiting for
   processWrites (shard.go:112-122). *)
CloseReturns ==
  \A c \in Closers :
    closer[c] # "idle" ~>
      \/ closer[c] = "done" \/ writer.pc = "fatal"
      \/ closer[c] = "stopWrites" /\ \E d \in Closers : closer[d] = "done"

-----------------------------------------------------------------------------
(* What the source says of the shard and the code does not keep. *)

(* shard.go:199 asserts that an in-window item can always be re-inserted. *)
NoLostItem == writer.pc # "fatal"

=============================================================================
