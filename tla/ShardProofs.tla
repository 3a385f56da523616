---------------------------- MODULE ShardProofs ----------------------------
(***************************************************************************)
(* Invariants of the shard, proved for every size of table and window, any *)
(* eviction step and any number of readers and closers.  The first three   *)
(* parts do not depend on where the table puts an item; the last two are   *)
(* about the table and the copies of it.                                   *)
(***************************************************************************)
EXTENDS Shard, CuckooProofs

(* An Insert that runs at pc goes on, ends, or ends the process. *)
LEMMA InsertAtPc ==
  ASSUME NEW pc, NEW o, NEW n
  PROVE  InsertAt(pc, o, n).pc \in {pc, Finished(pc), "fatal"}
BY DEF InsertAt, WriterAt

-----------------------------------------------------------------------------
(* Shutdown. *)

(* A Close that is past processWrites has seen it leave. *)
CloseInv ==
  /\ DOMAIN closer = Closers
  /\ \A c \in Closers : closer[c] \in {"stopReads", "sync"} => writer.pc = "exited"

(* A new shard is not being closed (shard.go:51-96). *)
LEMMA CloseInit == Init => CloseInv
BY DEF Init, CloseInv

(* processWrites does not come back (shard.go:112-122, 178-190). *)
LEMMA CloseStepKeeps == CloseInv /\ [Next]_vars => CloseInv'
<1> SUFFICES ASSUME CloseInv, [Next]_vars PROVE CloseInv'
  OBVIOUS
<1>1. ASSUME UNCHANGED closer, writer.pc # "exited" \/ UNCHANGED writer
      PROVE  CloseInv'
  BY <1>1 DEF CloseInv
<1>2. ASSUME NEW p \in Placements, Write(p) PROVE CloseInv'
  BY <1>1, <1>2 DEF Write, closeVars
<1>3. CASE WriteEpoch
  BY <1>1, <1>3 DEF WriteEpoch, closeVars
<1>4. CASE WriterStep
  BY <1>1, <1>4 DEF WriterStep, Evict, GiveUp, AfterInsert, AfterReinsert, ApplyWrites, closeVars
<1>5. ASSUME NEW r \in Readers, NEW sized \in BOOLEAN, BatchRead(r, sized) PROVE CloseInv'
  BY <1>1, <1>5 DEF BatchRead, closeVars, writeVars
<1>6. CASE ReaderStep
  BY <1>1, <1>6 DEF ReaderStep, CopySlot, RefuseBatch, SendReply, PushOutstanding, closeVars, writeVars
<1>7. CASE ReplierStep
  BY <1>1, <1>7 DEF ReplierStep, PopOutstanding, DeliverReply, closeVars, writeVars
<1>8. ASSUME NEW c \in Closers, CheckDead(c) \/ MarkDead(c) PROVE CloseInv'
  BY <1>8 DEF CheckDead, MarkDead, CloserAt, CloseInv, writeVars
<1>9. ASSUME NEW c \in Closers, StopWrites(c) PROVE CloseInv'
  BY <1>9 DEF StopWrites, CloserAt, CloseInv, WriterAt
<1>10. ASSUME NEW c \in Closers, StopReads(c) \/ FinishClose(c) PROVE CloseInv'
  BY <1>10 DEF StopReads, FinishClose, CloserAt, CloseInv, writeVars
<1>11. CASE UNCHANGED vars
  BY <1>1, <1>11 DEF vars
<1> QED
  BY <1>2, <1>3, <1>4, <1>5, <1>6, <1>7, <1>8, <1>9, <1>10, <1>11 DEF Next, CloseStep

(* While Close waits on syncChan, applyWrites cannot be sending on it, for any
   number of callers of Close (shard.go:119-121, 137, 215). *)
THEOREM SyncIsShutdown == Spec => []SyncUnambiguous
<1>1. CloseInv => SyncUnambiguous
  BY DEF CloseInv, SyncUnambiguous
<1> QED
  BY <1>1, CloseInit, CloseStepKeeps, PTL DEF Spec

-----------------------------------------------------------------------------
(* Routing. *)

(* What processReads and processReplies have between them: at most one reply
   channel, that of the reply being routed. *)
RouteInv ==
  /\ reader = [pc |-> reader.pc, req |-> reader.req, pos |-> reader.pos, raced |-> reader.raced]
  /\ replier = [pc |-> replier.pc, reply |-> replier.reply, out |-> replier.out]
  /\ replier.pc \in {"select", "pop", "send"}
  /\ replier.pc = "select" => outstandingReads = <<>> /\ reader.pc # "push"
  /\ replier.pc = "pop" =>
       \/ outstandingReads = <<>> /\ reader.pc = "push" /\ reader.req = replier.reply
       \/ outstandingReads = <<replier.reply>> /\ reader.pc # "push"
  /\ replier.pc = "send" =>
       outstandingReads = <<>> /\ reader.pc # "push" /\ replier.out = replier.reply
  /\ misrouted = FALSE

(* A new shard has no reads (shard.go:51-96). *)
LEMMA RouteInit == Init => RouteInv
BY DEF Init, RouteInv, ReaderAt, ReplierAt

(* Every step keeps the two channels in step (shard.go:153-171, 236-261). *)
LEMMA RouteStep == RouteInv /\ [Next]_vars => RouteInv'
<1> SUFFICES ASSUME RouteInv, [Next]_vars PROVE RouteInv'
  OBVIOUS
<1>1. ASSUME UNCHANGED replyVars,
             reader' = [pc |-> reader'.pc, req |-> reader'.req,
                        pos |-> reader'.pos, raced |-> reader'.raced],
             \/ reader'.pc = reader.pc /\ reader'.req = reader.req
             \/ reader.pc # "push" /\ reader'.pc # "push"
      PROVE  RouteInv'
  BY <1>1 DEF RouteInv, replyVars
<1>2. ASSUME NEW t, Touch(t), UNCHANGED replyVars
      PROVE  RouteInv'
  <2>1. /\ reader' = [pc |-> reader'.pc, req |-> reader'.req,
                      pos |-> reader'.pos, raced |-> reader'.raced]
        /\ reader'.pc = reader.pc /\ reader'.req = reader.req
    BY <1>2 DEF Touch, RouteInv
  <2> QED
    BY <1>1, <1>2, <2>1
<1>3. CASE UNCHANGED <<reader, replyVars>>
  BY <1>3 DEF RouteInv, replyVars
<1>4. ASSUME NEW p \in Placements, Write(p) PROVE RouteInv'
  BY <1>2, <1>4 DEF Write
<1>5. CASE Evict
  BY <1>2, <1>5 DEF Evict
<1>6. CASE AfterInsert
  BY <1>2, <1>6 DEF AfterInsert
<1>7. CASE GiveUp \/ AfterReinsert \/ WriteEpoch
  BY <1>3, <1>7 DEF GiveUp, AfterReinsert, WriteEpoch, readVars
<1>8. CASE ApplyWrites
  BY <1>1, <1>8 DEF ApplyWrites, ReaderAt
<1>9. CASE CopySlot
  BY <1>1, <1>9, Zenon DEF CopySlot, ReaderAt
<1>10. ASSUME NEW r \in Readers, NEW sized \in BOOLEAN, BatchRead(r, sized) PROVE RouteInv'
  BY <1>10, Zenon DEF BatchRead, ReaderAt, RouteInv
<1>11. CASE RefuseBatch
  BY <1>11 DEF RefuseBatch, ReaderAt, RouteInv
<1>12. CASE SendReply
  <2>1. /\ replier'.pc = "pop" /\ replier'.reply = reader.req
        /\ replier' = [pc |-> replier'.pc, reply |-> replier'.reply, out |-> replier'.out]
    BY <1>12 DEF SendReply, ReplierAt
  <2>2. /\ reader' = [reader EXCEPT !.pc = "push"]
        /\ outstandingReads' = <<>> /\ misrouted' = FALSE
    BY <1>12 DEF SendReply, RouteInv
  <2>3. /\ reader'.pc = "push" /\ reader'.req = reader.req
        /\ reader' = [pc |-> reader'.pc, req |-> reader'.req,
                      pos |-> reader'.pos, raced |-> reader'.raced]
    BY <2>2 DEF RouteInv
  <2> QED
    BY <2>1, <2>2, <2>3, Zenon DEF RouteInv
<1>13. CASE PushOutstanding
  <2>1. replier.pc = "pop" /\ outstandingReads = <<>> /\ reader.req = replier.reply
    BY <1>13 DEF PushOutstanding, RouteInv
  <2>2. Append(<<>>, reader.req) = <<reader.req>>
    OBVIOUS
  <2>3. outstandingReads' = <<replier.reply>>
    BY <1>13, <2>1, <2>2, Zenon DEF PushOutstanding
  <2>4. UNCHANGED <<replier, misrouted>>
    BY <1>13 DEF PushOutstanding
  <2>5. reader'.pc = "select"
        /\ reader' = [pc |-> reader'.pc, req |-> reader'.req,
                      pos |-> reader'.pos, raced |-> reader'.raced]
    BY <1>13 DEF PushOutstanding, ReaderAt
  <2>6. replier' = [pc |-> replier'.pc, reply |-> replier'.reply, out |-> replier'.out]
        /\ replier'.pc = "pop" /\ replier'.reply = replier.reply
    BY <2>1, <2>4 DEF RouteInv
  <2>7. misrouted' = FALSE
    BY <2>4 DEF RouteInv
  <2> QED
    BY <2>3, <2>5, <2>6, <2>7, Zenon DEF RouteInv
<1>14. CASE PopOutstanding
  <2>1. replier.pc = "pop" /\ outstandingReads = <<replier.reply>> /\ reader.pc # "push"
    BY <1>14 DEF PopOutstanding, RouteInv
  <2>2. Head(<<replier.reply>>) = replier.reply /\ Tail(<<replier.reply>>) = <<>>
    OBVIOUS
  <2>3. outstandingReads' = <<>>
    BY <1>14, <2>1, <2>2, Zenon DEF PopOutstanding
  <2>4. replier' = [replier EXCEPT !.pc = "send", !.out = replier.reply]
    BY <1>14, <2>1, <2>2, Zenon DEF PopOutstanding
  <2>5. /\ replier'.pc = "send" /\ replier'.out = replier'.reply
        /\ replier' = [pc |-> replier'.pc, reply |-> replier'.reply, out |-> replier'.out]
    BY <2>4, Zenon DEF RouteInv
  <2>6. UNCHANGED <<reader, misrouted>>
    BY <1>14 DEF PopOutstanding, readVars
  <2> QED
    BY <2>1, <2>3, <2>5, <2>6 DEF RouteInv
<1>15. CASE DeliverReply
  BY <1>15, Zenon DEF DeliverReply, ReplierAt, readVars, RouteInv
<1>16. ASSUME NEW c \in Closers, CheckDead(c) \/ MarkDead(c) \/ StopWrites(c) PROVE RouteInv'
  BY <1>3, <1>16 DEF CheckDead, MarkDead, StopWrites, readVars
<1>17. ASSUME NEW c \in Closers, StopReads(c) \/ FinishClose(c) PROVE RouteInv'
  BY <1>1, <1>17 DEF StopReads, FinishClose, ReaderAt
<1>18. CASE UNCHANGED vars
  BY <1>3, <1>18 DEF vars, replyVars
<1> QED
  BY <1>4, <1>5, <1>6, <1>7, <1>8, <1>9, <1>10, <1>11, <1>12, <1>13, <1>14, <1>15, <1>16,
     <1>17, <1>18 DEF Next, WriterStep, ReaderStep, ReplierStep, CloseStep

(* A batch read gets the reply computed for it, for any number of callers, and the
   buffered channel never fills (shard.go:153-171, 253-259). *)
THEOREM RoutedRight == Spec => []RepliesRouted
<1>1. Len(<<>>) <= 1 /\ \A x : Len(<<x>>) <= 1
  OBVIOUS
<1>2. RouteInv => RepliesRouted
  BY <1>1, Zenon DEF RouteInv, RepliesRouted
<1> QED
  BY <1>2, RouteInit, RouteStep, PTL DEF Spec

-----------------------------------------------------------------------------
(* The window and its backlog. *)

Entry == {asCuckooItem(n, p) : n \in Nat, p \in Placements}

(* The writer has taken a write and not yet counted it. *)
Uncounted(pc) == pc \in {"insert", "inserted", "reinsert", "reinserted", "fatal"}

(* The window has the write and old items are still in it. *)
Untrimmed(pc) == pc \in {"insert", "inserted"}

(* Between writes the window fits, and sinceFlip counts the entries no applyWrites
   has covered.  While a write is inserted either bound is exceeded by one. *)
WindowInv ==
  /\ Entries \in Seq(Entry)
  /\ calls \in [writes : Nat, epochs : Nat, reads : Nat]
  /\ sinceFlip \in Nat
  /\ IsFiniteSet(Window \ applied)
  /\ Cardinality(Window \ applied) <= sinceFlip + IF Uncounted(writer.pc) THEN 1 ELSE 0
  /\ writer.pc \in {"select", "insert", "inserted", "reinsert", "reinserted"} =>
       sinceFlip <= OutstandingLimit
  /\ Untrimmed(writer.pc) => Len(Entries) >= 1
  /\ RemoveStep > 0 /\ WindowSize > 0 /\ writer.pc # "fatal" =>
       Len(Entries) <= WindowSize + IF Untrimmed(writer.pc) THEN 1 ELSE 0

(* Dropping the n oldest entries. *)
LEMMA DropOldest ==
  ASSUME NEW S, NEW s \in Seq(S), NEW n \in 0 .. Len(s)
  PROVE  /\ SubSeq(s, n + 1, Len(s)) \in Seq(S)
         /\ Len(SubSeq(s, n + 1, Len(s))) = Len(s) - n
         /\ \A i \in 1 .. Len(s) - n : SubSeq(s, n + 1, Len(s))[i] = s[i + n]
OBVIOUS

(* Adding an entry. *)
LEMMA AppendEntry ==
  ASSUME NEW S, NEW s \in Seq(S), NEW e \in S
  PROVE  /\ Append(s, e) \in Seq(S)
         /\ Len(Append(s, e)) = Len(s) + 1 /\ Len(s) \in Nat
         /\ \A i \in DOMAIN Append(s, e) :
              Append(s, e)[i] = e \/ (i \in DOMAIN s /\ Append(s, e)[i] = s[i])
<1>1. Append(s, e) \in Seq(S) /\ Len(Append(s, e)) = Len(s) + 1 /\ Len(s) \in Nat
  OBVIOUS
<1>2. DOMAIN Append(s, e) = 1 .. Len(s) + 1 /\ DOMAIN s = 1 .. Len(s)
  OBVIOUS
<1>3. Append(s, e)[Len(s) + 1] = e
  OBVIOUS
<1>4. \A i \in 1 .. Len(s) : Append(s, e)[i] = s[i]
  OBVIOUS
<1>5. ASSUME NEW i \in 1 .. Len(s) + 1 PROVE i = Len(s) + 1 \/ i \in 1 .. Len(s)
  BY <1>1
<1>6. ASSUME NEW i \in DOMAIN Append(s, e)
      PROVE  Append(s, e)[i] = e \/ (i \in DOMAIN s /\ Append(s, e)[i] = s[i])
  <2>1. i = Len(s) + 1 \/ i \in 1 .. Len(s)
    BY <1>2, <1>5
  <2> QED
    BY <1>2, <1>3, <1>4, <2>1
<1> QED
  BY <1>1, <1>6

(* The end of the loop body of processWrites (shard.go:202-207). *)
LEMMA CountedCases ==
  ASSUME sinceFlip \in Nat
  PROVE  Counted = "sync" \/ (Counted = "select" /\ sinceFlip + 1 <= OutstandingLimit)
<1>1. OutstandingLimit \in Nat
  BY TableParams DEF OutstandingLimit, GetCapacity
<1>2. CASE sinceFlip + 1 > OutstandingLimit
  BY <1>1, <1>2 DEF Counted
<1>3. CASE ~ (sinceFlip + 1 > OutstandingLimit)
  <2>1. sinceFlip + 1 <= OutstandingLimit
    BY <1>1, <1>3
  <2> QED
    BY <1>1, <1>3, <2>1 DEF Counted
<1> QED
  BY <1>2, <1>3

(* A set with at most one element more. *)
LEMMA OneMore ==
  ASSUME NEW S, IsFiniteSet(S), NEW x, NEW T, T \subseteq S \cup {x}
  PROVE  IsFiniteSet(T) /\ Cardinality(T) <= Cardinality(S) + 1
<1>0. Cardinality(S) \in Nat
  BY FS_CardinalityType, Zenon
<1>1. IsFiniteSet(S \cup {x})
      /\ Cardinality(S \cup {x}) \in {Cardinality(S), Cardinality(S) + 1}
  BY FS_AddElement, Zenon
<1>2. T \in SUBSET (S \cup {x})
  OBVIOUS
<1>3. IsFiniteSet(T) /\ Cardinality(T) <= Cardinality(S \cup {x})
  BY <1>1, <1>2, FS_Subset, Zenon
<1>4. Cardinality(T) \in Nat /\ Cardinality(S) \in Nat /\ Cardinality(S \cup {x}) \in Nat
  BY <1>1, <1>3, FS_CardinalityType, Zenon
<1> QED
  BY <1>0, <1>1, <1>3, <1>4

(* A new shard is empty (shard.go:51-96). *)
LEMMA WindowInit == Init => WindowInv
<1> SUFFICES ASSUME Init PROVE WindowInv
  OBVIOUS
<1>1. Window \ applied = {}
  BY DEF Init, Window
<1>2. IsFiniteSet({}) /\ Cardinality({}) = 0
  BY FS_EmptySet
<1>3. OutstandingLimit \in Nat
  BY TableParams DEF OutstandingLimit, GetCapacity
<1>4. Entries = <<>> /\ sinceFlip = 0 /\ writer.pc = "select"
      /\ calls = [writes |-> 0, epochs |-> 0, reads |-> 0]
  BY DEF Init, WriterAt
<1>5. IsFiniteSet(Window \ applied) /\ Cardinality(Window \ applied) = 0
  BY <1>1, <1>2, Zenon
<1>6. WindowSize \in Nat
  BY ShardParams
<1> QED
  BY <1>3, <1>4, <1>5, <1>6 DEF WindowInv, Uncounted, Untrimmed

(* A step that leaves the window and the count alone. *)
LEMMA WindowFrame ==
  ASSUME WindowInv, UNCHANGED <<Entries, sinceFlip, applied>>,
         calls' \in [writes : Nat, epochs : Nat, reads : Nat],
         \/ writer'.pc = writer.pc
         \/ Untrimmed(writer.pc) /\ Untrimmed(writer'.pc)
         \/ writer.pc \in {"reinsert", "reinserted"} /\ writer'.pc \in {"reinsert", "reinserted"}
         \/ Uncounted(writer.pc) /\ writer'.pc = "fatal"
         \/ writer.pc = "select" /\ writer'.pc \in {"sync", "exited"}
  PROVE  WindowInv'
<1>1. (Window \ applied)' = Window \ applied
  BY DEF Window
<1> QED
  BY <1>1, Zenon DEF WindowInv, Uncounted, Untrimmed

(* A write is appended (shard.go:178-190). *)
LEMMA WindowWrite ==
  ASSUME WindowInv, NEW p \in Placements, Write(p)
  PROVE  WindowInv'
<1> DEFINE itm == asCuckooItem(calls.writes + 1, p)
<1>1. Entries' = Append(Entries, itm) /\ writer.pc = "select"
      /\ UNCHANGED <<sinceFlip, applied>> /\ calls' = [calls EXCEPT !.writes = @ + 1]
  BY DEF Write
<1>2. writer'.pc \in {"insert", "inserted", "fatal"}
  BY InsertAtPc DEF Write, Finished
<1>3. calls' \in [writes : Nat, epochs : Nat, reads : Nat] /\ itm \in Entry
  BY <1>1 DEF WindowInv, Entry
<1> HIDE DEF itm
<1>4. Entries' \in Seq(Entry) /\ Len(Entries') = Len(Entries) + 1 /\ Len(Entries) \in Nat
      /\ \A i \in DOMAIN Entries' : Entries'[i] = itm \/ (i \in DOMAIN Entries /\ Entries'[i] = Entries[i])
  BY <1>1, <1>3, AppendEntry DEF WindowInv
<1>5. (Window \ applied)' \subseteq (Window \ applied) \cup {itm}
  BY <1>1, <1>4 DEF Window
<1>6. IsFiniteSet((Window \ applied)')
      /\ Cardinality((Window \ applied)') <= Cardinality(Window \ applied) + 1
  BY <1>5, OneMore, Zenon DEF WindowInv
<1>7. Cardinality(Window \ applied) \in Nat /\ Cardinality((Window \ applied)') \in Nat
  BY <1>6, FS_CardinalityType DEF WindowInv
<1>8. WindowSize \in Nat /\ RemoveStep \in Nat
  BY ShardParams
<1>9. sinceFlip' \in Nat /\ sinceFlip' <= OutstandingLimit
  BY <1>1 DEF WindowInv
<1>10. Cardinality((Window \ applied)') <= sinceFlip' + 1
  <2>1. Cardinality(Window \ applied) <= sinceFlip + 0
    BY <1>1 DEF WindowInv, Uncounted
  <2> QED
    BY <1>1, <1>6, <1>7, <1>9, <2>1
<1>11. RemoveStep > 0 /\ WindowSize > 0 => Len(Entries') <= WindowSize + 1
  <2>1. RemoveStep > 0 /\ WindowSize > 0 => Len(Entries) <= WindowSize + 0
    BY <1>1 DEF WindowInv, Untrimmed
  <2> QED
    BY <1>4, <1>8, <2>1
<1>12. Len(Entries') >= 1
  BY <1>4
<1>13. Uncounted(writer'.pc) /\ (writer'.pc # "fatal" => Untrimmed(writer'.pc))
  BY <1>2 DEF Uncounted, Untrimmed
<1> QED
  BY <1>3, <1>4, <1>6, <1>9, <1>10, <1>11, <1>12, <1>13 DEF WindowInv

(* Old items are removed when the insert failed or the window is full
   (shard.go:191-197, 219-229). *)
LEMMA WindowTrim ==
  ASSUME WindowInv, AfterInsert
  PROVE  WindowInv'
<1> DEFINE n == IF ~ writer.ok \/ Len(Entries) > WindowSize THEN toRemove ELSE 0
<1>1. writer.pc = "inserted" /\ Entries' = SubSeq(Entries, n + 1, Len(Entries))
      /\ UNCHANGED <<applied, calls>>
  BY DEF AfterInsert
<1>2. \/ writer'.pc = Counted /\ sinceFlip' = sinceFlip + 1
      \/ writer'.pc \in {"reinsert", "reinserted", "fatal"} /\ sinceFlip' = sinceFlip
  BY InsertAtPc DEF AfterInsert, WriterAt, Finished
<1>3. Len(Entries) \in Nat /\ Len(Entries) >= 1 /\ WindowSize \in Nat /\ RemoveStep \in Nat
  BY <1>1, ShardParams DEF WindowInv, Untrimmed
<1>4. n \in 0 .. Len(Entries)
      /\ (RemoveStep > 0 /\ WindowSize > 0 => Len(Entries) - n <= WindowSize)
  BY <1>1, <1>3 DEF toRemove, WindowInv, Untrimmed
<1> HIDE DEF n
<1>5. Entries' \in Seq(Entry) /\ Len(Entries') = Len(Entries) - n
      /\ \A i \in 1 .. Len(Entries) - n : Entries'[i] = Entries[i + n]
  BY <1>1, <1>4, DropOldest DEF WindowInv
<1>6. Window' \subseteq Window
  <2>1. ASSUME NEW i \in DOMAIN Entries' PROVE Entries'[i] \in Window
    <3>1. i \in 1 .. Len(Entries) - n /\ i + n \in DOMAIN Entries
      BY SMTT(30), <1>3, <1>4, <1>5 DEF WindowInv
    <3> QED
      BY <1>5, <3>1 DEF Window
  <2> QED
    BY <2>1 DEF Window
<1>7. (Window \ applied)' \in SUBSET (Window \ applied)
  BY <1>1, <1>6
<1>8. IsFiniteSet((Window \ applied)')
      /\ Cardinality((Window \ applied)') <= Cardinality(Window \ applied)
  BY <1>7, FS_Subset, Zenon DEF WindowInv
<1>9. Cardinality(Window \ applied) \in Nat /\ Cardinality((Window \ applied)') \in Nat
  BY <1>8, FS_CardinalityType DEF WindowInv
<1>10. OutstandingLimit \in Nat
  BY TableParams DEF OutstandingLimit, GetCapacity
<1>11. Cardinality(Window \ applied) <= sinceFlip + 1 /\ sinceFlip <= OutstandingLimit
       /\ sinceFlip \in Nat
  BY <1>1 DEF WindowInv, Uncounted
<1>12. Counted = "sync" \/ (Counted = "select" /\ sinceFlip + 1 <= OutstandingLimit)
  BY <1>11, CountedCases
<1>13. calls' \in [writes : Nat, epochs : Nat, reads : Nat]
  BY <1>1 DEF WindowInv
<1>14. Len(Entries') \in Nat
       /\ (RemoveStep > 0 /\ WindowSize > 0 => Len(Entries') <= WindowSize)
  BY <1>3, <1>4, <1>5
<1>15. sinceFlip' \in Nat
  BY <1>2, <1>11
<1>16. Cardinality((Window \ applied)') <= sinceFlip' + IF Uncounted(writer'.pc) THEN 1 ELSE 0
  BY <1>2, <1>8, <1>9, <1>11, <1>12 DEF Uncounted
<1>17. ~ Untrimmed(writer'.pc)
  BY <1>2, <1>12 DEF Untrimmed
<1>18. writer'.pc \in {"select", "insert", "inserted", "reinsert", "reinserted"} =>
         sinceFlip' <= OutstandingLimit
  BY <1>2, <1>11, <1>12
<1> QED
  BY <1>3, <1>5, <1>8, <1>13, <1>14, <1>15, <1>16, <1>17, <1>18 DEF WindowInv

(* Every step keeps the bounds. *)
LEMMA WindowStep == WindowInv /\ [Next]_vars => WindowInv'
<1> SUFFICES ASSUME WindowInv, [Next]_vars PROVE WindowInv'
  OBVIOUS
<1>0. calls \in [writes : Nat, epochs : Nat, reads : Nat]
  BY DEF WindowInv
<1>1. ASSUME NEW p \in Placements, Write(p) PROVE WindowInv'
  BY <1>1, WindowWrite
<1>2. CASE WriteEpoch
  BY <1>0, <1>2, WindowFrame DEF WriteEpoch, WriterAt
<1>3. CASE Evict
  <2>1. writer'.pc \in {writer.pc, Finished(writer.pc), "fatal"}
    BY <1>3, InsertAtPc DEF Evict
  <2> QED
    BY <1>0, <1>3, <2>1, WindowFrame DEF Evict, Finished, Untrimmed, Uncounted
<1>4. CASE GiveUp
  <2>1. writer'.pc = Finished(writer.pc)
    BY <1>4 DEF GiveUp, WriterAt
  <2> QED
    BY <1>0, <1>4, <2>1, WindowFrame DEF GiveUp, Finished, Untrimmed
<1>5. CASE AfterInsert
  BY <1>5, WindowTrim
<1>6. CASE AfterReinsert /\ writer.ok
  <2>1. /\ writer.pc = "reinserted" /\ writer'.pc = Counted /\ sinceFlip' = sinceFlip + 1
        /\ UNCHANGED <<Entries, applied, calls>>
    BY <1>6 DEF AfterReinsert, WriterAt
  <2>2. (Window \ applied)' = Window \ applied
    BY <2>1 DEF Window
  <2>3. OutstandingLimit \in Nat
    BY TableParams DEF OutstandingLimit, GetCapacity
  <2>4. sinceFlip \in Nat
    BY DEF WindowInv
  <2>5. Counted = "sync" \/ (Counted = "select" /\ sinceFlip + 1 <= OutstandingLimit)
    BY <2>4, CountedCases
  <2>6. writer'.pc \in {"sync", "select"} /\ ~ Uncounted(writer'.pc) /\ ~ Untrimmed(writer'.pc)
    BY <2>1, <2>5 DEF Uncounted, Untrimmed
  <2>7. Cardinality((Window \ applied)') <= sinceFlip'
    <3>1. Cardinality(Window \ applied) <= sinceFlip + 1
      BY <2>1 DEF WindowInv, Uncounted
    <3> QED
      BY <2>1, <2>2, <3>1
  <2>8. RemoveStep > 0 /\ WindowSize > 0 => Len(Entries') <= WindowSize + 0
    BY <2>1 DEF WindowInv, Untrimmed
  <2>9. writer'.pc = "select" => sinceFlip' <= OutstandingLimit
    BY <2>1, <2>5
  <2>10. /\ Entries' \in Seq(Entry) /\ IsFiniteSet((Window \ applied)')
         /\ calls' \in [writes : Nat, epochs : Nat, reads : Nat]
    BY <2>1, <2>2, Zenon DEF WindowInv
  <2>11. sinceFlip' \in Nat /\ sinceFlip' + 0 = sinceFlip'
    BY <2>1, <2>4
  <2> QED
    BY <2>6, <2>7, <2>8, <2>9, <2>10, <2>11, Zenon DEF WindowInv
<1>7. CASE AfterReinsert /\ ~ writer.ok
  BY <1>0, <1>7, WindowFrame DEF AfterReinsert, WriterAt, Uncounted
<1>8. CASE ApplyWrites
  <2>1. /\ writer.pc = "sync" /\ writer'.pc = "select" /\ sinceFlip' = 0
        /\ applied' = Window /\ UNCHANGED <<Entries, calls>>
    BY <1>8 DEF ApplyWrites, WriterAt, Window
  <2>2. (Window \ applied)' = {}
    BY <2>1 DEF Window
  <2>3. IsFiniteSet((Window \ applied)') /\ Cardinality((Window \ applied)') = 0
    BY <2>2, FS_EmptySet, Zenon
  <2>4. OutstandingLimit \in Nat
    BY TableParams DEF OutstandingLimit, GetCapacity
  <2> QED
    BY <2>1, <2>3, <2>4 DEF WindowInv, Uncounted, Untrimmed
<1>9. ASSUME NEW r \in Readers, NEW sized \in BOOLEAN, BatchRead(r, sized) PROVE WindowInv'
  BY <1>0, <1>9, WindowFrame DEF BatchRead, writeVars
<1>10. CASE ReaderStep \/ ReplierStep
  BY <1>0, <1>10, WindowFrame DEF ReaderStep, CopySlot, RefuseBatch, SendReply, PushOutstanding,
     ReplierStep, PopOutstanding, DeliverReply, writeVars
<1>11. ASSUME NEW c \in Closers, CheckDead(c) \/ CloseStep(c) PROVE WindowInv'
  BY <1>0, <1>11, WindowFrame DEF CheckDead, CloseStep, MarkDead, StopWrites, StopReads, FinishClose,
     writeVars, WriterAt
<1>12. CASE UNCHANGED vars
  BY <1>0, <1>12, WindowFrame DEF vars
<1> QED
  BY <1>1, <1>2, <1>3, <1>4, <1>5, <1>6, <1>7, <1>8, <1>9, <1>10, <1>11, <1>12 DEF Next, WriterStep

(* The window never outgrows its share of the table between writes, for every
   window and every step of eviction that is not 0 (shard.go:191-193, 219-229). *)
THEOREM WindowFits == Spec => []WindowBounded
<1>1. ASSUME WindowInv, writer.pc = "select", RemoveStep > 0, WindowSize > 0
      PROVE  Len(Entries) <= WindowSize
  <2>1. Len(Entries) <= WindowSize + 0
    BY <1>1, Zenon DEF WindowInv, Untrimmed
  <2> QED
    BY <2>1, ShardParams
<1>2. WindowInv => WindowBounded
  BY <1>1 DEF WindowBounded
<1> QED
  BY <1>2, WindowInit, WindowStep, PTL DEF Spec

(* At most outstandingLimit entries wait for an applyWrites between writes, for
   every capacity (shard.go:202-216). *)
THEOREM BacklogBounded == Spec => []StalenessBounded
<1>1. ASSUME WindowInv, writer.pc = "select"
      PROVE  Cardinality(Window \ applied) <= OutstandingLimit
  <2>1. Cardinality(Window \ applied) \in Nat
    BY <1>1, FS_CardinalityType DEF WindowInv
  <2>2. Cardinality(Window \ applied) <= sinceFlip /\ sinceFlip <= OutstandingLimit
        /\ sinceFlip \in Nat
    BY <1>1 DEF WindowInv, Uncounted
  <2>3. OutstandingLimit \in Nat
    BY TableParams DEF OutstandingLimit, GetCapacity
  <2> QED
    BY <2>1, <2>2, <2>3
<1>2. WindowInv => StalenessBounded
  BY <1>1 DEF StalenessBounded
<1> QED
  BY <1>2, WindowInit, WindowStep, PTL DEF Spec

-----------------------------------------------------------------------------
(* The items of the window. *)

(* The items shards store: the payload is that of the write. *)
Genuine == {x \in Item : x.data = x.id}

(* f[k] is the set of tables that removing the k oldest entries can leave. *)
Removing(f, n) ==
  f = [k \in 0 .. n |->
         IF k = 0 THEN {table}
         ELSE UNION {{o.table : o \in RemoveOutcomes(t, Entries[k])} :
                     t \in f[k - 1]}]

(* The loop of evictOldItems can be run any number of times (shard.go:219-229). *)
LEMMA RemovingExists ==
  ASSUME NEW n \in Nat
  PROVE  \E f : Removing(f, n)
<1>. DEFINE S == {k \in 0 .. n : \E f : Removing(f, k)}
            After(X, k) ==
              UNION {{o.table : o \in RemoveOutcomes(t, Entries[k])} : t \in X}
<1>1. 0 \in S
  <2>1. Removing([k \in 0 .. 0 |-> {table}], 0)
    BY DEF Removing
  <2>. QED
    BY <2>1
<1>2. ASSUME NEW k \in 0 .. n - 1, k \in S
      PROVE  k + 1 \in S
  <2>1. PICK f : Removing(f, k)
    BY <1>2
  <2>2. f = [j \in 0 .. k |-> IF j = 0 THEN {table} ELSE After(f[j - 1], j)]
    BY <2>1, Zenon DEF Removing
  <2>. DEFINE g == [j \in 0 .. k + 1 |-> IF j = k + 1 THEN After(f[k], k + 1) ELSE f[j]]
  <2>. HIDE DEF After
  <2>3. \A j \in 0 .. k + 1 : g[j] = IF j = 0 THEN {table} ELSE After(g[j - 1], j)
    <3>. SUFFICES ASSUME NEW j \in 0 .. k + 1
                  PROVE  g[j] = IF j = 0 THEN {table} ELSE After(g[j - 1], j)
      BY Zenon
    <3>1. CASE j = k + 1
      <4>1. g[j] = After(f[k], k + 1) /\ j # 0
        BY <3>1
      <4>2. g[j - 1] = f[k]
        BY <3>1
      <4>. QED
        BY <3>1, <4>1, <4>2
    <3>2. CASE j # k + 1
      <4>1. j \in 0 .. k /\ (j # 0 => j - 1 \in 0 .. k)
        BY <3>2
      <4>2. g[j] = f[j] /\ (j # 0 => g[j - 1] = f[j - 1])
        BY <4>1
      <4>3. f[j] = IF j = 0 THEN {table} ELSE After(f[j - 1], j)
        BY <2>2, <4>1, Zenon
      <4>. QED
        BY <4>2, <4>3
    <3>. QED
      BY <3>1, <3>2
  <2>4. g = [j \in 0 .. k + 1 |-> IF j = 0 THEN {table} ELSE After(g[j - 1], j)]
    BY <2>3, Zenon
  <2>5. Removing(g, k + 1)
    BY <2>4, Zenon DEF Removing, After
  <2>6. k + 1 \in 0 .. n
    OBVIOUS
  <2>. QED
    BY <2>5, <2>6, Zenon
<1>3. n \in S
  <2>. HIDE DEF S
  <2>1. \A k \in 0 .. n : k \in S
    BY <1>1, <1>2, CountingUp
  <2>. QED
    BY <2>1
<1>. QED
  BY <1>3

(* Removing the n oldest entries leaves every item in its own buckets, and
   every stored item that equals none of those entries (shard.go:219-229). *)
LEMMA WithoutOldestKeeps ==
  ASSUME Stocked(table, Genuine), NEW n \in Nat, NEW t \in WithoutOldest(n)
  PROVE  /\ Stocked(t, Genuine)
         /\ \A z : \A s \in Slot :
              Holds(table, s, z) /\ (\A i \in 1 .. n : ~ Equals(Entries[i], z)) =>
                Holds(t, s, z)
<1>1. PICK f : Removing(f, n) /\ WithoutOldest(n) = f[n]
  <2>. DEFINE f == CHOOSE f : Removing(f, n)
  <2>1. Removing(f, n)
    BY RemovingExists
  <2>2. WithoutOldest(n) = f[n]
    BY DEF WithoutOldest, Removing
  <2>. QED
    BY <2>1, <2>2, Zenon
<1>. DEFINE Spares(u, k) ==
              \A z : \A s \in Slot :
                Holds(table, s, z) /\ (\A i \in 1 .. k : ~ Equals(Entries[i], z)) =>
                  Holds(u, s, z)
            S == {k \in 0 .. n : \A u \in f[k] : Stocked(u, Genuine) /\ Spares(u, k)}
<1>2. 0 \in S
  BY <1>1 DEF Removing
<1>3. ASSUME NEW k \in 0 .. n - 1, k \in S
      PROVE  k + 1 \in S
  <2>1. ASSUME NEW u \in f[k + 1] PROVE Stocked(u, Genuine) /\ Spares(u, k + 1)
    <3>1. f[k + 1] = UNION {{o.table : o \in RemoveOutcomes(v, Entries[k + 1])} : v \in f[k]}
      <4>1. k + 1 \in 0 .. n /\ k + 1 # 0 /\ (k + 1) - 1 = k
        OBVIOUS
      <4>. QED
        BY <1>1, <4>1, Zenon DEF Removing
    <3>2. PICK v \in f[k] : \E o \in RemoveOutcomes(v, Entries[k + 1]) : u = o.table
      BY <2>1, <3>1
    <3>3. PICK o \in RemoveOutcomes(v, Entries[k + 1]) : u = o.table
      BY <3>2
    <3>4. Stocked(v, Genuine) /\ Spares(v, k)
      BY <1>3
    <3>5. /\ Stocked(u, Genuine)
          /\ \A z : \A s \in Slot :
               Holds(v, s, z) /\ ~ Equals(Entries[k + 1], z) => Holds(u, s, z)
      BY <3>3, <3>4, RemoveStocked DEF Genuine
    <3>6. ASSUME NEW z, NEW s \in Slot, Holds(table, s, z),
                 \A i \in 1 .. k + 1 : ~ Equals(Entries[i], z)
          PROVE  Holds(u, s, z)
      <4>1. k + 1 \in 1 .. k + 1 /\ \A i \in 1 .. k : i \in 1 .. k + 1
        OBVIOUS
      <4>. QED
        BY <3>4, <3>5, <3>6, <4>1, Zenon
    <3>. QED
      BY <3>5, <3>6
  <2>. QED
    BY <2>1
<1>4. n \in S
  <2>. HIDE DEF S
  <2>1. \A k \in 0 .. n : k \in S
    BY <1>2, <1>3, CountingUp
  <2>. QED
    BY <2>1
<1>. QED
  BY <1>1, <1>4

(* What processWrites has in hand: an item to insert for one of its buckets, the
   item a failed Insert came back with, or none. *)
HandFine(w) ==
  /\ w.pc \in {"insert", "reinsert"} =>
       w.item \in Genuine /\ w.next \in {w.item.bucket1, w.item.bucket2}
  /\ w.pc \in {"inserted", "reinserted"} =>
       w.item \in Genuine \cup {NoItem} /\ (w.ok => w.item = NoItem)
  /\ w.pc \notin {"insert", "reinsert", "inserted", "reinserted"} => w.item = NoItem

(* The entries of the window are distinct writes, and each is kept. *)
KeptInv ==
  /\ calls.writes <= MaxWrites
  /\ \A i \in DOMAIN Entries : Entries[i].id \in 1 .. calls.writes
  /\ \A i, j \in DOMAIN Entries : Entries[i].id = Entries[j].id => i = j
  /\ Stocked(table, Genuine)
  /\ HandFine(writer)
  /\ writer.pc # "fatal" =>
       \A x \in Window : Insertable(x) => Kept(table, writer.item, x)

(* A new shard is empty (shard.go:51-96). *)
LEMMA KeptInit == Init => KeptInv
<1>. SUFFICES ASSUME Init PROVE KeptInv
  OBVIOUS
<1>2. table \in Table /\ \A s \in Slot : ~ table[s].filled
  BY NewTableEmpty DEF Init
<1>3. Stocked(table, Genuine)
  BY <1>2 DEF Stocked
<1>4. Entries = <<>> /\ DOMAIN Entries = {} /\ Window = {}
  BY DEF Init, Window
<1>5. HandFine(writer)
  BY DEF Init, HandFine, WriterAt
<1>6. calls.writes <= MaxWrites
  BY ShardParams DEF Init
<1>. QED
  BY <1>3, <1>4, <1>5, <1>6 DEF KeptInv

(* A step of the Insert at pc leaves the item in hand that its outcome has. *)
LEMMA InsertAtFine ==
  ASSUME NEW pc \in {"insert", "reinsert"}, NEW o, NEW n, Standing(o, Genuine)
  PROVE  /\ HandFine(InsertAt(pc, o, n))
         /\ InsertAt(pc, o, n).item = o.item
         /\ InsertAt(pc, o, n).pc # "fatal"
<1>1. CASE o.status = "evicting"
  BY <1>1 DEF InsertAt, HandFine, Standing
<1>2. CASE o.status # "evicting"
  <2>1. o.status = "done" /\ o.item = NoItem
    BY <1>2 DEF Standing
  <2>2. InsertAt(pc, o, n).pc \in {"inserted", "reinserted"} /\ InsertAt(pc, o, n).item = NoItem
    BY <2>1 DEF InsertAt, WriterAt, Finished
  <2>. QED
    BY <2>1, <2>2 DEF HandFine
<1>. QED
  BY <1>1, <1>2

(* A step that leaves the window, the table and the item in hand alone. *)
LEMMA KeptFrame ==
  ASSUME KeptInv, UNCHANGED <<table, Entries>>, calls'.writes = calls.writes,
         writer'.pc = "fatal" \/ (writer'.item = writer.item /\ writer.pc # "fatal"),
         HandFine(writer')
  PROVE  KeptInv'
<1>1. Window' = Window
  BY DEF Window
<1>. QED
  BY <1>1 DEF KeptInv, Stocked, Kept, Holds

(* A write is appended and its Insert begins (shard.go:178-190). *)
LEMMA KeptWrite ==
  ASSUME WindowInv, KeptInv, NEW p \in Placements, Write(p)
  PROVE  KeptInv'
<1>. DEFINE itm == asCuckooItem(calls.writes + 1, p)
<1>1. /\ Entries' = Append(Entries, itm) /\ writer.pc = "select" /\ writer.item = NoItem
      /\ calls' = [calls EXCEPT !.writes = @ + 1]
      /\ calls.writes \in Nat /\ calls.writes < MaxWrites /\ MaxWrites \in Nat
  BY ShardParams DEF Write, KeptInv, WindowInv, HandFine
<1>2. calls'.writes = calls.writes + 1 /\ calls'.writes <= MaxWrites
  BY <1>1 DEF WindowInv
<1>3. PICK o \in InsertStart(table, itm) : table' = o.table /\ writer' = InsertAt("insert", o, 0)
  BY DEF Write, Touch
<1>4. /\ itm.id = calls.writes + 1 /\ itm.data = itm.id
      /\ itm \in Entry /\ (Insertable(itm) => itm \in Genuine)
  <2>1. calls.writes + 1 \in Nat /\ calls.writes + 1 \in ID
    BY <1>1, ShardParams
  <2>2. itm = [id |-> calls.writes + 1, data |-> calls.writes + 1, bucket1 |-> p[1], bucket2 |-> p[2]]
    BY DEF asCuckooItem
  <2>3. itm \in Entry
    BY <2>1 DEF Entry
  <2>4. Insertable(itm) => itm \in Item
    BY <2>1, <2>2 DEF Insertable, InRange, Item
  <2>. QED
    BY <2>2, <2>3, <2>4 DEF Genuine
<1>. HIDE DEF itm
<1>5. /\ DOMAIN Entries = 1 .. Len(Entries) /\ DOMAIN Entries' = 1 .. Len(Entries) + 1
      /\ Len(Entries) \in Nat
      /\ Entries'[Len(Entries) + 1] = itm
      /\ \A i \in 1 .. Len(Entries) : Entries'[i] = Entries[i]
  BY <1>1, <1>4 DEF WindowInv
<1>6. /\ \A i \in DOMAIN Entries' : Entries'[i].id \in 1 .. calls'.writes
      /\ \A i, j \in DOMAIN Entries' : Entries'[i].id = Entries'[j].id => i = j
  <2>1. \A i \in DOMAIN Entries' : i = Len(Entries) + 1 \/ i \in DOMAIN Entries
    BY <1>5
  <2>2. \A i \in DOMAIN Entries : Entries[i].id \in 1 .. calls.writes
    BY DEF KeptInv
  <2>3. \A i, j \in DOMAIN Entries : Entries[i].id = Entries[j].id => i = j
    BY DEF KeptInv
  <2>4. \A i \in DOMAIN Entries' : Entries'[i].id \in 1 .. calls'.writes
    BY <1>1, <1>2, <1>4, <1>5, <2>1, <2>2
  <2>5. \A i \in DOMAIN Entries : Entries'[i].id # itm.id
    BY <1>1, <1>4, <1>5, <2>2
  <2>. QED
    BY <1>5, <2>1, <2>3, <2>4, <2>5
<1>7. Window' = Window \cup {itm}
  BY <1>5 DEF Window
<1>8. \A x \in Window : Insertable(x) => \E s \in Slot : Holds(table, s, x)
  BY <1>1 DEF KeptInv, Kept
<1>9. CASE ~ Insertable(itm)
  <2>1. o = Returned(table, "refused")
    BY <1>3, <1>9 DEF InsertStart
  <2>2. table' = table /\ writer'.pc = "inserted" /\ writer'.item = NoItem
    BY <1>3, <2>1 DEF Returned, Outcome, InsertAt, WriterAt, Finished
  <2>3. HandFine(writer')
    BY <2>2 DEF HandFine
  <2>4. \A x \in Window' : Insertable(x) => Kept(table', writer'.item, x)
    BY <1>7, <1>8, <1>9, <2>2 DEF Kept
  <2>5. Stocked(table', Genuine)
    BY SMTT(20), <2>2 DEF KeptInv
  <2>. QED
    BY <1>2, <1>6, <2>3, <2>4, <2>5 DEF KeptInv
<1>10. CASE Insertable(itm)
  <2>1. itm \in Genuine /\ itm \in Item /\ table \in Table /\ Genuine \in SUBSET Item
    BY <1>4, <1>10 DEF Genuine, KeptInv, Stocked
  <2>2. Proceeds(table, itm, o)
    BY <1>3, <2>1, InsertStartProceeds
  <2>3. Stocked(table', Genuine) /\ Standing(o, Genuine)
    BY <1>3, <2>1, <2>2, ProceedsStocked DEF KeptInv
  <2>4. HandFine(writer') /\ writer'.item = o.item
    BY <1>3, <2>3, InsertAtFine
  <2>5. itm # NoItem /\ Equals(itm, itm)
    BY <2>1, NoItemIsNone DEF Equals
  <2>6. \A x \in Window' : Insertable(x) => Kept(table, itm, x)
    BY <1>7, <1>8, <2>5 DEF Kept
  <2>7. \A x \in Window' : Insertable(x) => Kept(table', writer'.item, x)
    BY SMTT(20), <1>3, <2>1, <2>2, <2>4, <2>6, ProceedsKeeps
  <2>. QED
    BY SMTT(20), <1>2, <1>6, <2>3, <2>4, <2>7 DEF KeptInv
<1>. QED
  BY <1>9, <1>10

(* A turn of an eviction loop (table.go:142-158). *)
LEMMA KeptEvict ==
  ASSUME KeptInv, Evict
  PROVE  KeptInv'
<1>1. /\ writer.pc \in {"insert", "reinsert"}
      /\ writer.item \in Genuine /\ writer.next \in {writer.item.bucket1, writer.item.bucket2}
      /\ UNCHANGED <<Entries, calls>>
  BY DEF Evict, KeptInv, HandFine
<1>2. PICK o \in EvictStep(table, writer.item, writer.next) :
        table' = o.table /\ writer' = InsertAt(writer.pc, o, writer.evictions + 1)
  BY SMTT(20) DEF Evict, Touch
<1>3. writer.item \in Item /\ table \in Table /\ Genuine \in SUBSET Item
  BY <1>1 DEF Genuine, KeptInv, Stocked
<1>4. Proceeds(table, writer.item, o)
  BY SMTT(20), <1>1, <1>2, <1>3, EvictStepProceeds
<1>5. Stocked(table', Genuine) /\ Standing(o, Genuine)
  BY SMTT(20), <1>1, <1>2, <1>3, <1>4, ProceedsStocked DEF KeptInv
<1>6. HandFine(writer') /\ writer'.item = o.item
  BY <1>1, <1>2, <1>5, InsertAtFine
<1>7. Window' = Window
  BY <1>1 DEF Window
<1>8. \A x \in Window' : Insertable(x) => Kept(table', writer'.item, x)
  <2>1. \A x \in Window : Insertable(x) => Kept(table, writer.item, x)
    BY <1>1 DEF KeptInv
  <2>. QED
    BY SMTT(20), <1>2, <1>3, <1>4, <1>6, <1>7, <2>1, ProceedsKeeps
<1>. QED
  BY SMTT(20), <1>1, <1>5, <1>6, <1>8 DEF KeptInv

(* Old items are removed, and the item that came back is inserted again
   (shard.go:191-201, 219-229). *)
LEMMA KeptTrim ==
  ASSUME WindowInv, KeptInv, AfterInsert
  PROVE  KeptInv'
<1>. DEFINE n == IF ~ writer.ok \/ Len(Entries) > WindowSize THEN toRemove ELSE 0
<1>1. /\ writer.pc = "inserted" /\ Entries' = SubSeq(Entries, n + 1, Len(Entries))
      /\ calls' = calls /\ writer.item \in Genuine \cup {NoItem}
  BY DEF AfterInsert, KeptInv, HandFine
<1>2. PICK t \in WithoutOldest(n) :
        \/ writer.item = NoItem /\ table' = t /\ writer' = WriterAt(Counted)
        \/ /\ writer.item # NoItem
           /\ \E o \in InsertStart(t, writer.item) :
                table' = o.table /\ writer' = InsertAt("reinsert", o, 0)
  BY DEF AfterInsert, Touch
<1>3. Len(Entries) \in Nat /\ Len(Entries) >= 1 /\ RemoveStep \in Nat /\ DOMAIN Entries = 1 .. Len(Entries)
  BY <1>1, ShardParams DEF WindowInv, Untrimmed
<1>4. n \in 0 .. Len(Entries) /\ n \in Nat
  BY <1>3 DEF toRemove
<1>. HIDE DEF n
<1>5. DOMAIN Entries' = 1 .. Len(Entries) - n
      /\ \A i \in 1 .. Len(Entries) - n : Entries'[i] = Entries[i + n]
  BY <1>1, <1>4, DropOldest DEF WindowInv
<1>6. \A i \in DOMAIN Entries' : i + n \in DOMAIN Entries /\ i + n \notin 1 .. n
  BY <1>3, <1>4, <1>5
<1>7. /\ \A i \in DOMAIN Entries' : Entries'[i].id \in 1 .. calls'.writes
      /\ \A i, j \in DOMAIN Entries' : Entries'[i].id = Entries'[j].id => i = j
  <2>1. \A i \in DOMAIN Entries' : Entries'[i].id \in 1 .. calls'.writes
    BY <1>1, <1>5, <1>6, Zenon DEF KeptInv
  <2>2. \A i, j \in DOMAIN Entries' : Entries'[i].id = Entries'[j].id => i + n = j + n
    BY <1>5, <1>6, Zenon DEF KeptInv
  <2>. QED
    BY <1>4, <1>5, <2>1, <2>2
<1>8. ASSUME NEW x \in Window', Insertable(x)
      PROVE  Kept(t, writer.item, x)
  <2>1. PICK i \in DOMAIN Entries' : x = Entries'[i]
    BY <1>8 DEF Window
  <2>2. i + n \in DOMAIN Entries /\ x = Entries[i + n]
    BY SMTT(20), <1>5, <1>6, <2>1
  <2>3. Kept(table, writer.item, x)
    BY <1>1, <1>8, <2>2 DEF KeptInv, Window
  <2>4. \A k \in 1 .. n : ~ Equals(Entries[k], x)
    <3>1. \A k \in 1 .. n : k \in DOMAIN Entries /\ k # i + n
      BY <1>3, <1>4, <1>6, <2>1
    <3>. QED
      BY <2>2, <3>1 DEF KeptInv, Equals
  <2>5. \A s \in Slot : Holds(table, s, x) => Holds(t, s, x)
    BY <1>2, <1>4, <2>4, WithoutOldestKeeps, Zenon DEF KeptInv
  <2>. QED
    BY <2>3, <2>5 DEF Kept
<1>9. Stocked(t, Genuine)
  BY <1>2, <1>4, WithoutOldestKeeps, Zenon DEF KeptInv
<1>10. calls'.writes <= MaxWrites
  BY <1>1, Zenon DEF KeptInv
<1>11. CASE writer.item = NoItem /\ table' = t /\ writer' = WriterAt(Counted)
  <2>1. writer'.item = NoItem /\ writer'.pc \in {"sync", "select"}
    BY <1>11 DEF WriterAt, Counted
  <2>2. HandFine(writer')
    BY <2>1 DEF HandFine
  <2>3. \A x \in Window' : Insertable(x) => Kept(table', writer'.item, x)
    BY SMTT(20), <1>8, <1>11, <2>1
  <2>. QED
    BY <1>7, <1>9, <1>10, <1>11, <2>2, <2>3, Zenon DEF KeptInv
<1>12. CASE /\ writer.item # NoItem
            /\ \E o \in InsertStart(t, writer.item) :
                 table' = o.table /\ writer' = InsertAt("reinsert", o, 0)
  <2>1. PICK o \in InsertStart(t, writer.item) :
          table' = o.table /\ writer' = InsertAt("reinsert", o, 0)
    BY SMTT(20), <1>12
  <2>2. writer.item \in Genuine /\ writer.item \in Item /\ t \in Table /\ Genuine \in SUBSET Item
    BY <1>1, <1>9, <1>12 DEF Genuine, Stocked
  <2>3. Proceeds(t, writer.item, o)
    BY <2>1, <2>2, InsertStartProceeds
  <2>4. Stocked(table', Genuine) /\ Standing(o, Genuine)
    BY <1>9, <2>1, <2>2, <2>3, ProceedsStocked
  <2>5. HandFine(writer') /\ writer'.item = o.item
    BY SMTT(20), <2>1, <2>4, InsertAtFine
  <2>6. \A x \in Window' : Insertable(x) => Kept(table', writer'.item, x)
    BY <1>8, <2>1, <2>2, <2>3, <2>5, ProceedsKeeps
  <2>. QED
    BY <1>7, <1>10, <2>4, <2>5, <2>6 DEF KeptInv
<1>. QED
  BY SMTT(20), <1>2, <1>11, <1>12

(* Every step keeps the items of the window. *)
LEMMA KeptStep == WindowInv /\ KeptInv /\ [Next]_vars => KeptInv'
<1>. SUFFICES ASSUME WindowInv, KeptInv, [Next]_vars PROVE KeptInv'
  OBVIOUS
<1>0. HandFine(writer) /\ calls \in [writes : Nat, epochs : Nat, reads : Nat]
  BY DEF KeptInv, WindowInv
<1>1. ASSUME NEW p \in Placements, Write(p) PROVE KeptInv'
  BY <1>1, KeptWrite
<1>2. CASE WriteEpoch
  BY <1>0, <1>2, KeptFrame DEF WriteEpoch, WriterAt, HandFine
<1>3. CASE Evict
  BY <1>3, KeptEvict
<1>4. CASE GiveUp
  <2>1. /\ writer'.pc \in {"inserted", "reinserted"} /\ writer'.item = writer.item
        /\ writer'.ok = FALSE /\ writer.item \in Genuine /\ writer.pc # "fatal"
    BY <1>0, <1>4 DEF GiveUp, WriterAt, Finished, HandFine
  <2>2. HandFine(writer')
    BY <2>1 DEF HandFine
  <2>. QED
    BY <1>4, <2>1, <2>2, KeptFrame DEF GiveUp
<1>5. CASE AfterInsert
  BY <1>5, KeptTrim
<1>6. CASE AfterReinsert
  <2>1. writer'.item = NoItem /\ writer'.pc \in {"sync", "select", "fatal"}
    BY <1>6 DEF AfterReinsert, WriterAt, Counted
  <2>2. HandFine(writer')
    BY <2>1 DEF HandFine
  <2>3. writer'.pc # "fatal" => writer.item = NoItem
    BY <1>0, <1>6 DEF AfterReinsert, WriterAt, HandFine
  <2>. QED
    BY <1>6, <2>1, <2>2, <2>3, KeptFrame DEF AfterReinsert
<1>7. CASE ApplyWrites
  BY SMTT(20), <1>0, <1>7, KeptFrame DEF ApplyWrites, WriterAt, HandFine
<1>8. CASE UNCHANGED <<table, Entries, writer>> /\ calls'.writes = calls.writes
  BY <1>0, <1>8 DEF KeptInv, Stocked, Kept, Holds, Window
<1>9. ASSUME NEW r \in Readers, NEW sized \in BOOLEAN, BatchRead(r, sized) PROVE KeptInv'
  BY <1>0, <1>8, <1>9 DEF BatchRead, writeVars
<1>10. CASE ReaderStep \/ ReplierStep
  BY <1>8, <1>10 DEF ReaderStep, CopySlot, RefuseBatch, SendReply, PushOutstanding,
     ReplierStep, PopOutstanding, DeliverReply, writeVars
<1>11. ASSUME NEW c \in Closers, StopWrites(c) PROVE KeptInv'
  BY <1>0, <1>11, KeptFrame DEF StopWrites, WriterAt, HandFine
<1>12. ASSUME NEW c \in Closers, CheckDead(c) \/ MarkDead(c) \/ StopReads(c) \/ FinishClose(c)
       PROVE  KeptInv'
  BY <1>8, <1>12 DEF CheckDead, MarkDead, StopReads, FinishClose, writeVars
<1>13. CASE UNCHANGED vars
  BY <1>8, <1>13 DEF vars
<1>. QED
  BY SMTT(20), <1>1, <1>2, <1>3, <1>4, <1>5, <1>6, <1>7, <1>9, <1>10, <1>11, <1>12, <1>13
     DEF Next, WriterStep, CloseStep

(* Until the shard gives up with log.Fatalf no item of the window is lost,
   for every table, window, eviction step and eviction bound: it is in the
   table or in the hand of processWrites (shard.go:188-201). *)
THEOREM WindowKept == Spec => []InWindowKept
<1>1. KeptInv => InWindowKept
  BY DEF KeptInv, InWindowKept, Kept, InTable
<1>. QED
  BY <1>1, WindowInit, WindowStep, KeptInit, KeptStep, PTL DEF Spec

-----------------------------------------------------------------------------
(* Snapshots. *)

(* The flat index runs over all slots (table.go:214). *)
LEMMA SlotAtIsSlot ==
  ASSUME NEW k \in 0 .. SlotCount - 1
  PROVE  SlotAt(k) \in Slot
<1>1. NumBuckets \in Nat /\ BucketDepth \in Nat \ {0}
  BY TableParams
<1>2. k \div BucketDepth \in 0 .. NumBuckets - 1 /\ k % BucketDepth \in 0 .. BucketDepth - 1
  BY <1>1 DEF SlotCount
<1>. QED
  BY <1>2 DEF SlotAt, Slot, Bucket, Depth

(* And meets each of them. *)
LEMMA SlotAtOnto ==
  ASSUME NEW s \in Slot
  PROVE  \E k \in 0 .. SlotCount - 1 : SlotAt(k) = s
<1>1. NumBuckets \in Nat /\ BucketDepth \in Nat \ {0}
  BY TableParams
<1>2. PICK b \in 0 .. NumBuckets - 1, i \in 0 .. BucketDepth - 1 : s = <<b, i>>
  BY DEF Slot, Bucket, Depth
<1>3. b * BucketDepth + i \in 0 .. NumBuckets * BucketDepth - 1
  BY <1>1
<1>4. (b * BucketDepth + i) \div BucketDepth = b /\ (b * BucketDepth + i) % BucketDepth = i
  BY <1>1
<1>. QED
  BY <1>2, <1>3, <1>4 DEF SlotAt, SlotCount

(* The memory m holds the entries of the last applyWrites that are still in the
   window, each in one of its buckets. *)
Complete(m) ==
  \A x \in applied \cap Window : Insertable(x) =>
    \E s \in Slot : s[1] \in {x.bucket1, x.bucket2} /\ m[s] = x.data

(* While a copy is undisturbed the memory it is taken from is complete and the
   slots passed agree with it; afterwards the copy is complete. *)
QuietInv ==
  /\ pirDB \in [Slot -> Data \cup {Torn}]
  /\ \A x \in applied : x.id \in 1 .. calls.writes
  /\ reader.pc = "copy" => reader.pos \in 0 .. SlotCount - 1
  /\ reader.pc = "copy" /\ ~ overlap =>
       /\ ~ reader.raced
       /\ Complete(MemoryOf(table))
       /\ \A k \in 0 .. reader.pos - 1 : pirDB[SlotAt(k)] = table[SlotAt(k)].item.data
  /\ reader.pc # "copy" /\ ~ overlap => Complete(pirDB)

(* A new shard has applied nothing (shard.go:51-96). *)
LEMMA QuietInit == Init => QuietInv
<1>. SUFFICES ASSUME Init PROVE QuietInv
  OBVIOUS
<1>1. pirDB \in [Slot -> Data \cup {Torn}]
  BY TableParams DEF Init, MemoryOf, NewTable, ZeroItem
<1>2. applied = {} /\ reader.pc = "select"
  BY DEF Init, ReaderAt
<1>. QED
  BY <1>1, <1>2 DEF QuietInv, Complete

(* A step of processWrites: the table memory changes under the copy only if
   overlap says so (shard.go:142-143, 188-201). *)
LEMMA QuietTouch ==
  ASSUME RouteInv, QuietInv, NEW t, Touch(t), UNCHANGED <<pirDB, applied>>,
         applied \cap Window' \subseteq Window,
         \A n \in 1 .. calls.writes : n \in 1 .. calls'.writes
  PROVE  QuietInv'
<1>1. /\ table' = t
      /\ reader'.pc = reader.pc /\ reader'.pos = reader.pos
      /\ reader'.raced = (reader.raced \/
            (reader.pc = "copy" /\
             SlotAt(reader.pos) \in {s \in Slot : t[s].item.data # table[s].item.data}))
  BY DEF Touch, RouteInv
<1>2. ~ overlap' => ~ overlap
  BY Zenon DEF Touch
<1>3. ~ overlap' /\ reader.pc = "copy" =>
        \A s \in Slot : t[s].item.data = table[s].item.data
  BY Zenon DEF Touch
<1>4. CASE reader.pc # "copy"
  <2>1. ~ overlap' => Complete(pirDB)'
    <3>1. ~ overlap' => Complete(pirDB)
      BY <1>2, <1>4 DEF QuietInv
    <3>. QED
      BY <3>1 DEF Complete
  <2>. QED
    BY <1>1, <1>4, <2>1 DEF QuietInv
<1>5. CASE reader.pc = "copy" /\ overlap'
  BY <1>1, <1>5 DEF QuietInv
<1>6. CASE reader.pc = "copy" /\ ~ overlap'
  <2>1. /\ ~ reader.raced
        /\ Complete(MemoryOf(table))
        /\ \A k \in 0 .. reader.pos - 1 : pirDB[SlotAt(k)] = table[SlotAt(k)].item.data
        /\ reader.pos \in 0 .. SlotCount - 1
    BY <1>2, <1>6 DEF QuietInv
  <2>2. \A s \in Slot : t[s].item.data = table[s].item.data
    BY <1>3, <1>6
  <2>3. ~ reader'.raced
    BY <1>1, <2>1, <2>2, Zenon
  <2>4. MemoryOf(t) = MemoryOf(table)
    BY <2>2 DEF MemoryOf
  <2>5. Complete(MemoryOf(table))'
    <3>1. MemoryOf(table)' = MemoryOf(table)
      BY <1>1, <2>4 DEF MemoryOf
    <3>. QED
      BY <2>1, <3>1 DEF Complete
  <2>6. \A k \in 0 .. reader.pos - 1 : pirDB[SlotAt(k)] = t[SlotAt(k)].item.data
    <3>. TAKE k \in 0 .. reader.pos - 1
    <3>1. k \in 0 .. SlotCount - 1
      BY <2>1, TableParams DEF SlotCount
    <3>. QED
      BY <2>1, <2>2, <3>1, SlotAtIsSlot
  <2>. QED
    BY <1>1, <1>6, <2>1, <2>3, <2>5, <2>6, Zenon DEF QuietInv
<1>. QED
  BY <1>4, <1>5, <1>6

(* applyWrites finds no item in the hand of processWrites, so every entry of the
   window is in the table when the copy starts (shard.go:142-143, 209-216). *)
LEMMA QuietApply ==
  ASSUME WindowInv, KeptInv, QuietInv, ApplyWrites
  PROVE  QuietInv'
<1>1. /\ reader'.pc = "copy" /\ reader'.pos = 0 /\ reader'.raced = FALSE
      /\ writer.pc = "sync" /\ applied' = Window
      /\ UNCHANGED <<table, Entries, pirDB, calls>>
  BY DEF ApplyWrites, ReaderAt, Window
<1>2. 0 \in 0 .. SlotCount - 1 /\ 0 .. 0 - 1 = {}
  BY TableParams DEF SlotCount
<1>3. \A x \in applied' : x.id \in 1 .. calls'.writes
  BY <1>1 DEF KeptInv, Window
<1>4. ASSUME NEW x \in Window, Insertable(x)
      PROVE  \E s \in Slot : s[1] \in {x.bucket1, x.bucket2} /\ MemoryOf(table)[s] = x.data
  <2>1. PICK s \in Slot : Holds(table, s, x)
    BY <1>1, <1>4 DEF KeptInv, HandFine, Kept
  <2>2. table[s].item.data = table[s].item.id /\ s[1] \in {table[s].item.bucket1, table[s].item.bucket2}
    BY <2>1, Zenon DEF KeptInv, Stocked, Genuine, Holds
  <2>3. x.data = x.id
    BY <1>4 DEF WindowInv, Window, Entry, asCuckooItem
  <2>. QED
    BY <2>1, <2>2, <2>3 DEF Holds, Equals, MemoryOf
<1>5. Complete(MemoryOf(table))'
  BY <1>1, <1>4 DEF Complete, Window, MemoryOf
<1>6. \A k \in 0 .. reader'.pos - 1 : FALSE
  BY <1>1, <1>2
<1>. QED
  BY <1>1, <1>2, <1>3, <1>5, <1>6 DEF QuietInv

(* SetDB copies one more slot (libpir.go:77-90). *)
LEMMA QuietCopy ==
  ASSUME KeptInv, QuietInv, CopySlot
  PROVE  QuietInv'
<1>1. /\ reader.pc = "copy" /\ reader.pos \in 0 .. SlotCount - 1
      /\ UNCHANGED <<table, Entries, calls, applied, overlap>>
      /\ SlotCount \in Nat
  BY TableParams DEF CopySlot, QuietInv, writeVars, SlotCount
<1>2. SlotAt(reader.pos) \in Slot
  BY <1>1, SlotAtIsSlot
<1>3. PICK d \in {table[SlotAt(reader.pos)].item.data} \cup IF reader.raced THEN {Torn} ELSE {} :
        pirDB' = [pirDB EXCEPT ![SlotAt(reader.pos)] = d]
  BY Zenon DEF CopySlot
<1>4. table \in Table
  BY DEF KeptInv, Stocked
<1>5. pirDB' \in [Slot -> Data \cup {Torn}]
  <2>1. d \in Data \cup {Torn}
    BY <1>2, <1>3, <1>4 DEF Table, Cell, Item
  <2>. QED
    BY <1>3, <2>1, Zenon DEF QuietInv
<1>6. \A x \in applied' : x.id \in 1 .. calls'.writes
  BY <1>1 DEF QuietInv
<1>7. ~ overlap =>
        \A k \in 0 .. reader.pos : pirDB'[SlotAt(k)] = table[SlotAt(k)].item.data
  <2>. SUFFICES ASSUME ~ overlap, NEW k \in 0 .. reader.pos
                PROVE  pirDB'[SlotAt(k)] = table[SlotAt(k)].item.data
    OBVIOUS
  <2>1. d = table[SlotAt(reader.pos)].item.data
    BY <1>1, <1>3 DEF QuietInv
  <2>2. CASE SlotAt(k) = SlotAt(reader.pos)
    BY <1>2, <1>3, <2>1, <2>2 DEF QuietInv
  <2>3. CASE SlotAt(k) # SlotAt(reader.pos)
    <3>1. k \in 0 .. reader.pos - 1 /\ k \in 0 .. SlotCount - 1
      BY <1>1, <2>3
    <3>2. SlotAt(k) \in Slot
      BY <3>1, SlotAtIsSlot
    <3>3. pirDB'[SlotAt(k)] = pirDB[SlotAt(k)]
      BY <1>3, <2>3, <3>2 DEF QuietInv
    <3>. QED
      BY <1>1, <3>1, <3>3 DEF QuietInv
  <2>. QED
    BY <2>2, <2>3
<1>8. ~ overlap => Complete(MemoryOf(table))
  BY SMTT(20), <1>1 DEF QuietInv
<1>9. CASE reader.pos + 1 = SlotCount
  <2>1. reader'.pc = "select"
    BY <1>9 DEF CopySlot, ReaderAt
  <2>2. ~ overlap' => pirDB' = MemoryOf(table)
    <3>. SUFFICES ASSUME ~ overlap' PROVE pirDB' = MemoryOf(table)
      OBVIOUS
    <3>1. ASSUME NEW s \in Slot PROVE pirDB'[s] = table[s].item.data
      <4>1. PICK k \in 0 .. SlotCount - 1 : SlotAt(k) = s
        BY SlotAtOnto
      <4>2. k \in 0 .. reader.pos
        BY <1>1, <1>9
      <4>. QED
        BY <1>1, <1>7, <4>1, <4>2
    <3>. QED
      BY <1>5, <3>1 DEF MemoryOf
  <2>3. ~ overlap' => Complete(pirDB)'
    BY SMTT(20), <1>1, <1>8, <2>2 DEF Complete, Window
  <2>. QED
    BY <1>5, <1>6, <2>1, <2>3 DEF QuietInv
<1>10. CASE reader.pos + 1 # SlotCount
  <2>1. reader'.pc = "copy" /\ reader'.pos = reader.pos + 1 /\ reader'.raced = FALSE
    BY <1>10 DEF CopySlot, ReaderAt
  <2>2. reader'.pos \in 0 .. SlotCount - 1 /\ reader'.pos - 1 = reader.pos
    BY <1>1, <1>10, <2>1
  <2>3. ~ overlap' => Complete(MemoryOf(table))'
    BY <1>1, <1>8 DEF Complete, Window, MemoryOf
  <2>4. ~ overlap' => \A k \in 0 .. reader'.pos - 1 :
                        pirDB'[SlotAt(k)] = table'[SlotAt(k)].item.data
    BY <1>1, <1>7, <2>2
  <2>. QED
    BY <1>5, <1>6, <2>1, <2>2, <2>3, <2>4 DEF QuietInv
<1>. QED
  BY <1>9, <1>10

(* Every step keeps what the copies hold. *)
LEMMA QuietStep ==
  RouteInv /\ WindowInv /\ KeptInv /\ QuietInv /\ [Next]_vars => QuietInv'
<1>. SUFFICES ASSUME RouteInv, WindowInv, KeptInv, QuietInv, [Next]_vars PROVE QuietInv'
  OBVIOUS
<1>0. calls \in [writes : Nat, epochs : Nat, reads : Nat]
  BY DEF WindowInv
<1>1. ASSUME NEW p \in Placements, Write(p) PROVE QuietInv'
  <2>. DEFINE itm == asCuckooItem(calls.writes + 1, p)
  <2>1. /\ Entries' = Append(Entries, itm) /\ calls'.writes = calls.writes + 1
        /\ UNCHANGED <<pirDB, applied>> /\ \E t : Touch(t)
    BY <1>0, <1>1 DEF Write
  <2>2. itm.id = calls.writes + 1 /\ itm \in Entry
    <3>1. calls.writes + 1 \in Nat
      BY <1>0
    <3>2. itm \in Entry
      BY <3>1 DEF Entry
    <3>. QED
      BY <3>2 DEF asCuckooItem
  <2>. HIDE DEF itm
  <2>3. itm \notin applied
    BY <1>0, <2>2 DEF QuietInv
  <2>4. \A i \in DOMAIN Entries' : Entries'[i] = itm \/ (i \in DOMAIN Entries /\ Entries'[i] = Entries[i])
    BY <2>1, <2>2, AppendEntry DEF WindowInv
  <2>5. applied \cap Window' \subseteq Window
    BY <2>3, <2>4 DEF Window
  <2>6. \A n \in 1 .. calls.writes : n \in 1 .. calls'.writes
    BY <1>0, <2>1
  <2>. QED
    BY <2>1, <2>5, <2>6, QuietTouch
<1>2. CASE Evict
  <2>1. UNCHANGED <<Entries, calls, pirDB, applied>> /\ \E t : Touch(t)
    BY <1>2 DEF Evict
  <2>. QED
    BY <2>1, QuietTouch DEF Window
<1>3. CASE AfterInsert
  <2>. DEFINE n == IF ~ writer.ok \/ Len(Entries) > WindowSize THEN toRemove ELSE 0
  <2>1. /\ UNCHANGED <<calls, pirDB, applied>> /\ \E t : Touch(t)
        /\ Entries' = SubSeq(Entries, n + 1, Len(Entries)) /\ writer.pc = "inserted"
    BY <1>3, Zenon DEF AfterInsert
  <2>2. Len(Entries) \in Nat /\ Len(Entries) >= 1 /\ RemoveStep \in Nat /\ DOMAIN Entries = 1 .. Len(Entries)
    BY <2>1, ShardParams DEF WindowInv, Untrimmed
  <2>3. n \in 0 .. Len(Entries)
    BY <2>2 DEF toRemove
  <2>. HIDE DEF n
  <2>4. DOMAIN Entries' = 1 .. Len(Entries) - n
        /\ \A i \in 1 .. Len(Entries) - n : Entries'[i] = Entries[i + n]
    BY <2>1, <2>3, DropOldest DEF WindowInv
  <2>5. \A i \in DOMAIN Entries' : i + n \in DOMAIN Entries
    BY <2>2, <2>3, <2>4
  <2>6. Window' \subseteq Window
    BY <2>4, <2>5 DEF Window
  <2>. QED
    BY <2>1, <2>6, QuietTouch
<1>4. CASE ApplyWrites
  BY <1>4, QuietApply
<1>5. CASE CopySlot
  BY <1>5, QuietCopy
<1>6. CASE /\ UNCHANGED <<table, Entries, pirDB, applied, overlap>>
           /\ calls'.writes = calls.writes
           /\ reader' = reader \/ (reader.pc # "copy" /\ reader'.pc # "copy")
  <2>0. /\ pirDB' = pirDB /\ MemoryOf(table)' = MemoryOf(table)
        /\ applied' = applied /\ Window' = Window
    BY <1>6, Zenon DEF Window, MemoryOf
  <2>1. /\ Complete(pirDB)' <=> Complete(pirDB)
        /\ Complete(MemoryOf(table))' <=> Complete(MemoryOf(table))
    BY <2>0, Zenon DEF Complete
  <2>2. CASE reader' = reader
    BY <1>6, <2>1, <2>2, Zenon DEF QuietInv
  <2>3. CASE reader.pc # "copy" /\ reader'.pc # "copy"
    BY <1>6, <2>1, <2>3, Zenon DEF QuietInv
  <2>. QED
    BY <1>6, <2>2, <2>3, Zenon
<1>7. CASE GiveUp \/ AfterReinsert
  BY <1>6, <1>7 DEF GiveUp, AfterReinsert
<1>8. CASE WriteEpoch
  BY <1>0, <1>6, <1>8 DEF WriteEpoch, readVars
<1>9. ASSUME NEW r \in Readers, NEW sized \in BOOLEAN, BatchRead(r, sized) PROVE QuietInv'
  <2>1. reader.pc = "select" /\ reader'.pc \in {"reply", "refuse"}
    BY <1>9 DEF BatchRead, ReaderAt
  <2>. QED
    BY <1>0, <1>6, <1>9, <2>1 DEF BatchRead, writeVars
<1>10. CASE RefuseBatch \/ SendReply \/ PushOutstanding
  <2>1. reader.pc # "copy" /\ reader'.pc # "copy"
    BY <1>10 DEF RefuseBatch, SendReply, PushOutstanding, ReaderAt, RouteInv
  <2>. QED
    BY <1>6, <1>10, <2>1 DEF RefuseBatch, SendReply, PushOutstanding, writeVars
<1>11. CASE ReplierStep
  BY <1>6, <1>11 DEF ReplierStep, PopOutstanding, DeliverReply, writeVars, readVars
<1>12. ASSUME NEW c \in Closers, CheckDead(c) \/ MarkDead(c) \/ StopWrites(c) PROVE QuietInv'
  BY <1>6, <1>12 DEF CheckDead, MarkDead, StopWrites, writeVars, readVars
<1>13. ASSUME NEW c \in Closers, StopReads(c) \/ FinishClose(c) PROVE QuietInv'
  <2>1. reader.pc # "copy" /\ reader'.pc # "copy"
    BY <1>13 DEF StopReads, FinishClose, ReaderAt
  <2>. QED
    BY <1>6, <1>13, <2>1 DEF StopReads, FinishClose, writeVars
<1>14. CASE UNCHANGED vars
  BY <1>6, <1>14 DEF vars
<1>. QED
  BY SMTT(20), <1>1, <1>2, <1>3, <1>4, <1>5, <1>7, <1>8, <1>9, <1>10, <1>11, <1>12, <1>13, <1>14
     DEF Next, WriterStep, ReaderStep, CloseStep

(* A snapshot taken while no slot was written is complete, for every size of
   table and window: it holds each entry it was taken for, in one of the
   entry's two buckets (shard.go:142-143, libpir.go:77-90). *)
THEOREM SnapshotComplete == Spec => []QuietSnapshotComplete
<1>1. QuietInv => QuietSnapshotComplete
  BY DEF QuietInv, QuietSnapshotComplete, Complete
<1>. QED
  BY <1>1, RouteInit, RouteStep, WindowInit, WindowStep, KeptInit, KeptStep,
     QuietInit, QuietStep, PTL DEF Spec

=============================================================================
