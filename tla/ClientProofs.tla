---------------------------- MODULE ClientProofs ----------------------------
(***************************************************************************)
(* Proofs about the threads of the client library, for any number of       *)
(* application goroutines, channel capacity and workload.                  *)
(***************************************************************************)
EXTENDS Client, FiniteSetTheorems, SequenceTheorems, TLAPS

Senders == {a \in App : app[a].pc = "send"}

(* The write the write thread has taken and not passed on yet. *)
InHand == IF wr.pc = "call" /\ wr.req # Cover THEN 1 ELSE 0

AppPC == {"idle", "count", "send", "flush", "wait", "woken"}

WriteType ==
  /\ pendingWrites \in Seq(Nat) /\ writeCount \in Nat
  /\ accepted \in Nat /\ handed \in Nat
  /\ app \in [App -> [pc : AppPC, left : Int]]
  /\ wr \in [pc : {"check", "select", "call", "exited"}, req : Nat \cup {Cover}]
  /\ before \in [App -> Nat]

(* Every accepted write was passed on, is in hand or is queued. *)
Ledger ==
  /\ accepted = handed + InHand + Len(pendingWrites)
  /\ \A a \in App : before[a] <= accepted

(* The read thread looks for a new request only when none is pending. *)
ReadInv ==
  /\ rd = [pc |-> rd.pc, handle |-> rd.handle]
  /\ rd.pc = "next" => pendingReads = <<>>

WriteInv == WriteType /\ WriteCountExact /\ NoLostWakeup /\ Ledger

-----------------------------------------------------------------------------
(* Goroutines that are sending are finitely many. *)
LEMMA SendersFinite == IsFiniteSet(Senders) /\ Cardinality(Senders) \in Nat
<1>1. Senders \subseteq App
  BY DEF Senders
<1>. QED
  BY <1>1, ClientParams, FS_Subset, FS_CardinalityType, Zenon DEF ClientParams

(* WriteCountExact in terms of Senders. *)
LEMMA ExactBySenders ==
  WriteCountExact <=> writeCount = Len(pendingWrites) + Cardinality(Senders)
BY DEF WriteCountExact, Senders

(* A woken goroutine keeps everything but its program counter, and nobody else
   is changed (client.go:222-224). *)
LEMMA BroadcastWakes ==
  ASSUME app \in [App -> [pc : AppPC, left : Int]], NEW n, NEW q, q = Broadcast(n)
  PROVE  /\ q \in [App -> [pc : AppPC, left : Int]]
         /\ \A a \in App : q[a].pc = "send" <=> app[a].pc = "send"
         /\ \A a \in App : q[a].pc = "wait" => app[a].pc = "wait" /\ n # 0
BY DEF Broadcast, AppPC

(* NewClient starts with nothing counted, queued or awaited. *)
LEMMA InitWriteInv == Init => WriteInv
<1>. SUFFICES ASSUME Init PROVE WriteInv
  OBVIOUS
<1>1. WriteType
  BY DEF Init, WriteType, AppPC
<1>2. Senders = {}
  BY DEF Init, Senders
<1>3. WriteCountExact
  BY <1>2, ExactBySenders, FS_EmptySet DEF Init
<1>4. NoLostWakeup /\ Ledger
  BY DEF Init, NoLostWakeup, Ledger, InHand
<1>. QED
  BY <1>1, <1>3, <1>4 DEF WriteInv

(* What none of the write side's steps does: it leaves the invariant alone. *)
LEMMA WriteStutter == WriteInv /\ UNCHANGED writeVars => WriteInv'
<1>. SUFFICES ASSUME WriteInv, UNCHANGED writeVars PROVE WriteInv'
  OBVIOUS
<1>. USE DEF WriteInv, writeVars
<1>1. WriteType' /\ NoLostWakeup' /\ Ledger'
  BY DEF WriteType, NoLostWakeup, Ledger, InHand
<1>2. WriteCountExact'
  BY DEF WriteCountExact
<1>. QED
  BY <1>1, <1>2

(* A step that neither starts nor ends a send keeps the count exact if it
   takes as much off the count as off the queue. *)
LEMMA SameSenders ==
  ASSUME WriteInv, WriteType',
         \A a \in App : app'[a].pc = "send" <=> app[a].pc = "send",
         writeCount' - Len(pendingWrites') = writeCount - Len(pendingWrites)
  PROVE  WriteCountExact'
<1>1. Senders' = Senders
  BY DEF Senders
<1>2. writeCount = Len(pendingWrites) + Cardinality(Senders)
  BY ExactBySenders DEF WriteInv
<1>3. /\ Len(pendingWrites) \in Nat /\ Len(pendingWrites') \in Nat
      /\ writeCount \in Nat /\ writeCount' \in Nat /\ Cardinality(Senders) \in Nat
  BY SendersFinite, LenProperties DEF WriteInv, WriteType
<1>4. writeCount' = Len(pendingWrites') + Cardinality(Senders')
  BY <1>1, <1>2, <1>3
<1>. QED
  BY <1>4 DEF WriteCountExact, Senders

(* Publish raises the count before it sends (client.go:138-141). *)
LEMMA CountWritePreserves ==
  ASSUME WriteInv, NEW a \in App, CountWrite(a)
  PROVE  WriteInv'
<1>. USE DEF WriteInv
<1>1. WriteType'
  <2>1. app' \in [App -> [pc : AppPC, left : Int]]
    BY Zenon DEF CountWrite, WriteType, AppPC
  <2>. QED
    BY <2>1 DEF CountWrite, WriteType
<1>2. Senders' = Senders \cup {a} /\ a \notin Senders
  BY DEF CountWrite, Senders, WriteType
<1>3. Cardinality(Senders') = Cardinality(Senders) + 1
  BY <1>2, SendersFinite, FS_AddElement
<1>4. writeCount' = Len(pendingWrites') + Cardinality(Senders')
  <2>1. writeCount = Len(pendingWrites) + Cardinality(Senders)
    BY ExactBySenders
  <2>2. Len(pendingWrites) \in Nat /\ Cardinality(Senders) \in Nat
    BY SendersFinite, LenProperties DEF WriteType
  <2>. QED
    BY <1>3, <2>1, <2>2 DEF CountWrite
<1>5. WriteCountExact'
  BY <1>4 DEF WriteCountExact, Senders
<1>6. NoLostWakeup'
  BY DEF CountWrite, NoLostWakeup, WriteType
<1>7. Ledger'
  BY DEF CountWrite, Ledger, InHand
<1>. QED
  BY <1>1, <1>5, <1>6, <1>7

(* The send ends when the channel accepts the write (client.go:141). *)
LEMMA SendWritePreserves ==
  ASSUME WriteInv, NEW a \in App, SendWrite(a)
  PROVE  WriteInv'
<1>. USE DEF WriteInv
<1>0. Len(pendingWrites) \in Nat /\ Len(pendingWrites') = Len(pendingWrites) + 1
  BY DEF SendWrite, WriteType
<1>1. WriteType'
  <2>1. pendingWrites' \in Seq(Nat) /\ accepted' \in Nat
    BY DEF SendWrite, WriteType
  <2>2. app' \in [App -> [pc : AppPC, left : Int]]
    BY DEF SendWrite, WriteType, AppPC
  <2>. QED
    BY <2>1, <2>2 DEF SendWrite, WriteType
<1>2. Senders' = Senders \ {a} /\ a \in Senders
  BY DEF SendWrite, Senders, WriteType
<1>3. Cardinality(Senders') = Cardinality(Senders) - 1
  BY <1>2, SendersFinite, FS_RemoveElement
<1>4. writeCount' = Len(pendingWrites') + Cardinality(Senders')
  <2>1. writeCount = Len(pendingWrites) + Cardinality(Senders)
    BY ExactBySenders
  <2>. QED
    BY <1>0, <1>3, <2>1, SendersFinite DEF SendWrite
<1>5. WriteCountExact'
  BY <1>4 DEF WriteCountExact, Senders
<1>6. NoLostWakeup'
  BY DEF SendWrite, NoLostWakeup, WriteType
<1>7. Ledger'
  <2>1. accepted' = accepted + 1 /\ InHand' = InHand /\ handed' = handed
        /\ before' = before
    BY DEF SendWrite, InHand
  <2>2. accepted \in Nat /\ handed \in Nat /\ InHand \in Nat /\ before \in [App -> Nat]
    BY DEF WriteType, InHand
  <2>. QED
    BY <1>0, <2>1, <2>2 DEF Ledger
<1>. QED
  BY <1>1, <1>5, <1>6, <1>7

(* The calls of the application that queue nothing: Publish up to its first
   fragment, Flush, Kill and the test of Flush's loop (client.go:102-154). *)
LEMMA CallsPreserve ==
  ASSUME WriteInv, NEW a \in App,
         (\E n \in 1 .. 2 : Publish(a, n)) \/ StartFlush(a) \/ FlushTest(a)
  PROVE  WriteInv'
<1>. USE DEF WriteInv
<1>1. /\ pendingWrites' = pendingWrites /\ writeCount' = writeCount /\ wr' = wr
      /\ accepted' = accepted /\ handed' = handed
  BY DEF Publish, StartFlush, FlushTest
<1>2. PICK q \in [pc : AppPC \ {"send"}, left : Int] :
        /\ app' = [app EXCEPT ![a] = q]
        /\ app[a].pc # "send"
        /\ q.pc = "wait" => writeCount > 0
  <2>1. CASE \E n \in 1 .. 2 : Publish(a, n)
    <3>1. PICK n \in 1 .. 2 : Publish(a, n)
      BY <2>1
    <3>2. [pc |-> "count", left |-> n] \in [pc : AppPC \ {"send"}, left : Int]
      BY DEF AppPC
    <3>. QED
      BY <3>1, <3>2, Zenon DEF Publish
  <2>2. CASE StartFlush(a)
    <3>1. [app[a] EXCEPT !.pc = "flush"] \in [pc : AppPC \ {"send"}, left : Int]
      BY Zenon DEF AppPC, WriteType
    <3>. QED
      BY <2>2, <3>1, Zenon DEF StartFlush, WriteType
  <2>3. CASE FlushTest(a)
    <3>. DEFINE pc == IF writeCount > 0 THEN "wait" ELSE "idle"
    <3>1. [app[a] EXCEPT !.pc = pc] \in [pc : AppPC \ {"send"}, left : Int]
      BY Zenon DEF AppPC, WriteType
    <3>2. app' = [app EXCEPT ![a] = [app[a] EXCEPT !.pc = pc]]
      BY <2>3 DEF FlushTest
    <3>3. app[a].pc # "send"
      BY <2>3 DEF FlushTest
    <3>. QED
      BY <3>1, <3>2, <3>3, Zenon DEF WriteType
  <2>. QED
    BY <2>1, <2>2, <2>3
<1>3. app' \in [App -> [pc : AppPC, left : Int]]
  BY <1>2 DEF WriteType, AppPC
<1>4. before' \in [App -> Nat] /\ \A b \in App : before'[b] <= accepted
  <2>1. before' = before \/ before' = [before EXCEPT ![a] = accepted]
    BY DEF Publish, StartFlush, FlushTest
  <2>2. /\ before \in [App -> Nat] /\ accepted \in Nat
        /\ \A b \in App : before[b] <= accepted
    BY DEF WriteType, Ledger
  <2>3. CASE before' = before
    BY <2>2, <2>3
  <2>4. CASE before' = [before EXCEPT ![a] = accepted]
    <3>1. \A b \in App : before'[b] = IF b = a THEN accepted ELSE before[b]
      BY <2>2, <2>4
    <3>2. accepted <= accepted
      BY <2>2
    <3>3. \A b \in App : before'[b] <= accepted
      BY <2>2, <3>1, <3>2, Zenon
    <3>. QED
      BY <2>2, <2>4, <3>3
  <2>. QED
    BY <2>1, <2>3, <2>4
<1>5. WriteType'
  BY <1>1, <1>3, <1>4 DEF WriteType
<1>6. WriteCountExact'
  <2>1. \A b \in App : app'[b].pc = "send" <=> app[b].pc = "send"
    BY <1>2 DEF WriteType
  <2>. QED
    BY <1>1, <1>5, <2>1, SameSenders
<1>7. NoLostWakeup'
  BY <1>1, <1>2 DEF NoLostWakeup, WriteType
<1>8. Ledger'
  BY <1>1, <1>4 DEF Ledger, InHand
<1>. QED
  BY <1>5, <1>6, <1>7, <1>8

(* writePeriodic takes a write and lowers the count, and wakes the waiters if
   it was the last (client.go:218-226). *)
LEMMA WriteSelectPreserves ==
  ASSUME WriteInv, WriteSelect
  PROVE  WriteInv'
<1>. USE DEF WriteInv
<1>1. /\ accepted' = accepted /\ handed' = handed /\ before' = before
      /\ InHand = 0
  BY DEF WriteSelect, InHand
<1>2. CASE pendingWrites = <<>>
  <2>1. /\ pendingWrites' = pendingWrites /\ writeCount' = writeCount /\ app' = app
        /\ wr' = [pc |-> "call", req |-> Cover]
    BY <1>2 DEF WriteSelect
  <2>2. WriteType'
    BY <1>1, <2>1 DEF WriteType
  <2>3. WriteCountExact' /\ NoLostWakeup'
    BY <2>1 DEF WriteCountExact, NoLostWakeup
  <2>4. Ledger'
    BY <1>1, <2>1 DEF Ledger, InHand
  <2>. QED
    BY <2>2, <2>3, <2>4
<1>3. CASE pendingWrites # <<>>
  <2>1. /\ pendingWrites' = Tail(pendingWrites) /\ writeCount' = writeCount - 1
        /\ wr' = [pc |-> "call", req |-> Head(pendingWrites)]
        /\ app' = Broadcast(writeCount - 1)
    BY <1>3 DEF WriteSelect
  <2>2. /\ Tail(pendingWrites) \in Seq(Nat) /\ Head(pendingWrites) \in Nat
        /\ Len(pendingWrites) \in Nat \ {0}
        /\ Len(Tail(pendingWrites)) = Len(pendingWrites) - 1
    BY <1>3 DEF WriteType
  <2>3. writeCount = Len(pendingWrites) + Cardinality(Senders)
    BY ExactBySenders
  <2>4. writeCount - 1 \in Nat
    BY <2>2, <2>3, SendersFinite
  <2>5. /\ app' \in [App -> [pc : AppPC, left : Int]]
        /\ \A a \in App : app'[a].pc = "send" <=> app[a].pc = "send"
        /\ \A a \in App : app'[a].pc = "wait" => app[a].pc = "wait" /\ writeCount - 1 # 0
    BY <2>1, BroadcastWakes DEF WriteType
  <2>6. WriteType'
    BY <1>1, <2>1, <2>2, <2>4, <2>5 DEF WriteType
  <2>7. WriteCountExact'
    <3>1. writeCount' - Len(pendingWrites') = writeCount - Len(pendingWrites)
      BY <2>1, <2>2 DEF WriteType
    <3>. QED
      BY <2>5, <2>6, <3>1, SameSenders
  <2>8. NoLostWakeup'
    <3>1. ASSUME NEW a \in App, app'[a].pc = "wait" PROVE writeCount - 1 > 0
      <4>1. writeCount - 1 # 0
        BY <2>5, <3>1
      <4>. QED
        BY <2>4, <4>1 DEF WriteType
    <3>. QED
      BY <2>1, <3>1 DEF NoLostWakeup
  <2>9. Ledger'
    <3>1. InHand' = 1
      BY <2>1, <2>2, ClientParams DEF InHand, ClientParams
    <3>. QED
      BY <1>1, <2>1, <2>2, <3>1 DEF Ledger, WriteType
  <2>. QED
    BY SMTT(20), <2>6, <2>7, <2>8, <2>9
<1>. QED
  BY <1>2, <1>3

(* The other two steps of writePeriodic (client.go:215-217, 230-242). *)
LEMMA WriteThreadPreserves ==
  ASSUME WriteInv, WriteCheck \/ WriteCall
  PROVE  WriteInv'
<1>. USE DEF WriteInv
<1>1. /\ pendingWrites' = pendingWrites /\ writeCount' = writeCount /\ app' = app
      /\ accepted' = accepted /\ before' = before
  BY DEF WriteCheck, WriteCall
<1>2. /\ wr' \in [pc : {"check", "select", "call", "exited"}, req : Nat \cup {Cover}]
      /\ handed' \in Nat /\ handed' + InHand' = handed + InHand
  BY DEF WriteCheck, WriteCall, WriteType, InHand
<1>3. WriteType'
  BY <1>1, <1>2 DEF WriteType
<1>4. WriteCountExact' /\ NoLostWakeup'
  BY <1>1 DEF WriteCountExact, NoLostWakeup
<1>5. Ledger'
  BY <1>1, <1>2 DEF Ledger
<1>. QED
  BY <1>3, <1>4, <1>5

-----------------------------------------------------------------------------
(* Every step keeps the invariant of the write side. *)
LEMMA NextWriteInv == WriteInv /\ [Next]_vars => WriteInv'
<1>. SUFFICES ASSUME WriteInv, [Next]_vars PROVE WriteInv'
  OBVIOUS
<1>1. CASE WriteThread
  BY <1>1, WriteThreadPreserves, WriteSelectPreserves DEF WriteThread
<1>2. ASSUME NEW a \in App,
             (\E n \in 1 .. 2 : Publish(a, n)) \/ Flush(a) \/ Kill(a) \/ Continue(a)
      PROVE  WriteInv'
  BY <1>2, CallsPreserve, CountWritePreserves, SendWritePreserves
  DEF Flush, Kill, Continue
<1>3. CASE ReadThread \/ UpdateThread
  <2>1. UNCHANGED writeVars
    BY <1>3 DEF ReadThread, ReadSelect, NextRequest, ReadCall, Deliver, AskUpdate,
                UpdateThread, UpdateCheck, UpdateAsked, UpdateTimer, UpdateCall,
                Prioritize, writeVars
  <2>. QED
    BY SMTT(20), <2>1, WriteStutter
<1>4. ASSUME NEW h \in Handle, Poll(h) \/ Done(h) \/ StopListening(h)
      PROVE  WriteInv'
  <2>1. UNCHANGED writeVars
    BY <1>4 DEF Poll, Done, StopListening, writeVars
  <2>. QED
    BY <2>1, WriteStutter
<1>5. CASE UNCHANGED vars
  BY <1>5, WriteStutter DEF vars, writeVars
<1>. QED
  BY <1>1, <1>2, <1>3, <1>4, <1>5 DEF Next

(* The invariant of the write side: its parts need each other.  writeCount stays a
   natural number because it is exact; a waiter is woken because the count drops
   to exactly 0; what Flush has waited for is what the ledger says is left. *)
THEOREM WriteSideSafe == Spec => []WriteInv
<1>. QED
  BY InitWriteInv, NextWriteInv, PTL DEF Spec

(* writeCount is the number of writes queued or about to be queued
   (client.go:138-141, 219-225). *)
THEOREM CountIsExact == Spec => []WriteCountExact
<1>1. WriteInv => WriteCountExact
  BY DEF WriteInv
<1>. QED
  BY <1>1, WriteSideSafe, PTL

(* No flush sleeps through the last write (client.go:149-151, 222-224). *)
THEOREM WakeupNotLost == Spec => []NoLostWakeup
<1>1. WriteInv => NoLostWakeup
  BY DEF WriteInv
<1>. QED
  BY <1>1, WriteSideSafe, PTL


(* Only the test of Flush's loop ends a flush, and it does so when nothing is
   counted (client.go:149-153). *)
LEMMA FlushEndsAtZero ==
  ASSUME WriteInv, [Next]_vars, NEW a \in App,
         app[a].pc \in {"flush", "woken"}, app'[a].pc = "idle"
  PROVE  writeCount = 0
<1>. USE DEF WriteInv
<1>1. app \in [App -> [pc : AppPC, left : Int]] /\ writeCount \in Nat
  BY DEF WriteType
<1>2. app' # app
  BY <1>1
<1>3. CASE WriteThread
  <2>1. app' = app \/ app' = Broadcast(writeCount - 1)
    BY <1>3 DEF WriteThread, WriteCheck, WriteSelect, WriteCall
  <2>2. Broadcast(writeCount - 1)[a].pc # "idle"
    BY <1>1 DEF Broadcast
  <2>. QED
    BY <1>2, <2>1, <2>2
<1>4. ASSUME NEW b \in App,
             (\E n \in 1 .. 2 : Publish(b, n)) \/ Flush(b) \/ Kill(b) \/ Continue(b)
      PROVE  writeCount = 0
  <2>1. b = a
    BY <1>1, <1>4 DEF Publish, Flush, Kill, StartFlush, Continue, CountWrite, SendWrite,
                      FlushTest
  <2>2. FlushTest(a)
    BY SMTT(20), <1>4, <2>1 DEF Publish, Flush, Kill, StartFlush, Continue, CountWrite, SendWrite
  <2>. QED
    BY <1>1, <2>2 DEF FlushTest
<1>5. CASE ReadThread \/ UpdateThread
  BY <1>2, <1>5 DEF ReadThread, ReadSelect, NextRequest, ReadCall, Deliver, AskUpdate,
                    UpdateThread, UpdateCheck, UpdateAsked, UpdateTimer, UpdateCall,
                    Prioritize, writeVars
<1>6. ASSUME NEW h \in Handle, Poll(h) \/ Done(h) \/ StopListening(h)
      PROVE  writeCount = 0
  BY <1>2, <1>6 DEF Poll, Done, StopListening, writeVars
<1>7. CASE UNCHANGED vars
  BY <1>2, <1>7 DEF vars
<1>. QED
  BY SMTT(20), <1>3, <1>4, <1>5, <1>6, <1>7 DEF Next

(* When Flush returns, only the write the thread is about to pass on can be
   missing (client.go:147-154, 219-230). *)
THEOREM FlushWaitsForAllButOne == Spec => FlushLeavesOne
<1>1. ASSUME WriteInv, [Next]_vars, NEW a \in App,
             app[a].pc \in {"flush", "woken"}, app'[a].pc = "idle"
      PROVE  before[a] <= handed + IF wr.pc = "call" /\ wr.req # Cover THEN 1 ELSE 0
  <2>1. writeCount = 0
    BY <1>1, FlushEndsAtZero
  <2>2. Len(pendingWrites) = 0
    <3>1. Len(pendingWrites) \in Nat /\ Cardinality(Senders) \in Nat
      BY <1>1, SendersFinite, LenProperties DEF WriteInv, WriteType
    <3>. QED
      BY <1>1, <2>1, <3>1, ExactBySenders DEF WriteInv
  <2>3. accepted = handed + InHand
    BY <1>1, <2>2 DEF WriteInv, WriteType, Ledger, InHand
  <2>. QED
    BY <1>1, <2>3 DEF WriteInv, Ledger, InHand
<1>2. WriteInv /\ [Next]_vars =>
        [\A a \in App :
           app[a].pc \in {"flush", "woken"} /\ app'[a].pc = "idle" =>
             before[a] <= handed + IF wr.pc = "call" /\ wr.req # Cover THEN 1 ELSE 0]_vars
  BY <1>1
<1>. QED
  BY <1>2, WriteSideSafe, PTL DEF Spec, FlushLeavesOne

-----------------------------------------------------------------------------
(* nextRequest never waits for room in pendingReads with handleMutex held: it is
   called only when the channel is empty (client.go:252-255, 385). *)
THEOREM SendUnderLockHasRoom == Spec => []LockedSendHasRoom
<1>1. Init => ReadInv
  BY DEF Init, ReadInv
<1>2. ASSUME ReadInv, [Next]_vars PROVE ReadInv'
  <2>. USE <1>2 DEF ReadInv
  <2>1. CASE UNCHANGED <<pendingReads, rd>>
    BY <2>1
  <2>2. CASE ReadThread
    <3>1. CASE ReadSelect
      BY <3>1, Zenon DEF ReadSelect
    <3>2. CASE NextRequest
      BY <3>2, Zenon DEF NextRequest
    <3>3. CASE ReadCall \/ Deliver \/ AskUpdate
      BY <3>3 DEF ReadCall, Deliver, AskUpdate
    <3>. QED
      BY <2>2, <3>1, <3>2, <3>3 DEF ReadThread
  <2>3. CASE WriteThread \/ UpdateThread
    BY <2>1, <2>3 DEF WriteThread, WriteCheck, WriteSelect, WriteCall, UpdateThread,
         UpdateCheck, UpdateAsked, UpdateTimer, UpdateCall, Prioritize, readVars
  <2>4. ASSUME NEW a \in App,
               (\E n \in 1 .. 2 : Publish(a, n)) \/ Flush(a) \/ Kill(a) \/ Continue(a)
        PROVE  ReadInv'
    BY <2>1, <2>4 DEF Publish, Flush, Kill, StartFlush, Continue, CountWrite, SendWrite,
                      FlushTest, readVars
  <2>5. ASSUME NEW h \in Handle, Poll(h) \/ Done(h) \/ StopListening(h)
        PROVE  ReadInv'
    BY <2>1, <2>5 DEF Poll, Done, StopListening, readVars
  <2>6. CASE UNCHANGED vars
    BY <2>1, <2>6 DEF vars
  <2>. QED
    BY SMTT(20), <2>2, <2>3, <2>4, <2>5, <2>6 DEF Next
<1>3. ReadInv => LockedSendHasRoom
  BY ClientParams DEF ReadInv, LockedSendHasRoom, ClientParams
<1>. QED
  BY <1>1, <1>2, <1>3, PTL DEF Spec
-----------------------------------------------------------------------------
(* The handles. *)

(* Counting up from 0 reaches every number: induction for a loop that runs n
   times, as that of prioritizeRequests does (client.go:359-365). *)
LEMMA CountingUp ==
  ASSUME NEW n \in Nat, NEW S, 0 \in S,
         \A k \in 0 .. n - 1 : k \in S => k + 1 \in S
  PROVE  \A k \in 0 .. n : k \in S
<1>. DEFINE R == {k \in 0 .. n : k \notin S}
<1>. SUFFICES ASSUME R # {} PROVE FALSE
  OBVIOUS
<1>1. R \in SUBSET Nat
  OBVIOUS
<1>2. PICK i \in R : \A j \in R : <<j, i>> \notin OpToRel(<, Nat)
  BY <1>1, NatLessThanWellFounded, WFMin, Zenon
<1>3. \A j \in R : ~ (j < i)
  BY <1>1, <1>2, Zenon DEF OpToRel
<1>4. i \in 0 .. n /\ i # 0 /\ i \notin S
  OBVIOUS
<1>5. i - 1 \in 0 .. n - 1 /\ i - 1 < i /\ (i - 1) + 1 = i
  BY <1>4
<1>6. i - 1 \notin R
  BY <1>3, <1>5
<1>7. i - 1 \in S
  BY <1>5, <1>6
<1>. QED
  BY <1>4, <1>5, <1>7

(* One round of the loop of prioritizeRequests (client.go:359-365). *)
Round(S, q, k) == IF handles[k] \in S THEN Append(q, handles[k]) ELSE q

(* f[k] is the list after k rounds. *)
Picking(f, S, n) ==
  f = [k \in 0 .. n |->
         IF k = 0 THEN <<>>
         ELSE IF handles[k] \in S THEN Append(f[k - 1], handles[k]) ELSE f[k - 1]]

(* The loop runs to its end. *)
LEMMA PickingExists ==
  ASSUME NEW S, NEW n \in Nat
  PROVE  \E f : Picking(f, S, n)
<1>. DEFINE T == {k \in 0 .. n : \E f : Picking(f, S, k)}
<1>1. 0 \in T
  <2>1. Picking([k \in 0 .. 0 |-> <<>>], S, 0)
    BY DEF Picking
  <2>. QED
    BY <2>1
<1>2. ASSUME NEW k \in 0 .. n - 1, k \in T
      PROVE  k + 1 \in T
  <2>1. PICK f : Picking(f, S, k)
    BY <1>2
  <2>2. f = [j \in 0 .. k |-> IF j = 0 THEN <<>> ELSE Round(S, f[j - 1], j)]
    BY <2>1, Zenon DEF Picking, Round
  <2>. DEFINE g == [j \in 0 .. k + 1 |-> IF j = k + 1 THEN Round(S, f[k], k + 1) ELSE f[j]]
  <2>3. \A j \in 0 .. k + 1 : g[j] = IF j = 0 THEN <<>> ELSE Round(S, g[j - 1], j)
    <3>. SUFFICES ASSUME NEW j \in 0 .. k + 1
                  PROVE  g[j] = IF j = 0 THEN <<>> ELSE Round(S, g[j - 1], j)
      BY Zenon
    <3>1. CASE j = k + 1
      <4>1. g[j] = Round(S, f[k], k + 1) /\ j # 0
        BY <3>1
      <4>2. g[j - 1] = f[k]
        BY <3>1
      <4>. QED
        BY <3>1, <4>1, <4>2
    <3>2. CASE j # k + 1
      <4>1. j \in 0 .. k /\ (j # 0 => j - 1 \in 0 .. k)
        BY <3>2
      <4>2. g[j] = f[j] /\ (j # 0 => g[j - 1] = f[j - 1])
        BY <4>1
      <4>3. f[j] = IF j = 0 THEN <<>> ELSE Round(S, f[j - 1], j)
        BY <2>2, <4>1
      <4>. QED
        BY <4>2, <4>3
    <3>. QED
      BY <3>1, <3>2
  <2>4. g = [j \in 0 .. k + 1 |-> IF j = 0 THEN <<>> ELSE Round(S, g[j - 1], j)]
    BY <2>3
  <2>5. Picking(g, S, k + 1)
    BY <2>4 DEF Picking, Round
  <2>. HIDE DEF g
  <2>. QED
    BY <2>5
<1>3. \A k \in 0 .. n : k \in T
  <2>. HIDE DEF T
  <2>. QED
    BY <1>1, <1>2, CountingUp
<1>. QED
  BY <1>3

(* The elements of a sequence are all different. *)
Distinct(s) == \A i, j \in DOMAIN s : s[i] = s[j] => i = j

(* Whatever is appended once to a sequence that does not have it leaves the
   elements different. *)
LEMMA AppendDistinct ==
  ASSUME NEW s \in Seq(Handle), NEW h \in Handle, Distinct(s), h \notin ToSet(s)
  PROVE  /\ Append(s, h) \in Seq(Handle)
         /\ Distinct(Append(s, h))
         /\ ToSet(Append(s, h)) = ToSet(s) \cup {h}
<1>. DEFINE t == Append(s, h)
<1>1. /\ t \in Seq(Handle) /\ Len(s) \in Nat /\ DOMAIN s = 1 .. Len(s)
      /\ DOMAIN t = 1 .. Len(s) + 1 /\ t[Len(s) + 1] = h
      /\ \A i \in 1 .. Len(s) : t[i] = s[i]
  OBVIOUS
<1>2. \A i \in DOMAIN t : i = Len(s) + 1 \/ i \in DOMAIN s
  BY <1>1
<1>3. \A i \in DOMAIN s : s[i] # h
  BY DEF ToSet
<1>. HIDE DEF t
<1>4. Distinct(t)
  BY <1>1, <1>2, <1>3 DEF Distinct
<1>5. ToSet(t) = ToSet(s) \cup {h}
  BY <1>1, <1>2 DEF ToSet
<1>. QED
  BY <1>1, <1>4, <1>5 DEF t

(* One pass over the handles finds those of S, each once (client.go:359-365). *)
LEMMA ChosenOnce ==
  ASSUME handles \in Seq(Handle), Distinct(handles), NEW S
  PROVE  /\ Chosen(S) \in Seq(Handle)
         /\ Distinct(Chosen(S))
         /\ ToSet(Chosen(S)) = ToSet(handles) \cap S
<1>. DEFINE n == Len(handles)
            Past(k) == {handles[j] : j \in 1 .. k}
<1>0. n \in Nat /\ DOMAIN handles = 1 .. n /\ \A j \in 1 .. n : handles[j] \in Handle
  OBVIOUS
<1>. HIDE DEF n
<1>1. PICK f : Picking(f, S, n) /\ Chosen(S) = f[n]
  <2>. DEFINE f == CHOOSE f : Picking(f, S, n)
  <2>1. Picking(f, S, n)
    BY <1>0, PickingExists
  <2>2. Chosen(S) = f[n]
    BY DEF Chosen, Picking, n
  <2>. QED
    BY <2>1, <2>2, Zenon
<1>2. f = [k \in 0 .. n |-> IF k = 0 THEN <<>> ELSE Round(S, f[k - 1], k)]
  BY <1>1, Zenon DEF Picking, Round
<1>. DEFINE Good(k) == /\ f[k] \in Seq(Handle) /\ Distinct(f[k])
                       /\ ToSet(f[k]) = Past(k) \cap S
            T == {k \in 0 .. n : Good(k)}
<1>3. 0 \in T
  <2>1. f[0] = <<>>
    BY <1>0, <1>2
  <2>2. Past(0) = {}
    OBVIOUS
  <2>3. <<>> \in Seq(Handle) /\ DOMAIN <<>> = {}
    OBVIOUS
  <2>4. Distinct(<<>>) /\ ToSet(<<>>) = {}
    BY <2>3 DEF Distinct, ToSet
  <2>5. 0 \in 0 .. n
    BY <1>0
  <2>. HIDE DEF Past
  <2>6. Good(0)
    BY <2>1, <2>2, <2>3, <2>4
  <2>. QED
    BY <2>5, <2>6
<1>4. ASSUME NEW k \in 0 .. n - 1, k \in T
      PROVE  k + 1 \in T
  <2>. DEFINE h == handles[k + 1]
  <2>1. k + 1 \in 0 .. n /\ k + 1 # 0 /\ (k + 1) - 1 = k /\ k + 1 \in 1 .. n
    BY <1>0
  <2>2. f[k + 1] = IF h \in S THEN Append(f[k], h) ELSE f[k]
    BY <1>2, <2>1, Zenon DEF Round
  <2>3. h \in Handle /\ h \notin Past(k)
    BY <1>0, <2>1 DEF Distinct
  <2>4. Past(k + 1) = Past(k) \cup {h}
    <3>1. \A j \in 1 .. k + 1 : j = k + 1 \/ j \in 1 .. k
      BY <1>0
    <3>2. 1 .. k \subseteq 1 .. k + 1 /\ k + 1 \in 1 .. k + 1
      BY <1>0
    <3>. QED
      BY <3>1, <3>2
  <2>5. Good(k)
    BY <1>4
  <2>. HIDE DEF h, Past
  <2>6. CASE h \in S
    <3>1. f[k + 1] = Append(f[k], h) /\ h \notin ToSet(f[k])
      BY <2>2, <2>3, <2>5, <2>6
    <3>2. /\ Append(f[k], h) \in Seq(Handle) /\ Distinct(Append(f[k], h))
          /\ ToSet(Append(f[k], h)) = ToSet(f[k]) \cup {h}
      BY <2>3, <2>5, <3>1, AppendDistinct
    <3>. QED
      BY <2>1, <2>4, <2>5, <2>6, <3>1, <3>2, Zenon
  <2>7. CASE h \notin S
    BY <2>1, <2>2, <2>4, <2>5, <2>7
  <2>. QED
    BY <2>6, <2>7
<1>5. n \in T
  <2>. HIDE DEF T
  <2>. QED
    BY <1>0, <1>3, <1>4, CountingUp
<1>6. Past(n) = ToSet(handles)
  BY <1>0 DEF ToSet
<1>. QED
  BY <1>1, <1>5, <1>6

(* Two lists of different handles that share none, one after the other. *)
LEMMA ConcatDistinct ==
  ASSUME NEW s \in Seq(Handle), NEW t \in Seq(Handle), Distinct(s), Distinct(t),
         ToSet(s) \cap ToSet(t) = {}
  PROVE  /\ s \o t \in Seq(Handle)
         /\ Distinct(s \o t)
         /\ ToSet(s \o t) = ToSet(s) \cup ToSet(t)
<1>. DEFINE u == s \o t
            m == Len(s)
            n == Len(t)
<1>1. m \in Nat /\ n \in Nat /\ DOMAIN s = 1 .. m /\ DOMAIN t = 1 .. n
  OBVIOUS
<1>2. u \in Seq(Handle) /\ Len(u) = m + n /\ DOMAIN u = 1 .. m + n
  BY ConcatProperties
<1>3. \A i \in 1 .. m : i \in 1 .. m + n /\ u[i] = s[i]
  BY <1>1, ConcatProperties
<1>4. \A i \in 1 .. n : m + i \in 1 .. m + n /\ u[m + i] = t[i]
  BY <1>1, ConcatProperties
<1>5. \A k \in 1 .. m + n : k \in 1 .. m \/ (k - m \in 1 .. n /\ m + (k - m) = k)
  BY <1>1
<1>6. \A i \in 1 .. m, j \in 1 .. n : s[i] # t[j]
  BY <1>1, Zenon DEF ToSet
<1>. HIDE DEF u, m, n
<1>7. ASSUME NEW i \in 1 .. m + n, NEW j \in 1 .. m + n, u[i] = u[j]
      PROVE  i = j
  <2>1. CASE i \in 1 .. m /\ j \in 1 .. m
    BY <1>1, <1>3, <1>7, <2>1 DEF Distinct
  <2>2. CASE i \notin 1 .. m /\ j \notin 1 .. m
    <3>1. u[i] = t[i - m] /\ u[j] = t[j - m] /\ i - m \in DOMAIN t /\ j - m \in DOMAIN t
      BY <1>1, <1>4, <1>5, <2>2
    <3>2. i - m = j - m
      BY <1>7, <3>1, Zenon DEF Distinct
    <3>. QED
      BY <1>1, <3>2
  <2>3. CASE i \in 1 .. m /\ j \notin 1 .. m
    <3>1. u[i] = s[i] /\ u[j] = t[j - m] /\ j - m \in 1 .. n
      BY SMTT(20), <1>3, <1>4, <1>5, <2>3
    <3>. QED
      BY <1>6, <1>7, <2>3, <3>1, ZenonT(30)
  <2>4. CASE i \notin 1 .. m /\ j \in 1 .. m
    <3>1. u[j] = s[j] /\ u[i] = t[i - m] /\ i - m \in 1 .. n
      BY <1>3, <1>4, <1>5, <2>4
    <3>. QED
      BY <1>6, <1>7, <2>4, <3>1
  <2>. QED
    BY <2>1, <2>2, <2>3, <2>4
<1>8. Distinct(u)
  BY <1>2, <1>7 DEF Distinct
<1>9. ASSUME NEW k \in DOMAIN u PROVE u[k] \in ToSet(s) \cup ToSet(t)
  <2>1. CASE k \in 1 .. m
    BY <1>1, <1>3, <2>1 DEF ToSet
  <2>2. CASE k \notin 1 .. m
    <3>1. k - m \in 1 .. n /\ u[k] = t[k - m]
      BY <1>2, <1>4, <1>5, <2>2
    <3>. QED
      BY <1>1, <3>1 DEF ToSet
  <2>. QED
    BY <2>1, <2>2
<1>10. ToSet(s) \subseteq ToSet(u) /\ ToSet(t) \subseteq ToSet(u)
  BY <1>1, <1>2, <1>3, <1>4, Zenon DEF ToSet
<1>. QED
  BY <1>2, <1>8, <1>9, <1>10, Zenon DEF u, ToSet

(* The numbers from 1 to n are n. *)
LEMMA IntervalCardinality ==
  ASSUME NEW n \in Nat
  PROVE  IsFiniteSet(1 .. n) /\ Cardinality(1 .. n) = n
<1>1. /\ IsFiniteSet(1 .. n)
      /\ Cardinality(1 .. n) = IF 1 > n THEN 0 ELSE n - 1 + 1
  <2>1. 1 \in Int /\ n \in Int
    OBVIOUS
  <2>. QED
    BY <2>1, FS_Interval, Zenon
<1>2. (IF 1 > n THEN 0 ELSE n - 1 + 1) = n
  OBVIOUS
<1>. QED
  BY <1>1, <1>2

(* Handles that are all different are as many as their set has elements. *)
LEMMA DistinctCounts ==
  ASSUME NEW s \in Seq(Handle), Distinct(s)
  PROVE  Len(s) = Cardinality(ToSet(s))
<1>. DEFINE D == 1 .. Len(s)
            R == ToSet(s)
<1>1. Len(s) \in Nat /\ DOMAIN s = D /\ s \in [D -> R]
  BY DEF ToSet
<1>2. IsFiniteSet(D) /\ Cardinality(D) = Len(s)
  BY <1>1, IntervalCardinality, Zenon
<1>3. \A r \in R : \E i \in D : s[i] = r
  BY <1>1 DEF ToSet
<1>4. \A i, j \in D : s[i] = s[j] => i = j
  BY <1>1 DEF Distinct
<1>. HIDE DEF D, R
<1>5. s \in Bijection(D, R)
  BY <1>1, <1>3, <1>4, Zenon DEF Bijection, Injection, Surjection, IsInjective
<1>6. ExistsBijection(D, R)
  BY <1>5, Zenon DEF ExistsBijection
<1>7. Cardinality(R) = Cardinality(D)
  BY <1>2, <1>6, FS_Bijection, Zenon
<1>. QED
  BY <1>2, <1>7 DEF R

(* nextRequest moves the first handle to the end (client.go:377-379). *)
LEMMA RotatedKeeps ==
  ASSUME handles \in Seq(Handle), handles # <<>>, Distinct(handles)
  PROVE  /\ Rotated \in Seq(Handle)
         /\ Distinct(Rotated)
         /\ ToSet(Rotated) = ToSet(handles)
<1>. DEFINE r == Tail(handles)
            h == Head(handles)
            n == Len(handles)
<1>1. /\ n \in Nat /\ n >= 1 /\ DOMAIN handles = 1 .. n
      /\ h = handles[1] /\ h \in Handle
      /\ r \in Seq(Handle) /\ Len(r) = n - 1 /\ DOMAIN r = 1 .. n - 1
      /\ \A i \in 1 .. n - 1 : r[i] = handles[i + 1]
  BY HeadTailProperties
<1>. HIDE DEF r, h, n
<1>2. \A i \in 1 .. n - 1 : i + 1 \in DOMAIN handles /\ i + 1 # 1
  BY <1>1
<1>3. Distinct(r)
  <2>1. ASSUME NEW i \in 1 .. n - 1, NEW j \in 1 .. n - 1, r[i] = r[j]
        PROVE  i = j
    <3>1. i + 1 = j + 1
      BY <1>1, <1>2, <2>1, Zenon DEF Distinct
    <3>. QED
      BY <1>1, <3>1
  <2>. QED
    BY <1>1, <2>1 DEF Distinct
<1>4. h \notin ToSet(r)
  <2>1. 1 \in DOMAIN handles
    BY <1>1
  <2>2. \A i \in 1 .. n - 1 : r[i] # h
    BY SMTT(20), <1>1, <1>2, <2>1 DEF Distinct
  <2>. QED
    BY <1>1, <2>2 DEF ToSet
<1>5. ToSet(handles) = ToSet(r) \cup {h}
  <2>1. \A k \in 1 .. n : k = 1 \/ (k - 1 \in 1 .. n - 1 /\ handles[k] = r[k - 1])
    BY <1>1
  <2>2. ASSUME NEW k \in 1 .. n PROVE handles[k] \in ToSet(r) \cup {h}
    BY <1>1, <2>1, Zenon DEF ToSet
  <2>3. ASSUME NEW i \in 1 .. n - 1 PROVE r[i] \in ToSet(handles)
    BY SMTT(20), <1>1, <1>2 DEF ToSet
  <2>4. h \in ToSet(handles)
    BY <1>1 DEF ToSet
  <2>5. ToSet(handles) \subseteq ToSet(r) \cup {h}
    BY <1>1, <2>2 DEF ToSet
  <2>6. ToSet(r) \subseteq ToSet(handles)
    BY <1>1, <2>3 DEF ToSet
  <2>. QED
    BY <2>4, <2>5, <2>6
<1>6. Rotated = Append(r, h)
  BY DEF Rotated, r, h
<1>. QED
  BY SMTT(20), <1>1, <1>3, <1>4, <1>5, <1>6, AppendDistinct

(* prioritizeRequests only changes the order (client.go:354-369). *)
LEMMA PrioritizedKeeps ==
  ASSUME handles \in Seq(Handle), Distinct(handles)
  PROVE  /\ prioritizeRequests \in Seq(Handle)
         /\ Distinct(prioritizeRequests)
         /\ ToSet(prioritizeRequests) = ToSet(handles)
<1>. DEFINE s == Chosen(interest)
            t == Chosen(Handle \ interest)
<1>1. s \in Seq(Handle) /\ Distinct(s) /\ ToSet(s) = ToSet(handles) \cap interest
  BY ChosenOnce
<1>2. t \in Seq(Handle) /\ Distinct(t) /\ ToSet(t) = ToSet(handles) \cap (Handle \ interest)
  BY ChosenOnce
<1>3. ToSet(handles) \subseteq Handle
  BY DEF ToSet
<1>. HIDE DEF s, t
<1>4. ToSet(s) \cap ToSet(t) = {} /\ ToSet(s) \cup ToSet(t) = ToSet(handles)
  BY <1>1, <1>2, <1>3
<1>5. prioritizeRequests = s \o t
  BY DEF prioritizeRequests, s, t
<1>. QED
  BY <1>1, <1>2, <1>4, <1>5, ConcatDistinct, Zenon

(* Done moves the last handle into the gap (client.go:187-192). *)
LEMMA DoneRemoves ==
  ASSUME handles \in Seq(Handle), Distinct(handles), NEW i \in DOMAIN handles
  PROVE  /\ WithoutHandle(i) \in Seq(Handle)
         /\ Distinct(WithoutHandle(i))
         /\ ToSet(WithoutHandle(i)) = ToSet(handles) \ {handles[i]}
<1>. DEFINE n == Len(handles)
            e == [handles EXCEPT ![i] = Last(handles)]
            w == WithoutHandle(i)
            from(k) == IF k = i THEN n ELSE k
<1>1. /\ n \in Nat /\ DOMAIN handles = 1 .. n /\ i \in 1 .. n
      /\ \A k \in 1 .. n : handles[k] \in Handle
  OBVIOUS
<1>2. e \in Seq(Handle) /\ Len(e) = n /\ \A k \in 1 .. n : e[k] = handles[from(k)]
  BY <1>1 DEF Last
<1>. HIDE DEF n, e
<1>3. w = SubSeq(e, 1, n - 1)
  BY <1>2 DEF WithoutHandle, Front, e
<1>4. /\ w \in Seq(Handle) /\ Len(w) = n - 1
      /\ \A k \in 1 .. n - 1 : w[k] = handles[from(k)]
  <2>1. \A k \in 1 .. n - 1 : e[k] \in Handle
    BY <1>1, <1>2
  <2>2. \A k \in 1 .. n - 1 : k \in 1 .. (n - 1) - 1 + 1 /\ 1 + k - 1 = k
    BY <1>1
  <2>3. /\ SubSeq(e, 1, n - 1) \in Seq(Handle)
        /\ Len(SubSeq(e, 1, n - 1)) = IF 1 <= n - 1 THEN (n - 1) - 1 + 1 ELSE 0
        /\ \A k \in 1 .. (n - 1) - 1 + 1 : SubSeq(e, 1, n - 1)[k] = e[1 + k - 1]
    BY SMTT(20), <1>1, <2>1, SubSeqProperties
  <2>4. \A k \in 1 .. n - 1 : w[k] = e[k]
    BY <1>3, <2>2, <2>3
  <2>. QED
    BY SMTT(20), <1>1, <1>2, <1>3, <2>3, <2>4
<1>. HIDE DEF w
<1>5. DOMAIN w = 1 .. n - 1
  BY <1>4
<1>6. /\ \A k \in 1 .. n - 1 : from(k) \in 1 .. n /\ from(k) # i
      /\ \A k, l \in 1 .. n - 1 : from(k) = from(l) => k = l
      /\ \A k \in 1 .. n : k # i => \E l \in 1 .. n - 1 : from(l) = k
  BY <1>1
<1>. HIDE DEF from
<1>7. Distinct(w)
  BY SMTT(20), <1>1, <1>4, <1>5, <1>6 DEF Distinct
<1>8. ToSet(w) \subseteq ToSet(handles) \ {handles[i]}
  BY SMTT(20), <1>1, <1>4, <1>5, <1>6 DEF Distinct, ToSet
<1>9. ASSUME NEW k \in 1 .. n, handles[k] # handles[i] PROVE handles[k] \in ToSet(w)
  <2>1. PICK l \in 1 .. n - 1 : from(l) = k
    BY <1>6, <1>9
  <2>2. w[l] = handles[k]
    BY <1>4, <2>1
  <2>. QED
    BY <1>5, <2>2 DEF ToSet
<1>10. ToSet(handles) \ {handles[i]} \subseteq ToSet(w)
  BY <1>1, <1>9 DEF ToSet
<1>. QED
  BY <1>4, <1>7, <1>8, <1>10 DEF w

(* The length of handles is that of the set because no handle is in it twice. *)
HandleInv ==
  /\ handles \in Seq(Handle)
  /\ Distinct(handles)
  /\ ToSet(handles) = subscribed

(* NewClient has no handles. *)
LEMMA HandleInit == Init => HandleInv
<1>1. DOMAIN <<>> = {} /\ <<>> \in Seq(Handle)
  OBVIOUS
<1>. QED
  BY <1>1 DEF Init, HandleInv, Distinct, ToSet

(* Every step of the read thread, of the update thread and of the application
   keeps the handles (client.go:157-198, 354-379). *)
LEMMA HandleStep == HandleInv /\ [Next]_vars => HandleInv'
<1>. SUFFICES ASSUME HandleInv, [Next]_vars PROVE HandleInv'
  OBVIOUS
<1>0. handles \in Seq(Handle) /\ Distinct(handles) /\ ToSet(handles) = subscribed
  BY DEF HandleInv
<1>1. CASE UNCHANGED handleVars
  BY <1>1 DEF HandleInv, handleVars, Distinct
<1>2. CASE NextRequest
  <2>1. CASE handles = <<>>
    BY <1>1, <1>2, <2>1 DEF NextRequest, handleVars
  <2>2. CASE handles # <<>>
    <3>1. handles' = Rotated /\ subscribed' = subscribed
      BY <1>2, <2>2 DEF NextRequest
    <3>2. Rotated \in Seq(Handle) /\ Distinct(Rotated) /\ ToSet(Rotated) = ToSet(handles)
      BY <1>0, <2>2, RotatedKeeps
    <3>. QED
      BY <1>0, <3>1, <3>2 DEF HandleInv, Distinct
  <2>. QED
    BY <2>1, <2>2
<1>3. CASE Prioritize
  <2>1. handles' = prioritizeRequests /\ subscribed' = subscribed
    BY <1>3 DEF Prioritize
  <2>2. /\ prioritizeRequests \in Seq(Handle) /\ Distinct(prioritizeRequests)
        /\ ToSet(prioritizeRequests) = ToSet(handles)
    BY <1>0, PrioritizedKeeps
  <2>. QED
    BY <1>0, <2>1, <2>2 DEF HandleInv, Distinct
<1>4. ASSUME NEW h \in Handle, Poll(h) PROVE HandleInv'
  <2>1. handles' = Append(handles, h) /\ subscribed' = subscribed \cup {h} /\ h \notin ToSet(handles)
    BY <1>4 DEF Poll
  <2>2. /\ Append(handles, h) \in Seq(Handle) /\ Distinct(Append(handles, h))
        /\ ToSet(Append(handles, h)) = ToSet(handles) \cup {h}
    BY <1>0, <2>1, AppendDistinct
  <2>. QED
    BY <1>0, <2>1, <2>2 DEF HandleInv, Distinct
<1>5. ASSUME NEW h \in Handle, Done(h) PROVE HandleInv'
  <2>1. PICK i \in DOMAIN handles : handles[i] = h /\ handles' = WithoutHandle(i)
    BY <1>5 DEF Done
  <2>2. subscribed' = subscribed \ {h}
    BY <1>5 DEF Done
  <2>3. /\ WithoutHandle(i) \in Seq(Handle) /\ Distinct(WithoutHandle(i))
        /\ ToSet(WithoutHandle(i)) = ToSet(handles) \ {handles[i]}
    BY <1>0, DoneRemoves
  <2>. QED
    BY <1>0, <2>1, <2>2, <2>3 DEF HandleInv, Distinct
<1>6. CASE WriteThread
  BY <1>1, <1>6 DEF WriteThread, WriteCheck, WriteSelect, WriteCall, handleVars
<1>7. CASE ReadSelect \/ ReadCall \/ Deliver \/ AskUpdate
  BY <1>1, <1>7 DEF ReadSelect, ReadCall, Deliver, AskUpdate, handleVars
<1>8. CASE UpdateCheck \/ UpdateAsked \/ UpdateTimer \/ UpdateCall
  BY <1>1, <1>8 DEF UpdateCheck, UpdateAsked, UpdateTimer, UpdateCall, handleVars
<1>9. ASSUME NEW h \in Handle, StopListening(h) PROVE HandleInv'
  BY <1>1, <1>9 DEF StopListening
<1>10. ASSUME NEW a \in App, (\E n \in 1 .. 2 : Publish(a, n)) \/ Flush(a) \/ Kill(a) \/ Continue(a)
       PROVE  HandleInv'
  <2>1. UNCHANGED handleVars
    BY <1>10 DEF Publish, Flush, Kill, StartFlush, Continue, CountWrite, SendWrite, FlushTest
  <2>. QED
    BY <1>1, <2>1
<1>11. CASE UNCHANGED vars
  BY <1>1, <1>11 DEF vars, handleVars
<1>. QED
  BY SMTT(20), <1>2, <1>3, <1>4, <1>5, <1>6, <1>7, <1>8, <1>9, <1>10, <1>11
  DEF Next, ReadThread, UpdateThread

(* Rotation, prioritizing, Poll and Done lose no subscription, poll no handle
   twice a round and none after Done, for any number of handles and however the
   threads interleave (client.go:179, 190, 367, 377). *)
THEOREM SubscriptionsKept == Spec => []HandlesAreSubscribed
<1>1. HandleInv => HandlesAreSubscribed
  BY DistinctCounts DEF HandleInv, HandlesAreSubscribed
<1>. QED
  BY <1>1, HandleInit, HandleStep, PTL DEF Spec

=============================================================================
