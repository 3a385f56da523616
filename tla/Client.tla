------------------------------- MODULE Client -------------------------------
(***************************************************************************)
(* The client library's threads (libtalek/client.go): writePeriodic,       *)
(* readPeriodic and updatePeriodic next to application goroutines that     *)
(* call Publish, Flush, Kill, Poll and Done.                               *)
(*                                                                         *)
(* A section under writeMutex or handleMutex is one step.  What a read     *)
(* finds is a free choice here; Topic.tla says what it can be.             *)
(*                                                                         *)
(* The write thread and the other two share only dead, so a behaviour      *)
(* follows one side: the steps of the other commute with all of its steps. *)
(***************************************************************************)
EXTENDS Naturals, Sequences, FiniteSets, SequencesExt

CONSTANTS
  App,        \* application goroutines
  Handle,     \* handles they poll
  NoHandle,   \* the request of a random read
  ChanCap,    \* capacity of pendingReads, pendingWrites, pendingUpdates
  Workloads,  \* the side followed, who calls, and how much (bounds)
  Cover       \* a random write

ASSUME ClientParams ==
  /\ IsFiniteSet(App)
  /\ ChanCap \in Nat \ {0} /\ NoHandle \notin Handle /\ Cover \notin Nat
  /\ \A w \in Workloads : w \in [side : {"write", "read"}, apps : SUBSET App, writes : Nat,
                             found : Nat, polls : Nat]

VARIABLES
  dead,           \* c.dead
  pendingWrites, pendingReads, pendingUpdates,
  writeCount,     \* writes counted and not yet taken by writePeriodic
  handles,        \* c.handles, polled in this order
  interest,       \* handles whose next message is in interestVector
  app,            \* per goroutine: pc, fragments left of its Publish
  wr, rd, up,     \* the three threads
  listening,      \* handles whose channel somebody receives from
  budget,         \* bound: what is left of the workload
  accepted,       \* history: writes sent on pendingWrites so far
  handed,         \* history: writes passed to leader.Write so far
  before,         \* history: per goroutine, accepted when it called Flush
  subscribed      \* history: handles between Poll and Done

vars == <<dead, pendingWrites, pendingReads, pendingUpdates, writeCount, handles,
          interest, app, wr, rd, up, listening, budget, accepted, handed, before,
          subscribed>>

writeVars == <<pendingWrites, writeCount, app, wr, accepted, handed, before>>
readVars == <<pendingReads, rd, listening>>
handleVars == <<handles, subscribed>>
updateVars == <<pendingUpdates, up, interest>>

(* NewClient *)
Init ==
  /\ dead = FALSE
  /\ pendingWrites = <<>> /\ pendingReads = <<>> /\ pendingUpdates = 0
  /\ writeCount = 0
  /\ handles = <<>>
  /\ interest = {}
  /\ app = [a \in App |-> [pc |-> "idle", left |-> 0]]
  /\ wr = [pc |-> "check", req |-> Cover]
  /\ rd = [pc |-> "check", handle |-> NoHandle]
  /\ up = "check"
  /\ listening = {}
  /\ budget \in Workloads
  /\ accepted = 0 /\ handed = 0
  /\ before = [a \in App |-> 0]
  /\ subscribed = {}

-----------------------------------------------------------------------------
(* Publish, Flush and Kill *)

(* A message of n fragments; an empty one has none and changes nothing. *)
Publish(a, n) ==
  /\ app[a].pc = "idle" /\ n <= budget.writes
  /\ app' = [app EXCEPT ![a] = [pc |-> "count", left |-> n]]
  /\ budget' = [budget EXCEPT !.writes = @ - n]
  /\ UNCHANGED <<dead, pendingWrites, writeCount, wr, accepted, handed, before,
                 readVars, handleVars, updateVars>>

(* GeneratePublish and writeCount++. *)
CountWrite(a) ==
  /\ app[a].pc = "count"
  /\ writeCount' = writeCount + 1
  /\ app' = [app EXCEPT ![a].pc = "send"]
  /\ UNCHANGED <<dead, pendingWrites, wr, accepted, handed, before, budget,
                 readVars, handleVars, updateVars>>

(* c.pendingWrites <- writeArgs; writes are numbered as they are accepted. *)
SendWrite(a) ==
  /\ app[a].pc = "send" /\ Len(pendingWrites) < ChanCap
  /\ pendingWrites' = Append(pendingWrites, accepted + 1)
  /\ accepted' = accepted + 1
  /\ app' = [app EXCEPT ![a] = [pc |-> IF @.left = 1 THEN "idle" ELSE "count",
                                left |-> @.left - 1]]
  /\ UNCHANGED <<dead, writeCount, wr, handed, before, budget, readVars,
                 handleVars, updateVars>>

StartFlush(a) ==
  /\ app[a].pc = "idle"
  /\ app' = [app EXCEPT ![a].pc = "flush"]
  /\ before' = [before EXCEPT ![a] = accepted]
  /\ UNCHANGED <<pendingWrites, writeCount, wr, accepted, handed, budget,
                 readVars, handleVars, updateVars>>

Flush(a) == StartFlush(a) /\ UNCHANGED dead

Kill(a) == ~ dead /\ StartFlush(a) /\ dead' = TRUE

(* Variant: one write may be left. *)
FlushTest_OneLeft(a) ==
  /\ app[a].pc \in {"flush", "woken"}
  /\ app' = [app EXCEPT ![a].pc = IF writeCount > 1 THEN "wait" ELSE "idle"]
  /\ UNCHANGED <<dead, pendingWrites, writeCount, wr, accepted, handed, before,
                 budget, readVars, handleVars, updateVars>>

(* The loop of Flush under writeMutex: the test, and Wait if it fails. *)
FlushTest(a) ==
  /\ app[a].pc \in {"flush", "woken"}
  /\ app' = [app EXCEPT ![a].pc = IF writeCount > 0 THEN "wait" ELSE "idle"]
  /\ UNCHANGED <<dead, pendingWrites, writeCount, wr, accepted, handed, before,
                 budget, readVars, handleVars, updateVars>>

-----------------------------------------------------------------------------
(* writePeriodic *)

(* Variant: a killed thread goes on waiting instead of returning. *)
WriteCheck_Parks ==
  /\ wr.pc = "check" /\ ~ dead
  /\ wr' = [wr EXCEPT !.pc = "select"]
  /\ UNCHANGED <<dead, pendingWrites, writeCount, app, accepted, handed, before,
                 budget, readVars, handleVars, updateVars>>

WriteCheck ==
  /\ wr.pc = "check"
  /\ wr' = [wr EXCEPT !.pc = IF dead THEN "exited" ELSE "select"]
  /\ UNCHANGED <<dead, pendingWrites, writeCount, app, accepted, handed, before,
                 budget, readVars, handleVars, updateVars>>

(* Variant: the waiters are woken when the write before the last is taken. *)
Broadcast_Early(n) ==
  IF n = 1 THEN [a \in App |-> IF app[a].pc = "wait" THEN [app[a] EXCEPT !.pc = "woken"]
                                                     ELSE app[a]]
           ELSE app

(* writeWaiters.Broadcast() when the count n has dropped to 0. *)
Broadcast(n) ==
  IF n = 0 THEN [a \in App |-> IF app[a].pc = "wait" THEN [app[a] EXCEPT !.pc = "woken"]
                                                     ELSE app[a]]
           ELSE app

(* Variant: writeCount is lowered once for a random write too. *)
WriteSelect_CountsCover ==
  /\ wr.pc = "select"
  /\ wr' = [pc |-> "call", req |-> IF pendingWrites = <<>> THEN Cover
                                                           ELSE Head(pendingWrites)]
  /\ pendingWrites' = IF pendingWrites = <<>> THEN <<>> ELSE Tail(pendingWrites)
  /\ writeCount' = IF writeCount > 0 THEN writeCount - 1 ELSE 0
  /\ app' = Broadcast(writeCount')
  /\ UNCHANGED <<dead, accepted, handed, before, budget, readVars, handleVars,
                 updateVars>>

(* Variant: a random write is sent even if one is queued. *)
WriteSelect_CoverFirst ==
  /\ wr.pc = "select"
  /\ wr' = [pc |-> "call", req |-> Cover]
  /\ UNCHANGED <<dead, pendingWrites, writeCount, app, accepted, handed, before,
                 budget, readVars, handleVars, updateVars>>

WriteSelect ==
  /\ wr.pc = "select"
  /\ IF pendingWrites = <<>>
       THEN /\ wr' = [pc |-> "call", req |-> Cover]
            /\ UNCHANGED <<pendingWrites, writeCount, app>>
       ELSE /\ wr' = [pc |-> "call", req |-> Head(pendingWrites)]
            /\ pendingWrites' = Tail(pendingWrites)
            /\ writeCount' = writeCount - 1
            /\ app' = Broadcast(writeCount - 1)
  /\ UNCHANGED <<dead, accepted, handed, before, budget, readVars, handleVars,
                 updateVars>>

(* leader.Write: an error is not retried, so the client does the same either
   way. *)
WriteCall ==
  /\ wr.pc = "call"
  /\ handed' = IF wr.req = Cover THEN handed ELSE handed + 1
  /\ wr' = [wr EXCEPT !.pc = "check"]
  /\ UNCHANGED <<dead, pendingWrites, writeCount, app, accepted, before, budget,
                 readVars, handleVars, updateVars>>

-----------------------------------------------------------------------------
(* readPeriodic *)

(* Variant: a pending read is left for later. *)
ReadSelect_NewFirst ==
  /\ rd.pc = "check"
  /\ rd' = [rd EXCEPT !.pc = IF dead THEN "exited" ELSE "next"]
  /\ UNCHANGED <<dead, pendingReads, listening, budget, writeVars, handleVars,
                 updateVars>>

(* The test of dead, and select: only this thread uses pendingReads. *)
ReadSelect ==
  /\ rd.pc = "check"
  /\ \/ /\ dead
        /\ rd' = [rd EXCEPT !.pc = "exited"] /\ UNCHANGED pendingReads
     \/ /\ ~ dead /\ pendingReads = <<>>
        /\ rd' = [rd EXCEPT !.pc = "next"] /\ UNCHANGED pendingReads
     \/ /\ ~ dead /\ pendingReads # <<>>
        /\ rd' = [rd EXCEPT !.pc = "call", !.handle = Head(pendingReads)]
        /\ pendingReads' = Tail(pendingReads)
  /\ UNCHANGED <<dead, listening, budget, writeVars, handleVars, updateVars>>

(* Variant: the handle just polled stays in front. *)
Rotated_Not == handles

(* The handle just polled goes to the end. *)
Rotated == Append(Tail(handles), Head(handles))

(* nextRequest: a random read, or both buckets of the first handle, one now and
   one through pendingReads, a send that holds handleMutex. *)
NextRequest ==
  /\ rd.pc = "next"
  /\ IF handles = <<>>
       THEN /\ rd' = [rd EXCEPT !.pc = "call", !.handle = NoHandle]
            /\ UNCHANGED <<handles, pendingReads>>
       ELSE /\ Len(pendingReads) < ChanCap
            /\ rd' = [rd EXCEPT !.pc = "call", !.handle = Head(handles)]
            /\ pendingReads' = Append(pendingReads, Head(handles))
            /\ handles' = Rotated
  /\ UNCHANGED <<dead, listening, budget, subscribed, writeVars, updateVars>>

(* leader.Read and OnResponse up to the send on updates. *)
ReadCall ==
  /\ rd.pc = "call"
  /\ \/ /\ rd' = [rd EXCEPT !.pc = "notify"]
        /\ UNCHANGED budget
     \/ /\ rd.handle # NoHandle /\ budget.found > 0
        /\ rd' = [rd EXCEPT !.pc = "deliver"]
        /\ budget' = [budget EXCEPT !.found = @ - 1]
  /\ UNCHANGED <<dead, pendingReads, listening, writeVars, handleVars, updateVars>>

(* h.updates is unbuffered: the read thread waits for a receiver. *)
Deliver ==
  /\ rd.pc = "deliver" /\ rd.handle \in listening
  /\ rd' = [rd EXCEPT !.pc = "notify"]
  /\ UNCHANGED <<dead, pendingReads, listening, budget, writeVars, handleVars,
                 updateVars>>

(* LastInterestSN of the reply may differ from c.lastInterestSN, which is never
   set: an update is asked for. *)
AskUpdate ==
  /\ rd.pc = "notify"
  /\ \/ UNCHANGED pendingUpdates
     \/ pendingUpdates < ChanCap /\ pendingUpdates' = pendingUpdates + 1
  /\ rd' = [rd EXCEPT !.pc = "check"]
  /\ UNCHANGED <<dead, pendingReads, listening, budget, up, interest, writeVars,
                 handleVars>>

-----------------------------------------------------------------------------
(* updatePeriodic *)
UpdateCheck ==
  /\ up = "check"
  /\ up' = IF dead THEN "exited" ELSE "select"
  /\ UNCHANGED <<dead, pendingUpdates, interest, budget, writeVars,
                 readVars, handleVars>>

(* A read asked for an update. *)
UpdateAsked ==
  /\ up = "select" /\ pendingUpdates > 0
  /\ up' = "call"
  /\ pendingUpdates' = pendingUpdates - 1
  /\ UNCHANGED <<dead, interest, budget, writeVars, readVars,
                 handleVars>>

(* The timer fired. *)
UpdateTimer ==
  /\ up = "select"
  /\ up' = "call"
  /\ UNCHANGED <<dead, pendingUpdates, interest, budget, writeVars,
                 readVars, handleVars>>

(* GetUpdates and Import, or a reply that does not decompress. *)
UpdateCall ==
  /\ up = "call"
  /\ \/ up' = "check" /\ UNCHANGED interest
     \/ up' = "prioritize" /\ interest' \in SUBSET Handle
  /\ UNCHANGED <<dead, pendingUpdates, budget, writeVars, readVars,
                 handleVars>>

(* The handles of S, in the order they have: one pass over c.handles. *)
Chosen(S) ==
  LET picked[k \in 0 .. Len(handles)] ==
        IF k = 0 THEN <<>>
        ELSE IF handles[k] \in S THEN Append(picked[k - 1], handles[k])
                                 ELSE picked[k - 1]
  IN  picked[Len(handles)]

(* Handles with news first. *)
prioritizeRequests == Chosen(interest) \o Chosen(Handle \ interest)

Prioritize ==
  /\ up = "prioritize"
  /\ handles' = prioritizeRequests
  /\ up' = "check"
  /\ UNCHANGED <<dead, pendingUpdates, interest, subscribed,
                 budget, writeVars, readVars>>

-----------------------------------------------------------------------------
(* Poll and Done *)
Poll(h) ==
  /\ budget.polls > 0
  /\ h \notin ToSet(handles)
  /\ handles' = Append(handles, h)
  /\ listening' = listening \cup {h}
  /\ subscribed' = subscribed \cup {h}
  /\ budget' = [budget EXCEPT !.polls = @ - 1]
  /\ UNCHANGED <<dead, pendingReads, rd, writeVars, updateVars>>

(* Variant: the last handle is not moved into the gap. *)
WithoutHandle_Cut(i) == Front(handles)

(* The last handle takes the place of the one removed. *)
WithoutHandle(i) == Front([handles EXCEPT ![i] = Last(handles)])

Done(h) ==
  /\ \E i \in DOMAIN handles : handles[i] = h /\ handles' = WithoutHandle(i)
  /\ subscribed' = subscribed \ {h}
  /\ UNCHANGED <<dead, budget, readVars, writeVars, updateVars>>

(* The application stops receiving from a handle's channel. *)
StopListening(h) ==
  /\ h \in listening
  /\ listening' = listening \ {h}
  /\ UNCHANGED <<dead, pendingReads, rd, budget, writeVars, handleVars, updateVars>>

-----------------------------------------------------------------------------
WriteThread == WriteCheck \/ WriteSelect \/ WriteCall
ReadThread == \/ ReadSelect \/ NextRequest \/ ReadCall
              \/ Deliver \/ AskUpdate
UpdateThread == UpdateCheck \/ UpdateAsked \/ UpdateTimer \/ UpdateCall \/ Prioritize
Continue(a) == CountWrite(a) \/ SendWrite(a) \/ FlushTest(a)

Next ==
  \/ /\ budget.side = "write"
     /\ \/ WriteThread
        \/ \E a \in App \cap budget.apps :
             (\E n \in 1 .. 2 : Publish(a, n)) \/ Flush(a)
  \/ /\ budget.side = "read"
     /\ \/ ReadThread \/ UpdateThread
        \/ \E h \in Handle : Poll(h) \/ Done(h) \/ StopListening(h)
  \/ \E a \in App \cap budget.apps : Kill(a) \/ Continue(a)

Spec == Init /\ [][Next]_vars

(* Goroutines run, and select does not pass over a ready channel for ever. *)
Fairness ==
  /\ WF_vars(budget.side = "write" /\ WriteThread)
  /\ WF_vars(budget.side = "read" /\ ReadThread)
  /\ WF_vars(budget.side = "read" /\ UpdateThread)
  /\ SF_vars(budget.side = "read" /\ UpdateAsked)
  /\ \A a \in App : WF_vars(a \in budget.apps /\ Continue(a))

FairSpec == Spec /\ Fairness

-----------------------------------------------------------------------------
(* writeCount, raised by Publish before it sends and lowered by writePeriodic
   after it receives, counts the queued writes and those about to be queued,
   and nothing else (client.go:138-141, 219-225). *)
WriteCountExact ==
  writeCount = Len(pendingWrites) + Cardinality({a \in App : app[a].pc = "send"})

(* nextRequest never waits for room in pendingReads while it holds
   handleMutex, which would block Poll, Done and updatePeriodic
   (client.go:252-255, 385). *)
LockedSendHasRoom == rd.pc = "next" => Len(pendingReads) < ChanCap

(* Rotation, prioritizing, Poll and Done together lose no subscription, poll no
   handle twice a round and none after Done (client.go:179, 190, 367, 377). *)
HandlesAreSubscribed ==
  ToSet(handles) = subscribed /\ Len(handles) = Cardinality(subscribed)

(* No flush sleeps through the last write: one that waits either has a write
   left to wait for or has been woken (client.go:149-151, 222-224). *)
NoLostWakeup == \A a \in App : app[a].pc = "wait" => writeCount > 0

(* When Flush returns, every write accepted before the call has been passed to
   leader.Write or is the one writePeriodic is about to pass
   (client.go:147-154, 219-230). *)
FlushLeavesOne ==
  [][\A a \in App :
       app[a].pc \in {"flush", "woken"} /\ app'[a].pc = "idle" =>
         before[a] <= handed + IF wr.pc = "call" /\ wr.req # Cover THEN 1 ELSE 0]_vars

(* A Flush returns as long as the client is not killed (client.go:147-154). *)
FlushReturns ==
  \A a \in App : app[a].pc = "flush" ~> (app[a].pc = "idle" \/ dead)

(* A Publish, Flush or Kill on a killed client returns unless the write thread
   left writes behind, which nobody takes any more (client.go:102-105). *)
KillReturns ==
  \A a \in App :
    dead /\ app[a].pc # "idle" ~>
      (app[a].pc = "idle" \/ (wr.pc = "exited" /\ writeCount > 0))

(* A handle with news is polled, however many others have news and however
   often handles are prioritized, unless the read thread waits for a receiver
   (client.go:354-392). *)
NewsPolled ==
  \A h \in Handle :
    <>[](h \in subscribed /\ h \in interest /\ ~ dead /\ rd.pc # "deliver") =>
      []<>(rd.pc = "call" /\ rd.handle = h)

=============================================================================
