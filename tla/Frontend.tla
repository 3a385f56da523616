------------------------------ MODULE Frontend ------------------------------
(***************************************************************************)
(* The frontend (server/frontend.go) and the replicas it drives            *)
(* (server/replica.go): concurrent Write calls that walk over the replicas *)
(* one after the other, the periodic epoch write, the batcher of reads and *)
(* the goroutines that carry one batch each.                               *)
(*                                                                         *)
(* A replica is the sequence of writes its shard received and the part of  *)
(* it that the last applyWrites made readable; Shard.tla has the detail.   *)
(* A remote call is one step: it takes effect at the replica, or fails     *)
(* before or after it did, and the frontend sees an error.                 *)
(***************************************************************************)
EXTENDS Integers, Sequences, FiniteSets, Functions

CONSTANTS
  NumReplicas,  \* len(fe.replicas)
  ReadBatch,    \* Config.ReadBatch
  WindowSize,   \* Config.WindowSize()
  FlipLimit,    \* outstandingLimit of the shards
  Writers,      \* concurrent callers of Write
  Readers,      \* concurrent callers of Read
  MaxWrites,    \* bound: Write calls
  MaxEpochs,    \* bound: ticks of periodicWrite
  MaxReads,     \* bound: Read calls
  MaxFaults     \* bound: failed remote calls

ASSUME FrontendParams ==
  /\ NumReplicas \in Nat \ {0} /\ ReadBatch \in Nat \ {0}
  /\ WindowSize \in Nat /\ FlipLimit \in Nat
  /\ {MaxWrites, MaxEpochs, MaxReads, MaxFaults} \subseteq Nat

VARIABLES
  proposedSeqNo, \* last sequence number given out
  write,         \* Write calls: pc, sequence number, next replica, error
  epoch,         \* periodicWrite: pc and next replica
  received,      \* per replica: writes its shard received, in order
  visible,       \* per replica: writes readable since the last applyWrites
  sinceFlip,     \* per replica: writes received since then
  flipping,      \* per replica: processWrites waits in applyWrites
  readChan,      \* buffered channel of read requests
  batcher,       \* batchReads: pc and the batch being filled
  flights,       \* running triggerBatchRead goroutines
  reader,        \* Read callers: idle or waiting for Done
  reply,         \* last reply of each Read caller
  dead,          \* fe.dead
  crashed,       \* a goroutine panicked
  count,         \* epochs, reads and faults so far
  acked,         \* history: writes that returned without error
  floor          \* history: highest acknowledged write when a Read began

vars == <<proposedSeqNo, write, epoch, received, visible, sinceFlip, flipping,
          readChan, batcher, flights, reader, reply, dead, crashed, count,
          acked, floor>>

replicaVars == <<received, visible, sinceFlip, flipping>>
writeVars == <<proposedSeqNo, write, acked>>
readVars == <<readChan, batcher, flights, reader, reply, floor>>

Replica == 1 .. NumReplicas

ReadChanCapacity == 10

IdleWrite == [pc |-> "idle", seq |-> 0, to |-> 1, err |-> FALSE]

NoReply == [state |-> "none", start |-> 0, end |-> 0, views |-> <<>>]

(* NewFrontend over fresh replicas. *)
Init ==
  /\ proposedSeqNo = 0
  /\ write = [w \in Writers |-> IdleWrite]
  /\ epoch = [pc |-> "check", to |-> 1]
  /\ received = [i \in Replica |-> <<>>]
  /\ visible = [i \in Replica |-> <<>>]
  /\ sinceFlip = [i \in Replica |-> 0]
  /\ flipping = [i \in Replica |-> FALSE]
  /\ readChan = <<>>
  /\ batcher = [pc |-> "check", batch |-> <<>>]
  /\ flights = {}
  /\ reader = [r \in Readers |-> "idle"]
  /\ reply = [r \in Readers |-> NoReply]
  /\ dead = FALSE
  /\ crashed = FALSE
  /\ count = [epochs |-> 0, reads |-> 0, faults |-> 0]
  /\ acked = {}
  /\ floor = [r \in Readers |-> 0]

Highest(S) == IF S = {} THEN 0 ELSE CHOOSE n \in S : \A m \in S : m <= n

-----------------------------------------------------------------------------
(* Replicas *)

(* Replica.Write of a client write: the shard's processWrites receives it,
   which it does only between two applyWrites. *)
ReplicaWrite(i, seq) ==
  /\ ~ flipping[i]
  /\ received' = [received EXCEPT ![i] = Append(@, seq)]
  /\ sinceFlip' = [sinceFlip EXCEPT ![i] = @ + 1]
  /\ flipping' = [flipping EXCEPT ![i] = sinceFlip[i] + 1 > FlipLimit]
  /\ UNCHANGED visible

ReplicaEpoch(i) ==
  /\ ~ flipping[i]
  /\ flipping' = [flipping EXCEPT ![i] = TRUE]
  /\ UNCHANGED <<received, visible, sinceFlip>>

(* applyWrites meets the read thread of the shard. *)
Flip(i) ==
  /\ flipping[i]
  /\ visible' = [visible EXCEPT ![i] = received[i]]
  /\ sinceFlip' = [sinceFlip EXCEPT ![i] = 0]
  /\ flipping' = [flipping EXCEPT ![i] = FALSE]
  /\ UNCHANGED <<received, writeVars, epoch, readVars, dead, crashed, count>>

Fault ==
  /\ count.faults < MaxFaults
  /\ count' = [count EXCEPT !.faults = @ + 1]

-----------------------------------------------------------------------------
(* Write *)

(* Variant: the counter is read, not advanced, by concurrent calls. *)
Write_Reuse(w) ==
  /\ write[w].pc = "idle"
  /\ proposedSeqNo < MaxWrites
  /\ proposedSeqNo' = Highest(acked) + 1
  /\ write' = [write EXCEPT ![w] =
                 [IdleWrite EXCEPT !.pc = "sending", !.seq = Highest(acked) + 1]]
  /\ UNCHANGED <<acked, epoch, replicaVars, readVars, dead, crashed, count>>

Write(w) ==
  /\ write[w].pc = "idle"
  /\ proposedSeqNo < MaxWrites
  /\ proposedSeqNo' = proposedSeqNo + 1
  /\ write' = [write EXCEPT ![w] =
       [pc |-> "sending", seq |-> proposedSeqNo + 1, to |-> 1, err |-> FALSE]]
  /\ UNCHANGED <<acked, epoch, replicaVars, readVars, dead, crashed, count>>

(* Variant: only the error of the last replica is reported. *)
WriteReturned_LastError(w, failed) ==
  LET c == write[w]
  IN  IF c.to = NumReplicas
        THEN /\ write' = [write EXCEPT ![w] = IdleWrite]
             /\ acked' = IF failed THEN acked ELSE acked \cup {c.seq}
        ELSE /\ write' = [write EXCEPT ![w].to = @ + 1]
             /\ UNCHANGED acked

(* The call to replica write[w].to returned, with an error or without. *)
WriteReturned(w, failed) ==
  LET c == write[w]
      err == c.err \/ failed
  IN  IF c.to = NumReplicas
        THEN /\ write' = [write EXCEPT ![w] = IdleWrite]
             /\ acked' = IF err THEN acked ELSE acked \cup {c.seq}
        ELSE /\ write' = [write EXCEPT ![w] =
                  [pc |-> "sending", seq |-> c.seq, to |-> c.to + 1, err |-> err]]
             /\ UNCHANGED acked

SendWrite(w) ==
  /\ write[w].pc = "sending"
  /\ ReplicaWrite(write[w].to, write[w].seq)
  /\ WriteReturned(w, FALSE)
  /\ UNCHANGED <<proposedSeqNo, epoch, readVars, dead, crashed, count>>

(* The remote call fails, before or after the replica took the write. *)
SendWriteFails(w) ==
  /\ write[w].pc = "sending"
  /\ \/ ReplicaWrite(write[w].to, write[w].seq)
     \/ UNCHANGED replicaVars
  /\ WriteReturned(w, TRUE)
  /\ Fault
  /\ UNCHANGED <<proposedSeqNo, epoch, readVars, dead, crashed>>

-----------------------------------------------------------------------------
(* periodicWrite *)

EpochCheck ==
  /\ epoch.pc = "check"
  /\ epoch' = [epoch EXCEPT !.pc = IF dead THEN "exited" ELSE "wait"]
  /\ UNCHANGED <<writeVars, replicaVars, readVars, dead, crashed, count>>

(* The bound does not keep the timer from firing once more after Close. *)
EpochTick ==
  /\ epoch.pc = "wait"
  /\ count.epochs < MaxEpochs \/ dead
  /\ count' = [count EXCEPT !.epochs = @ + 1]
  /\ epoch' = [pc |-> "sending", to |-> 1]
  /\ UNCHANGED <<writeVars, replicaVars, readVars, dead, crashed>>

EpochReturned ==
  epoch' = IF epoch.to = NumReplicas THEN [pc |-> "check", to |-> 1]
                                     ELSE [epoch EXCEPT !.to = @ + 1]

(* Errors of the epoch write are ignored. *)
SendEpoch ==
  /\ epoch.pc = "sending"
  /\ EpochReturned
  /\ \/ ReplicaEpoch(epoch.to) /\ UNCHANGED count
     \/ UNCHANGED replicaVars /\ Fault
  /\ UNCHANGED <<writeVars, readVars, dead, crashed>>

-----------------------------------------------------------------------------
(* Read, batchReads and triggerBatchRead *)

Read(r) ==
  /\ reader[r] = "idle"
  /\ count.reads < MaxReads
  /\ Len(readChan) < ReadChanCapacity
  /\ count' = [count EXCEPT !.reads = @ + 1]
  /\ reader' = [reader EXCEPT ![r] = "waiting"]
  /\ readChan' = Append(readChan, r)
  /\ floor' = [floor EXCEPT ![r] = Highest(acked)]
  /\ reply' = [reply EXCEPT ![r] = NoReply]
  /\ UNCHANGED <<writeVars, replicaVars, epoch, batcher, flights, dead, crashed>>

(* Variant: the loop does not look at dead. *)
BatchCheck_NoDead ==
  /\ batcher.pc = "check"
  /\ batcher' = [batcher EXCEPT !.pc = "select"]
  /\ UNCHANGED <<writeVars, replicaVars, epoch, readChan, flights, reader,
                 reply, floor, dead, crashed, count>>

BatchCheck ==
  /\ batcher.pc = "check"
  /\ batcher' = [batcher EXCEPT !.pc = IF dead THEN "exited" ELSE "select"]
  /\ UNCHANGED <<writeVars, replicaVars, epoch, readChan, flights, reader,
                 reply, floor, dead, crashed, count>>

(* Variant: the batch is not replaced by a fresh one. *)
Trigger_KeepBatch(batch) ==
  /\ flights' = flights \cup
       {[pc |-> "range", reqs |-> batch, start |-> 0, end |-> 0, to |-> 1,
         views |-> <<>>, err |-> FALSE]}
  /\ batcher' = [pc |-> "check", batch |-> batch]

(* go fe.triggerBatchRead(batch), and a fresh batch. *)
Trigger(batch) ==
  /\ flights' = flights \cup
       {[pc |-> "range", reqs |-> batch, start |-> 0, end |-> 0, to |-> 1,
         views |-> <<>>, err |-> FALSE]}
  /\ batcher' = [pc |-> "check", batch |-> <<>>]

TakeRequest ==
  /\ batcher.pc = "select"
  /\ readChan # <<>>
  /\ readChan' = Tail(readChan)
  /\ LET batch == Append(batcher.batch, Head(readChan))
     IN  IF Len(batch) >= ReadBatch
           THEN Trigger(batch)
           ELSE batcher' = [pc |-> "check", batch |-> batch] /\ UNCHANGED flights
  /\ UNCHANGED <<writeVars, replicaVars, epoch, reader, reply, floor, dead,
                 crashed, count>>

(* Variant: a tick never sends a partly filled batch. *)
ReadTick_FullOnly ==
  /\ batcher.pc = "select"
  /\ batcher' = [batcher EXCEPT !.pc = "check"]
  /\ UNCHANGED <<writeVars, replicaVars, epoch, readChan, flights, reader, reply,
                 floor, dead, crashed, count>>

(* The read timer: a tick with an empty batch changes nothing. *)
ReadTick ==
  /\ batcher.pc = "select"
  /\ IF batcher.batch # <<>> THEN Trigger(batcher.batch)
     ELSE batcher' = [batcher EXCEPT !.pc = "check"] /\ UNCHANGED flights
  /\ UNCHANGED <<writeVars, replicaVars, epoch, readChan, reader, reply, floor,
                 dead, crashed, count>>

Becomes(f, g) == flights' = (flights \ {f}) \cup {g}

(* Variant: the last number given out is left out of the range. *)
ChooseRange_Exclusive(f) ==
  /\ f.pc = "range"
  /\ Becomes(f, [f EXCEPT !.pc = "calling", !.end = proposedSeqNo,
        !.start = IF proposedSeqNo <= WindowSize THEN 1
                                            ELSE proposedSeqNo - WindowSize])
  /\ UNCHANGED <<writeVars, replicaVars, epoch, readChan, batcher, reader,
                 reply, floor, dead, crashed, count>>

(* The window that ends with the number the next write will get. *)
WithRange(f) ==
  LET currSeqNo == proposedSeqNo + 1
  IN  [f EXCEPT !.pc = "calling", !.end = currSeqNo,
                !.start = IF currSeqNo <= WindowSize THEN 1 ELSE currSeqNo - WindowSize]

ChooseRange(f) ==
  /\ f.pc = "range"
  /\ Becomes(f, WithRange(f))
  /\ UNCHANGED <<writeVars, replicaVars, epoch, readChan, batcher, reader,
                 reply, floor, dead, crashed, count>>

(* Replica.BatchRead at replica f.to: the batch is padded to ReadBatch and
   read from what is visible there now. *)
WithReply(f) ==
  [f EXCEPT !.pc = IF f.to = NumReplicas THEN "respond" ELSE @,
            !.to = @ + 1,
            !.views = Append(@, visible[f.to])]

CallReplica(f) ==
  /\ f.pc = "calling"
  /\ Becomes(f, WithReply(f))
  /\ UNCHANGED <<writeVars, replicaVars, epoch, readChan, batcher, reader,
                 reply, floor, dead, crashed, count>>

WithError(f) == [f EXCEPT !.pc = "respond", !.err = TRUE]

CallReplicaFails(f) ==
  /\ f.pc = "calling"
  /\ Becomes(f, WithError(f))
  /\ Fault
  /\ UNCHANGED <<writeVars, replicaVars, epoch, readChan, batcher, reader,
                 reply, floor, dead, crashed>>

(* Done of request i of the batch, with the reply given. *)
Answer(f, served, rep) ==
  LET who == {f.reqs[i] : i \in served}
  IN  /\ reader' = [r \in Readers |-> IF r \in who THEN "idle" ELSE reader[r]]
      /\ reply' = [r \in Readers |-> IF r \in who THEN rep ELSE reply[r]]

(* The responses: on an error the loop breaks after its first turn; a batch
   longer than the list of replicas indexes replies[i] out of range. *)
Respond(f) ==
  /\ f.pc = "respond"
  /\ flights' = flights \ {f}
  /\ IF f.err
       THEN /\ Answer(f, {1}, [NoReply EXCEPT !.state = "error"])
            /\ UNCHANGED crashed
       ELSE /\ Answer(f, {i \in DOMAIN f.reqs : i <= NumReplicas},
                      [state |-> "ok", start |-> f.start, end |-> f.end,
                       views |-> f.views])
            /\ crashed' = (Len(f.reqs) > NumReplicas)
  /\ UNCHANGED <<writeVars, replicaVars, epoch, readChan, batcher, floor, dead,
                 count>>

Close ==
  /\ ~ dead
  /\ dead' = TRUE
  /\ UNCHANGED <<writeVars, replicaVars, epoch, readVars, crashed, count>>

-----------------------------------------------------------------------------
WriteStep(w) == SendWrite(w) \/ SendWriteFails(w)
EpochStep == EpochCheck \/ EpochTick \/ SendEpoch
BatchStep == BatchCheck \/ TakeRequest \/ ReadTick
FlightStep(f) ==
  ChooseRange(f) \/ CallReplica(f) \/ CallReplicaFails(f) \/ Respond(f)

Next ==
  /\ ~ crashed
  /\ \/ \E w \in Writers : Write(w) \/ WriteStep(w)
     \/ \E i \in Replica : Flip(i)
     \/ EpochStep
     \/ \E r \in Readers : Read(r)
     \/ BatchStep
     \/ \E f \in flights : FlightStep(f)
     \/ Close

Spec == Init /\ [][Next]_vars

(* Goroutines and replicas keep running and timers fire.  A batch takes a
   bounded number of steps, so one condition serves all that are running.
   select chooses at random among the ready cases: neither a request nor the
   timer is passed over for ever. *)
Fairness ==
  /\ \A w \in Writers : WF_vars(~ crashed /\ WriteStep(w))
  /\ \A i \in Replica : WF_vars(~ crashed /\ Flip(i))
  /\ WF_vars(~ crashed /\ EpochStep)
  /\ WF_vars(~ crashed /\ BatchCheck)
  /\ SF_vars(~ crashed /\ TakeRequest)
  /\ SF_vars(~ crashed /\ ReadTick)
  /\ WF_vars(~ crashed /\ \E f \in flights : FlightStep(f))

FairSpec == Spec /\ Fairness

-----------------------------------------------------------------------------
(* A write whose call returned without error was received by every replica,
   whatever failed in between (frontend.go:102-111). *)
AckedEverywhere == \A i \in Replica : acked \subseteq Range(received[i])

(* With no write under way and no failed call, the replicas hold the same
   writes, each once, however the calls were interleaved. *)
ReplicasConverge ==
  count.faults = 0 /\ (\A w \in Writers : write[w].pc = "idle") =>
    \A i \in Replica : /\ Range(received[i]) = 1 .. proposedSeqNo
                       /\ Len(received[i]) = proposedSeqNo

(* How many times a request is held by the batcher and its batches. *)
Places(r) ==
  Cardinality({i \in DOMAIN readChan : readChan[i] = r})
  + Cardinality({i \in DOMAIN batcher.batch : batcher.batch[i] = r})
  + Cardinality({f \in flights : r \in Range(f.reqs)})

(* Every request a caller waits for is in exactly one place: the channel, the
   batch being filled or a running batch; only a failed batch or a panic forgets
   it (frontend.go:214-238, 284-300). *)
RequestHeldOnce ==
  \A r \in Readers :
    /\ reader[r] = "idle" => Places(r) = 0
    /\ reader[r] = "waiting" /\ count.faults = 0 /\ ~ crashed => Places(r) = 1

(* The range of a reply is a window ending after every write acknowledged
   before the read was issued (frontend.go:254-260). *)
RangeCoversAcked ==
  \A r \in Readers : reply[r].state = "ok" =>
    /\ reply[r].start >= 1 /\ reply[r].start <= reply[r].end
    /\ reply[r].end - reply[r].start <= WindowSize
    /\ floor[r] < reply[r].end

(* Without failures and before Close every Read returns. *)
ReadsAnswered ==
  \A r \in Readers :
    reader[r] = "waiting" ~> (reader[r] = "idle" \/ dead \/ count.faults > 0)

(* After Close both loops end (frontend.go:72-75). *)
CloseStopsLoops ==
  dead ~> (batcher.pc = "exited" /\ epoch.pc = "exited")

-----------------------------------------------------------------------------
(* What the source says of the frontend and the code does not keep. *)

(* frontend.go:64 "Batch incoming reads into combined requests": a full batch
   is answered without a panic. *)
NoPanic == ~ crashed

=============================================================================
