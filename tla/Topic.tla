------------------------------- MODULE Topic -------------------------------
(***************************************************************************)
(* A topic, its publishers and its readers (libtalek/topic.go, handle.go,  *)
(* cli/talekclient/main.go).  A publisher is a goroutine of the writing    *)
(* process in Client.Publish.  A reader is a file with a handle, and from  *)
(* time to time a process that polls it.                                   *)
(*                                                                         *)
(* The servers are what the readers can fetch: the last Window writes,     *)
(* each in one of its two buckets; a later write may move it to the other. *)
(* Shard.tla and Frontend.tla have the detail.                             *)
(***************************************************************************)
EXTENDS Message, FiniteSets

CONSTANTS
  Publisher,     \* goroutines that publish to the topic
  Reader,
  BucketsAt(_),  \* nextBuckets: the two buckets of a position
  Cover,         \* a write of another client, or a random one
  Lengths,       \* lengths of messages
  Window,        \* writes the servers keep
  MaxMessages,   \* bound: messages published
  MaxCovers,     \* bound: writes of others
  MaxFaults,     \* bound: writes lost and reads failed
  MaxSessions    \* bound: times a reader's process is started

ASSUME TopicParams ==
  /\ Window \in Nat \ {0} /\ Lengths \subseteq Nat \ {0}
  /\ {MaxMessages, MaxCovers, MaxFaults, MaxSessions} \subseteq Nat

VARIABLES
  seqno,      \* Seqno of the topic
  pub,        \* per publisher: pc, fragments left, the write being made
  queue,      \* writes on their way to the servers, in order
  store,      \* writes a read can find, oldest first, each with its bucket
  handle,     \* per reader: pc, Seqno, partialMessage, buckets of the poll
  saved,      \* per reader: the file
  count,      \* bounds: covers and faults so far, sessions per reader
  published,  \* history: messages, with the position of their first fragment
  out         \* history: per reader, what it received on updates

vars == <<seqno, pub, queue, store, handle, saved, count, published, out>>

topicVars == <<seqno, pub, queue, published>>
readerVars == <<handle, saved, out>>

NoWrite == [at |-> 0, nonce |-> 0, part |-> Cover]

Idle == [pc |-> "idle", parts |-> <<>>, args |-> NoWrite, old |-> 0]

(* A handle read from a file, which has no partialMessage. *)
UnmarshalText(s) ==
  [pc |-> "poll", seqno |-> s, partial |-> NoMessage, buckets |-> <<>>, received |-> FALSE]

(* NewTopic, and a handle shared with nobody yet. *)
Init ==
  /\ seqno = 0
  /\ pub = [p \in Publisher |-> Idle]
  /\ queue = <<>> /\ store = <<>>
  /\ handle = [r \in Reader |-> [UnmarshalText(0) EXCEPT !.pc = "unshared"]]
  /\ saved = [r \in Reader |-> 0]
  /\ count = [covers |-> 0, faults |-> 0, sessions |-> [r \in Reader |-> 0]]
  /\ published = <<>>
  /\ out = [r \in Reader |-> <<>>]

-----------------------------------------------------------------------------
(* Publish: Split, then for every fragment GeneratePublish, whose reads of
   Seqno are steps of their own, and the send on pendingWrites. *)
Publish(p, len) ==
  LET contents == [i \in 1 .. len |-> <<Len(published) + 1, i>>] IN
  /\ pub[p].pc = "idle" /\ Len(published) < MaxMessages
  /\ published' = Append(published, [start |-> seqno, contents |-> contents])
  /\ pub' = [pub EXCEPT ![p].pc = "buckets", ![p].parts = Split(contents)]
  /\ UNCHANGED <<seqno, queue, store, count, readerVars>>

(* nextBuckets. *)
NextBuckets(p) ==
  /\ pub[p].pc = "buckets"
  /\ pub' = [pub EXCEPT ![p].pc = "nonce", ![p].args.at = seqno]
  /\ UNCHANGED <<seqno, queue, store, count, published, readerVars>>

(* The nonce. *)
Nonce(p) ==
  /\ pub[p].pc = "nonce"
  /\ pub' = [pub EXCEPT ![p].pc = "load", ![p].args.nonce = seqno]
  /\ UNCHANGED <<seqno, queue, store, count, published, readerVars>>

(* nextInterestVector, and the first half of Seqno++. *)
Load(p) ==
  /\ pub[p].pc = "load"
  /\ pub' = [pub EXCEPT ![p].pc = "advance", ![p].old = seqno]
  /\ UNCHANGED <<seqno, queue, store, count, published, readerVars>>

(* The second half. *)
Advance(p) ==
  /\ pub[p].pc = "advance"
  /\ seqno' = pub[p].old + 1
  /\ pub' = [pub EXCEPT ![p].pc = "send"]
  /\ UNCHANGED <<queue, store, count, published, readerVars>>

(* encrypt and pendingWrites <- writeArgs. *)
Send(p) ==
  /\ pub[p].pc = "send"
  /\ queue' = Append(queue, [pub[p].args EXCEPT !.part = Head(pub[p].parts)])
  /\ pub' = [pub EXCEPT ![p] = [Idle EXCEPT !.pc = IF Len(pub[p].parts) = 1 THEN @ ELSE "buckets",
                                           !.parts = Tail(pub[p].parts)]]
  /\ UNCHANGED <<seqno, store, count, published, readerVars>>

-----------------------------------------------------------------------------
(* The servers. *)

Latest(s) == SubSeq(s, IF Len(s) > Window THEN Len(s) - Window + 1 ELSE 1, Len(s))

(* A write is placed in one of its buckets, and may push another write to its
   other bucket. *)
Insert(w) ==
  /\ \E b \in {1, 2}, moved \in 0 .. Len(store) :
       store' = Latest(Append([i \in DOMAIN store |->
                                IF i = moved THEN [store[i] EXCEPT !.bucket = 3 - @]
                                             ELSE store[i]],
                              [write |-> w, bucket |-> b]))

Arrive ==
  /\ queue # <<>>
  /\ Insert(Head(queue))
  /\ queue' = Tail(queue)
  /\ UNCHANGED <<seqno, pub, count, published, readerVars>>

CoverArrives ==
  /\ count.covers < MaxCovers
  /\ Insert(NoWrite)
  /\ count' = [count EXCEPT !.covers = @ + 1]
  /\ UNCHANGED <<topicVars, readerVars>>

(* leader.Write fails, and is not repeated; or the process ends first. *)
Lose ==
  /\ queue # <<>> /\ count.faults < MaxFaults
  /\ queue' = Tail(queue)
  /\ count' = [count EXCEPT !.faults = @ + 1]
  /\ UNCHANGED <<seqno, pub, published, store, readerVars>>

(* What a read of bucket b returns. *)
Bucket(b) ==
  {w \in {store[i].write : i \in DOMAIN store} :
    \E i \in DOMAIN store : store[i].write = w /\ w.part # Cover
                            /\ BucketsAt(w.at)[store[i].bucket] = b}

-----------------------------------------------------------------------------
(* A process that does not run; its next handle. *)
Down(s) == [UnmarshalText(s) EXCEPT !.pc = "down"]

(* The topic's handle, with its Seqno of the moment, is written to a file. *)
Share(r) ==
  /\ handle[r].pc = "unshared"
  /\ saved' = [saved EXCEPT ![r] = seqno]
  /\ handle' = [handle EXCEPT ![r] = Down(seqno)]
  /\ UNCHANGED <<topicVars, store, count, out>>

Open(r) ==
  /\ handle[r].pc = "down" /\ count.sessions[r] < MaxSessions
  /\ handle' = [handle EXCEPT ![r] = UnmarshalText(saved[r])]
  /\ count' = [count EXCEPT !.sessions[r] = @ + 1]
  /\ UNCHANGED <<topicVars, store, saved, out>>

(* nextRequest: both buckets of the position the handle is at. *)
GeneratePoll(r) ==
  /\ handle[r].pc = "poll"
  /\ handle' = [handle EXCEPT ![r].pc = "read", ![r].buckets = BucketsAt(handle[r].seqno)]
  /\ UNCHANGED <<topicVars, store, saved, count, out>>

(* Variant: the nonce is not compared. *)
Decrypts_AnyNonce(h, w) == TRUE

(* Decrypt: a write of this topic made with the nonce of Seqno. *)
Decrypts(h, w) == w.nonce = h.seqno

(* OnResponse up to the send on updates, for a fragment that was found. *)
OnResponse(h, msg) == [h EXCEPT !.seqno = @ + 1, !.partial = Join(@, msg)]

(* Variant: the second bucket is not read. *)
AfterRead_Once(h) == [h EXCEPT !.buckets = <<>>, !.pc = "poll"]

(* Where the read thread goes after a response: the second bucket, or a new
   poll. *)
AfterRead(h) ==
  [h EXCEPT !.buckets = Tail(@), !.pc = IF Len(h.buckets) = 1 THEN "poll" ELSE "read"]

(* A read of the poll and OnResponse; both reads use the Seqno of the moment. *)
Read(r) ==
  LET h == handle[r]
      found == {w \in Bucket(Head(h.buckets)) : Decrypts(h, w)} IN
  /\ h.pc = "read"
  /\ \/ /\ found = {}
        /\ handle' = [handle EXCEPT ![r] = AfterRead(h)]
     \/ \E w \in found :
          handle' = [handle EXCEPT ![r] =
            IF Completes(h.partial, w.part) THEN [OnResponse(h, w.part) EXCEPT !.pc = "deliver"]
                                            ELSE AfterRead(OnResponse(h, w.part))]
  /\ UNCHANGED <<topicVars, store, saved, count, out>>

(* A read that fails returns no data. *)
ReadFails(r) ==
  /\ handle[r].pc = "read" /\ count.faults < MaxFaults
  /\ handle' = [handle EXCEPT ![r] = AfterRead(@)]
  /\ count' = [count EXCEPT !.faults = @ + 1]
  /\ UNCHANGED <<topicVars, store, saved, out>>

(* updates <- Retrieve(), and a new partialMessage. *)
Deliver(r) ==
  /\ handle[r].pc = "deliver"
  /\ out' = [out EXCEPT ![r] = Append(@, handle[r].partial.contents)]
  /\ handle' = [handle EXCEPT ![r] = AfterRead([@ EXCEPT !.partial = NoMessage, !.received = TRUE])]
  /\ UNCHANGED <<topicVars, store, saved, count>>

(* talekclient is done: Done, MarshalText and WriteFile, while the read thread is
   anywhere. *)
Close(r) ==
  /\ handle[r].pc \in {"poll", "read", "deliver"}
  /\ saved' = [saved EXCEPT ![r] = handle[r].seqno]
  /\ handle' = [handle EXCEPT ![r] = Down(handle[r].seqno)]
  /\ UNCHANGED <<topicVars, store, count, out>>

(* talekclient saw no message in time and ends without writing the file. *)
Timeout(r) ==
  /\ handle[r].pc \in {"poll", "read", "deliver"} /\ ~ handle[r].received
  /\ handle' = [handle EXCEPT ![r] = Down(saved[r])]
  /\ UNCHANGED <<topicVars, store, saved, count, out>>

-----------------------------------------------------------------------------
ReaderStep(r) == GeneratePoll(r) \/ Read(r) \/ Deliver(r)

Next ==
  \/ \E p \in Publisher :
       (\E len \in Lengths : Publish(p, len)) \/ NextBuckets(p) \/ Nonce(p)
         \/ Load(p) \/ Advance(p) \/ Send(p)
  \/ Arrive \/ CoverArrives \/ Lose
  \/ \E r \in Reader : Share(r) \/ Open(r) \/ ReaderStep(r) \/ ReadFails(r)
                        \/ Close(r) \/ Timeout(r)

Spec == Init /\ [][Next]_vars

(* The read thread of a process that polls keeps reading. *)
FairSpec == Spec /\ \A r \in Reader : WF_vars(ReaderStep(r))

-----------------------------------------------------------------------------
(* Positions a bounded behaviour can reach. *)
Position == 0 .. MaxMessages * NumParts(CHOOSE m \in Lengths : \A n \in Lengths : n <= m)

(* Index of the message a reader is given next: the one it has begun, or the
   first that starts at its Seqno or later. *)
NextIndex(h) ==
  Cardinality({k \in DOMAIN published : published[k].start < h.seqno})
    + IF h.partial.receivedEnd > 0 THEN 0 ELSE 1

(* Messages a bounded behaviour can publish. *)
Messages == {[i \in 1 .. len |-> <<k, i>>] : len \in Lengths, k \in 1 .. MaxMessages}

Log == INSTANCE TopicLog WITH
  Contents <- Messages,
  log <- [k \in DOMAIN published |-> published[k].contents],
  next <- [r \in Reader |-> NextIndex(handle[r])],
  open <- [r \in Reader |-> handle[r].pc \in {"poll", "read", "deliver"}]

(* With one publisher a topic is a log: readers are given whole messages, in
   order, none twice and, while the handle is polled, none left out, whatever is
   lost, moved or pushed out (message.go:88-102, handle.go:161-211,
   topic.go:79-107, talekclient/main.go:110-146). *)
LogSpec == Log!Spec

(* A handle never gets ahead of the topic, where it would wait for a position
   that is not written next (handle.go:164, topic.go:89). *)
BehindTopic == \A r \in Reader : handle[r].seqno <= seqno /\ saved[r] <= handle[r].seqno

(* A reader whose process keeps polling stays at a position only as long as no
   read can find it: lost, not yet written, or pushed out of the window
   (client.go:371-392, handle.go:161-211). *)
StoredIsRead ==
  \A r \in Reader : \A n \in Position :
    <>[](handle[r].pc \in {"poll", "read", "deliver"} /\ handle[r].seqno = n) =>
      <>[](\A i \in DOMAIN store : store[i].write.part # Cover => store[i].write.nonce # n)

=============================================================================
