---------------------------- MODULE TopicProofs ----------------------------
(***************************************************************************)
(* A handle stays behind its topic, and a topic is a log (TopicLog.tla):   *)
(* proved for every window, any buckets, lengths of messages and of        *)
(* fragments, any number of readers and restarts, whatever writes and      *)
(* reads are lost, for a topic that one goroutine publishes to.            *)
(***************************************************************************)
EXTENDS Topic, FiniteSetTheorems, TLAPS

(* A sequence, whatever its elements are. *)
IsSeq(s) == Len(s) \in Nat /\ s = [i \in 1 .. Len(s) |-> s[i]]

(* t is a sequence of elements of s, and perhaps x. *)
TakenFrom(t, s, x) ==
  IsSeq(t) /\ \A i \in DOMAIN t : t[i] = x \/ (\E j \in DOMAIN s : t[i] = s[j])

(* What the model does to its sequences. *)
LEMMA SequenceSteps ==
  ASSUME NEW s, IsSeq(s), NEW x
  PROVE  /\ DOMAIN s = 1 .. Len(s)
         /\ TakenFrom(Append(s, x), s, x)
         /\ s # <<>> => TakenFrom(Tail(s), s, x) /\ 1 \in DOMAIN s /\ Head(s) = s[1]
         /\ \A k \in 1 .. Len(s) + 1 : TakenFrom(SubSeq(s, k, Len(s)), s, x)
<1> DEFINE S == {s[i] : i \in 1 .. Len(s)} \cup {x}
<1>1. s \in Seq(S) /\ x \in S
  BY DEF IsSeq
<1>2. DOMAIN s = 1 .. Len(s) /\ Len(s) \in Nat
  BY DEF IsSeq
<1>3. ASSUME NEW t \in Seq(S) PROVE TakenFrom(t, s, x)
  <2>1. IsSeq(t)
    BY DEF IsSeq
  <2>2. ASSUME NEW i \in DOMAIN t PROVE t[i] \in S
    OBVIOUS
  <2>3. ASSUME NEW i \in DOMAIN t PROVE t[i] = x \/ (\E j \in DOMAIN s : t[i] = s[j])
    BY <1>2, <2>2
  <2> QED
    BY <2>1, <2>3 DEF TakenFrom
<1> HIDE DEF S
<1>4. Append(s, x) \in Seq(S)
  BY <1>1
<1>5. s # <<>> => Tail(s) \in Seq(S) /\ 1 \in DOMAIN s /\ Head(s) = s[1]
  BY <1>1
<1>6. ASSUME NEW k \in 1 .. Len(s) + 1 PROVE SubSeq(s, k, Len(s)) \in Seq(S)
  BY <1>1
<1> QED
  BY <1>2, <1>3, <1>4, <1>5, <1>6, Zenon

-----------------------------------------------------------------------------
(* A handle, as far as its position goes. *)
IsHandle(h) == "seqno" \in DOMAIN h /\ h.seqno \in Nat

(* A write whose position the topic has passed. *)
Passed(w) == w.part = Cover \/ (w.nonce \in Nat /\ w.nonce < seqno)

IsStored(e) == "write" \in DOMAIN e

(* Publisher p has taken its nonce from the Seqno it is about to leave, or has
   left. *)
PubInv(p) ==
  /\ {"pc", "args", "old"} \subseteq DOMAIN pub[p]
  /\ {"nonce", "part"} \subseteq DOMAIN pub[p].args
  /\ pub[p].pc \in {"load", "advance"} => pub[p].args.nonce = seqno
  /\ pub[p].pc = "advance" => pub[p].old = seqno
  /\ pub[p].pc = "send" => pub[p].args.nonce \in Nat /\ pub[p].args.nonce < seqno

(* The inductive form of BehindTopic: writes on their way and in the servers are
   at positions the topic has passed, so reading one does not overtake it. *)
BehindInv ==
  /\ seqno \in Nat
  /\ DOMAIN pub = Publisher /\ \A p \in Publisher : PubInv(p)
  /\ IsSeq(queue) /\ \A i \in DOMAIN queue : Passed(queue[i])
  /\ IsSeq(store) /\ \A i \in DOMAIN store : IsStored(store[i]) /\ Passed(store[i].write)
  /\ DOMAIN handle = Reader /\ DOMAIN saved = Reader
  /\ \A r \in Reader :
       /\ IsHandle(handle[r]) /\ handle[r].seqno <= seqno
       /\ saved[r] \in Nat /\ saved[r] <= handle[r].seqno

(* A handle made from a file is at the position of the file. *)
LEMMA NewHandle ==
  ASSUME NEW s \in Nat
  PROVE  /\ IsHandle(UnmarshalText(s)) /\ UnmarshalText(s).seqno = s
         /\ IsHandle(Down(s)) /\ Down(s).seqno = s
<1>1. IsHandle(UnmarshalText(s)) /\ UnmarshalText(s).seqno = s
  BY DEF IsHandle, UnmarshalText
<1> QED
  BY <1>1 DEF IsHandle, Down

(* The read thread moves a handle by the fragment it found, and by nothing else. *)
LEMMA HandleMoves ==
  ASSUME NEW h, IsHandle(h), NEW m
  PROVE  /\ IsHandle(AfterRead(h)) /\ AfterRead(h).seqno = h.seqno
         /\ IsHandle(OnResponse(h, m)) /\ OnResponse(h, m).seqno = h.seqno + 1
         /\ IsHandle([h EXCEPT !.pc = "deliver"]) /\ [h EXCEPT !.pc = "deliver"].seqno = h.seqno
         /\ IsHandle([h EXCEPT !.partial = NoMessage, !.received = TRUE])
         /\ [h EXCEPT !.partial = NoMessage, !.received = TRUE].seqno = h.seqno
<1>1. IsHandle(AfterRead(h)) /\ AfterRead(h).seqno = h.seqno
  BY DEF IsHandle, AfterRead
<1>2. IsHandle(OnResponse(h, m)) /\ OnResponse(h, m).seqno = h.seqno + 1
  BY DEF IsHandle, OnResponse
<1>3. IsHandle([h EXCEPT !.pc = "deliver"]) /\ [h EXCEPT !.pc = "deliver"].seqno = h.seqno
  BY DEF IsHandle
<1>4. /\ IsHandle([h EXCEPT !.partial = NoMessage, !.received = TRUE])
      /\ [h EXCEPT !.partial = NoMessage, !.received = TRUE].seqno = h.seqno
  BY DEF IsHandle
<1> QED
  BY <1>1, <1>2, <1>3, <1>4

(* A new topic is at position 0 and has written nothing (topic.go:37-75). *)
LEMMA BehindInit == Init => BehindInv
<1> SUFFICES ASSUME Init PROVE BehindInv
  OBVIOUS
<1>1. seqno = 0 /\ queue = <<>> /\ store = <<>> /\ pub = [p \in Publisher |-> Idle]
      /\ saved = [r \in Reader |-> 0]
  BY DEF Init
<1>2. ASSUME NEW r \in Reader
      PROVE  IsHandle(handle[r]) /\ handle[r].seqno = 0
  BY <1>2 DEF Init, IsHandle, UnmarshalText
<1>3. DOMAIN handle = Reader
  BY DEF Init
<1>4. IsSeq(<<>>)
  BY DEF IsSeq
<1>5. ASSUME NEW p \in Publisher PROVE PubInv(p)
  BY <1>1, <1>5 DEF PubInv, Idle, NoWrite
<1> QED
  BY <1>1, <1>2, <1>3, <1>4, <1>5 DEF BehindInv

(* Steps of the publisher that do not move the topic. *)
LEMMA PublisherWaits ==
  ASSUME BehindInv, NEW p \in Publisher, DOMAIN pub' = Publisher,
         PubInv(p)', \A q \in Publisher \ {p} : pub'[q] = pub[q],
         UNCHANGED <<seqno, store, handle, saved>>,
         IsSeq(queue'), \A i \in DOMAIN queue' : Passed(queue'[i])
  PROVE  BehindInv'
<1>1. ASSUME NEW q \in Publisher PROVE PubInv(q)'
  <2>1. CASE q = p
    BY <2>1
  <2>2. CASE q # p
    BY <2>2 DEF PubInv, BehindInv
  <2> QED
    BY <2>1, <2>2
<1>2. \A w : Passed(w)' <=> Passed(w)
  BY DEF Passed
<1> QED
  BY <1>1, <1>2 DEF BehindInv, IsSeq, IsStored, IsHandle

(* Steps of the servers. *)
LEMMA ServersKeep ==
  ASSUME BehindInv, UNCHANGED <<seqno, pub, handle, saved>>,
         IsSeq(queue'), \A i \in DOMAIN queue' : Passed(queue'[i]),
         IsSeq(store'), \A i \in DOMAIN store' : IsStored(store'[i]) /\ Passed(store'[i].write)
  PROVE  BehindInv'
<1>1. \A w : Passed(w)' <=> Passed(w)
  BY DEF Passed
<1>2. ASSUME NEW q \in Publisher PROVE PubInv(q)'
  BY DEF PubInv, BehindInv
<1> QED
  BY <1>1, <1>2 DEF BehindInv, IsSeq, IsStored, IsHandle

(* Steps of reader r: the handle may move to a position the topic has passed. *)
LEMMA ReaderKeeps ==
  ASSUME BehindInv, NEW r \in Reader, UNCHANGED <<seqno, pub, queue, store>>,
         DOMAIN handle' = Reader, DOMAIN saved' = Reader,
         \A q \in Reader \ {r} : handle'[q] = handle[q] /\ saved'[q] = saved[q],
         IsHandle(handle'[r]), handle'[r].seqno <= seqno,
         saved'[r] \in Nat, saved'[r] <= handle'[r].seqno
  PROVE  BehindInv'
<1>1. \A w : Passed(w)' <=> Passed(w)
  BY DEF Passed
<1>2. ASSUME NEW q \in Publisher PROVE PubInv(q)'
  BY DEF PubInv, BehindInv
<1>3. ASSUME NEW q \in Reader
      PROVE  /\ IsHandle(handle'[q]) /\ handle'[q].seqno <= seqno'
             /\ saved'[q] \in Nat /\ saved'[q] <= handle'[q].seqno
  BY DEF BehindInv
<1> QED
  BY <1>1, <1>2, <1>3 DEF BehindInv, IsSeq, IsStored, IsHandle

(* Publish and the first three steps of GeneratePublish (topic.go:79-88). *)
LEMMA PublisherStep ==
  ASSUME BehindInv, NEW p \in Publisher,
         (\E len \in Lengths : Publish(p, len)) \/ NextBuckets(p) \/ Nonce(p) \/ Load(p)
  PROVE  BehindInv'
<1>1. PubInv(p) /\ DOMAIN pub = Publisher
  BY DEF BehindInv
<1>2. UNCHANGED <<seqno, queue, store, handle, saved>>
  BY Zenon DEF Publish, NextBuckets, Nonce, Load, readerVars
<1>3. IsSeq(queue') /\ \A i \in DOMAIN queue' : Passed(queue'[i])
  BY <1>2 DEF BehindInv
<1>4. DOMAIN pub' = Publisher /\ \A q \in Publisher \ {p} : pub'[q] = pub[q]
  BY <1>1, Zenon DEF Publish, NextBuckets, Nonce, Load
<1>5. PubInv(p)'
  <2>1. CASE \E len \in Lengths : Publish(p, len)
    <3>1. PICK parts : pub' = [pub EXCEPT ![p].pc = "buckets", ![p].parts = parts]
      BY <2>1 DEF Publish
    <3>2. pub'[p] = [pub[p] EXCEPT !.pc = "buckets", !.parts = parts]
      BY <1>1, <3>1
    <3>3. pub'[p].pc = "buckets" /\ DOMAIN pub'[p] = DOMAIN pub[p] /\ pub'[p].args = pub[p].args
      BY <1>1, <3>2 DEF PubInv
    <3> QED
      BY <1>1, <3>3 DEF PubInv
  <2>2. CASE NextBuckets(p)
    BY <1>1, <2>2 DEF NextBuckets, PubInv
  <2>3. CASE Nonce(p)
    BY <1>1, <2>3 DEF Nonce, PubInv
  <2>4. CASE Load(p)
    BY <1>1, <2>4 DEF Load, PubInv
  <2> QED
    BY <2>1, <2>2, <2>3, <2>4
<1> QED
  BY <1>2, <1>3, <1>4, <1>5, PublisherWaits

(* Seqno++ with no other publisher: every write stays behind (topic.go:89). *)
LEMMA AdvanceStep ==
  ASSUME BehindInv, NEW p, Publisher = {p}, Advance(p)
  PROVE  BehindInv'
<1>1. PubInv(p) /\ DOMAIN pub = {p} /\ seqno \in Nat
  BY DEF BehindInv
<1>2. /\ pub[p].pc = "advance" /\ seqno' = seqno + 1
      /\ pub' = [pub EXCEPT ![p].pc = "send"]
      /\ UNCHANGED <<queue, store, handle, saved>>
  BY <1>1 DEF Advance, PubInv, readerVars
<1>3. PubInv(p)'
  BY <1>1, <1>2 DEF PubInv
<1>4. \A w : Passed(w) => Passed(w)'
  BY <1>1, <1>2 DEF Passed
<1>5. ASSUME NEW r \in Reader PROVE handle[r].seqno <= seqno'
  BY <1>1, <1>2 DEF BehindInv, IsHandle
<1>6. DOMAIN pub' = Publisher
  BY <1>1, <1>2
<1> QED
  BY <1>1, <1>2, <1>3, <1>4, <1>5, <1>6 DEF BehindInv, IsSeq, IsStored, IsHandle

(* The write goes out with the nonce of a position that is passed (topic.go:90-94). *)
LEMMA SendStep ==
  ASSUME BehindInv, NEW p \in Publisher, Send(p)
  PROVE  BehindInv'
<1> DEFINE w == [pub[p].args EXCEPT !.part = Head(pub[p].parts)]
<1>1. PubInv(p) /\ DOMAIN pub = Publisher /\ pub[p].pc = "send"
  BY DEF BehindInv, Send
<1>2. queue' = Append(queue, w) /\ UNCHANGED <<seqno, store, handle, saved>>
  BY DEF Send, readerVars
<1>3. Passed(w)
  BY <1>1 DEF PubInv, Passed
<1> HIDE DEF w
<1>4. TakenFrom(queue', queue, w)
  BY <1>2, SequenceSteps DEF BehindInv
<1>5. IsSeq(queue') /\ \A i \in DOMAIN queue' : Passed(queue'[i])
  BY <1>3, <1>4 DEF TakenFrom, BehindInv
<1>6. DOMAIN pub' = Publisher /\ \A q \in Publisher \ {p} : pub'[q] = pub[q]
  BY <1>1 DEF Send
<1>7. PubInv(p)'
  BY <1>1 DEF Send, PubInv, Idle, NoWrite
<1> QED
  BY <1>2, <1>5, <1>6, <1>7, PublisherWaits

(* After a write the store holds it and writes it had before (shard.go:188-201). *)
LEMMA InsertTakes ==
  ASSUME IsSeq(store), \A i \in DOMAIN store : IsStored(store[i]), NEW w, Insert(w)
  PROVE  /\ IsSeq(store')
         /\ \A i \in DOMAIN store' :
              /\ IsStored(store'[i])
              /\ store'[i].write = w \/ (\E k \in DOMAIN store : store'[i].write = store[k].write)
<1>1. PICK b \in {1, 2}, moved \in 0 .. Len(store) :
        store' = Latest(Append([i \in DOMAIN store |->
                                 IF i = moved THEN [store[i] EXCEPT !.bucket = 3 - @]
                                              ELSE store[i]],
                               [write |-> w, bucket |-> b]))
  BY Zenon DEF Insert
<1> DEFINE pushed == [i \in DOMAIN store |->
                       IF i = moved THEN [store[i] EXCEPT !.bucket = 3 - @] ELSE store[i]]
           new == [write |-> w, bucket |-> b]
           all == Append(pushed, new)
           Old(x) == \E k \in DOMAIN store : x = store[k].write
           Good(e) == IsStored(e) /\ (e.write = w \/ Old(e.write))
<1>2. Good(new)
  BY DEF IsStored
<1>3. ASSUME NEW i \in DOMAIN store PROVE Good(pushed[i])
  <2>1. IsStored(pushed[i]) /\ pushed[i].write = store[i].write
    BY DEF IsStored
  <2> QED
    BY <2>1, Zenon
<1>4. DOMAIN pushed = DOMAIN store /\ IsSeq(pushed)
  <2>1. DOMAIN store = 1 .. Len(store) /\ Len(store) \in Nat
    BY DEF IsSeq
  <2> QED
    BY <2>1 DEF IsSeq
<1> HIDE DEF pushed, new, Good
<1>5. TakenFrom(all, pushed, new)
  BY <1>4, SequenceSteps
<1>6. IsSeq(all) /\ \A i \in DOMAIN all : Good(all[i])
  BY <1>2, <1>3, <1>4, <1>5 DEF TakenFrom
<1>7. store' = Latest(all)
  BY <1>1 DEF pushed, new
<1> HIDE DEF all
<1>8. PICK k \in 1 .. Len(all) + 1 : store' = SubSeq(all, k, Len(all))
  <2> DEFINE k == IF Len(all) > Window THEN Len(all) - Window + 1 ELSE 1
  <2>1. Len(all) \in Nat /\ Window \in Nat
    BY <1>6, TopicParams DEF IsSeq
  <2>2. k \in 1 .. Len(all) + 1
    BY <2>1
  <2>3. store' = SubSeq(all, k, Len(all))
    BY <1>7 DEF Latest
  <2> QED
    BY <2>2, <2>3, Zenon
<1>9. TakenFrom(store', all, new)
  BY <1>6, <1>8, SequenceSteps, Zenon
<1>10. IsSeq(store') /\ \A i \in DOMAIN store' : Good(store'[i])
  BY <1>2, <1>6, <1>9 DEF TakenFrom
<1> QED
  BY <1>10, Zenon DEF Good

(* A write arrives, pushes others aside and out; or it is lost (shard.go:188-201,
   client.go:230-233). *)
LEMMA ServerStep ==
  ASSUME BehindInv, Arrive \/ CoverArrives \/ Lose
  PROVE  BehindInv'
<1>1. IsSeq(queue) /\ IsSeq(store) /\ \A i \in DOMAIN queue : Passed(queue[i])
  BY DEF BehindInv
<1>2. UNCHANGED <<seqno, pub, handle, saved>>
  BY DEF Arrive, CoverArrives, Lose, topicVars, readerVars
<1>3. queue' = queue \/ (queue # <<>> /\ queue' = Tail(queue))
  BY DEF Arrive, CoverArrives, Lose, topicVars
<1>4. IsSeq(queue') /\ \A i \in DOMAIN queue' : Passed(queue'[i])
  <2>1. CASE queue' = queue
    BY <1>1, <2>1
  <2>2. CASE queue # <<>> /\ queue' = Tail(queue)
    <3>1. TakenFrom(queue', queue, queue[1]) /\ 1 \in DOMAIN queue
      BY <1>1, <2>2, SequenceSteps
    <3> QED
      BY <1>1, <3>1 DEF TakenFrom
  <2> QED
    BY <1>3, <2>1, <2>2
<1>5. ASSUME NEW w, Passed(w), Insert(w)
      PROVE  IsSeq(store') /\ \A i \in DOMAIN store' : IsStored(store'[i]) /\ Passed(store'[i].write)
  <2>1. /\ IsSeq(store')
        /\ \A i \in DOMAIN store' :
             /\ IsStored(store'[i])
             /\ store'[i].write = w \/ (\E k \in DOMAIN store : store'[i].write = store[k].write)
    BY <1>5, InsertTakes, Zenon DEF BehindInv
  <2> QED
    BY <1>5, <2>1, Zenon DEF BehindInv
<1>6. CASE Arrive
  <2>1. queue # <<>> /\ Insert(Head(queue))
    BY <1>6 DEF Arrive
  <2>2. Passed(Head(queue))
    BY <1>1, <2>1, SequenceSteps
  <2> QED
    BY <1>2, <1>4, <1>5, <2>1, <2>2, ServersKeep
<1>7. CASE CoverArrives
  <2>1. Passed(NoWrite) /\ Insert(NoWrite)
    BY <1>7 DEF CoverArrives, Passed, NoWrite
  <2> QED
    BY <1>2, <1>4, <1>5, <2>1, ServersKeep
<1>8. CASE Lose
  <2>1. store' = store
    BY <1>8 DEF Lose
  <2> QED
    BY <1>2, <1>4, <2>1, ServersKeep DEF BehindInv
<1> QED
  BY <1>6, <1>7, <1>8

(* Sessions of a reader (talekclient/main.go:47-73, 110-147). *)
LEMMA SessionStep ==
  ASSUME BehindInv, NEW r \in Reader, Share(r) \/ Open(r) \/ Close(r) \/ Timeout(r)
  PROVE  BehindInv'
<1>1. UNCHANGED <<seqno, pub, queue, store>>
  BY DEF Share, Open, Close, Timeout, topicVars
<1>2. /\ DOMAIN handle = Reader /\ DOMAIN saved = Reader /\ seqno \in Nat
      /\ IsHandle(handle[r]) /\ handle[r].seqno \in Nat /\ handle[r].seqno <= seqno
      /\ saved[r] \in Nat /\ saved[r] <= handle[r].seqno
  BY DEF BehindInv, IsHandle
<1>3. ASSUME NEW s \in Nat, s <= seqno, NEW h, IsHandle(h), h.seqno = s,
             handle' = [handle EXCEPT ![r] = h], DOMAIN saved' = Reader, saved'[r] = s,
             \A q \in Reader \ {r} : saved'[q] = saved[q]
      PROVE  BehindInv'
  <2>1. /\ DOMAIN handle' = Reader /\ handle'[r] = h
        /\ \A q \in Reader \ {r} : handle'[q] = handle[q]
    BY <1>2, <1>3
  <2> QED
    BY <1>1, <1>3, <2>1, ReaderKeeps
<1>4. CASE Share(r)
  <2>1. handle' = [handle EXCEPT ![r] = Down(seqno)] /\ saved' = [saved EXCEPT ![r] = seqno]
    BY <1>4 DEF Share
  <2>2. IsHandle(Down(seqno)) /\ Down(seqno).seqno = seqno /\ seqno <= seqno
    BY <1>2, NewHandle
  <2>3. DOMAIN saved' = Reader /\ saved'[r] = seqno /\ \A q \in Reader \ {r} : saved'[q] = saved[q]
    BY <1>2, <2>1
  <2> QED
    BY <1>2, <1>3, <2>1, <2>2, <2>3, Zenon
<1>5. CASE Open(r) \/ Timeout(r)
  <2> DEFINE s == saved[r]
  <2>1. saved' = saved /\ s \in Nat /\ s <= seqno
    BY <1>2, <1>5 DEF Open, Timeout
  <2>2. /\ IsHandle(Down(s)) /\ Down(s).seqno = s
        /\ IsHandle(UnmarshalText(s)) /\ UnmarshalText(s).seqno = s
    BY <2>1, NewHandle
  <2>3. \/ handle' = [handle EXCEPT ![r] = UnmarshalText(s)]
        \/ handle' = [handle EXCEPT ![r] = Down(s)]
    BY <1>5 DEF Open, Timeout
  <2>4. DOMAIN saved' = Reader /\ saved'[r] = s /\ \A q \in Reader \ {r} : saved'[q] = saved[q]
    BY <1>2, <2>1
  <2> HIDE DEF s
  <2> QED
    BY <1>3, <2>1, <2>2, <2>3, <2>4
<1>6. CASE Close(r)
  <2> DEFINE s == handle[r].seqno
  <2>1. handle' = [handle EXCEPT ![r] = Down(s)] /\ saved' = [saved EXCEPT ![r] = s]
    BY <1>6 DEF Close
  <2>2. IsHandle(Down(s)) /\ Down(s).seqno = s /\ s \in Nat /\ s <= seqno
    BY <1>2, NewHandle
  <2>3. DOMAIN saved' = Reader /\ saved'[r] = s /\ \A q \in Reader \ {r} : saved'[q] = saved[q]
    BY <1>2, <2>1
  <2> HIDE DEF s
  <2> QED
    BY <1>3, <2>1, <2>2, <2>3, Zenon
<1> QED
  BY <1>4, <1>5, <1>6

(* Steps of the read thread: it moves on only with a fragment whose nonce is its
   Seqno, and the topic has passed the position of every fragment there is
   (handle.go:118-211). *)
LEMMA PollStep ==
  ASSUME BehindInv, NEW r \in Reader, ReaderStep(r) \/ ReadFails(r)
  PROVE  BehindInv'
<1> DEFINE h == handle[r]
<1>1. UNCHANGED <<seqno, pub, queue, store, saved>>
  BY DEF ReaderStep, GeneratePoll, Read, Deliver, ReadFails, topicVars
<1>2. /\ DOMAIN handle = Reader /\ DOMAIN saved = Reader /\ seqno \in Nat
      /\ IsHandle(h) /\ h.seqno \in Nat /\ h.seqno <= seqno
      /\ saved[r] \in Nat /\ saved[r] <= h.seqno
  BY DEF BehindInv, IsHandle
<1>3. ASSUME NEW g, IsHandle(g), g.seqno \in {h.seqno, h.seqno + 1}, g.seqno <= seqno,
             handle' = [handle EXCEPT ![r] = g]
      PROVE  BehindInv'
  <2>1. DOMAIN handle' = Reader /\ handle'[r] = g /\ \A q \in Reader \ {r} : handle'[q] = handle[q]
    BY <1>2, <1>3
  <2>2. saved[r] <= g.seqno
    BY <1>2, <1>3
  <2> QED
    BY <1>1, <1>2, <1>3, <2>1, <2>2, ReaderKeeps
<1>4. CASE GeneratePoll(r)
  <2>1. handle' = [handle EXCEPT ![r] = [h EXCEPT !.pc = "read", !.buckets = BucketsAt(h.seqno)]]
    BY <1>2, <1>4, Zenon DEF GeneratePoll
  <2> DEFINE g == [h EXCEPT !.pc = "read", !.buckets = BucketsAt(h.seqno)]
  <2>2. IsHandle(g) /\ g.seqno = h.seqno
    BY <1>2 DEF IsHandle
  <2> HIDE DEF g
  <2>3. handle' = [handle EXCEPT ![r] = g]
    BY SMTT(30), <2>1 DEF g
  <2> QED
    BY <1>2, <1>3, <2>2, <2>3, Zenon
<1>5. CASE ReadFails(r)
  <2>1. handle' = [handle EXCEPT ![r] = AfterRead(h)]
    BY SMTT(30), <1>5 DEF ReadFails
  <2> QED
    BY <1>2, <1>3, <2>1, HandleMoves, Zenon
<1>6. CASE Deliver(r)
  <2>1. handle' = [handle EXCEPT ![r] = AfterRead([h EXCEPT !.partial = NoMessage, !.received = TRUE])]
    BY <1>6 DEF Deliver
  <2> QED
    BY <1>2, <1>3, <2>1, HandleMoves, Zenon
<1>7. CASE Read(r)
  <2>1. CASE handle' = [handle EXCEPT ![r] = AfterRead(h)]
    BY <1>2, <1>3, <2>1, HandleMoves, Zenon
  <2>2. ASSUME NEW w \in Bucket(Head(h.buckets)), Decrypts(h, w),
               handle' = [handle EXCEPT ![r] =
                 IF Completes(h.partial, w.part) THEN [OnResponse(h, w.part) EXCEPT !.pc = "deliver"]
                                                 ELSE AfterRead(OnResponse(h, w.part))]
        PROVE  BehindInv'
    <3>1. w.part # Cover /\ \E i \in DOMAIN store : store[i].write = w
      BY DEF Bucket
    <3>2. Passed(w)
      BY <3>1 DEF BehindInv
    <3>3. h.seqno + 1 <= seqno
      BY <1>2, <2>2, <3>1, <3>2 DEF Passed, Decrypts
    <3> DEFINE o == OnResponse(h, w.part)
    <3>4. IsHandle(o) /\ o.seqno = h.seqno + 1
      BY <1>2, HandleMoves, Zenon
    <3> HIDE DEF o
    <3>5. \A g \in {[o EXCEPT !.pc = "deliver"], AfterRead(o)} : IsHandle(g) /\ g.seqno = h.seqno + 1
      BY <3>4, HandleMoves, Zenon
    <3>6. \E g \in {[o EXCEPT !.pc = "deliver"], AfterRead(o)} : handle' = [handle EXCEPT ![r] = g]
      BY <2>2, Zenon DEF o
    <3> QED
      BY ZenonT(40), <1>3, <3>3, <3>5, <3>6
  <2> QED
    BY SMTT(30), <1>7, <2>1, <2>2 DEF Read
<1> QED
  BY <1>4, <1>5, <1>6, <1>7 DEF ReaderStep

(* Every step of a topic with one publisher. *)
LEMMA BehindStep ==
  ASSUME NEW p, Publisher = {p}
  PROVE  BehindInv /\ [Next]_vars => BehindInv'
<1> SUFFICES ASSUME BehindInv, [Next]_vars PROVE BehindInv'
  OBVIOUS
<1>1. CASE UNCHANGED vars
  <2>1. \A w : Passed(w)' <=> Passed(w)
    BY <1>1 DEF Passed, vars
  <2>2. ASSUME NEW q \in Publisher PROVE PubInv(q)'
    BY <1>1 DEF PubInv, BehindInv, vars
  <2> QED
    BY <1>1, <2>1, <2>2 DEF BehindInv, IsSeq, IsStored, IsHandle, vars
<1>2. CASE Next
  BY <1>2, PublisherStep, AdvanceStep, SendStep, ServerStep, SessionStep, PollStep DEF Next
<1> QED
  BY <1>1, <1>2

(* A handle never gets ahead of its topic and a saved one never ahead of the handle,
   for every window, number of readers and restarts, as long as one goroutine
   publishes (handle.go:164, topic.go:79-94, talekclient/main.go:140-146). *)
THEOREM HandlesBehind ==
  ASSUME NEW CONSTANT p, Publisher = {p}
  PROVE  Spec => []BehindTopic
<1>1. BehindInv => BehindTopic
  BY DEF BehindInv, BehindTopic
<1>2. BehindInv /\ [Next]_vars => BehindInv'
  BY BehindStep
<1> QED
  BY <1>1, <1>2, BehindInit, PTL DEF Spec

-----------------------------------------------------------------------------
(* Fragments. *)

(* m has the first j fragments of contents c. *)
Joined(m, c, j) ==
  /\ m.receivedEnd = j * Denom
  /\ IsSeq(m.contents) /\ Len(m.contents) = Len(c)
  /\ \A x \in 1 .. Len(c) : x <= j * Denom => m.contents[x] = c[x]

(* The fragments cover the message, and the last one is needed
   (message.go:66-71). *)
LEMMA PartsCover ==
  ASSUME NEW n \in Nat \ {0}
  PROVE  /\ NumParts(n) \in Nat \ {0}
         /\ \A j \in Nat : j * Denom \in Nat /\ (j * Denom >= n <=> j >= NumParts(n))
<1>. DEFINE x == n + Denom - 1
            q == x \div Denom
<1>1. Denom \in Nat \ {0} /\ x \in Nat
  BY DenomAssumption
<1>2. q \in Nat /\ x % Denom \in 0 .. Denom - 1 /\ x = q * Denom + (x % Denom)
  BY <1>1
<1>3. NumParts(n) = q
  BY DEF NumParts
<1>4. q * Denom \in Nat /\ q * Denom >= n /\ q * Denom <= n + Denom - 1
  BY <1>1, <1>2
<1>. HIDE DEF q
<1>5. q # 0
  BY <1>1, <1>2, <1>4
<1>6. (q - 1) * Denom = q * Denom - Denom
  BY <1>1, <1>2
<1>7. ASSUME NEW j \in Nat PROVE j * Denom \in Nat /\ (j * Denom >= n <=> j >= q)
  <2>1. j * Denom \in Nat
    BY <1>1
  <2>2. CASE j >= q
    <3>1. j * Denom >= q * Denom
      BY <1>1, <1>2, <2>2
    <3>. QED
      BY <1>4, <2>1, <2>2, <3>1
  <2>3. CASE j < q
    <3>1. j * Denom <= (q - 1) * Denom
      <4>1. j <= q - 1 /\ q - 1 \in Nat
        BY <1>2, <2>3
      <4>. QED
        BY <1>1, <4>1
    <3>2. j * Denom < n
      BY <1>1, <1>4, <1>6, <2>1, <3>1
    <3>. QED
      BY <1>2, <2>1, <2>3, <3>2
  <2>. QED
    BY <1>2, <2>2, <2>3
<1>. QED
  BY <1>2, <1>3, <1>5, <1>7

(* A fragment of contents c (message.go:73-82). *)
LEMMA FragmentIs ==
  ASSUME NEW c, IsSeq(c), Len(c) >= 1, NEW i \in 1 .. NumParts(Len(c))
  PROVE  /\ Split(c)[i].first <=> i = 1
         /\ Split(c)[i].left = Len(c) - (i - 1) * Denom
         /\ DOMAIN Split(c)[i].body = 1 .. Denom
         /\ \A k \in 1 .. Denom : (i - 1) * Denom + k \in 1 .. Len(c) =>
              Split(c)[i].body[k] = c[(i - 1) * Denom + k]
<1>. DEFINE body == [k \in 1 .. Denom |-> IF (i - 1) * Denom + k \in DOMAIN c
                                           THEN c[(i - 1) * Denom + k] ELSE Zero]
<1>1. Split(c)[i] = [first |-> i = 1, left |-> Len(c) - (i - 1) * Denom, body |-> body]
  BY Zenon DEF Split
<1>2. DOMAIN c = 1 .. Len(c)
  BY DEF IsSeq
<1>3. \A k \in 1 .. Denom : (i - 1) * Denom + k \in 1 .. Len(c) => body[k] = c[(i - 1) * Denom + k]
  BY <1>2, Zenon
<1>4. DOMAIN body = 1 .. Denom
  BY Zenon
<1>. HIDE DEF body
<1>. DEFINE f == i = 1
            l == Len(c) - (i - 1) * Denom
            r == [first |-> f, left |-> l, body |-> body]
<1>5. r.left = l /\ r.body = body
  OBVIOUS
<1>6. r.first <=> f
  BY Zenon
<1>7. Split(c)[i] = r
  BY <1>1, Zenon
<1>. HIDE DEF r
<1>. QED
  BY <1>3, <1>4, <1>5, <1>6, <1>7, Zenon

(* What Join and Completes do to a fragment that fits. *)
LEMMA JoinFits ==
  ASSUME NEW c, IsSeq(c), Len(c) >= 1, NEW j \in 0 .. NumParts(Len(c)) - 1, NEW m,
         m.receivedEnd = j * Denom, Fits(m, Split(c)[j + 1]),
         IsSeq(Buffer(m, Split(c)[j + 1])), Len(Buffer(m, Split(c)[j + 1])) = Len(c),
         \A x \in 1 .. Len(c) : x <= j * Denom => Buffer(m, Split(c)[j + 1])[x] = c[x]
  PROVE  /\ Joined(Join(m, Split(c)[j + 1]), c, j + 1)
         /\ Completes(m, Split(c)[j + 1]) <=> j + 1 = NumParts(Len(c))
<1>. DEFINE part == Split(c)[j + 1]
            buffer == Buffer(m, part)
            new == [k \in DOMAIN buffer |->
                      IF k - m.receivedEnd \in 1 .. Denom THEN part.body[k - m.receivedEnd]
                                                          ELSE buffer[k]]
<1>1. /\ Len(c) \in Nat \ {0} /\ NumParts(Len(c)) \in Nat \ {0} /\ j \in Nat
      /\ j + 1 \in 1 .. NumParts(Len(c)) /\ Denom \in Nat \ {0} /\ (j + 1) - 1 = j
  BY PartsCover, DenomAssumption DEF IsSeq
<1>2. j * Denom \in Nat /\ (j + 1) * Denom = j * Denom + Denom
  BY <1>1
<1>3. Join(m, part) = [contents |-> new, receivedEnd |-> m.receivedEnd + Denom]
  BY Zenon DEF Join
<1>4. DOMAIN buffer = 1 .. Len(c)
  BY DEF IsSeq
<1>5. ASSUME NEW k \in 1 .. Denom, j * Denom + k \in 1 .. Len(c)
      PROVE  part.body[k] = c[j * Denom + k]
  BY <1>1, <1>5, FragmentIs
<1>6. \A x \in 1 .. Len(c) : x <= j * Denom => buffer[x] = c[x]
  OBVIOUS
<1>7. Fits(m, part) /\ Len(buffer) = Len(c)
  OBVIOUS
<1>. HIDE DEF part
<1>8. Completes(m, part) <=> j + 1 = NumParts(Len(c))
  <2>1. Completes(m, part) <=> (j + 1) * Denom >= Len(c)
    BY <1>2, <1>7 DEF Completes
  <2>2. (j + 1) * Denom >= Len(c) <=> j + 1 >= NumParts(Len(c))
    <3>1. j + 1 \in Nat
      BY <1>1
    <3>. QED
      BY <1>1, <3>1, PartsCover, Zenon
  <2>. QED
    BY <1>1, <2>1, <2>2
<1>. HIDE DEF buffer
<1>9. new = [i \in 1 .. Len(c) |-> new[i]]
  BY <1>4
<1>10. ASSUME NEW x \in 1 .. Len(c), x <= (j + 1) * Denom PROVE new[x] = c[x]
  <2>1. CASE x <= j * Denom
    <3>1. x - m.receivedEnd \notin 1 .. Denom
      BY <1>1, <1>2, <2>1
    <3>. QED
      BY <1>4, <1>6, <2>1, <3>1, Zenon
  <2>2. CASE x > j * Denom
    <3>. DEFINE k == x - j * Denom
    <3>1. k \in 1 .. Denom /\ j * Denom + k = x
      BY <1>1, <1>2, <1>10, <2>2
    <3>2. new[x] = part.body[k]
      BY <1>4, <3>1, Zenon
    <3>. HIDE DEF k
    <3>. QED
      BY <1>5, <3>1, <3>2
  <2>. QED
    BY <1>1, <1>2, <2>1, <2>2
<1>. HIDE DEF new
<1>11. Len(new) = Len(c) /\ IsSeq(new)
  <2>1. new \in Seq({new[i] : i \in 1 .. Len(c)}) /\ Len(new) = Len(c)
    BY <1>1, <1>9
  <2>. QED
    BY <1>1, <1>9, <2>1 DEF IsSeq
<1>12. Join(m, part).contents = new /\ Join(m, part).receivedEnd = (j + 1) * Denom
  BY <1>2, <1>3
<1>13. Joined(Join(m, part), c, j + 1)
  BY <1>10, <1>11, <1>12, Zenon DEF Joined
<1>. QED
  BY <1>8, <1>13 DEF part

(* The first fragment begins a message (message.go:93-101). *)
LEMMA JoinFirst ==
  ASSUME NEW c, IsSeq(c), Len(c) >= 1
  PROVE  /\ Joined(Join(NoMessage, Split(c)[1]), c, 1)
         /\ Completes(NoMessage, Split(c)[1]) <=> 1 = NumParts(Len(c))
<1>. DEFINE part == Split(c)[1]
            zeros == [k \in 1 .. part.left |-> Zero]
<1>1. Len(c) \in Nat \ {0} /\ NumParts(Len(c)) \in Nat \ {0} /\ Denom \in Nat \ {0}
  BY PartsCover, DenomAssumption DEF IsSeq
<1>2. 1 \in 1 .. NumParts(Len(c)) /\ 0 \in 0 .. NumParts(Len(c)) - 1
      /\ 0 * Denom = 0 /\ (1 - 1) * Denom = 0
  BY <1>1
<1>3. part.first /\ part.left = Len(c) - (1 - 1) * Denom
  BY <1>2, FragmentIs, Zenon
<1>4. part.left = Len(c)
  BY <1>1, <1>2, <1>3
<1>5. NoMessage.receivedEnd = 0
  BY DEF NoMessage
<1>6. Buffer(NoMessage, part) = zeros
  BY <1>3, <1>5, Zenon DEF Buffer
<1>7. zeros = [k \in 1 .. Len(c) |-> Zero]
  BY <1>4, Zenon
<1>. HIDE DEF part, zeros
<1>8. IsSeq(zeros) /\ Len(zeros) = Len(c)
  BY <1>1, <1>7 DEF IsSeq
<1>9. Fits(NoMessage, part)
  BY <1>1, <1>4, <1>5, <1>6, <1>8 DEF Fits
<1>10. \A x \in 1 .. Len(c) : x <= 0 * Denom => zeros[x] = c[x]
  BY <1>1, <1>2
<1>11. 0 + 1 = 1
  OBVIOUS
<1>12. Split(c)[0 + 1] = part
  BY <1>11, Zenon DEF part
<1>. DEFINE j == 0
<1>13. j \in 0 .. NumParts(Len(c)) - 1 /\ Split(c)[j + 1] = part /\ j + 1 = 1
       /\ NoMessage.receivedEnd = j * Denom /\ \A x \in 1 .. Len(c) : x <= j * Denom => zeros[x] = c[x]
  BY <1>2, <1>5, <1>10, <1>11, <1>12, Zenon
<1>. HIDE DEF j
<1>14. /\ Joined(Join(NoMessage, Split(c)[j + 1]), c, j + 1)
       /\ Completes(NoMessage, Split(c)[j + 1]) <=> j + 1 = NumParts(Len(c))
  BY <1>6, <1>8, <1>9, <1>13, JoinFits, Zenon
<1>. QED
  BY <1>13, <1>14, Zenon DEF part

(* The next fragment continues it (message.go:96-101). *)
LEMMA JoinNext ==
  ASSUME NEW c, IsSeq(c), Len(c) >= 1, NEW j \in 1 .. NumParts(Len(c)) - 1,
         NEW m, Joined(m, c, j)
  PROVE  /\ Joined(Join(m, Split(c)[j + 1]), c, j + 1)
         /\ Completes(m, Split(c)[j + 1]) <=> j + 1 = NumParts(Len(c))
<1>. DEFINE part == Split(c)[j + 1]
<1>1. Len(c) \in Nat \ {0} /\ NumParts(Len(c)) \in Nat \ {0} /\ Denom \in Nat \ {0}
  BY PartsCover, DenomAssumption DEF IsSeq
<1>2. /\ j + 1 \in 1 .. NumParts(Len(c)) /\ j \in 0 .. NumParts(Len(c)) - 1
      /\ j + 1 # 1 /\ (j + 1) - 1 = j /\ j * Denom \in Nat
  BY <1>1
<1>3. ~ part.first /\ part.left = Len(c) - ((j + 1) - 1) * Denom
  BY <1>1, <1>2, FragmentIs, ZenonT(30)
<1>4. Buffer(m, part) = m.contents
  BY <1>3, Zenon DEF Buffer
<1>5. m.receivedEnd = j * Denom /\ IsSeq(m.contents) /\ Len(m.contents) = Len(c)
      /\ \A x \in 1 .. Len(c) : x <= j * Denom => m.contents[x] = c[x]
  BY Zenon DEF Joined
<1>6. part.left = Len(c) - j * Denom
  BY <1>2, <1>3, Zenon
<1>. HIDE DEF part
<1>7. Fits(m, part)
  <2>. DEFINE l == Len(c)
              d == j * Denom
  <2>1. l \in Nat /\ d \in Nat
    BY <1>1, <1>2, Zenon
  <2>. HIDE DEF l, d
  <2>2. l = d + (l - d)
    BY <2>1
  <2>. QED
    BY <1>4, <1>5, <1>6, <2>2, Zenon DEF Fits, l, d
<1>. QED
  BY <1>2, <1>4, <1>5, <1>7, JoinFits, Zenon DEF part

(* A fragment that is not the first does not begin a message
   (message.go:96-98). *)
LEMMA JoinLater ==
  ASSUME NEW c, IsSeq(c), Len(c) >= 1, NEW i \in 2 .. NumParts(Len(c))
  PROVE  Join(NoMessage, Split(c)[i]) = NoMessage /\ ~ Completes(NoMessage, Split(c)[i])
<1>. DEFINE part == Split(c)[i]
<1>1. Len(c) \in Nat \ {0} /\ NumParts(Len(c)) \in Nat \ {0} /\ Denom \in Nat \ {0}
  BY PartsCover, DenomAssumption DEF IsSeq
<1>2. i \in 1 .. NumParts(Len(c)) /\ i # 1 /\ i - 1 \in Nat /\ ~ (i - 1 >= NumParts(Len(c)))
  BY <1>1
<1>3. ~ part.first /\ part.left = Len(c) - (i - 1) * Denom
  BY <1>1, <1>2, FragmentIs, Zenon
<1>4. (i - 1) * Denom \in Nat /\ ~ ((i - 1) * Denom >= Len(c))
  BY <1>1, <1>2, PartsCover, Zenon
<1>5. NoMessage.receivedEnd = 0 /\ NoMessage.contents = <<>>
  BY DEF NoMessage
<1>6. Buffer(NoMessage, part) = <<>>
  BY <1>3, <1>5, Zenon DEF Buffer
<1>. HIDE DEF part
<1>7. ~ Fits(NoMessage, part)
  BY <1>1, <1>3, <1>4, <1>5, <1>6 DEF Fits
<1>. QED
  BY <1>7, Zenon DEF Join, Completes, part

(* With its last fragment a message is whole. *)
LEMMA JoinedWhole ==
  ASSUME NEW c, IsSeq(c), Len(c) >= 1, NEW m, Joined(m, c, NumParts(Len(c)))
  PROVE  m.contents = c
<1>. DEFINE n == NumParts(Len(c))
<1>1. Len(c) \in Nat \ {0} /\ n \in Nat \ {0}
  BY PartsCover DEF IsSeq
<1>2. n * Denom \in Nat /\ n * Denom >= Len(c)
  BY <1>1, PartsCover
<1>3. IsSeq(m.contents) /\ Len(m.contents) = Len(c)
      /\ \A x \in 1 .. Len(c) : x <= n * Denom => m.contents[x] = c[x]
  BY Zenon DEF Joined
<1>. HIDE DEF n
<1>4. \A x \in 1 .. Len(c) : m.contents[x] = c[x]
  BY <1>1, <1>2, <1>3
<1>. QED
  BY <1>3, <1>4 DEF IsSeq

-----------------------------------------------------------------------------
(* The log. *)

(* Fragments and end of message k of a history P. *)
PartsOf(P, k) == NumParts(Len(P[k].contents))
EndOf(P, k) == P[k].start + PartsOf(P, k)

IsMessage(m) ==
  /\ {"start", "contents"} \subseteq DOMAIN m
  /\ m.start \in Nat /\ IsSeq(m.contents) /\ Len(m.contents) >= 1

(* Messages do not share positions, and are in order. *)
IsHistory(P) ==
  /\ IsSeq(P)
  /\ \A k \in DOMAIN P : IsMessage(P[k])
  /\ \A j, k \in DOMAIN P : j < k => EndOf(P, j) <= P[k].start

(* Messages that start before position s. *)
Below(P, s) == Cardinality({k \in DOMAIN P : P[k].start < s})

(* A message of a history has at least one fragment. *)
LEMMA HistoryTypes ==
  ASSUME NEW P, IsHistory(P)
  PROVE  /\ Len(P) \in Nat /\ DOMAIN P = 1 .. Len(P)
         /\ \A k \in DOMAIN P :
              /\ P[k].start \in Nat /\ PartsOf(P, k) \in Nat \ {0} /\ EndOf(P, k) \in Nat
              /\ P[k].start < EndOf(P, k)
              /\ IsSeq(P[k].contents) /\ Len(P[k].contents) \in Nat \ {0}
<1>1. Len(P) \in Nat /\ DOMAIN P = 1 .. Len(P)
  BY DEF IsHistory, IsSeq
<1>2. ASSUME NEW k \in DOMAIN P
      PROVE  /\ P[k].start \in Nat /\ PartsOf(P, k) \in Nat \ {0} /\ EndOf(P, k) \in Nat
             /\ P[k].start < EndOf(P, k)
             /\ IsSeq(P[k].contents) /\ Len(P[k].contents) \in Nat \ {0}
  <2>1. P[k].start \in Nat /\ IsSeq(P[k].contents) /\ Len(P[k].contents) >= 1
    BY Zenon DEF IsHistory, IsMessage
  <2>2. Len(P[k].contents) \in Nat \ {0}
    BY <2>1 DEF IsSeq
  <2>3. PartsOf(P, k) \in Nat \ {0}
    BY <2>2, PartsCover, Zenon DEF PartsOf
  <2>. QED
    BY <2>1, <2>2, <2>3 DEF EndOf
<1>. QED
  BY <1>1, <1>2, Zenon

(* The numbers from 1 to n are n. *)
LEMMA IntervalCardinality ==
  ASSUME NEW n \in Nat
  PROVE  IsFiniteSet(1 .. n) /\ Cardinality(1 .. n) = n
<1>1. /\ IsFiniteSet(1 .. n)
      /\ Cardinality(1 .. n) = IF 1 > n THEN 0 ELSE n - 1 + 1
  <2>1. 1 \in Int /\ n \in Int
    OBVIOUS
  <2>. QED
    BY <2>1, FS_Interval, Zenon
<1>2. (IF 1 > n THEN 0 ELSE n - 1 + 1) = n
  OBVIOUS
<1>. QED
  BY <1>1, <1>2

(* The messages before a position are the first k. *)
LEMMA BelowIs ==
  ASSUME NEW P, IsHistory(P), NEW k \in 0 .. Len(P), NEW s \in Nat,
         k > 0 => P[k].start < s,
         \A i \in DOMAIN P : i > k => s <= P[i].start
  PROVE  Below(P, s) = k
<1>1. Len(P) \in Nat /\ DOMAIN P = 1 .. Len(P)
  BY HistoryTypes
<1>2. ASSUME NEW i \in DOMAIN P PROVE P[i].start < s <=> i <= k
  <2>1. P[i].start \in Nat
    BY HistoryTypes
  <2>2. CASE i > k
    BY <1>1, <2>1, <2>2
  <2>3. CASE i = k
    BY <1>1, <2>3
  <2>4. CASE i < k
    <3>1. k \in DOMAIN P
      BY <1>1, <2>4
    <3>2. EndOf(P, i) <= P[k].start
      BY <2>4, <3>1, Zenon DEF IsHistory
    <3>3. P[i].start < EndOf(P, i) /\ EndOf(P, i) \in Nat /\ P[k].start \in Nat
      BY <3>1, HistoryTypes
    <3>. QED
      BY <1>1, <2>1, <2>4, <3>2, <3>3
  <2>. QED
    BY <1>1, <2>2, <2>3, <2>4
<1>3. {i \in DOMAIN P : P[i].start < s} = 1 .. k
  BY <1>1, <1>2
<1>4. Cardinality(1 .. k) = k
  <2>1. k \in Nat
    BY <1>1
  <2>. QED
    BY <2>1, IntervalCardinality, Zenon
<1>. QED
  BY <1>3, <1>4, Zenon DEF Below

(* The number of a message, from the position of one of its fragments. *)
LEMMA PlaceIndex ==
  ASSUME NEW P, IsHistory(P), NEW k \in DOMAIN P
  PROVE  /\ Below(P, P[k].start) = k - 1
         /\ \A j \in 1 .. PartsOf(P, k) : Below(P, P[k].start + j) = k
<1>1. Len(P) \in Nat /\ DOMAIN P = 1 .. Len(P) /\ k \in 1 .. Len(P)
  BY HistoryTypes
<1>2. P[k].start \in Nat /\ PartsOf(P, k) \in Nat \ {0} /\ EndOf(P, k) = P[k].start + PartsOf(P, k)
  BY HistoryTypes DEF EndOf
<1>3. ASSUME NEW i \in DOMAIN P, i > k PROVE EndOf(P, k) <= P[i].start /\ P[i].start \in Nat
  BY <1>1, <1>3, HistoryTypes DEF IsHistory
<1>4. Below(P, P[k].start) = k - 1
  <2>1. k - 1 \in 0 .. Len(P)
    BY <1>1
  <2>2. k - 1 > 0 => P[k - 1].start < P[k].start
    <3>. SUFFICES ASSUME k - 1 > 0 PROVE P[k - 1].start < P[k].start
      OBVIOUS
    <3>. DEFINE i == k - 1
    <3>1. i \in DOMAIN P /\ i < k
      BY <1>1
    <3>. HIDE DEF i
    <3>2. EndOf(P, i) <= P[k].start /\ P[i].start < EndOf(P, i) /\ EndOf(P, i) \in Nat
          /\ P[i].start \in Nat
      BY SMTT(20), <1>1, <3>1, HistoryTypes DEF IsHistory
    <3>3. P[i].start < P[k].start
      BY <1>2, <3>2
    <3>. QED
      BY <3>3 DEF i
  <2>3. ASSUME NEW i \in DOMAIN P, i > k - 1 PROVE P[k].start <= P[i].start
    <3>1. i = k \/ i > k
      BY <1>1, <2>3
    <3>. QED
      BY <1>2, <1>3, <3>1
  <2>. DEFINE n == k - 1
  <2>4. n \in 0 .. Len(P) /\ (n > 0 => P[n].start < P[k].start)
        /\ \A i \in DOMAIN P : i > n => P[k].start <= P[i].start
    BY <2>1, <2>2, <2>3
  <2>. HIDE DEF n
  <2>5. Below(P, P[k].start) = n
    BY <1>2, <2>4, BelowIs
  <2>. QED
    BY <2>5 DEF n
<1>5. ASSUME NEW j \in 1 .. PartsOf(P, k) PROVE Below(P, P[k].start + j) = k
  <2>. DEFINE s == P[k].start + j
  <2>1. s \in Nat /\ k \in 0 .. Len(P) /\ P[k].start < s /\ s <= EndOf(P, k)
    BY <1>1, <1>2
  <2>2. \A i \in DOMAIN P : i > k => s <= P[i].start
    BY <1>2, <1>3, <2>1
  <2>. HIDE DEF s
  <2>3. Below(P, s) = k
    BY <2>1, <2>2, BelowIs
  <2>. QED
    BY <2>3 DEF s
<1>. QED
  BY <1>4, <1>5

(* A position is that of one fragment only. *)
LEMMA OnePlace ==
  ASSUME NEW P, IsHistory(P), NEW k \in DOMAIN P, NEW l \in DOMAIN P,
         NEW i \in 1 .. PartsOf(P, k), NEW j \in 1 .. PartsOf(P, l),
         P[k].start + i = P[l].start + j
  PROVE  k = l /\ i = j
<1>1. Below(P, P[k].start + i) = k /\ Below(P, P[l].start + j) = l
  BY PlaceIndex
<1>2. k = l
  BY <1>1, Zenon
<1>3. P[k].start \in Nat /\ PartsOf(P, k) \in Nat
  BY HistoryTypes
<1>. QED
  BY <1>2, <1>3

(* w is a fragment of a message with the nonce of its position. *)
Carries(P, w) ==
  \/ w.part = Cover
  \/ \E k \in DOMAIN P : \E i \in 1 .. PartsOf(P, k) :
       w.nonce = P[k].start + i - 1 /\ w.part = Split(P[k].contents)[i]

(* A process that polls. *)
Reading == {"poll", "read", "deliver"}

(* NextIndex, for history P. *)
IndexOf(P, h) == Below(P, h.seqno) + IF h.partial.receivedEnd > 0 THEN 0 ELSE 1

(* A handle being polled has begun no message, or has the first fragments of
   one and is at the position of the next. *)
ReadsOn(P, h) ==
  \/ h.partial = NoMessage /\ h.pc # "deliver"
  \/ \E k \in DOMAIN P : \E j \in 1 .. PartsOf(P, k) :
       /\ h.seqno = P[k].start + j
       /\ Joined(h.partial, P[k].contents, j)
       /\ h.pc = "deliver" <=> j = PartsOf(P, k)

Fields(h) == {"pc", "seqno", "partial", "buckets", "received"} \subseteq DOMAIN h

(* A handle, with the file's position s and the messages o received.  As long as
   a session has received none, its next message is that of the file. *)
Follows(P, h, s, o) ==
  /\ Fields(h)
  /\ h.pc \in Reading \cup {"unshared", "down"}
  /\ h.pc = "unshared" => o = <<>>
  /\ h.pc \in {"unshared", "down"} => h.partial = NoMessage
  /\ h.pc = "down" => h.seqno = s
  /\ h.pc \in Reading => ReadsOn(P, h)
  /\ h.pc \in Reading /\ ~ h.received => IndexOf(P, h) = Below(P, s) + 1

(* The index of a handle in the middle of a message is that of the message. *)
LEMMA IndexInside ==
  ASSUME NEW P, IsHistory(P), NEW k \in DOMAIN P, NEW j \in 1 .. PartsOf(P, k),
         NEW h, h.seqno = P[k].start + j
  PROVE  /\ h.partial = NoMessage => IndexOf(P, h) = k + 1
         /\ Joined(h.partial, P[k].contents, j) => IndexOf(P, h) = k
<1>1. Below(P, h.seqno) = k /\ k \in Nat
  BY PlaceIndex, HistoryTypes
<1>2. h.partial = NoMessage => h.partial.receivedEnd = 0
  BY DEF NoMessage
<1>3. Joined(h.partial, P[k].contents, j) => h.partial.receivedEnd > 0
  <2>1. PartsOf(P, k) \in Nat /\ Denom \in Nat \ {0}
    BY HistoryTypes, DenomAssumption
  <2>2. j * Denom > 0
    BY <2>1
  <2>. QED
    BY <2>2 DEF Joined
<1>. QED
  BY <1>1, <1>2, <1>3 DEF IndexOf

(* Where the read thread goes changes nothing else of a handle. *)
LEMMA AfterReadFields ==
  ASSUME NEW h, Fields(h)
  PROVE  /\ Fields(AfterRead(h)) /\ AfterRead(h).pc \in {"poll", "read"}
         /\ AfterRead(h).seqno = h.seqno /\ AfterRead(h).partial = h.partial
         /\ AfterRead(h).received = h.received
BY DEF Fields, AfterRead

(* A read that finds nothing (handle.go:161-163). *)
LEMMA ReadNothing ==
  ASSUME NEW P, NEW h, NEW s, NEW o, Follows(P, h, s, o), h.pc = "read"
  PROVE  /\ Follows(P, AfterRead(h), s, o) /\ AfterRead(h).pc \in Reading
         /\ IndexOf(P, AfterRead(h)) = IndexOf(P, h)
<1>. DEFINE g == AfterRead(h)
<1>1. Fields(g) /\ g.pc \in {"poll", "read"} /\ g.seqno = h.seqno
      /\ g.partial = h.partial /\ g.received = h.received
  BY AfterReadFields, Zenon DEF Follows
<1>. HIDE DEF g
<1>2. IndexOf(P, g) = IndexOf(P, h)
  BY <1>1, Zenon DEF IndexOf
<1>3. g.pc \in Reading /\ h.pc \in Reading /\ g.pc # "deliver" /\ h.pc # "deliver"
      /\ g.pc \notin {"unshared", "down"}
  BY <1>1 DEF Reading
<1>4. ReadsOn(P, h) => ReadsOn(P, g)
  BY <1>1, <1>3, Zenon DEF ReadsOn
<1>5. Follows(P, g, s, o)
  BY <1>1, <1>2, <1>3, <1>4 DEF Follows
<1>. QED
  BY <1>2, <1>3, <1>5 DEF g

(* A handle after OnResponse for a fragment that did or did not end a
   message. *)
Taken(h, part) ==
  IF Completes(h.partial, part) THEN [OnResponse(h, part) EXCEPT !.pc = "deliver"]
                                ELSE AfterRead(OnResponse(h, part))

(* The fields of such a handle. *)
LEMMA TakenFields ==
  ASSUME NEW h, Fields(h), NEW part
  PROVE  /\ Fields(Taken(h, part)) /\ Taken(h, part).pc \in Reading
         /\ Taken(h, part).pc = "deliver" <=> Completes(h.partial, part)
         /\ Taken(h, part).seqno = h.seqno + 1 /\ Taken(h, part).partial = Join(h.partial, part)
         /\ Taken(h, part).received = h.received
<1>. DEFINE o == OnResponse(h, part)
<1>1. Fields(o) /\ o.seqno = h.seqno + 1 /\ o.partial = Join(h.partial, part)
      /\ o.received = h.received
  BY DEF Fields, OnResponse
<1>. DEFINE d == [o EXCEPT !.pc = "deliver"]
            a == AfterRead(o)
<1>. HIDE DEF o
<1>2. Fields(d) /\ d.pc = "deliver" /\ d.seqno = o.seqno /\ d.partial = o.partial
      /\ d.received = o.received
  BY <1>1 DEF Fields
<1>3. Fields(a) /\ a.pc \in {"poll", "read"} /\ a.seqno = o.seqno /\ a.partial = o.partial
      /\ a.received = o.received
  BY <1>1, AfterReadFields, Zenon
<1>4. Taken(h, part) = IF Completes(h.partial, part) THEN d ELSE a
  BY Zenon DEF Taken, o
<1>. HIDE DEF d, a
<1>5. CASE Completes(h.partial, part)
  BY <1>1, <1>2, <1>4, <1>5 DEF Reading
<1>6. CASE ~ Completes(h.partial, part)
  BY <1>1, <1>3, <1>4, <1>6 DEF Reading
<1>. QED
  BY <1>5, <1>6

(* OnResponse for a fragment of the topic: whatever the handle has, its next
   message stays the same (handle.go:164-166). *)
LEMMA ReadFragment ==
  ASSUME NEW P, IsHistory(P), NEW h, NEW s, NEW o, Follows(P, h, s, o), h.pc = "read",
         NEW w, Carries(P, w), w.part # Cover, Decrypts(h, w)
  PROVE  /\ Follows(P, Taken(h, w.part), s, o) /\ Taken(h, w.part).pc \in Reading
         /\ IndexOf(P, Taken(h, w.part)) = IndexOf(P, h)
<1>. DEFINE g == Taken(h, w.part)
<1>1. PICK k \in DOMAIN P : \E i \in 1 .. PartsOf(P, k) :
        w.nonce = P[k].start + i - 1 /\ w.part = Split(P[k].contents)[i]
  BY Zenon DEF Carries
<1>2. PICK i \in 1 .. PartsOf(P, k) : w.nonce = P[k].start + i - 1 /\ w.part = Split(P[k].contents)[i]
  BY <1>1, Zenon
<1>. DEFINE c == P[k].contents
            n == PartsOf(P, k)
<1>3. IsSeq(c) /\ Len(c) \in Nat \ {0} /\ Len(c) >= 1 /\ n = NumParts(Len(c))
      /\ n \in Nat \ {0} /\ P[k].start \in Nat /\ k \in Nat
  BY HistoryTypes DEF PartsOf
<1>4. Fields(h) /\ ReadsOn(P, h) /\ h.pc # "deliver" /\ h.pc \in Reading
  BY DEF Follows, Reading
<1>5. h.seqno = P[k].start + i - 1
  BY <1>2 DEF Decrypts
<1>6. /\ Fields(g) /\ g.pc \in Reading
      /\ g.pc = "deliver" <=> Completes(h.partial, w.part)
      /\ g.seqno = h.seqno + 1 /\ g.partial = Join(h.partial, w.part)
      /\ g.received = h.received
  BY <1>4, TakenFields, Zenon
<1>. HIDE DEF g
<1>7. g.seqno = P[k].start + i
  BY <1>3, <1>5, <1>6
<1>8. ReadsOn(P, g) /\ IndexOf(P, g) = IndexOf(P, h)
  <2>1. ASSUME Joined(g.partial, c, i), g.pc = "deliver" <=> i = n, IndexOf(P, h) = k
        PROVE  ReadsOn(P, g) /\ IndexOf(P, g) = IndexOf(P, h)
    <3>1. IndexOf(P, g) = k
      <4>1. Joined(g.partial, P[k].contents, i)
        BY <2>1, Zenon
      <4>. QED
        BY <1>7, <4>1, IndexInside, Zenon
    <3>2. ReadsOn(P, g)
      BY <1>7, <2>1, Zenon DEF ReadsOn
    <3>. QED
      BY <2>1, <3>1, <3>2, Zenon
  <2>2. CASE h.partial = NoMessage /\ i = 1
    <3>1. Joined(g.partial, c, i) /\ (g.pc = "deliver" <=> i = n)
      BY <1>2, <1>3, <1>6, <2>2, JoinFirst, Zenon
    <3>2. h.seqno = P[k].start
      BY <1>3, <1>5, <2>2
    <3>3. Below(P, h.seqno) = k - 1
      BY <3>2, PlaceIndex
    <3>4. h.partial.receivedEnd = 0
      BY <2>2 DEF NoMessage
    <3>5. IndexOf(P, h) = k
      BY <1>3, <3>3, <3>4 DEF IndexOf
    <3>. QED
      BY <2>1, <3>1, <3>5
  <2>3. CASE h.partial = NoMessage /\ i # 1
    <3>1. i \in 2 .. n /\ i - 1 \in 1 .. n
      BY <1>3, <2>3
    <3>2. g.partial = NoMessage /\ g.pc # "deliver"
      BY <1>2, <1>3, <1>6, <2>3, <3>1, JoinLater, ZenonT(30)
    <3>3. IndexOf(P, g) = k + 1
      BY <1>7, <3>2, IndexInside, Zenon
    <3>. DEFINE j == i - 1
    <3>4. h.seqno = P[k].start + j /\ j \in 1 .. n
      BY <1>3, <1>5, <3>1
    <3>. HIDE DEF j
    <3>5. IndexOf(P, h) = k + 1
      BY <2>3, <3>4, IndexInside, Zenon
    <3>. QED
      BY <3>2, <3>3, <3>5, Zenon DEF ReadsOn
  <2>4. ASSUME NEW l \in DOMAIN P, NEW j \in 1 .. PartsOf(P, l), h.seqno = P[l].start + j,
               Joined(h.partial, P[l].contents, j), h.pc = "deliver" <=> j = PartsOf(P, l)
        PROVE  ReadsOn(P, g) /\ IndexOf(P, g) = IndexOf(P, h)
    <3>1. P[l].start \in Nat /\ PartsOf(P, l) \in Nat \ {0}
      BY HistoryTypes
    <3>2. j + 1 \in 1 .. PartsOf(P, l) /\ P[l].start + (j + 1) = P[k].start + i
      <4>1. j # PartsOf(P, l)
        BY <1>4, <2>4, Zenon
      <4>2. P[l].start + j = P[k].start + i - 1
        BY <1>5, <2>4, Zenon
      <4>3. i \in Int /\ j \in Int /\ j >= 1 /\ j <= PartsOf(P, l)
        BY <1>3, <3>1
      <4>4. j + 1 \in 1 .. PartsOf(P, l)
        BY <3>1, <4>1, <4>3
      <4>5. P[k].start \in Nat
        BY <1>3
      <4>. QED
        BY <3>1, <4>2, <4>3, <4>4, <4>5
    <3>3. l = k /\ j + 1 = i
      BY <3>2, OnePlace
    <3>4. j \in 1 .. n - 1
      BY <1>3, <3>2, <3>3
    <3>5. Joined(g.partial, c, i) /\ (g.pc = "deliver" <=> i = n)
      <4>1. Joined(h.partial, c, j) /\ w.part = Split(c)[j + 1]
        BY <1>2, <2>4, <3>3, Zenon
      <4>2. j \in 1 .. NumParts(Len(c)) - 1
        BY <1>3, <3>4, Zenon
      <4>3. /\ Joined(Join(h.partial, Split(c)[j + 1]), c, j + 1)
            /\ Completes(h.partial, Split(c)[j + 1]) <=> j + 1 = NumParts(Len(c))
        BY <1>3, <4>1, <4>2, JoinNext, Zenon
      <4>. QED
        BY <1>3, <1>6, <3>3, <4>1, <4>3, Zenon
    <3>6. IndexOf(P, h) = k
      BY <2>4, <3>3, IndexInside, Zenon
    <3>. QED
      BY <2>1, <3>5, <3>6
  <2>. QED
    BY <1>4, <2>2, <2>3, <2>4, Zenon DEF ReadsOn
<1>9. Follows(P, g, s, o)
  <2>1. g.pc \notin {"unshared", "down"} /\ g.pc \in Reading \cup {"unshared", "down"}
    BY <1>6 DEF Reading
  <2>. QED
    BY <1>4, <1>6, <1>8, <2>1 DEF Follows
<1>. QED
  BY <1>6, <1>8, <1>9 DEF g

(* The send on updates: the message is the next one, whole (handle.go:166-171). *)
LEMMA DeliverNext ==
  ASSUME NEW P, IsHistory(P), NEW h, NEW s, NEW o, Follows(P, h, s, o), h.pc = "deliver",
         NEW q
  PROVE  /\ IndexOf(P, h) \in DOMAIN P /\ h.partial.contents = P[IndexOf(P, h)].contents
         /\ LET g == AfterRead([h EXCEPT !.partial = NoMessage, !.received = TRUE])
            IN  /\ Follows(P, g, s, q) /\ g.pc \in Reading
                /\ IndexOf(P, g) = IndexOf(P, h) + 1
<1>. DEFINE e == [h EXCEPT !.partial = NoMessage, !.received = TRUE]
            g == AfterRead(e)
<1>1. Fields(h) /\ ReadsOn(P, h)
  BY DEF Follows, Reading
<1>2. PICK k \in DOMAIN P : \E j \in 1 .. PartsOf(P, k) :
        /\ h.seqno = P[k].start + j
        /\ Joined(h.partial, P[k].contents, j)
        /\ h.pc = "deliver" <=> j = PartsOf(P, k)
  BY <1>1, Zenon DEF ReadsOn
<1>. DEFINE n == PartsOf(P, k)
<1>3. n \in 1 .. PartsOf(P, k) /\ k \in Nat
  BY HistoryTypes
<1>4. h.seqno = P[k].start + n /\ Joined(h.partial, P[k].contents, n)
  BY <1>2, Zenon
<1>5. h.partial.contents = P[k].contents
  <2>1. IsSeq(P[k].contents) /\ Len(P[k].contents) >= 1
    BY HistoryTypes
  <2>2. Joined(h.partial, P[k].contents, NumParts(Len(P[k].contents)))
    BY <1>4, Zenon DEF PartsOf
  <2>. QED
    BY <2>1, <2>2, JoinedWhole, Zenon
<1>6. Fields(e) /\ e.seqno = h.seqno /\ e.partial = NoMessage /\ e.received = TRUE
  BY <1>1 DEF Fields
<1>. HIDE DEF e
<1>7. /\ Fields(g) /\ g.pc \in {"poll", "read"}
      /\ g.seqno = h.seqno /\ g.partial = NoMessage /\ g.received
  BY <1>6, AfterReadFields, Zenon
<1>. HIDE DEF g, n
<1>8. IndexOf(P, h) = k /\ IndexOf(P, g) = k + 1
  <2>1. IndexOf(P, h) = k
    BY <1>3, <1>4, IndexInside, Zenon
  <2>2. g.seqno = P[k].start + n
    BY <1>4, <1>7, Zenon
  <2>3. IndexOf(P, g) = k + 1
    BY <1>3, <1>7, <2>2, IndexInside, Zenon
  <2>. QED
    BY <2>1, <2>3
<1>9. g.pc \in Reading /\ g.pc # "deliver" /\ g.pc \notin {"unshared", "down"}
  BY <1>7 DEF Reading
<1>10. Follows(P, g, s, q)
  BY <1>7, <1>9, Zenon DEF Follows, ReadsOn
<1>11. /\ IndexOf(P, h) \in DOMAIN P /\ h.partial.contents = P[IndexOf(P, h)].contents
       /\ Follows(P, g, s, q) /\ g.pc \in Reading /\ IndexOf(P, g) = IndexOf(P, h) + 1
  BY <1>5, <1>8, <1>9, <1>10, Zenon
<1>. QED
  BY <1>11, Zenon DEF g, e

(* A handle read from a file, and the handle of a process that has ended. *)
LEMMA FromFile ==
  ASSUME NEW P, NEW s, NEW o
  PROVE  /\ Follows(P, Down(s), s, o) /\ IndexOf(P, Down(s)) = Below(P, s) + 1
         /\ Follows(P, UnmarshalText(s), s, o) /\ IndexOf(P, UnmarshalText(s)) = Below(P, s) + 1
         /\ Down(s).pc = "down" /\ UnmarshalText(s).pc = "poll"
<1>. DEFINE u == UnmarshalText(s)
            d == Down(s)
<1>1. Fields(u) /\ u.pc = "poll" /\ u.seqno = s /\ u.partial = NoMessage /\ u.received = FALSE
  BY DEF UnmarshalText, Fields
<1>2. Fields(d) /\ d.pc = "down" /\ d.seqno = s /\ d.partial = NoMessage
  BY <1>1 DEF Down, Fields
<1>. HIDE DEF u, d
<1>3. ASSUME NEW h, h.seqno = s, h.partial = NoMessage PROVE IndexOf(P, h) = Below(P, s) + 1
  <2>1. ~ (h.partial.receivedEnd > 0)
    BY <1>3 DEF NoMessage
  <2>. QED
    BY <1>3, <2>1, Zenon DEF IndexOf
<1>4. "poll" \in Reading /\ "poll" \notin {"unshared", "down"} /\ "poll" # "deliver"
      /\ "down" \notin Reading /\ "down" \in {"unshared", "down"} /\ "down" # "unshared"
  BY DEF Reading
<1>5. Follows(P, u, s, o)
  BY <1>1, <1>3, <1>4, Zenon DEF Follows, ReadsOn
<1>6. Follows(P, d, s, o)
  BY <1>2, <1>4, Zenon DEF Follows
<1>. QED
  BY <1>1, <1>2, <1>3, <1>5, <1>6, Zenon DEF u, d

(* Closing a handle drops the message that has begun (talekclient/main.go:140-146). *)
LEMMA CloseDrops ==
  ASSUME NEW P, IsHistory(P), NEW h, NEW s, NEW o, Follows(P, h, s, o), h.pc \in Reading
  PROVE  LET d == Down(h.seqno)
         IN  \/ IndexOf(P, d) = IndexOf(P, h)
             \/ IndexOf(P, h) <= Len(P) /\ IndexOf(P, d) = IndexOf(P, h) + 1
<1>. DEFINE d == Down(h.seqno)
<1>1. ReadsOn(P, h)
  BY Zenon DEF Follows
<1>2. IndexOf(P, d) = Below(P, h.seqno) + 1
  BY FromFile, Zenon
<1>. HIDE DEF d
<1>3. CASE h.partial = NoMessage
  <2>1. ~ (h.partial.receivedEnd > 0)
    BY <1>3 DEF NoMessage
  <2>2. IndexOf(P, h) = Below(P, h.seqno) + 1
    BY <2>1, Zenon DEF IndexOf
  <2>. QED
    BY <1>2, <2>2, Zenon DEF d
<1>4. ASSUME NEW k \in DOMAIN P, NEW j \in 1 .. PartsOf(P, k), h.seqno = P[k].start + j,
             Joined(h.partial, P[k].contents, j)
      PROVE  IndexOf(P, h) <= Len(P) /\ IndexOf(P, d) = IndexOf(P, h) + 1
  <2>1. IndexOf(P, h) = k /\ Below(P, h.seqno) = k
    <3>1. IndexOf(P, h) = k
      BY <1>4, IndexInside, Zenon
    <3>2. Below(P, P[k].start + j) = k
      BY PlaceIndex, Zenon
    <3>. QED
      BY <1>4, <3>1, <3>2, Zenon
  <2>2. k <= Len(P)
    BY HistoryTypes
  <2>. QED
    BY <1>2, <2>1, <2>2, Zenon
<1>. QED
  BY <1>1, <1>3, <1>4, Zenon DEF ReadsOn, d

(* A message published at the end. *)
LEMMA HistoryGrows ==
  ASSUME NEW P, IsHistory(P), NEW m, IsMessage(m), \A k \in DOMAIN P : EndOf(P, k) <= m.start
  PROVE  /\ IsHistory(Append(P, m))
         /\ Len(Append(P, m)) = Len(P) + 1 /\ DOMAIN Append(P, m) = 1 .. Len(P) + 1
         /\ Append(P, m)[Len(P) + 1] = m
         /\ \A k \in DOMAIN P :
              k \in DOMAIN Append(P, m) /\ Append(P, m)[k] = P[k]
<1>. DEFINE Q == Append(P, m)
            n == Len(P) + 1
<1>1. Len(P) \in Nat /\ DOMAIN P = 1 .. Len(P)
  BY HistoryTypes
<1>2. Len(Q) = n /\ Q = [i \in 1 .. n |-> Q[i]] /\ Q[n] = m /\ \A k \in DOMAIN P : Q[k] = P[k]
  <2>. DEFINE S == {P[i] : i \in 1 .. Len(P)} \cup {m}
  <2>1. P \in Seq(S) /\ m \in S
    BY <1>1 DEF IsHistory, IsSeq
  <2>. HIDE DEF S
  <2>2. Q \in Seq(S) /\ Len(Q) = n
    BY <2>1
  <2>3. Q[n] = m
    BY <2>1
  <2>4. ASSUME NEW k \in DOMAIN P PROVE Q[k] = P[k]
    BY <1>1, <2>1
  <2>5. \A t \in Seq(S) : t = [i \in 1 .. Len(t) |-> t[i]]
    OBVIOUS
  <2>. QED
    BY <2>2, <2>3, <2>4, <2>5, Zenon
<1>. HIDE DEF Q
<1>3. DOMAIN Q = 1 .. n /\ IsSeq(Q) /\ n \in Nat
  BY <1>1, <1>2 DEF IsSeq
<1>4. ASSUME NEW k \in DOMAIN Q PROVE IsMessage(Q[k])
  <2>1. k \in DOMAIN P \/ k = n
    BY <1>1, <1>3
  <2>. QED
    BY <1>2, <2>1, Zenon DEF IsHistory
<1>5. ASSUME NEW j \in DOMAIN Q, NEW k \in DOMAIN Q, j < k PROVE EndOf(Q, j) <= Q[k].start
  <2>1. j \in DOMAIN P /\ (k \in DOMAIN P \/ k = n)
    BY <1>1, <1>3, <1>5
  <2>2. EndOf(Q, j) = EndOf(P, j)
    BY <1>2, <2>1, Zenon DEF EndOf, PartsOf
  <2>3. CASE k \in DOMAIN P
    BY <1>2, <1>5, <2>1, <2>2, <2>3, Zenon DEF IsHistory
  <2>4. CASE k = n
    BY <1>2, <2>1, <2>2, <2>4, Zenon
  <2>. QED
    BY <2>1, <2>3, <2>4
<1>6. IsHistory(Q)
  BY <1>3, <1>4, <1>5, Zenon DEF IsHistory
<1>7. ASSUME NEW k \in DOMAIN P PROVE k \in DOMAIN Q /\ Q[k] = P[k]
  <2>1. k \in 1 .. n
    BY <1>1
  <2>. QED
    BY <1>2, <1>3, <2>1, Zenon
<1>. QED
  BY <1>2, <1>3, <1>6, <1>7 DEF Q

(* What a new message leaves alone: fragments, and handles that are behind. *)
LEMMA GrowthKeeps ==
  ASSUME NEW P, IsHistory(P), NEW m, IsMessage(m), \A k \in DOMAIN P : EndOf(P, k) <= m.start
  PROVE  /\ \A w : Carries(P, w) => Carries(Append(P, m), w)
         /\ \A s \in Nat : s <= m.start => Below(Append(P, m), s) = Below(P, s)
         /\ \A h, s, o : /\ h.seqno \in Nat /\ h.seqno <= m.start
                         /\ s \in Nat /\ s <= m.start
                         /\ Follows(P, h, s, o)
                         => Follows(Append(P, m), h, s, o)
                              /\ IndexOf(Append(P, m), h) = IndexOf(P, h)
<1>. DEFINE Q == Append(P, m)
            n == Len(P) + 1
<1>1. Len(P) \in Nat /\ DOMAIN P = 1 .. Len(P) /\ m.start \in Nat
  BY HistoryTypes DEF IsMessage
<1>2. DOMAIN Q = 1 .. n /\ Q[n] = m /\ \A k \in DOMAIN P : k \in DOMAIN Q /\ Q[k] = P[k]
  <2>1. DOMAIN Append(P, m) = 1 .. Len(P) + 1 /\ Append(P, m)[Len(P) + 1] = m
    BY HistoryGrows, Zenon
  <2>2. \A k \in DOMAIN P : k \in DOMAIN Append(P, m) /\ Append(P, m)[k] = P[k]
    BY HistoryGrows
  <2>. QED
    BY <2>1, <2>2, Zenon
<1>. HIDE DEF Q
<1>3. \A k \in DOMAIN P : PartsOf(Q, k) = PartsOf(P, k)
  BY <1>2, Zenon DEF PartsOf
<1>4. ASSUME NEW w, Carries(P, w) PROVE Carries(Q, w)
  BY <1>2, <1>3, <1>4, Zenon DEF Carries
<1>5. ASSUME NEW s \in Nat, s <= m.start PROVE Below(Q, s) = Below(P, s)
  <2>1. {k \in DOMAIN Q : Q[k].start < s} = {k \in DOMAIN P : P[k].start < s}
    <3>1. ASSUME NEW k \in DOMAIN Q, Q[k].start < s PROVE k \in DOMAIN P
      <4>1. k # n
        BY <1>1, <1>2, <1>5, <3>1
      <4>. QED
        BY <1>1, <1>2, <4>1
    <3>. QED
      BY <1>2, <3>1, Zenon
  <2>. QED
    BY <2>1, Zenon DEF Below
<1>6. ASSUME NEW h, ReadsOn(P, h) PROVE ReadsOn(Q, h)
  <2>1. CASE h.partial = NoMessage /\ h.pc # "deliver"
    BY <2>1, Zenon DEF ReadsOn
  <2>2. ASSUME NEW k \in DOMAIN P, NEW j \in 1 .. PartsOf(P, k),
               h.seqno = P[k].start + j, Joined(h.partial, P[k].contents, j),
               h.pc = "deliver" <=> j = PartsOf(P, k)
        PROVE  ReadsOn(Q, h)
    <3>1. k \in DOMAIN Q /\ Q[k] = P[k] /\ PartsOf(Q, k) = PartsOf(P, k)
      BY <1>2, <1>3, Zenon
    <3>. QED
      BY <2>2, <3>1, Zenon DEF ReadsOn
  <2>. QED
    BY <1>6, <2>1, <2>2, Zenon DEF ReadsOn
<1>7. ASSUME NEW h, NEW s, NEW o, h.seqno \in Nat, h.seqno <= m.start, s \in Nat, s <= m.start,
             Follows(P, h, s, o)
      PROVE  Follows(Q, h, s, o) /\ IndexOf(Q, h) = IndexOf(P, h)
  <2>1. Below(Q, s) = Below(P, s) /\ Below(Q, h.seqno) = Below(P, h.seqno)
    BY <1>5, <1>7, Zenon
  <2>2. IndexOf(Q, h) = IndexOf(P, h)
    BY <2>1, Zenon DEF IndexOf
  <2>. QED
    BY <1>6, <1>7, <2>1, <2>2, Zenon DEF Follows
<1>. QED
  BY <1>4, <1>5, <1>7, Zenon DEF Q

(* Publisher q of a topic at position n is at fragment j of message k. *)
AtPart(P, n, q, k, j) ==
  /\ q.parts = [i \in 1 .. PartsOf(P, k) - j + 1 |-> Split(P[k].contents)[j - 1 + i]]
  /\ n = P[k].start + IF q.pc = "send" THEN j ELSE j - 1
  /\ q.pc \in {"load", "advance", "send"} => q.args.nonce = P[k].start + j - 1

(* A publisher has finished all messages, or is at a fragment of the last. *)
Publishes(P, n, q) ==
  /\ "parts" \in DOMAIN q
  /\ \/ q.pc = "idle" /\ \A k \in DOMAIN P : EndOf(P, k) <= n
     \/ /\ q.pc \in {"buckets", "nonce", "load", "advance", "send"}
        /\ Len(P) \in DOMAIN P
        /\ \E j \in 1 .. PartsOf(P, Len(P)) : AtPart(P, n, q, Len(P), j)

(* The inductive form of LogSpec: what is published is a history, writes carry
   its fragments, and handles follow it. *)
LogInv ==
  /\ IsHistory(published)
  /\ \A p \in Publisher : Publishes(published, seqno, pub[p])
  /\ \A i \in DOMAIN queue : Carries(published, queue[i])
  /\ \A i \in DOMAIN store : Carries(published, store[i].write)
  /\ DOMAIN out = Reader
  /\ \A r \in Reader : Follows(published, handle[r], saved[r], out[r])

(* The log, and the place and the state of the handles in it. *)
LogLog == [k \in DOMAIN published |-> published[k].contents]
LogNext == [r \in Reader |-> NextIndex(handle[r])]
LogOpen == [r \in Reader |-> handle[r].pc \in {"poll", "read", "deliver"}]

(* The mapping, in terms of the history. *)
LEMMA Mapping ==
  /\ LogNext = [r \in Reader |-> IndexOf(published, handle[r])]
  /\ LogNext' = [r \in Reader |-> IndexOf(published', handle'[r])]
  /\ LogOpen = [r \in Reader |-> handle[r].pc \in Reading]
  /\ LogOpen' = [r \in Reader |-> handle'[r].pc \in Reading]
<1>1. LogNext = [r \in Reader |-> IndexOf(published, handle[r])]
  BY Zenon DEF LogNext, NextIndex, IndexOf, Below
<1>2. LogNext' = [r \in Reader |-> IndexOf(published', handle'[r])]
  BY Zenon DEF LogNext, NextIndex, IndexOf, Below
<1>3. /\ LogOpen = [r \in Reader |-> handle[r].pc \in Reading]
      /\ LogOpen' = [r \in Reader |-> handle'[r].pc \in Reading]
  BY Zenon DEF LogOpen, Reading
<1>. QED
  BY <1>1, <1>2, <1>3, Zenon

(* A new topic is an empty log that nobody reads. *)
LEMMA LogInit == Init => LogInv /\ Log!Init
<1>. SUFFICES ASSUME Init PROVE LogInv /\ Log!Init
  BY Zenon
<1>1. /\ published = <<>> /\ DOMAIN published = {} /\ queue = <<>> /\ store = <<>>
      /\ seqno = 0 /\ pub = [p \in Publisher |-> Idle]
      /\ saved = [r \in Reader |-> 0] /\ out = [r \in Reader |-> <<>>]
      /\ handle = [r \in Reader |-> [UnmarshalText(0) EXCEPT !.pc = "unshared"]]
  BY DEF Init
<1>. DEFINE u == [UnmarshalText(0) EXCEPT !.pc = "unshared"]
<1>2. Fields(u) /\ u.pc = "unshared" /\ u.seqno = 0 /\ u.partial = NoMessage
  BY DEF UnmarshalText, Fields
<1>3. \A r \in Reader : handle[r] = u
  BY <1>1, Zenon
<1>. HIDE DEF u
<1>4. IsHistory(published)
  BY <1>1 DEF IsHistory, IsSeq
<1>5. ASSUME NEW p \in Publisher PROVE Publishes(published, seqno, pub[p])
  BY <1>1, <1>5 DEF Publishes, Idle
<1>6. "unshared" \notin Reading /\ u.pc \notin Reading /\ u.pc # "down"
  BY <1>2 DEF Reading
<1>7. \A r \in Reader : Follows(published, handle[r], saved[r], out[r])
  BY <1>1, <1>2, <1>3, <1>6 DEF Follows
<1>8. LogInv
  <2>1. DOMAIN queue = {} /\ DOMAIN store = {} /\ DOMAIN out = Reader
    BY <1>1
  <2>. QED
    BY <1>4, <1>5, <1>7, <2>1, Zenon DEF LogInv
<1>9. IndexOf(published, u) = 1
  <2>1. ~ (u.partial.receivedEnd > 0)
    BY <1>2 DEF NoMessage
  <2>2. {k \in DOMAIN published : published[k].start < u.seqno} = {}
    BY <1>1
  <2>3. Below(published, u.seqno) = 0
    BY <2>2, FS_EmptySet, Zenon DEF Below
  <2>. QED
    BY <2>1, <2>3 DEF IndexOf
<1>10. LogNext = [r \in Reader |-> 1]
  BY <1>3, <1>9, Mapping, Zenon
<1>11. LogOpen = [r \in Reader |-> FALSE]
  <2>1. \A r \in Reader : (handle[r].pc \in Reading) = FALSE
    BY <1>3, <1>6
  <2>. QED
    BY <2>1, Mapping, Zenon
<1>12. LogLog = <<>>
  BY <1>1 DEF LogLog
<1>13. Log!Init
  BY <1>1, <1>10, <1>11, <1>12, Zenon DEF Log!Init, LogLog, LogNext, LogOpen
<1>. QED
  BY <1>8, <1>13

(* What the log shows of a step that leaves reader r with handle g. *)
Shows(r, g) ==
  /\ LogLog' = LogLog
  /\ LogNext' = [LogNext EXCEPT ![r] = IndexOf(published, g)]
  /\ LogOpen' = [LogOpen EXCEPT ![r] = g.pc \in Reading]

(* A step of reader r. *)
LEMMA ReaderLogs ==
  ASSUME LogInv, BehindInv, NEW r \in Reader, UNCHANGED <<topicVars, store>>,
         NEW g, handle' = [handle EXCEPT ![r] = g],
         \A q \in Reader \ {r} : saved'[q] = saved[q] /\ out'[q] = out[q], DOMAIN out' = Reader,
         Follows(published, g, saved'[r], out'[r])
  PROVE  LogInv' /\ Shows(r, g)
<1>1. UNCHANGED <<seqno, pub, queue, published, store>>
  BY DEF topicVars
<1>2. DOMAIN handle = Reader
  BY DEF BehindInv
<1>3. handle'[r] = g /\ \A q \in Reader \ {r} : handle'[q] = handle[q]
  BY <1>2
<1>4. ASSUME NEW q \in Reader PROVE Follows(published', handle'[q], saved'[q], out'[q])
  <2>1. CASE q = r
    BY <1>1, <1>3, <2>1, Zenon
  <2>2. CASE q # r
    BY <1>1, <1>3, <2>2, Zenon DEF LogInv
  <2>. QED
    BY <2>1, <2>2
<1>5. LogInv'
  <2>1. IsHistory(published') /\ \A p \in Publisher : Publishes(published', seqno', pub'[p])
    BY <1>1, Zenon DEF LogInv
  <2>2. /\ \A i \in DOMAIN queue' : Carries(published', queue'[i])
        /\ \A i \in DOMAIN store' : Carries(published', store'[i].write)
    BY <1>1, Zenon DEF LogInv
  <2>. QED
    BY <1>4, <2>1, <2>2, Zenon DEF LogInv
<1>6. LogLog' = LogLog
  BY <1>1, Zenon DEF LogLog
<1>7. ASSUME NEW q \in Reader
      PROVE  /\ q = r => IndexOf(published', handle'[q]) = IndexOf(published, g)
             /\ q # r => IndexOf(published', handle'[q]) = IndexOf(published, handle[q])
  BY <1>1, <1>3, Zenon
<1>8. LogNext' = [LogNext EXCEPT ![r] = IndexOf(published, g)]
  BY <1>7, Mapping
<1>9. LogOpen' = [LogOpen EXCEPT ![r] = g.pc \in Reading]
  <2>1. ASSUME NEW q \in Reader
        PROVE  /\ q = r => (handle'[q].pc \in Reading) = (g.pc \in Reading)
               /\ q # r => (handle'[q].pc \in Reading) = (handle[q].pc \in Reading)
    BY <1>3, Zenon
  <2>2. /\ LogOpen = [q \in Reader |-> handle[q].pc \in Reading]
        /\ LogOpen' = [q \in Reader |-> handle'[q].pc \in Reading]
    BY Mapping, ZenonT(30)
  <2>. QED
    BY <2>1, <2>2
<1>. QED
  BY <1>5, <1>6, <1>8, <1>9, Zenon DEF Shows

(* A step of reader r that the log does not show. *)
LEMMA ReaderStutters ==
  ASSUME LogInv, BehindInv, NEW r \in Reader, UNCHANGED <<topicVars, store, saved, out>>,
         NEW g, handle' = [handle EXCEPT ![r] = g],
         Follows(published, g, saved[r], out[r]),
         IndexOf(published, g) = IndexOf(published, handle[r]),
         g.pc \in Reading <=> handle[r].pc \in Reading
  PROVE  LogInv' /\ UNCHANGED Log!vars
<1>1. /\ \A q \in Reader \ {r} : saved'[q] = saved[q] /\ out'[q] = out[q]
      /\ DOMAIN out' = Reader /\ saved'[r] = saved[r] /\ out'[r] = out[r]
  BY Zenon DEF LogInv
<1>2. UNCHANGED <<topicVars, store>> /\ Follows(published, g, saved'[r], out'[r])
  BY <1>1, Zenon
<1>3. LogInv' /\ Shows(r, g)
  BY <1>1, <1>2, ReaderLogs, ZenonT(30)
<1>4. LogNext' = LogNext
  <2>1. LogNext = [q \in Reader |-> IndexOf(published, handle[q])]
    BY Mapping, Zenon
  <2>. QED
    BY <1>3, <2>1 DEF Shows
<1>5. LogOpen' = LogOpen
  <2>1. LogOpen = [q \in Reader |-> handle[q].pc \in Reading]
    BY Mapping, Zenon
  <2>2. (g.pc \in Reading) = (handle[r].pc \in Reading)
    OBVIOUS
  <2>. QED
    BY <1>3, <2>1, <2>2 DEF Shows
<1>. QED
  BY <1>3, <1>4, <1>5 DEF Shows, Log!vars, LogLog, LogNext, LogOpen

(* Polls and reads are not seen by the application (client.go:371-392,
   handle.go:161-166). *)
LEMMA ReadLogs ==
  ASSUME LogInv, BehindInv, NEW r \in Reader, GeneratePoll(r) \/ Read(r) \/ ReadFails(r)
  PROVE  LogInv' /\ UNCHANGED Log!vars
<1>. DEFINE h == handle[r]
<1>1. UNCHANGED <<topicVars, store, saved, out>>
  BY DEF GeneratePoll, Read, ReadFails
<1>2. IsHistory(published) /\ Follows(published, h, saved[r], out[r]) /\ DOMAIN handle = Reader
  BY Zenon DEF LogInv, BehindInv
<1>3. ASSUME NEW g, handle' = [handle EXCEPT ![r] = g], h.pc \in Reading,
             Follows(published, g, saved[r], out[r]), g.pc \in Reading,
             IndexOf(published, g) = IndexOf(published, h)
      PROVE  LogInv' /\ UNCHANGED Log!vars
  BY <1>1, <1>3, ReaderStutters, Zenon
<1>4. CASE GeneratePoll(r)
  <2>. DEFINE g == [h EXCEPT !.pc = "read", !.buckets = BucketsAt(h.seqno)]
  <2>1. handle' = [handle EXCEPT ![r] = g] /\ h.pc = "poll"
    BY <1>2, <1>4, Zenon DEF GeneratePoll
  <2>2. Fields(g) /\ g.pc = "read" /\ g.seqno = h.seqno /\ g.partial = h.partial
        /\ g.received = h.received
    BY <1>2 DEF Follows, Fields
  <2>. HIDE DEF g
  <2>3. IndexOf(published, g) = IndexOf(published, h)
    BY <2>2, Zenon DEF IndexOf
  <2>4. /\ g.pc \in Reading /\ h.pc \in Reading /\ g.pc # "deliver" /\ h.pc # "deliver"
        /\ g.pc \notin {"unshared", "down"}
    BY <2>1, <2>2 DEF Reading
  <2>5. ReadsOn(published, h) => ReadsOn(published, g)
    BY <2>2, <2>4, ZenonT(30) DEF ReadsOn
  <2>6. Follows(published, g, saved[r], out[r])
    BY <1>2, <2>2, <2>3, <2>4, <2>5 DEF Follows
  <2>. QED
    BY <1>3, <2>1, <2>3, <2>4, <2>6, Zenon
<1>5. ASSUME h.pc = "read", handle' = [handle EXCEPT ![r] = AfterRead(h)]
      PROVE  LogInv' /\ UNCHANGED Log!vars
  <2>1. h.pc \in Reading
    BY <1>5 DEF Reading
  <2>. QED
    BY <1>2, <1>3, <1>5, <2>1, ReadNothing, Zenon
<1>6. CASE ReadFails(r)
  <2>1. h.pc = "read" /\ handle' = [handle EXCEPT ![r] = AfterRead(h)]
    BY <1>6, Zenon DEF ReadFails
  <2>. QED
    BY <1>5, <2>1
<1>7. ASSUME h.pc = "read", NEW w \in Bucket(Head(h.buckets)), Decrypts(h, w),
             handle' = [handle EXCEPT ![r] = Taken(h, w.part)]
      PROVE  LogInv' /\ UNCHANGED Log!vars
  <2>1. w.part # Cover /\ \E i \in DOMAIN store : store[i].write = w
    BY Zenon DEF Bucket
  <2>2. Carries(published, w)
    BY <2>1, Zenon DEF LogInv
  <2>3. h.pc \in Reading
    BY <1>7 DEF Reading
  <2>. QED
    BY <1>2, <1>3, <1>7, <2>1, <2>2, <2>3, ReadFragment, Zenon
<1>8. CASE Read(r)
  <2>1. h.pc = "read"
    BY <1>8, Zenon DEF Read
  <2>2. \/ handle' = [handle EXCEPT ![r] = AfterRead(h)]
        \/ \E w \in Bucket(Head(h.buckets)) :
             Decrypts(h, w) /\ handle' = [handle EXCEPT ![r] = Taken(h, w.part)]
    BY <1>8, Zenon DEF Read, Taken
  <2>. QED
    BY <1>5, <1>7, <2>1, <2>2, Zenon
<1>. QED
  BY <1>4, <1>6, <1>8

(* The send on updates is the delivery of the next message (handle.go:166-171). *)
LEMMA DeliverLogs ==
  ASSUME LogInv, BehindInv, NEW r \in Reader, Deliver(r)
  PROVE  LogInv' /\ Log!Deliver(r)
<1>. DEFINE h == handle[r]
            g == AfterRead([h EXCEPT !.partial = NoMessage, !.received = TRUE])
            n == IndexOf(published, h)
<1>1. UNCHANGED <<topicVars, store, saved>> /\ h.pc = "deliver"
      /\ handle' = [handle EXCEPT ![r] = g]
      /\ out' = [out EXCEPT ![r] = Append(out[r], h.partial.contents)]
  BY Zenon DEF Deliver
<1>2. IsHistory(published) /\ Follows(published, h, saved[r], out[r]) /\ DOMAIN out = Reader
  BY Zenon DEF LogInv
<1>3. /\ n \in DOMAIN published /\ h.partial.contents = published[n].contents
      /\ Follows(published, g, saved[r], out'[r]) /\ g.pc \in Reading
      /\ IndexOf(published, g) = n + 1
  BY <1>1, <1>2, DeliverNext, Zenon
<1>. HIDE DEF g
<1>4. /\ \A q \in Reader \ {r} : saved'[q] = saved[q] /\ out'[q] = out[q]
      /\ DOMAIN out' = Reader /\ saved'[r] = saved[r]
  BY <1>1, <1>2
<1>5. UNCHANGED <<topicVars, store>> /\ Follows(published, g, saved'[r], out'[r])
  BY <1>1, <1>3, <1>4, Zenon
<1>6. LogInv' /\ Shows(r, g)
  BY <1>1, <1>3, <1>4, <1>5, ReaderLogs, Zenon
<1>7. h.pc \in Reading
  BY <1>1 DEF Reading
<1>8. LogNext[r] = n /\ LogOpen[r]
  BY <1>7, Mapping, Zenon
<1>9. LogOpen' = LogOpen
  <2>1. LogOpen = [q \in Reader |-> handle[q].pc \in Reading]
    BY Mapping, Zenon
  <2>2. (g.pc \in Reading) = (h.pc \in Reading)
    BY <1>3, <1>7
  <2>. QED
    BY <1>6, <2>1, <2>2 DEF Shows
<1>10. LogLog[n] = published[n].contents /\ n <= Len(LogLog)
  <2>1. Len(published) \in Nat /\ DOMAIN published = 1 .. Len(published)
    BY <1>2, HistoryTypes, Zenon
  <2>2. LogLog = [k \in 1 .. Len(published) |-> published[k].contents]
    BY <2>1, Zenon DEF LogLog
  <2>3. Len(LogLog) = Len(published)
    BY <2>1, <2>2
  <2>. QED
    BY <1>3, <2>1, <2>2, <2>3
<1>11. out' = [out EXCEPT ![r] = Append(out[r], LogLog[LogNext[r]])]
  BY <1>1, <1>3, <1>8, <1>10, Zenon
<1>12. LogOpen[r] /\ LogNext[r] <= Len(LogLog)
       /\ LogNext' = [LogNext EXCEPT ![r] = LogNext[r] + 1]
  BY <1>3, <1>6, <1>8, <1>10, Zenon DEF Shows
<1>. QED
  BY <1>6, <1>9, <1>11, <1>12, Zenon DEF Shows, Log!Deliver, LogLog, LogNext, LogOpen

(* The topic is in the last message, or after it. *)
LEMMA TopicPlace ==
  ASSUME NEW P, IsHistory(P), NEW n \in Nat, NEW q, Publishes(P, n, q)
  PROVE  Below(P, n) \in Nat /\ Below(P, n) + 1 \in {Len(P), Len(P) + 1} \ {0}
<1>1. Len(P) \in Nat /\ DOMAIN P = 1 .. Len(P)
  BY HistoryTypes, Zenon
<1>2. CASE \A k \in DOMAIN P : EndOf(P, k) <= n
  <2>1. ASSUME NEW k \in DOMAIN P PROVE P[k].start < n
    <3>1. P[k].start \in Nat /\ EndOf(P, k) \in Nat /\ P[k].start < EndOf(P, k) /\ EndOf(P, k) <= n
      BY <1>2, HistoryTypes, Zenon
    <3>. QED
      BY <3>1
  <2>2. Len(P) > 0 => P[Len(P)].start < n
    BY <1>1, <2>1
  <2>3. \A i \in DOMAIN P : i > Len(P) => n <= P[i].start
    BY <1>1
  <2>4. Len(P) \in 0 .. Len(P)
    BY <1>1
  <2>5. Below(P, n) = Len(P)
    BY <2>2, <2>3, <2>4, BelowIs, Zenon
  <2>. QED
    BY <1>1, <2>5
<1>3. ASSUME Len(P) \in DOMAIN P, NEW j \in 1 .. PartsOf(P, Len(P)), AtPart(P, n, q, Len(P), j)
      PROVE  Below(P, n) \in Nat /\ Below(P, n) + 1 \in {Len(P), Len(P) + 1} \ {0}
  <2>. DEFINE k == Len(P)
  <2>1. P[k].start \in Nat /\ PartsOf(P, k) \in Nat /\ k \in Nat \ {0}
    BY <1>1, <1>3, HistoryTypes
  <2>2. Below(P, P[k].start) = k - 1 /\ \A i \in 1 .. PartsOf(P, k) : Below(P, P[k].start + i) = k
    BY <1>3, PlaceIndex, Zenon
  <2>3. n = P[k].start + j \/ n = P[k].start + (j - 1)
    BY <1>3, Zenon DEF AtPart
  <2>. HIDE DEF k
  <2>4. Below(P, n) = k \/ Below(P, n) = k - 1
    <3>1. CASE n = P[k].start + j
      BY <2>2, <3>1 DEF k
    <3>2. CASE n = P[k].start + (j - 1) /\ j = 1
      <4>1. n = P[k].start
        BY <2>1, <3>2
      <4>. QED
        BY <2>2, <4>1
    <3>3. CASE n = P[k].start + (j - 1) /\ j # 1
      <4>1. j - 1 \in 1 .. PartsOf(P, k)
        BY <2>1, <3>3 DEF k
      <4>. QED
        BY <2>2, <3>3, <4>1
    <3>. QED
      BY SMTT(20), <2>3, <3>1, <3>2, <3>3
  <2>. QED
    BY SMTT(20), <2>1, <2>4 DEF k
<1>. QED
  BY <1>2, <1>3, Zenon DEF Publishes

(* The log has the length of the history. *)
LEMMA LogLength ==
  ASSUME LogInv
  PROVE  Len(LogLog) = Len(published) /\ Len(published) \in Nat
<1>1. Len(published) \in Nat /\ DOMAIN published = 1 .. Len(published)
  BY HistoryTypes, Zenon DEF LogInv
<1>2. LogLog = [k \in 1 .. Len(published) |-> published[k].contents]
  BY <1>1, Zenon DEF LogLog
<1>. QED
  BY <1>1, <1>2

(* A shared handle starts at the end, or in the message being published
   (talekclient/main.go:64-73). *)
LEMMA ShareLogs ==
  ASSUME LogInv, BehindInv, NEW p, Publisher = {p}, NEW r \in Reader, Share(r)
  PROVE  LogInv' /\ Log!Share(r)
<1>. DEFINE h == handle[r]
            g == Down(seqno)
            n == Below(published, seqno) + 1
<1>1. UNCHANGED <<topicVars, store, out>> /\ h.pc = "unshared"
      /\ handle' = [handle EXCEPT ![r] = g] /\ saved' = [saved EXCEPT ![r] = seqno]
  BY Zenon DEF Share
<1>2. IsHistory(published) /\ Follows(published, h, saved[r], out[r]) /\ DOMAIN out = Reader
      /\ DOMAIN saved = Reader /\ seqno \in Nat /\ Publishes(published, seqno, pub[p])
  BY Zenon DEF LogInv, BehindInv
<1>3. /\ \A q \in Reader \ {r} : saved'[q] = saved[q] /\ out'[q] = out[q]
      /\ DOMAIN out' = Reader /\ saved'[r] = seqno /\ out'[r] = out[r]
  BY <1>1, <1>2
<1>4. Follows(published, g, seqno, out[r]) /\ IndexOf(published, g) = n /\ g.pc = "down"
  BY FromFile, Zenon
<1>. HIDE DEF g
<1>5. LogInv' /\ Shows(r, g)
  <2>1. UNCHANGED <<topicVars, store>> /\ Follows(published, g, saved'[r], out'[r])
    BY <1>1, <1>3, <1>4, Zenon
  <2>. QED
    BY <1>1, <1>3, <2>1, ReaderLogs, Zenon
<1>6. out[r] = <<>>
  BY <1>1, <1>2, Zenon DEF Follows
<1>7. n \in {Len(LogLog), Len(LogLog) + 1} \ {0}
  BY <1>2, TopicPlace, LogLength, Zenon
<1>8. LogNext' = [LogNext EXCEPT ![r] = n]
  BY <1>4, <1>5, Zenon DEF Shows
<1>9. ~ (g.pc \in Reading) /\ ~ (h.pc \in Reading)
  BY <1>1, <1>4 DEF Reading
<1>10. ~ LogOpen[r] /\ LogOpen' = LogOpen
  <2>1. LogOpen = [q \in Reader |-> handle[q].pc \in Reading]
    BY Mapping, Zenon
  <2>2. (g.pc \in Reading) = (h.pc \in Reading)
    BY <1>9
  <2>3. LogOpen' = LogOpen
    BY <1>5, <2>1, <2>2 DEF Shows
  <2>. QED
    BY <1>9, <2>1, <2>3, Zenon
<1>. HIDE DEF n
<1>11. out' = out /\ LogLog' = LogLog
  BY <1>1, <1>5, Zenon DEF Shows
<1>. QED
  BY <1>5, <1>6, <1>7, <1>8, <1>10, <1>11, Zenon DEF Log!Share, LogLog, LogNext, LogOpen

(* A handle is read from its file (talekclient/main.go:47-62). *)
LEMMA OpenLogs ==
  ASSUME LogInv, BehindInv, NEW r \in Reader, Open(r)
  PROVE  LogInv' /\ Log!Open(r)
<1>. DEFINE h == handle[r]
            s == saved[r]
            g == UnmarshalText(s)
<1>1. UNCHANGED <<topicVars, store, saved, out>> /\ h.pc = "down"
      /\ handle' = [handle EXCEPT ![r] = g]
  BY Zenon DEF Open
<1>2. IsHistory(published) /\ Follows(published, h, saved[r], out[r]) /\ DOMAIN out = Reader
  BY Zenon DEF LogInv
<1>3. /\ \A q \in Reader \ {r} : saved'[q] = saved[q] /\ out'[q] = out[q]
      /\ DOMAIN out' = Reader /\ saved'[r] = s /\ out'[r] = out[r]
  BY <1>1, <1>2
<1>4. Follows(published, g, s, out[r]) /\ IndexOf(published, g) = Below(published, s) + 1
      /\ g.pc = "poll"
  BY FromFile, Zenon
<1>. HIDE DEF g
<1>5. LogInv' /\ Shows(r, g)
  <2>1. UNCHANGED <<topicVars, store>> /\ Follows(published, g, saved'[r], out'[r])
    BY <1>1, <1>3, <1>4, Zenon
  <2>. QED
    BY <1>1, <1>3, <2>1, ReaderLogs, Zenon
<1>6. IndexOf(published, h) = Below(published, s) + 1
  <2>1. h.seqno = s /\ h.partial = NoMessage
    BY <1>1, <1>2 DEF Follows
  <2>2. ~ (h.partial.receivedEnd > 0)
    BY <2>1 DEF NoMessage
  <2>. QED
    BY <2>1, <2>2, Zenon DEF IndexOf
<1>7. LogNext' = LogNext
  <2>1. LogNext = [q \in Reader |-> IndexOf(published, handle[q])]
    BY Mapping, Zenon
  <2>. QED
    BY <1>4, <1>5, <1>6, <2>1 DEF Shows
<1>8. LogOpen' = [LogOpen EXCEPT ![r] = TRUE]
  <2>1. g.pc \in Reading
    BY <1>4 DEF Reading
  <2>2. (g.pc \in Reading) = TRUE
    BY <2>1
  <2>. QED
    BY <1>5, <2>2, Zenon DEF Shows
<1>9. out' = out /\ LogLog' = LogLog
  BY <1>1, <1>5, Zenon DEF Shows
<1>. QED
  BY <1>5, <1>7, <1>8, <1>9, Zenon DEF Log!Open, LogLog, LogNext, LogOpen

(* The end of a process: the file is written and the message that has begun is
   lost, or it is not and the handle is back where it was
   (talekclient/main.go:110-147). *)
LEMMA CloseLogs ==
  ASSUME LogInv, BehindInv, NEW r \in Reader, Close(r) \/ Timeout(r)
  PROVE  LogInv' /\ Log!Close(r)
<1>. DEFINE h == handle[r]
<1>1. UNCHANGED <<topicVars, store, out>> /\ h.pc \in Reading
  BY Zenon DEF Close, Timeout, Reading
<1>2. IsHistory(published) /\ Follows(published, h, saved[r], out[r]) /\ DOMAIN out = Reader
      /\ DOMAIN saved = Reader
  BY Zenon DEF LogInv, BehindInv
<1>3. PICK s : /\ handle' = [handle EXCEPT ![r] = Down(s)]
               /\ saved'[r] = s /\ \A q \in Reader \ {r} : saved'[q] = saved[q]
               /\ \/ IndexOf(published, Down(s)) = IndexOf(published, h)
                  \/ IndexOf(published, h) <= Len(published)
                       /\ IndexOf(published, Down(s)) = IndexOf(published, h) + 1
  <2>1. CASE Close(r)
    <3>1. handle' = [handle EXCEPT ![r] = Down(h.seqno)] /\ saved' = [saved EXCEPT ![r] = h.seqno]
      BY <2>1, Zenon DEF Close
    <3>2. saved'[r] = h.seqno /\ \A q \in Reader \ {r} : saved'[q] = saved[q]
      BY <1>2, <3>1
    <3>3. \/ IndexOf(published, Down(h.seqno)) = IndexOf(published, h)
          \/ IndexOf(published, h) <= Len(published)
               /\ IndexOf(published, Down(h.seqno)) = IndexOf(published, h) + 1
      BY <1>1, <1>2, CloseDrops, Zenon
    <3>. QED
      BY <3>1, <3>2, <3>3, Zenon
  <2>2. CASE Timeout(r)
    <3>1. handle' = [handle EXCEPT ![r] = Down(saved[r])] /\ saved' = saved /\ ~ h.received
      BY <2>2, Zenon DEF Timeout
    <3>2. IndexOf(published, h) = Below(published, saved[r]) + 1
      BY <1>1, <1>2, <3>1, Zenon DEF Follows
    <3>3. IndexOf(published, Down(saved[r])) = Below(published, saved[r]) + 1
      BY FromFile, Zenon
    <3>. QED
      BY <3>1, <3>2, <3>3, Zenon
  <2>. QED
    BY <2>1, <2>2
<1>. DEFINE g == Down(s)
<1>4. Follows(published, g, s, out[r]) /\ g.pc = "down"
  BY FromFile, Zenon
<1>5. handle' = [handle EXCEPT ![r] = g] /\ out' = out
      /\ \/ IndexOf(published, g) = IndexOf(published, h)
         \/ IndexOf(published, h) <= Len(published)
              /\ IndexOf(published, g) = IndexOf(published, h) + 1
  BY <1>1, <1>3, Zenon
<1>. HIDE DEF g
<1>6. LogInv' /\ Shows(r, g)
  <2>1. UNCHANGED <<topicVars, store>> /\ Follows(published, g, saved'[r], out'[r])
    BY <1>1, <1>3, <1>4, <1>5, Zenon
  <2>2. /\ \A q \in Reader \ {r} : saved'[q] = saved[q] /\ out'[q] = out[q]
        /\ DOMAIN out' = Reader
    BY <1>2, <1>3, <1>5, Zenon
  <2>. QED
    BY <1>5, <2>1, <2>2, ReaderLogs, Zenon
<1>7. LogNext = [q \in Reader |-> IndexOf(published, handle[q])]
      /\ LogOpen = [q \in Reader |-> handle[q].pc \in Reading]
  BY Mapping, Zenon
<1>8. LogNext[r] = IndexOf(published, h) /\ LogOpen[r]
  BY <1>1, <1>7, Zenon
<1>9. LogNext' = LogNext \/ (LogNext[r] <= Len(LogLog) /\ LogNext' = [LogNext EXCEPT ![r] = LogNext[r] + 1])
  <2>1. CASE IndexOf(published, g) = IndexOf(published, h)
    <3>1. LogNext' = LogNext
      BY <1>6, <1>7, <2>1 DEF Shows
    <3>. QED
      BY <3>1
  <2>2. CASE IndexOf(published, h) <= Len(published)
               /\ IndexOf(published, g) = IndexOf(published, h) + 1
    BY <1>6, <1>8, <2>2, LogLength, Zenon DEF Shows
  <2>. QED
    BY <1>5, <2>1, <2>2, Zenon
<1>10. LogOpen' = [LogOpen EXCEPT ![r] = FALSE]
  <2>1. ~ (g.pc \in Reading)
    BY <1>4 DEF Reading
  <2>2. (g.pc \in Reading) = FALSE
    BY <2>1
  <2>. QED
    BY <1>6, <2>2, Zenon DEF Shows
<1>11. LogLog' = LogLog
  BY <1>6, Zenon DEF Shows
<1>. QED
  BY <1>5, <1>6, <1>8, <1>9, <1>10, <1>11, Zenon DEF Log!Close, LogLog, LogNext, LogOpen

(* A sequence without its first element. *)
LEMMA TailIs ==
  ASSUME NEW s, IsSeq(s), Len(s) >= 1
  PROVE  Head(s) = s[1] /\ Tail(s) = [i \in 1 .. Len(s) - 1 |-> s[i + 1]]
<1>. DEFINE S == {s[i] : i \in 1 .. Len(s)}
<1>1. s \in Seq(S) /\ s # <<>> /\ Len(s) \in Nat
  BY DEF IsSeq
<1>. HIDE DEF S
<1>2. Head(s) = s[1]
  BY <1>1
<1>3. Tail(s) \in Seq(S) /\ Len(Tail(s)) = Len(s) - 1
  BY <1>1
<1>4. \A i \in 1 .. Len(s) - 1 : Tail(s)[i] = s[i + 1]
  BY <1>1
<1>5. \A t \in Seq(S) : t = [i \in 1 .. Len(t) |-> t[i]]
  OBVIOUS
<1>6. Tail(s) = [i \in 1 .. Len(s) - 1 |-> Tail(s)[i]]
  BY <1>3, <1>5, Zenon
<1>. QED
  BY <1>2, <1>4, <1>6

(* The steps of GeneratePublish before Seqno++ stay at a fragment (topic.go:79-88). *)
LEMMA Proceeds ==
  ASSUME NEW P, IsHistory(P), NEW n, NEW q, Publishes(P, n, q), q.pc \in {"buckets", "nonce", "load"},
         NEW g, "parts" \in DOMAIN g, g.parts = q.parts, g.pc \in {"nonce", "load", "advance"},
         g.pc \in {"load", "advance"} => g.args.nonce = n
  PROVE  Publishes(P, n, g)
<1>. DEFINE k == Len(P)
<1>1. PICK j \in 1 .. PartsOf(P, k) : k \in DOMAIN P /\ AtPart(P, n, q, k, j)
  <2>1. q.pc # "idle"
    OBVIOUS
  <2>. QED
    BY <2>1, Zenon DEF Publishes
<1>2. P[k].start \in Nat /\ PartsOf(P, k) \in Nat
  BY <1>1, HistoryTypes, Zenon
<1>3. q.pc # "send" /\ g.pc # "send"
  OBVIOUS
<1>. HIDE DEF k
<1>4. n = P[k].start + (j - 1)
  BY <1>1, <1>3, Zenon DEF AtPart
<1>5. n = P[k].start + j - 1
  BY <1>2, <1>4
<1>6. AtPart(P, n, g, k, j)
  BY <1>1, <1>3, <1>4, <1>5 DEF AtPart
<1>7. g.pc \in {"buckets", "nonce", "load", "advance", "send"}
  OBVIOUS
<1>. QED
  BY <1>1, <1>6, <1>7, Zenon DEF Publishes, k

(* Seqno++ (topic.go:89). *)
LEMMA Advances ==
  ASSUME NEW P, IsHistory(P), NEW n \in Nat, NEW q, Publishes(P, n, q), q.pc = "advance",
         NEW g, "parts" \in DOMAIN g, g.parts = q.parts, g.pc = "send", g.args.nonce = n
  PROVE  Publishes(P, n + 1, g)
<1>. DEFINE k == Len(P)
<1>1. PICK j \in 1 .. PartsOf(P, k) : k \in DOMAIN P /\ AtPart(P, n, q, k, j)
  <2>1. q.pc # "idle"
    OBVIOUS
  <2>. QED
    BY <2>1, Zenon DEF Publishes
<1>2. P[k].start \in Nat /\ PartsOf(P, k) \in Nat
  BY <1>1, HistoryTypes, Zenon
<1>3. q.pc # "send"
  OBVIOUS
<1>. HIDE DEF k
<1>4. n = P[k].start + (j - 1)
  BY <1>1, <1>3, Zenon DEF AtPart
<1>5. n = P[k].start + j - 1 /\ n + 1 = P[k].start + j
  BY SMTT(20), <1>2, <1>4
<1>6. AtPart(P, n + 1, g, k, j)
  BY <1>1, <1>5 DEF AtPart
<1>7. g.pc \in {"buckets", "nonce", "load", "advance", "send"}
  OBVIOUS
<1>. QED
  BY <1>1, <1>6, <1>7, Zenon DEF Publishes, k

(* The fragment that is sent, and where the publisher goes (topic.go:90-94,
   client.go:125-142). *)
LEMMA Sends ==
  ASSUME NEW P, IsHistory(P), NEW n \in Nat, NEW q, Publishes(P, n, q), q.pc = "send",
         NEW w, w.nonce = q.args.nonce, w.part = Head(q.parts),
         NEW g, "parts" \in DOMAIN g, g.parts = Tail(q.parts),
         g.pc = IF Len(q.parts) = 1 THEN "idle" ELSE "buckets"
  PROVE  Carries(P, w) /\ Publishes(P, n, g)
<1>. DEFINE k == Len(P)
            c == P[k].contents
            l == PartsOf(P, k)
<1>1. PICK j \in 1 .. l : k \in DOMAIN P /\ AtPart(P, n, q, k, j)
  <2>1. q.pc # "idle"
    OBVIOUS
  <2>. QED
    BY <2>1, Zenon DEF Publishes
<1>2. P[k].start \in Nat /\ l \in Nat /\ EndOf(P, k) = P[k].start + l /\ k \in Nat
      /\ DOMAIN P = 1 .. k
  BY <1>1, HistoryTypes, ZenonT(30) DEF EndOf
<1>3. n = P[k].start + j /\ q.args.nonce = P[k].start + j - 1
      /\ q.parts = [i \in 1 .. l - j + 1 |-> Split(c)[j - 1 + i]]
  BY <1>1 DEF AtPart
<1>. HIDE DEF k, l, c
<1>4. l - j + 1 \in Nat \ {0} /\ j \in Nat /\ j <= l
  BY <1>2
<1>5. IsSeq(q.parts) /\ Len(q.parts) = l - j + 1 /\ Len(q.parts) >= 1
  BY <1>3, <1>4 DEF IsSeq
<1>6. Head(q.parts) = q.parts[1] /\ Tail(q.parts) = [i \in 1 .. l - j |-> q.parts[i + 1]]
  <2>1. Len(q.parts) - 1 = l - j
    BY <1>2, <1>4, <1>5
  <2>2. Head(q.parts) = q.parts[1]
        /\ Tail(q.parts) = [i \in 1 .. Len(q.parts) - 1 |-> q.parts[i + 1]]
    BY <1>5, TailIs, Zenon
  <2>. QED
    BY <2>1, <2>2, Zenon
<1>7. q.parts[1] = Split(c)[j]
  BY <1>3, <1>4
<1>8. w.nonce = P[k].start + j - 1 /\ w.part = Split(c)[j]
  BY <1>3, <1>6, <1>7
<1>9. Carries(P, w)
  BY <1>1, <1>8, Zenon DEF Carries, c, l
<1>10. CASE j = l
  <2>1. g.pc = "idle"
    BY <1>2, <1>5, <1>10
  <2>2. ASSUME NEW i \in DOMAIN P PROVE EndOf(P, i) <= n
    <3>1. CASE i = k
      BY <1>2, <1>3, <1>10, <3>1
    <3>2. CASE i # k
      <4>1. i < k
        BY <1>2, <3>2
      <4>2. EndOf(P, i) <= P[k].start /\ EndOf(P, i) \in Nat
        BY <1>1, <4>1, HistoryTypes, Zenon DEF IsHistory
      <4>. QED
        BY <1>2, <1>3, <1>4, <4>2
    <3>. QED
      BY <3>1, <3>2
  <2>. QED
    BY <1>9, <2>1, <2>2, ZenonT(30) DEF Publishes
<1>11. CASE j # l
  <2>1. g.pc = "buckets" /\ g.pc # "send"
    BY <1>2, <1>4, <1>5, <1>11
  <2>. DEFINE i0 == j + 1
  <2>2. i0 \in 1 .. l /\ l - i0 + 1 = l - j /\ i0 - 1 = j
    BY <1>2, <1>4, <1>11
  <2>3. \A i \in 1 .. l - j : q.parts[i + 1] = Split(c)[j + i]
    <3>1. ASSUME NEW i \in 1 .. l - j PROVE q.parts[i + 1] = Split(c)[j + i]
      <4>1. i + 1 \in 1 .. l - j + 1 /\ j - 1 + (i + 1) = j + i
        BY <1>2, <1>4
      <4>. QED
        BY <1>3, <4>1
    <3>. QED
      BY <3>1
  <2>4. g.parts = [i \in 1 .. l - i0 + 1 |-> Split(c)[i0 - 1 + i]]
    <3>1. g.parts = [i \in 1 .. l - j |-> Split(c)[j + i]]
      BY <1>6, <2>3, Zenon
    <3>. QED
      BY <2>2, <3>1, Zenon
  <2>. HIDE DEF i0
  <2>5. n = P[k].start + (i0 - 1)
    BY <1>3, <2>2
  <2>6. g.pc \notin {"load", "advance", "send"}
    BY <2>1
  <2>7. AtPart(P, n, g, k, i0)
    BY <2>1, <2>4, <2>5, <2>6, Zenon DEF AtPart, c, l
  <2>8. g.pc \in {"buckets", "nonce", "load", "advance", "send"}
    BY <2>1
  <2>9. \E i \in 1 .. PartsOf(P, Len(P)) : AtPart(P, n, g, Len(P), i)
    BY <2>2, <2>7, Zenon DEF k, l
  <2>10. Len(P) \in DOMAIN P
    BY <1>1, Zenon DEF k
  <2>. QED
    BY <1>9, <2>8, <2>9, <2>10, ZenonT(30) DEF Publishes
<1>. QED
  BY <1>10, <1>11

(* A new message is in the history, with its publisher at its first fragment
   (client.go:123-126, message.go:65-85). *)
LEMMA Begins ==
  ASSUME NEW P, IsHistory(P), NEW m, IsMessage(m), \A k \in DOMAIN P : EndOf(P, k) <= m.start,
         NEW g, "parts" \in DOMAIN g, g.parts = Split(m.contents), g.pc = "buckets"
  PROVE  Publishes(Append(P, m), m.start, g)
<1>. DEFINE Q == Append(P, m)
            k == Len(P) + 1
            l == PartsOf(Q, k)
<1>1. IsHistory(Q) /\ Len(Q) = k /\ DOMAIN Q = 1 .. k /\ Q[k] = m
  BY HistoryGrows, Zenon
<1>. HIDE DEF Q
<1>2. k \in DOMAIN Q
  BY <1>1, HistoryTypes
<1>. HIDE DEF k
<1>3. l \in Nat \ {0} /\ m.start \in Nat
  BY <1>1, <1>2, HistoryTypes, Zenon
<1>4. g.parts = [i \in 1 .. l |-> Split(Q[k].contents)[i]]
  <2>1. l = NumParts(Len(m.contents))
    BY <1>1, Zenon DEF PartsOf
  <2>2. Split(m.contents) = [i \in 1 .. l |-> Split(m.contents)[i]]
    BY <2>1, Zenon DEF Split
  <2>. QED
    BY <1>1, <2>2, Zenon
<1>. HIDE DEF l
<1>5. l - 1 + 1 = l /\ \A i \in 1 .. l : 1 - 1 + i = i
  BY <1>3
<1>6. g.parts = [i \in 1 .. l - 1 + 1 |-> Split(Q[k].contents)[1 - 1 + i]]
  BY <1>4, <1>5
<1>7. m.start = Q[k].start + (1 - 1)
  BY <1>1, <1>3
<1>8. g.pc \notin {"load", "advance", "send"} /\ g.pc # "send"
  OBVIOUS
<1>9. AtPart(Q, m.start, g, k, 1)
  BY <1>6, <1>7, <1>8, Zenon DEF AtPart, l
<1>10. 1 \in 1 .. PartsOf(Q, k) /\ g.pc \in {"buckets", "nonce", "load", "advance", "send"}
  BY <1>3 DEF l
<1>11. Publishes(Q, m.start, g)
  BY <1>1, <1>2, <1>9, <1>10, ZenonT(30) DEF Publishes
<1>. QED
  BY <1>11 DEF Q

(* Steps that neither publish nor touch a reader. *)
LEMMA TopicStutters ==
  ASSUME LogInv, UNCHANGED <<published, handle, saved, out>>,
         \A p \in Publisher : Publishes(published, seqno', pub'[p]),
         \A i \in DOMAIN queue' : Carries(published, queue'[i]),
         \A i \in DOMAIN store' : Carries(published, store'[i].write)
  PROVE  LogInv' /\ UNCHANGED Log!vars
<1>1. published' = published /\ handle' = handle /\ saved' = saved /\ out' = out
  OBVIOUS
<1>2. LogInv'
  BY <1>1, Zenon DEF LogInv
<1>3. LogLog' = LogLog
  BY <1>1, Zenon DEF LogLog
<1>4. LogNext' = LogNext
  <2>1. LogNext = [r \in Reader |-> IndexOf(published, handle[r])]
        /\ LogNext' = [r \in Reader |-> IndexOf(published', handle'[r])]
    BY Mapping, Zenon
  <2>. QED
    BY <1>1, <2>1, Zenon
<1>5. LogOpen' = LogOpen
  BY <1>1, Zenon DEF LogOpen
<1>. QED
  BY SMTT(20), <1>1, <1>2, <1>3, <1>4, <1>5 DEF Log!vars, LogLog, LogNext, LogOpen

(* GeneratePublish up to the send is not seen by readers (topic.go:79-89). *)
LEMMA GenerateLogs ==
  ASSUME LogInv, BehindInv, NEW p, Publisher = {p},
         NextBuckets(p) \/ Nonce(p) \/ Load(p) \/ Advance(p)
  PROVE  LogInv' /\ UNCHANGED Log!vars
<1>. DEFINE q == pub[p]
            g == pub'[p]
<1>1. UNCHANGED <<queue, store, published, handle, saved, out>>
  BY Zenon DEF NextBuckets, Nonce, Load, Advance, readerVars
<1>2. IsHistory(published) /\ Publishes(published, seqno, q) /\ PubInv(p) /\ seqno \in Nat
      /\ p \in DOMAIN pub /\ "parts" \in DOMAIN q
  BY Zenon DEF LogInv, BehindInv, Publishes
<1>3. ASSUME Publishes(published, seqno', g) PROVE LogInv' /\ UNCHANGED Log!vars
  <2>1. \A x \in Publisher : Publishes(published, seqno', pub'[x])
    BY <1>3, Zenon
  <2>2. /\ \A i \in DOMAIN queue' : Carries(published, queue'[i])
        /\ \A i \in DOMAIN store' : Carries(published, store'[i].write)
    BY <1>1, Zenon DEF LogInv
  <2>. QED
    BY <1>1, <2>1, <2>2, TopicStutters, Zenon
<1>4. CASE NextBuckets(p)
  <2>1. g = [q EXCEPT !.pc = "nonce", !.args.at = seqno] /\ q.pc = "buckets" /\ seqno' = seqno
    BY <1>2, <1>4, Zenon DEF NextBuckets
  <2>2. "parts" \in DOMAIN g /\ g.parts = q.parts /\ g.pc = "nonce"
    BY <1>2, <2>1 DEF PubInv
  <2>. HIDE DEF g
  <2>3. q.pc \in {"buckets", "nonce", "load"} /\ g.pc \in {"nonce", "load", "advance"}
        /\ (g.pc \in {"load", "advance"} => g.args.nonce = seqno)
    BY <2>1, <2>2
  <2>4. Publishes(published, seqno, g)
    BY <1>2, <2>2, <2>3, Proceeds, Zenon
  <2>. QED
    BY <1>3, <2>1, <2>4
<1>5. CASE Nonce(p)
  <2>1. g = [q EXCEPT !.pc = "load", !.args.nonce = seqno] /\ q.pc = "nonce" /\ seqno' = seqno
    BY <1>2, <1>5, Zenon DEF Nonce
  <2>2. "parts" \in DOMAIN g /\ g.parts = q.parts /\ g.pc = "load" /\ g.args.nonce = seqno
    BY <1>2, <2>1 DEF PubInv
  <2>. HIDE DEF g
  <2>3. q.pc \in {"buckets", "nonce", "load"} /\ g.pc \in {"nonce", "load", "advance"}
    BY <2>1, <2>2
  <2>4. Publishes(published, seqno, g)
    BY <1>2, <2>2, <2>3, Proceeds, Zenon
  <2>. QED
    BY <1>3, <2>1, <2>4
<1>6. CASE Load(p)
  <2>1. g = [q EXCEPT !.pc = "advance", !.old = seqno] /\ q.pc = "load" /\ seqno' = seqno
    BY <1>2, <1>6 DEF Load
  <2>2. "parts" \in DOMAIN g /\ g.parts = q.parts /\ g.pc = "advance" /\ g.args.nonce = seqno
    BY <1>2, <2>1 DEF PubInv
  <2>. HIDE DEF g
  <2>3. q.pc \in {"buckets", "nonce", "load"} /\ g.pc \in {"nonce", "load", "advance"}
    BY <2>1, <2>2
  <2>4. Publishes(published, seqno, g)
    BY <1>2, <2>2, <2>3, Proceeds, Zenon
  <2>. QED
    BY <1>3, <2>1, <2>4
<1>7. CASE Advance(p)
  <2>1. g = [q EXCEPT !.pc = "send"] /\ q.pc = "advance" /\ seqno' = seqno + 1
    BY <1>2, <1>7 DEF Advance, PubInv
  <2>2. "parts" \in DOMAIN g /\ g.parts = q.parts /\ g.pc = "send" /\ g.args.nonce = seqno
    BY <1>2, <2>1 DEF PubInv
  <2>. HIDE DEF g
  <2>4. Publishes(published, seqno + 1, g)
    BY <1>2, <2>1, <2>2, Advances, Zenon
  <2>. QED
    BY <1>3, <2>1, <2>4
<1>. QED
  BY <1>4, <1>5, <1>6, <1>7

(* The send on pendingWrites (topic.go:90-94, client.go:141). *)
LEMMA SendLogs ==
  ASSUME LogInv, BehindInv, NEW p, Publisher = {p}, Send(p)
  PROVE  LogInv' /\ UNCHANGED Log!vars
<1>. DEFINE q == pub[p]
            g == pub'[p]
            w == [pub[p].args EXCEPT !.part = Head(pub[p].parts)]
<1>1. UNCHANGED <<seqno, store, published, handle, saved, out>> /\ q.pc = "send"
      /\ queue' = Append(queue, w)
  BY Zenon DEF Send, readerVars
<1>2. IsHistory(published) /\ Publishes(published, seqno, q) /\ PubInv(p) /\ seqno \in Nat
      /\ p \in DOMAIN pub /\ IsSeq(queue)
  BY Zenon DEF LogInv, BehindInv
<1>3. g = [Idle EXCEPT !.pc = IF Len(q.parts) = 1 THEN "idle" ELSE "buckets", !.parts = Tail(q.parts)]
  BY <1>2 DEF Send, Idle
<1>4. "parts" \in DOMAIN g /\ g.parts = Tail(q.parts)
      /\ g.pc = IF Len(q.parts) = 1 THEN "idle" ELSE "buckets"
  BY <1>3 DEF Idle
<1>5. w.nonce = q.args.nonce /\ w.part = Head(q.parts)
  BY <1>2 DEF PubInv
<1>. HIDE DEF g, w
<1>6. Carries(published, w) /\ Publishes(published, seqno, g)
  BY <1>1, <1>2, <1>4, <1>5, Sends, Zenon
<1>7. TakenFrom(queue', queue, w)
  BY <1>1, <1>2, SequenceSteps, Zenon
<1>8. \A i \in DOMAIN queue' : Carries(published, queue'[i])
  BY <1>6, <1>7, Zenon DEF TakenFrom, LogInv
<1>9. \A i \in DOMAIN store' : Carries(published, store'[i].write)
  BY <1>1, Zenon DEF LogInv
<1>10. \A x \in Publisher : Publishes(published, seqno', pub'[x])
  BY <1>1, <1>6, Zenon DEF g
<1>. QED
  BY <1>1, <1>8, <1>9, <1>10, TopicStutters, Zenon

(* Publish appends a message to the log (client.go:115-123). *)
LEMMA PublishLogs ==
  ASSUME LogInv, BehindInv, NEW p, Publisher = {p}, NEW len \in Lengths, Publish(p, len)
  PROVE  LogInv' /\ Log!Publish
<1>. DEFINE q == pub[p]
            g == pub'[p]
            c == [i \in 1 .. len |-> <<Len(published) + 1, i>>]
            m == [start |-> seqno, contents |-> c]
<1>1. UNCHANGED <<seqno, queue, store, handle, saved, out>> /\ q.pc = "idle"
      /\ published' = Append(published, m) /\ Len(published) < MaxMessages
      /\ pub' = [pub EXCEPT ![p].pc = "buckets", ![p].parts = Split(c)]
  BY Zenon DEF Publish, readerVars
<1>2. IsHistory(published) /\ Publishes(published, seqno, q) /\ PubInv(p) /\ seqno \in Nat
      /\ p \in DOMAIN pub /\ "parts" \in DOMAIN q
  BY ZenonT(30) DEF LogInv, BehindInv, Publishes
<1>3. g = [q EXCEPT !.pc = "buckets", !.parts = Split(c)]
  BY <1>1, <1>2, Zenon
<1>4. "parts" \in DOMAIN g /\ g.parts = Split(c) /\ g.pc = "buckets"
  BY SMTT(20), <1>2, <1>3 DEF PubInv
<1>. HIDE DEF g
<1>5. \A k \in DOMAIN published : EndOf(published, k) <= seqno
  BY <1>1, <1>2, Zenon DEF Publishes
<1>6. len \in Nat \ {0}
  BY TopicParams
<1>7. IsSeq(c) /\ Len(c) >= 1
  BY <1>6 DEF IsSeq
<1>8. /\ Len(published) + 1 \in 1 .. MaxMessages /\ Len(published) \in Nat
      /\ DOMAIN published = 1 .. Len(published)
  <2>1. Len(published) \in Nat /\ DOMAIN published = 1 .. Len(published)
    BY <1>2, HistoryTypes, Zenon
  <2>2. MaxMessages \in Nat
    BY TopicParams
  <2>. QED
    BY <1>1, <2>1, <2>2
<1>9. c \in Messages
  <2>. DEFINE K == Len(published) + 1
  <2>1. K \in 1 .. MaxMessages /\ c = [i \in 1 .. len |-> <<K, i>>]
    BY <1>8, Zenon
  <2>. HIDE DEF K, c
  <2>. QED
    BY <2>1 DEF Messages
<1>. HIDE DEF c
<1>10. m.start = seqno /\ m.contents = c /\ {"start", "contents"} \subseteq DOMAIN m
  OBVIOUS
<1>11. IsMessage(m)
  BY <1>2, <1>7, <1>10, Zenon DEF IsMessage
<1>. HIDE DEF m
<1>12. \A k \in DOMAIN published : EndOf(published, k) <= m.start
  BY <1>5, <1>10, Zenon
<1>13. /\ IsHistory(published') /\ DOMAIN published' = 1 .. Len(published) + 1
       /\ published'[Len(published) + 1] = m /\ Len(published') = Len(published) + 1
       /\ \A k \in DOMAIN published : published'[k] = published[k]
  <2>. DEFINE Q == Append(published, m)
  <2>1. /\ IsHistory(Q) /\ DOMAIN Q = 1 .. Len(published) + 1
        /\ Q[Len(published) + 1] = m /\ Len(Q) = Len(published) + 1
    BY <1>2, <1>11, <1>12, HistoryGrows, ZenonT(30)
  <2>2. ASSUME NEW k \in DOMAIN published PROVE Q[k] = published[k]
    BY <1>2, <1>11, <1>12, HistoryGrows
  <2>3. published' = Q
    BY <1>1, Zenon
  <2>. HIDE DEF Q
  <2>. QED
    BY <2>1, <2>2, <2>3, Zenon
<1>14. Publishes(published', seqno, g)
  BY <1>1, <1>2, <1>4, <1>10, <1>11, <1>12, Begins, Zenon
<1>15. \A w : Carries(published, w) => Carries(published', w)
  BY <1>1, <1>2, <1>11, <1>12, GrowthKeeps, Zenon
<1>16. ASSUME NEW r \in Reader
       PROVE  Follows(published', handle[r], saved[r], out[r])
              /\ IndexOf(published', handle[r]) = IndexOf(published, handle[r])
  <2>1. handle[r].seqno \in Nat /\ handle[r].seqno <= seqno /\ saved[r] \in Nat
        /\ saved[r] <= handle[r].seqno
    BY Zenon DEF BehindInv, IsHandle
  <2>2. saved[r] <= seqno
    BY <1>2, <2>1
  <2>3. Follows(published, handle[r], saved[r], out[r])
    BY Zenon DEF LogInv
  <2>. QED
    BY <1>1, <1>2, <1>10, <1>11, <1>12, <2>1, <2>2, <2>3, GrowthKeeps, Zenon
<1>17. LogInv'
  <2>1. \A x \in Publisher : Publishes(published', seqno', pub'[x])
    BY <1>1, <1>14, Zenon DEF g
  <2>2. /\ \A i \in DOMAIN queue' : Carries(published', queue'[i])
        /\ \A i \in DOMAIN store' : Carries(published', store'[i].write)
    BY <1>1, <1>15, Zenon DEF LogInv
  <2>3. \A r \in Reader : Follows(published', handle'[r], saved'[r], out'[r])
    BY <1>1, <1>16, Zenon
  <2>4. DOMAIN out' = Reader
    BY <1>1, Zenon DEF LogInv
  <2>. QED
    BY <1>13, <2>1, <2>2, <2>3, <2>4, Zenon DEF LogInv
<1>18. LogNext' = LogNext
  <2>1. LogNext = [r \in Reader |-> IndexOf(published, handle[r])]
        /\ LogNext' = [r \in Reader |-> IndexOf(published', handle'[r])]
    BY Mapping, Zenon
  <2>2. \A r \in Reader : IndexOf(published', handle'[r]) = IndexOf(published, handle[r])
    BY <1>1, <1>16, Zenon
  <2>. QED
    BY <2>1, <2>2, Zenon
<1>19. LogOpen' = LogOpen /\ out' = out
  BY <1>1, Zenon DEF LogOpen
<1>20. LogLog' = Append(LogLog, c)
  <2>. DEFINE n == Len(published)
              S == {published[k].contents : k \in 1 .. n} \cup {c}
  <2>1. LogLog = [k \in 1 .. n |-> published[k].contents]
    BY <1>8, Zenon DEF LogLog
  <2>2. LogLog' = [k \in 1 .. n + 1 |-> published'[k].contents]
    BY <1>13, Zenon DEF LogLog
  <2>. HIDE DEF n
  <2>3. LogLog' = [k \in 1 .. n + 1 |-> IF k \in 1 .. n THEN published[k].contents ELSE c]
    <3>1. ASSUME NEW k \in 1 .. n + 1
          PROVE  published'[k].contents = IF k \in 1 .. n THEN published[k].contents ELSE c
      <4>1. k \in 1 .. n \/ k = n + 1
        BY <1>8 DEF n
      <4>2. k \in 1 .. n => published'[k] = published[k]
        BY <1>8, <1>13, Zenon DEF n
      <4>3. published'[n + 1] = m
        BY <1>13, Zenon DEF n
      <4>. QED
        BY <1>10, <4>1, <4>2, <4>3, Zenon
    <3>. QED
      BY <2>2, <3>1, Zenon
  <2>4. n \in Nat
    BY <1>8 DEF n
  <2>5. LogLog \in Seq(S) /\ Len(LogLog) = n
    BY <2>1, <2>4
  <2>. HIDE DEF S
  <2>6. Append(LogLog, c) = [k \in 1 .. n + 1 |-> IF k \in 1 .. n THEN LogLog[k] ELSE c]
    <3>1. c \in S
      BY DEF S
    <3>2. Append(LogLog, c) \in Seq(S) /\ Len(Append(LogLog, c)) = n + 1
      BY <2>4, <2>5, <3>1
    <3>3. ASSUME NEW k \in 1 .. n + 1
          PROVE  Append(LogLog, c)[k] = IF k \in 1 .. n THEN LogLog[k] ELSE c
      BY <2>4, <2>5, <3>1
    <3>4. \A t \in Seq(S) : t = [i \in 1 .. Len(t) |-> t[i]]
      OBVIOUS
    <3>5. Append(LogLog, c) = [k \in 1 .. n + 1 |-> Append(LogLog, c)[k]]
      BY <3>2, <3>4, Zenon
    <3>. QED
      BY <3>3, <3>5, Zenon
  <2>. QED
    BY <2>1, <2>3, <2>6, Zenon
<1>. QED
  BY <1>9, <1>17, <1>18, <1>19, <1>20, Zenon DEF Log!Publish, LogLog, LogNext, LogOpen

(* What the servers do to writes is not seen by readers (shard.go:188-201,
   client.go:230-233). *)
LEMMA ServersLog ==
  ASSUME LogInv, BehindInv, Arrive \/ CoverArrives \/ Lose
  PROVE  LogInv' /\ UNCHANGED Log!vars
<1>1. IsSeq(queue) /\ IsSeq(store) /\ \A i \in DOMAIN store : IsStored(store[i])
  BY Zenon DEF BehindInv
<1>2. UNCHANGED <<seqno, pub, published, handle, saved, out>>
  BY Zenon DEF Arrive, CoverArrives, Lose, topicVars, readerVars
<1>3. /\ \A i \in DOMAIN queue : Carries(published, queue[i])
      /\ \A i \in DOMAIN store : Carries(published, store[i].write)
  BY Zenon DEF LogInv
<1>4. \A i \in DOMAIN queue' : Carries(published, queue'[i])
  <2>1. queue' = queue \/ (queue # <<>> /\ queue' = Tail(queue))
    BY DEF Arrive, CoverArrives, Lose, topicVars
  <2>2. CASE queue' = queue
    BY <1>3, <2>2, Zenon
  <2>3. CASE queue # <<>> /\ queue' = Tail(queue)
    <3>1. TakenFrom(queue', queue, queue[1]) /\ 1 \in DOMAIN queue
      BY <1>1, <2>3, SequenceSteps
    <3>. QED
      BY <1>3, <3>1, Zenon DEF TakenFrom
  <2>. QED
    BY <2>1, <2>2, <2>3
<1>5. \A i \in DOMAIN store' : Carries(published, store'[i].write)
  <2>1. ASSUME NEW w, Carries(published, w), Insert(w)
        PROVE  \A i \in DOMAIN store' : Carries(published, store'[i].write)
    <3>1. \A i \in DOMAIN store' :
            store'[i].write = w \/ (\E k \in DOMAIN store : store'[i].write = store[k].write)
      BY <1>1, <2>1, InsertTakes, Zenon
    <3>. QED
      BY <1>3, <2>1, <3>1, Zenon
  <2>2. CASE Arrive
    <3>1. queue # <<>> /\ Insert(Head(queue))
      BY <2>2, Zenon DEF Arrive
    <3>2. Carries(published, Head(queue))
      BY <1>1, <1>3, <3>1, SequenceSteps
    <3>. QED
      BY <2>1, <3>1, <3>2, Zenon
  <2>3. CASE CoverArrives
    <3>1. Insert(NoWrite)
      BY <2>3, Zenon DEF CoverArrives
    <3>2. NoWrite.part = Cover
      BY DEF NoWrite
    <3>3. Carries(published, NoWrite)
      BY <3>2, Zenon DEF Carries
    <3>. QED
      BY <2>1, <3>1, <3>3, Zenon
  <2>4. CASE Lose
    BY <1>3, <2>4, Zenon DEF Lose
  <2>. QED
    BY <2>2, <2>3, <2>4
<1>6. \A x \in Publisher : Publishes(published, seqno', pub'[x])
  BY <1>2, Zenon DEF LogInv
<1>. QED
  BY <1>2, <1>4, <1>5, <1>6, TopicStutters, Zenon

(* Every step of a topic with one publisher is a step of the log, or none. *)
LEMMA LogStep ==
  ASSUME NEW p, Publisher = {p}
  PROVE  LogInv /\ BehindInv /\ [Next]_vars => LogInv' /\ [Log!Next]_(Log!vars)
<1>. SUFFICES ASSUME LogInv, BehindInv, [Next]_vars PROVE LogInv' /\ [Log!Next]_(Log!vars)
  OBVIOUS
<1>1. CASE UNCHANGED vars
  <2>1. UNCHANGED <<seqno, pub, queue, store, published, handle, saved, out>>
    BY <1>1 DEF vars
  <2>2. /\ \A x \in Publisher : Publishes(published, seqno', pub'[x])
        /\ \A i \in DOMAIN queue' : Carries(published, queue'[i])
        /\ \A i \in DOMAIN store' : Carries(published, store'[i].write)
    BY <2>1, Zenon DEF LogInv
  <2>3. LogInv' /\ UNCHANGED Log!vars
    BY <2>1, <2>2, TopicStutters, Zenon
  <2>. QED
    BY <2>3, Zenon
<1>2. ASSUME NEW len \in Lengths, Publish(p, len) PROVE LogInv' /\ [Log!Next]_(Log!vars)
  <2>1. LogInv' /\ Log!Publish
    BY <1>2, PublishLogs, Zenon
  <2>. QED
    BY <2>1, Zenon DEF Log!Next
<1>3. CASE NextBuckets(p) \/ Nonce(p) \/ Load(p) \/ Advance(p)
  BY <1>3, GenerateLogs, Zenon
<1>4. CASE Send(p)
  BY <1>4, SendLogs, Zenon
<1>5. CASE Arrive \/ CoverArrives \/ Lose
  BY <1>5, ServersLog, Zenon
<1>6. ASSUME NEW r \in Reader,
             Share(r) \/ Open(r) \/ ReaderStep(r) \/ ReadFails(r) \/ Close(r) \/ Timeout(r)
      PROVE  LogInv' /\ [Log!Next]_(Log!vars)
  <2>1. CASE GeneratePoll(r) \/ Read(r) \/ ReadFails(r)
    BY <2>1, ReadLogs, Zenon
  <2>2. CASE Share(r)
    <3>1. LogInv' /\ Log!Share(r)
      BY <2>2, ShareLogs, Zenon
    <3>. QED
      BY <3>1, Zenon DEF Log!Next
  <2>3. CASE Open(r)
    <3>1. LogInv' /\ Log!Open(r)
      BY <2>3, OpenLogs, Zenon
    <3>. QED
      BY <3>1, Zenon DEF Log!Next
  <2>4. CASE Deliver(r)
    <3>1. LogInv' /\ Log!Deliver(r)
      BY <2>4, DeliverLogs, Zenon
    <3>. QED
      BY <3>1, Zenon DEF Log!Next
  <2>5. CASE Close(r) \/ Timeout(r)
    <3>1. LogInv' /\ Log!Close(r)
      BY <2>5, CloseLogs, Zenon
    <3>. QED
      BY <3>1, Zenon DEF Log!Next
  <2>. QED
    BY <1>6, <2>1, <2>2, <2>3, <2>4, <2>5, Zenon DEF ReaderStep
<1>7. CASE Next
  <2>1. \/ \E len \in Lengths : Publish(p, len)
        \/ NextBuckets(p) \/ Nonce(p) \/ Load(p) \/ Advance(p)
        \/ Send(p)
        \/ Arrive \/ CoverArrives \/ Lose
        \/ \E r \in Reader : Share(r) \/ Open(r) \/ ReaderStep(r) \/ ReadFails(r)
                              \/ Close(r) \/ Timeout(r)
    BY <1>7 DEF Next
  <2>. QED
    BY <1>2, <1>3, <1>4, <1>5, <1>6, <2>1, ZenonT(30)
<1>. QED
  BY <1>1, <1>7

(* With one goroutine publishing, a topic is a log, for every window, length of
   message and fragment, number of readers and restarts, and whatever writes and reads
   are lost: readers are given whole messages, in order, none twice and, while the
   handle is polled, none left out (message.go:88-102, handle.go:161-211,
   topic.go:79-107, talekclient/main.go:110-146). *)
THEOREM TopicIsLog ==
  ASSUME NEW CONSTANT p, Publisher = {p}
  PROVE  Spec => LogSpec
<1>1. Init => LogInv /\ BehindInv /\ Log!Init
  BY LogInit, BehindInit
<1>2. LogInv /\ BehindInv /\ [Next]_vars => (LogInv /\ BehindInv)' /\ [Log!Next]_(Log!vars)
  BY LogStep, BehindStep
<1>. QED
  BY <1>1, <1>2, PTL DEF Spec, LogSpec, Log!Spec

=============================================================================
