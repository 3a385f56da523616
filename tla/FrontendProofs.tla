--------------------------- MODULE FrontendProofs ---------------------------
(***************************************************************************)
(* Proofs about the frontend for any number of replicas, writers, readers  *)
(* and failures, and any batch size and window.                            *)
(***************************************************************************)
EXTENDS Frontend, FiniteSetTheorems, SequenceTheorems, TLAPS

Call == [pc : {"idle", "sending"}, seq : Nat, to : Replica, err : BOOLEAN]

WriteType ==
  /\ proposedSeqNo \in Nat
  /\ write \in [Writers -> Call]
  /\ received \in [Replica -> Seq(Nat)]

(* A call without an error so far has reached every replica it has passed. *)
Passed ==
  \A w \in Writers : write[w].pc = "sending" /\ ~ write[w].err =>
    \A i \in Replica : i < write[w].to => write[w].seq \in Range(received[i])

AckInv == WriteType /\ Passed /\ AckedEverywhere

-----------------------------------------------------------------------------
(* What a replica received is what it had and the new write. *)
LEMMA RangeAppend ==
  ASSUME NEW s \in Seq(Nat), NEW n \in Nat
  PROVE  Range(Append(s, n)) = Range(s) \cup {n}
<1>1. /\ DOMAIN s = 1 .. Len(s) /\ Len(s) \in Nat
      /\ DOMAIN Append(s, n) = 1 .. Len(s) + 1
      /\ \A i \in 1 .. Len(s) : Append(s, n)[i] = s[i]
      /\ Append(s, n)[Len(s) + 1] = n
  OBVIOUS
<1>2. 1 .. Len(s) + 1 = (1 .. Len(s)) \cup {Len(s) + 1}
  BY <1>1
<1>. QED
  BY <1>1, <1>2 DEF Range

(* A remote write adds at most its own number, at one replica
   (replica.go:66-86). *)
LEMMA WriteAdds ==
  ASSUME WriteType, NEW i \in Replica, NEW n \in Nat, ReplicaWrite(i, n)
  PROVE  /\ received' \in [Replica -> Seq(Nat)]
         /\ n \in Range(received'[i])
         /\ \A j \in Replica : Range(received[j]) \subseteq Range(received'[j])
<1>1. received \in [Replica -> Seq(Nat)] /\ received' = [received EXCEPT ![i] = Append(@, n)]
  BY DEF WriteType, ReplicaWrite
<1>2. \A j \in Replica : received'[j] = IF j = i THEN Append(received[i], n) ELSE received[j]
  BY <1>1
<1>3. Range(received'[i]) = Range(received[i]) \cup {n}
  BY <1>1, <1>2, RangeAppend
<1>. QED
  BY <1>1, <1>2, <1>3

(* The steps that leave Write calls and replicas' contents alone. *)
LEMMA AckStutter ==
  AckInv /\ UNCHANGED <<proposedSeqNo, write, acked, received>> => AckInv'
BY DEF AckInv, WriteType, Passed, AckedEverywhere, Replica, Call

(* There is a first replica. *)
LEMMA FirstReplica == 1 \in Replica /\ NumReplicas \in Replica /\ IdleWrite \in Call
<1>1. 1 \in Replica /\ NumReplicas \in Replica
  BY FrontendParams DEF FrontendParams, Replica
<1>. QED
  BY <1>1 DEF IdleWrite, Call

(* A Write call starts with the first replica (frontend.go:90-100). *)
LEMMA WriteStarts ==
  ASSUME AckInv, NEW w \in Writers, Write(w)
  PROVE  AckInv'
<1>. USE DEF AckInv
<1>. DEFINE c == [pc |-> "sending", seq |-> proposedSeqNo + 1, to |-> 1, err |-> FALSE]
<1>1. c \in Call /\ c.to = 1
  BY FirstReplica DEF Call, WriteType
<1>. HIDE DEF c
<1>2. WriteType'
  <2>1. write' = [write EXCEPT ![w] = c]
    BY DEF Write, c
  <2>2. write' \in [Writers -> Call]
    BY <1>1, <2>1 DEF WriteType
  <2>. QED
    BY <2>2 DEF Write, WriteType, replicaVars
<1>3. Passed'
  <2>1. write' = [write EXCEPT ![w] = c] /\ received' = received
    BY DEF Write, c, replicaVars
  <2>. QED
    BY <1>1, <2>1 DEF Passed, WriteType, Replica
<1>4. AckedEverywhere'
  BY DEF Write, AckedEverywhere, replicaVars
<1>. QED
  BY <1>2, <1>3, <1>4

(* A call to a replica returned: the walk goes on, or the Write call ends and is
   acknowledged only if no replica reported an error (frontend.go:101-113). *)
LEMMA WalkGoesOn ==
  ASSUME AckInv, NEW w \in Writers, NEW failed \in BOOLEAN,
         write[w].pc = "sending", WriteReturned(w, failed),
         proposedSeqNo' = proposedSeqNo,
         received' \in [Replica -> Seq(Nat)],
         \A j \in Replica : Range(received[j]) \subseteq Range(received'[j]),
         failed \/ write[w].seq \in Range(received'[write[w].to])
  PROVE  AckInv'
<1>. USE DEF AckInv
<1>. DEFINE c == write[w]
<1>1. c \in Call /\ c.to \in Replica /\ c.seq \in Nat
  BY DEF WriteType, Call
<1>2. c.err \/ failed \/ \A i \in Replica : i <= c.to => c.seq \in Range(received'[i])
  BY <1>1 DEF Passed, Replica
<1>3. CASE c.to = NumReplicas
  <2>1. /\ write' = [write EXCEPT ![w] = IdleWrite]
        /\ acked' = IF c.err \/ failed THEN acked ELSE acked \cup {c.seq}
    BY <1>3 DEF WriteReturned
  <2>2. WriteType'
    BY <2>1, FirstReplica DEF WriteType
  <2>3. Passed'
    BY <2>1 DEF Passed, WriteType, IdleWrite
  <2>4. AckedEverywhere'
    BY <1>2, <1>3, <2>1 DEF AckedEverywhere, Replica
  <2>. QED
    BY <2>2, <2>3, <2>4
<1>4. CASE c.to # NumReplicas
  <2>. DEFINE d == [pc |-> "sending", seq |-> c.seq, to |-> c.to + 1,
                    err |-> (c.err \/ failed)]
  <2>1. write' = [write EXCEPT ![w] = d] /\ acked' = acked
    BY <1>4 DEF WriteReturned
  <2>2. d \in Call
    BY SMTT(30), <1>1, <1>4, FrontendParams DEF Call, Replica, FrontendParams
  <2>3. WriteType'
    <3>1. write' \in [Writers -> Call]
      BY <2>1, <2>2 DEF WriteType
    <3>. QED
      BY <3>1 DEF WriteType
  <2>4. Passed'
    <3>0. \A i \in Replica : i < c.to + 1 => i <= c.to
      BY <1>1, FrontendParams DEF Replica, FrontendParams
    <3>1. ~ d.err => \A i \in Replica : i < d.to => d.seq \in Range(received'[i])
      BY <1>2, <3>0, Zenon
    <3>. QED
      BY <2>1, <3>1 DEF Passed, WriteType
  <2>5. AckedEverywhere'
    BY <2>1 DEF AckedEverywhere
  <2>. QED
    BY <2>3, <2>4, <2>5
<1>. QED
  BY <1>3, <1>4

(* The steps of the read side, of the epoch loop and of the shards. *)
OtherStep ==
  \/ \E i \in Replica : Flip(i)
  \/ EpochStep
  \/ \E r \in Readers : Read(r)
  \/ BatchStep
  \/ \E f \in flights : FlightStep(f)
  \/ Close

(* None of them touches a Write call or what a replica received. *)
LEMMA OtherStepsKeepWrites ==
  OtherStep => UNCHANGED <<proposedSeqNo, write, acked, received>>
<1>1. (\E i \in Replica : Flip(i)) => UNCHANGED <<proposedSeqNo, write, acked, received>>
  BY DEF Flip, writeVars
<1>2. EpochStep => UNCHANGED <<proposedSeqNo, write, acked, received>>
  BY DEF EpochStep, EpochCheck, EpochTick, SendEpoch, ReplicaEpoch, writeVars, replicaVars
<1>3. (\E r \in Readers : Read(r)) => UNCHANGED <<proposedSeqNo, write, acked, received>>
  BY DEF Read, writeVars, replicaVars
<1>4. BatchStep => UNCHANGED <<proposedSeqNo, write, acked, received>>
  BY DEF BatchStep, BatchCheck, TakeRequest, ReadTick, writeVars, replicaVars
<1>5. (\E f \in flights : FlightStep(f)) => UNCHANGED <<proposedSeqNo, write, acked, received>>
  BY DEF FlightStep, ChooseRange, CallReplica, CallReplicaFails, Respond, writeVars,
         replicaVars
<1>6. Close => UNCHANGED <<proposedSeqNo, write, acked, received>>
  BY DEF Close, writeVars, replicaVars
<1>. QED
  BY <1>1, <1>2, <1>3, <1>4, <1>5, <1>6 DEF OtherStep

(* Every step keeps the invariant of acknowledged writes. *)
LEMMA NextAckInv == AckInv /\ [Next]_vars => AckInv'
<1>. SUFFICES ASSUME AckInv, [Next]_vars PROVE AckInv'
  OBVIOUS
<1>1. ASSUME NEW w \in Writers, Write(w) PROVE AckInv'
  BY <1>1, WriteStarts
<1>2. ASSUME NEW w \in Writers, WriteStep(w) PROVE AckInv'
  <2>1. write[w].to \in Replica /\ write[w].seq \in Nat /\ write[w].pc = "sending"
    BY Zenon, <1>2 DEF AckInv, WriteType, Call, WriteStep, SendWrite, SendWriteFails
  <2>2. CASE ReplicaWrite(write[w].to, write[w].seq)
    BY Zenon, <1>2, <2>1, <2>2, WriteAdds, WalkGoesOn
    DEF WriteStep, SendWrite, SendWriteFails, AckInv
  <2>3. CASE UNCHANGED replicaVars /\ SendWriteFails(w)
    BY Zenon, <2>1, <2>3, WalkGoesOn DEF SendWriteFails, AckInv, WriteType, replicaVars
  <2>. QED
    BY Zenon, <1>2, <2>2, <2>3 DEF WriteStep, SendWrite, SendWriteFails
<1>3. CASE OtherStep \/ UNCHANGED vars
  BY <1>3, OtherStepsKeepWrites, AckStutter DEF vars
<1>. QED
  BY <1>1, <1>2, <1>3 DEF Next, OtherStep

(* Passed makes AckedEverywhere inductive: a call in progress must be known to
   have reached the replicas it passed. *)
LEMMA WriteSide == Spec => []AckInv
<1>1. Init => AckInv
  <2>. SUFFICES ASSUME Init PROVE AckInv
    OBVIOUS
  <2>1. WriteType
    BY FirstReplica DEF Init, WriteType
  <2>2. Passed /\ AckedEverywhere
    BY DEF Init, Passed, AckedEverywhere, IdleWrite
  <2>. QED
    BY <2>1, <2>2 DEF AckInv
<1>. QED
  BY <1>1, NextAckInv, PTL DEF Spec

(* A write whose call returned without error was received by every replica,
   whatever failed in between (frontend.go:102-111). *)
THEOREM AckedReachedAll == Spec => []AckedEverywhere
<1>1. AckInv => AckedEverywhere
  BY DEF AckInv
<1>. QED
  BY <1>1, WriteSide, PTL

-----------------------------------------------------------------------------
(* Without failures a replica lacks just the writes whose calls have not come to
   it yet. *)
Sending == {w \in Writers : write[w].pc = "sending"}

Missing(i) == {write[w].seq : w \in {v \in Sending : write[v].to <= i}}

Distinct(s) == \A m, n \in DOMAIN s : s[m] = s[n] => m = n

Numbered ==
  /\ \A w \in Sending : write[w].seq \in 1 .. proposedSeqNo
  /\ \A v, w \in Sending : write[v].seq = write[w].seq => v = w

Complete ==
  \A i \in Replica : /\ Range(received[i]) = (1 .. proposedSeqNo) \ Missing(i)
                     /\ Distinct(received[i])

CountType == count \in [epochs : Nat, reads : Nat, faults : Nat]

ConvergeInv == WriteType /\ CountType /\ (count.faults = 0 => Numbered /\ Complete)

(* The numbers from 1 to n are n. *)
LEMMA IntervalCardinality ==
  ASSUME NEW n \in Nat
  PROVE  IsFiniteSet(1 .. n) /\ Cardinality(1 .. n) = n
<1>1. /\ IsFiniteSet(1 .. n)
      /\ Cardinality(1 .. n) = IF 1 > n THEN 0 ELSE n - 1 + 1
  <2>1. 1 \in Int /\ n \in Int
    OBVIOUS
  <2>. QED
    BY <2>1, FS_Interval, Zenon
<1>2. (IF 1 > n THEN 0 ELSE n - 1 + 1) = n
  OBVIOUS
<1>. QED
  BY <1>1, <1>2

(* Counting: a sequence without repetition is as long as its range is large. *)
LEMMA LengthOfRange ==
  ASSUME NEW s \in Seq(Nat), NEW n \in Nat, Distinct(s), Range(s) = 1 .. n
  PROVE  Len(s) = n
<1>1. Len(s) \in Nat /\ DOMAIN s = 1 .. Len(s) /\ s \in [1 .. Len(s) -> Nat]
  BY LenProperties
<1>2. s \in Bijection(1 .. Len(s), Range(s))
  <2>1. s \in [1 .. Len(s) -> Range(s)]
    BY <1>1 DEF Range
  <2>2. s \in Injection(1 .. Len(s), Range(s))
    BY Zenon, <1>1, <2>1 DEF Injection, IsInjective, Distinct
  <2>3. s \in Surjection(1 .. Len(s), Range(s))
    BY <1>1, <2>1 DEF Surjection, Range
  <2>. QED
    BY <2>2, <2>3 DEF Bijection
<1>3. /\ IsFiniteSet(1 .. Len(s)) /\ Cardinality(1 .. Len(s)) = Len(s)
      /\ Cardinality(1 .. n) = n
  BY <1>1, IntervalCardinality
<1>4. ExistsBijection(1 .. Len(s), 1 .. n)
  BY <1>2 DEF ExistsBijection
<1>5. Cardinality(1 .. n) = Cardinality(1 .. Len(s))
  BY <1>3, <1>4, FS_Bijection, Zenon
<1>. QED
  BY <1>3, <1>5

(* Appending a new element keeps a sequence without repetition. *)
LEMMA DistinctAppend ==
  ASSUME NEW s \in Seq(Nat), NEW n \in Nat, Distinct(s), n \notin Range(s)
  PROVE  Distinct(Append(s, n))
<1>1. /\ Len(s) \in Nat /\ DOMAIN s = 1 .. Len(s)
      /\ DOMAIN Append(s, n) = 1 .. Len(s) + 1
      /\ \A i \in 1 .. Len(s) : Append(s, n)[i] = s[i] /\ s[i] # n
      /\ Append(s, n)[Len(s) + 1] = n
  BY DEF Range
<1>2. 1 .. Len(s) + 1 = (1 .. Len(s)) \cup {Len(s) + 1}
  BY <1>1
<1>. QED
  BY <1>1, <1>2 DEF Distinct

(* A new call takes the next number, which every replica lacks
   (frontend.go:93). *)
LEMMA WriteConverges ==
  ASSUME ConvergeInv, NEW w \in Writers, Write(w)
  PROVE  ConvergeInv'
<1>. DEFINE c == [pc |-> "sending", seq |-> proposedSeqNo + 1, to |-> 1, err |-> FALSE]
<1>0. /\ write' = [write EXCEPT ![w] = c] /\ write \in [Writers -> Call]
      /\ proposedSeqNo' = proposedSeqNo + 1 /\ proposedSeqNo \in Nat
      /\ received' = received /\ count' = count /\ w \notin Sending
  BY DEF Write, ConvergeInv, WriteType, replicaVars, Sending
<1>1. WriteType'
  <2>1. c \in Call
    BY <1>0, FirstReplica DEF Call
  <2>. QED
    BY <1>0, <2>1 DEF ConvergeInv, WriteType
<1>2. CountType'
  BY <1>0 DEF ConvergeInv, CountType
<1>3. ASSUME count.faults = 0, Numbered, Complete PROVE Numbered' /\ Complete'
  <2>1. /\ Sending' = Sending \cup {w} /\ write'[w] = c
        /\ \A v \in Sending : write'[v] = write[v]
    BY <1>0 DEF Sending
  <2>2. \A v \in Sending : write[v].seq \in 1 .. proposedSeqNo
    BY <1>3 DEF Numbered
  <2>3. Numbered'
    <3>1. \A v \in Sending' : write'[v].seq \in 1 .. proposedSeqNo'
      BY <1>0, <2>1, <2>2
    <3>2. \A v \in Sending : write'[v].seq # write'[w].seq
      BY <1>0, <2>1, <2>2
    <3>. QED
      BY <1>3, <2>1, <3>1, <3>2 DEF Numbered
  <2>4. \A i \in Replica : Missing(i)' = Missing(i) \cup {proposedSeqNo + 1}
    <3>1. \A i \in Replica : c.to <= i
      BY FrontendParams DEF Replica, FrontendParams
    <3>. QED
      BY <2>1, <3>1 DEF Missing
  <2>5. (1 .. proposedSeqNo') = (1 .. proposedSeqNo) \cup {proposedSeqNo + 1}
    BY <1>0
  <2>6. \A i \in Replica : proposedSeqNo + 1 \notin Range(received[i])
    BY <1>0, <1>3 DEF Complete
  <2>. QED
    BY <1>0, <1>3, <2>3, <2>4, <2>5, <2>6 DEF Complete
<1>. QED
  BY <1>0, <1>1, <1>2, <1>3 DEF ConvergeInv

(* A call that reaches a replica removes its number from what the replica lacks
   (frontend.go:101-110). *)
LEMMA SendConverges ==
  ASSUME ConvergeInv, NEW w \in Writers, SendWrite(w), count.faults = 0,
         WriteType'
  PROVE  Numbered' /\ Complete'
<1>. DEFINE c == write[w]
<1>k. PICK k \in Replica : k = write[w].to
  BY DEF ConvergeInv, WriteType, Call
<1>0. /\ write \in [Writers -> Call] /\ received \in [Replica -> Seq(Nat)]
      /\ c \in Call /\ c.to = k /\ c.seq \in Nat /\ w \in Sending
      /\ proposedSeqNo' = proposedSeqNo
      /\ received' = [received EXCEPT ![k] = Append(received[k], c.seq)]
  BY <1>k DEF ConvergeInv, WriteType, Call, SendWrite, ReplicaWrite, Sending
<1>1. Numbered /\ Complete
  BY DEF ConvergeInv
<1>2. \/ /\ k = NumReplicas /\ write' = [write EXCEPT ![w] = IdleWrite]
      \/ /\ k # NumReplicas
         /\ \E e \in BOOLEAN : write' = [write EXCEPT ![w] =
              [pc |-> "sending", seq |-> c.seq, to |-> k + 1, err |-> e]]
  BY <1>0 DEF SendWrite, WriteReturned, Call
<1>3. /\ Sending' \subseteq Sending /\ Sending \ {w} \subseteq Sending'
      /\ \A v \in Sending \ {w} : write'[v] = write[v]
      /\ \A v \in Sending' : write'[v].seq = write[v].seq
      /\ w \in Sending' <=> k # NumReplicas
      /\ k # NumReplicas => write'[w].to = k + 1
  <2>1. CASE k = NumReplicas
    <3>1. write' = [write EXCEPT ![w] = IdleWrite]
      BY <1>2, <2>1
    <3>2. Sending' = Sending \ {w} /\ \A v \in Writers \ {w} : write'[v] = write[v]
      BY <1>0, <3>1 DEF Sending, IdleWrite
    <3>. QED
      BY <1>0, <2>1, <3>2 DEF Sending
  <2>2. CASE k # NumReplicas
    <3>1. PICK e \in BOOLEAN : write' = [write EXCEPT ![w] =
            [pc |-> "sending", seq |-> c.seq, to |-> k + 1, err |-> e]]
      BY <1>2, <2>2
    <3>2. /\ Sending' = Sending /\ \A v \in Writers \ {w} : write'[v] = write[v]
          /\ write'[w].seq = c.seq /\ write'[w].to = k + 1
      BY <1>0, <3>1 DEF Sending
    <3>. QED
      BY Zenon, <1>0, <2>2, <3>2 DEF Sending
  <2>. QED
    BY <2>1, <2>2
<1>4. Numbered'
  BY ZenonT(40), <1>0, <1>1, <1>3 DEF Numbered
<1>5. \A i \in Replica : Missing(i)' = IF i = k THEN Missing(k) \ {c.seq} ELSE Missing(i)
  <2>. SUFFICES ASSUME NEW i \in Replica
                PROVE  Missing(i)' = IF i = k THEN Missing(k) \ {c.seq} ELSE Missing(i)
    OBVIOUS
  <2>. DEFINE Rest == {write[v].seq : v \in {u \in Sending \ {w} : write[u].to <= i}}
  <2>1. Missing(i) = Rest \cup (IF k <= i THEN {c.seq} ELSE {})
    BY <1>0 DEF Missing
  <2>2. c.seq \notin Rest
    BY <1>0, <1>1 DEF Numbered
  <2>3. Missing(i)' = Rest \cup (IF k < i THEN {c.seq} ELSE {})
    <3>1. (w \in Sending' /\ write'[w].to <= i) <=> k < i
      <4>1. k \in 1 .. NumReplicas /\ i \in 1 .. NumReplicas /\ NumReplicas \in Nat
        BY <1>0, FrontendParams DEF Replica, FrontendParams
      <4>2. CASE k = NumReplicas
        BY <1>3, <4>1, <4>2
      <4>3. CASE k # NumReplicas
        <5>1. w \in Sending' /\ write'[w].to = k + 1
          BY <1>3, <4>3
        <5>. QED
          BY <4>1, <5>1
      <4>. QED
        BY <4>2, <4>3
    <3>2. ASSUME NEW x
          PROVE  x \in Missing(i)' <=> x \in Rest \/ (k < i /\ x = c.seq)
      <4>1. x \in Missing(i)' <=>
              \E u \in Sending' : write'[u].to <= i /\ x = write'[u].seq
        BY DEF Missing
      <4>2. x \in Rest <=> \E u \in Sending \ {w} : write[u].to <= i /\ x = write[u].seq
        OBVIOUS
      <4>. QED
        BY <1>0, <1>3, <3>1, <4>1, <4>2, Zenon
    <3>. QED
      BY <3>2
  <2>4. k \in Int /\ i \in Int
    BY <1>0 DEF Replica
  <2>. QED
    BY <2>1, <2>2, <2>3, <2>4
<1>6. Complete'
  <2>1. ASSUME NEW i \in Replica, i # k
        PROVE  /\ Range(received'[i]) = (1 .. proposedSeqNo') \ Missing(i)'
               /\ Distinct(received'[i])
    BY <1>0, <1>1, <1>5, <2>1 DEF Complete
  <2>2. c.seq \in Missing(k) /\ c.seq \in 1 .. proposedSeqNo
    BY <1>0, <1>1 DEF Missing, Replica, Numbered
  <2>3. /\ Range(received[k]) = (1 .. proposedSeqNo) \ Missing(k)
        /\ Distinct(received[k])
    BY <1>0, <1>1 DEF Complete
  <2>4. received'[k] = Append(received[k], c.seq)
    BY <1>0
  <2>5. Range(received'[k]) = Range(received[k]) \cup {c.seq}
    BY <1>0, <2>4, RangeAppend
  <2>6. Distinct(received'[k])
    BY <1>0, <2>2, <2>3, <2>4, DistinctAppend
  <2>7. Range(received'[k]) = (1 .. proposedSeqNo') \ Missing(k)'
    <3>1. Missing(k)' = Missing(k) \ {c.seq}
      BY <1>0, <1>5
    <3>. QED
      BY <1>0, <2>2, <2>3, <2>5, <3>1
  <2>8. \A i \in Replica : /\ Range(received'[i]) = (1 .. proposedSeqNo') \ Missing(i)'
                           /\ Distinct(received'[i])
    BY <2>1, <2>6, <2>7, Zenon
  <2>. QED
    BY <2>8 DEF Complete
<1>. QED
  BY <1>4, <1>6

(* A failure is never forgotten. *)
LEMMA FaultsStay ==
  ASSUME CountType, [Next]_vars
  PROVE  CountType' /\ (count'.faults = 0 => count.faults = 0)
<1>1. \/ count' = count
      \/ count' = [count EXCEPT !.faults = @ + 1]
      \/ count' = [count EXCEPT !.epochs = @ + 1]
      \/ count' = [count EXCEPT !.reads = @ + 1]
  <2>1. ASSUME NEW w \in Writers, Write(w) \/ WriteStep(w)
        PROVE  count' = count \/ count' = [count EXCEPT !.faults = @ + 1]
    BY Zenon, <2>1 DEF Write, WriteStep, SendWrite, SendWriteFails, Fault
  <2>2. ASSUME NEW i \in Replica, Flip(i) PROVE count' = count
    BY <2>2 DEF Flip
  <2>3. EpochStep => \/ count' = count
                     \/ count' = [count EXCEPT !.faults = @ + 1]
                     \/ count' = [count EXCEPT !.epochs = @ + 1]
    BY DEF EpochStep, EpochCheck, EpochTick, SendEpoch, Fault
  <2>4. ASSUME NEW r \in Readers, Read(r) PROVE count' = [count EXCEPT !.reads = @ + 1]
    BY <2>4 DEF Read
  <2>5. BatchStep \/ Close => count' = count
    BY DEF BatchStep, BatchCheck, TakeRequest, ReadTick, Close
  <2>6. ASSUME NEW f \in flights, FlightStep(f)
        PROVE  count' = count \/ count' = [count EXCEPT !.faults = @ + 1]
    BY <2>6 DEF FlightStep, ChooseRange, CallReplica, CallReplicaFails, Respond, Fault
  <2>7. UNCHANGED vars => count' = count
    BY DEF vars
  <2>. QED
    BY <2>1, <2>2, <2>3, <2>4, <2>5, <2>6, <2>7 DEF Next
<1>. QED
  BY <1>1 DEF CountType

(* Every step keeps the invariant of the replicas' contents. *)
LEMMA NextConvergeInv == AckInv /\ ConvergeInv /\ [Next]_vars => ConvergeInv'
<1>. SUFFICES ASSUME AckInv, ConvergeInv, [Next]_vars PROVE ConvergeInv'
  OBVIOUS
<1>1. WriteType' /\ CountType' /\ (count'.faults = 0 => count.faults = 0)
  BY NextAckInv, FaultsStay DEF AckInv, ConvergeInv
<1>2. ASSUME NEW w \in Writers, Write(w) PROVE ConvergeInv'
  BY <1>2, WriteConverges
<1>3. ASSUME NEW w \in Writers, SendWrite(w) PROVE ConvergeInv'
  BY <1>1, <1>3, SendConverges DEF ConvergeInv
<1>4. ASSUME NEW w \in Writers, SendWriteFails(w) PROVE ConvergeInv'
  <2>1. count' = [count EXCEPT !.faults = @ + 1]
    BY <1>4 DEF SendWriteFails, Fault
  <2>2. count'.faults # 0
    BY <2>1 DEF ConvergeInv, CountType
  <2>. QED
    BY <1>1, <2>2 DEF ConvergeInv
<1>5. CASE OtherStep \/ UNCHANGED vars
  <2>1. UNCHANGED <<proposedSeqNo, write, received>>
    BY <1>5, OtherStepsKeepWrites DEF vars
  <2>2. Numbered /\ Complete => Numbered' /\ Complete'
    BY <2>1 DEF Numbered, Complete, Missing, Sending
  <2>. QED
    BY <1>1, <2>2 DEF ConvergeInv
<1>. QED
  BY <1>2, <1>3, <1>4, <1>5 DEF Next, OtherStep, WriteStep

(* With no call under way and no failure the replicas hold the same writes, each
   once, however the calls were interleaved (frontend.go:90-113).  While calls are
   under way each replica lacks exactly their numbers, and the numbers are
   distinct because proposedSeqNo is advanced atomically. *)
THEOREM ReplicasAgree == Spec => []ReplicasConverge
<1>1. Init => ConvergeInv
  <2>. SUFFICES ASSUME Init PROVE ConvergeInv
    OBVIOUS
  <2>1. WriteType /\ CountType
    BY FirstReplica DEF Init, WriteType, CountType
  <2>3. Sending = {}
    BY DEF Init, Sending, IdleWrite
  <2>4. Numbered /\ Complete
    <3>1. \A i \in Replica : Missing(i) = {} /\ received[i] = <<>>
      BY <2>3 DEF Missing, Init
    <3>2. Range(<<>>) = {} /\ Distinct(<<>>) /\ 1 .. 0 = {}
      BY DEF Range, Distinct
    <3>. QED
      BY SMTT(30), <2>3, <3>1, <3>2 DEF Numbered, Complete, Init
  <2>. QED
    BY <2>1, <2>4 DEF ConvergeInv
<1>2. ConvergeInv => ReplicasConverge
  <2>. SUFFICES ASSUME ConvergeInv, count.faults = 0, \A w \in Writers : write[w].pc = "idle",
                       NEW i \in Replica
                PROVE  Range(received[i]) = 1 .. proposedSeqNo /\ Len(received[i]) = proposedSeqNo
    BY DEF ReplicasConverge
  <2>1. Missing(i) = {}
    BY DEF Missing, Sending
  <2>2. Range(received[i]) = 1 .. proposedSeqNo /\ Distinct(received[i])
    BY Zenon, <2>1 DEF ConvergeInv, Complete
  <2>3. received[i] \in Seq(Nat) /\ proposedSeqNo \in Nat
    BY DEF ConvergeInv, WriteType
  <2>. QED
    BY <2>2, <2>3, LengthOfRange
<1>. QED
  BY <1>1, <1>2, WriteSide, NextConvergeInv, PTL DEF Spec

-----------------------------------------------------------------------------
(* Read requests.  A batch in flight is a record whose requests are readers. *)
Flight(f) ==
  /\ f = [pc |-> f.pc, reqs |-> f.reqs, start |-> f.start, end |-> f.end, to |-> f.to,
          views |-> f.views, err |-> f.err]
  /\ f.reqs \in Seq(Readers) /\ f.reqs # <<>>

Queued == Range(readChan)
Filling == Range(batcher.batch)
Flying == UNION {Range(f.reqs) : f \in flights}
Held == Queued \cup Filling \cup Flying

HoldType ==
  /\ readChan \in Seq(Readers)
  /\ batcher \in [pc : {"check", "select", "exited"}, batch : Seq(Readers)]
  /\ \A f \in flights : Flight(f)
  /\ reader \in [Readers -> {"idle", "waiting"}]

(* No request is in two places. *)
Apart ==
  /\ Distinct(readChan) /\ Distinct(batcher.batch)
  /\ Queued \cap Filling = {} /\ Queued \cap Flying = {} /\ Filling \cap Flying = {}
  /\ \A f, g \in flights : f # g => Range(f.reqs) \cap Range(g.reqs) = {}

Awaited == \A r \in Held : reader[r] = "waiting"

NotLost ==
  count.faults = 0 /\ ~ crashed =>
    /\ \A r \in Readers : reader[r] = "waiting" => r \in Held
    /\ \A f \in flights : ~ f.err

HoldInv == HoldType /\ CountType /\ Apart /\ Awaited /\ NotLost

(* The range of a sequence and its first element, rest and extension. *)
LEMMA RangeFacts ==
  ASSUME NEW S, NEW s \in Seq(S), NEW e \in S
  PROVE  /\ Range(s) \subseteq S
         /\ Append(s, e) \in Seq(S) /\ Range(Append(s, e)) = Range(s) \cup {e}
         /\ Distinct(s) /\ e \notin Range(s) => Distinct(Append(s, e))
<1>1. /\ DOMAIN s = 1 .. Len(s) /\ Len(s) \in Nat /\ \A i \in 1 .. Len(s) : s[i] \in S
      /\ Append(s, e) \in Seq(S)
      /\ DOMAIN Append(s, e) = 1 .. Len(s) + 1
      /\ \A i \in 1 .. Len(s) : Append(s, e)[i] = s[i]
      /\ Append(s, e)[Len(s) + 1] = e
  OBVIOUS
<1>2. 1 .. Len(s) + 1 = (1 .. Len(s)) \cup {Len(s) + 1}
  BY <1>1
<1>3. Range(Append(s, e)) = Range(s) \cup {e}
  BY <1>1, <1>2 DEF Range
<1>4. Distinct(s) /\ e \notin Range(s) => Distinct(Append(s, e))
  BY <1>1, <1>2 DEF Range, Distinct
<1>5. Range(s) \subseteq S
  BY <1>1 DEF Range
<1>. QED
  BY <1>1, <1>3, <1>4, <1>5

(* Taking the first element off a sequence without repetition. *)
LEMMA TailFacts ==
  ASSUME NEW S, NEW s \in Seq(S), s # <<>>, Distinct(s)
  PROVE  /\ Head(s) \in Range(s) /\ Tail(s) \in Seq(S) /\ Distinct(Tail(s))
         /\ Range(Tail(s)) = Range(s) \ {Head(s)}
<1>1. /\ Len(s) \in Nat \ {0} /\ DOMAIN s = 1 .. Len(s) /\ Head(s) = s[1]
      /\ Tail(s) \in Seq(S) /\ DOMAIN Tail(s) = 1 .. Len(s) - 1
      /\ \A i \in 1 .. Len(s) - 1 : Tail(s)[i] = s[i + 1]
  OBVIOUS
<1>2. Head(s) \in Range(s)
  BY <1>1 DEF Range
<1>3. Distinct(Tail(s))
  BY <1>1 DEF Distinct
<1>4. ASSUME NEW x PROVE x \in Range(Tail(s)) <=> x \in Range(s) \ {Head(s)}
  <2>1. ASSUME x \in Range(Tail(s)) PROVE x \in Range(s) \ {Head(s)}
    <3>1. PICK i \in 1 .. Len(s) - 1 : x = s[i + 1]
      BY <1>1, <2>1 DEF Range
    <3>2. i + 1 \in 1 .. Len(s) /\ i + 1 # 1
      BY <1>1
    <3>. QED
      BY <1>1, <3>1, <3>2 DEF Range, Distinct
  <2>2. ASSUME x \in Range(s) \ {Head(s)} PROVE x \in Range(Tail(s))
    <3>1. PICK i \in 1 .. Len(s) : x = s[i]
      BY <1>1, <2>2 DEF Range
    <3>2. i - 1 \in 1 .. Len(s) - 1 /\ (i - 1) + 1 = i
      BY <1>1, <2>2, <3>1
    <3>. QED
      BY Zenon, <1>1, <3>1, <3>2 DEF Range
  <2>. QED
    BY <2>1, <2>2
<1>. QED
  BY <1>1, <1>2, <1>3, <1>4

(* Steps that move no request. *)
LEMMA HoldStutter ==
  ASSUME HoldInv, UNCHANGED <<readChan, flights, reader, crashed>>, CountType',
         count'.faults = 0 => count.faults = 0,
         batcher' \in [pc : {"check", "select", "exited"}, batch : Seq(Readers)],
         batcher'.batch = batcher.batch
  PROVE  HoldInv'
<1>1. Queued' = Queued /\ Filling' = Filling /\ Flying' = Flying /\ Held' = Held
  BY DEF Queued, Filling, Flying, Held
<1>2. HoldType'
  BY DEF HoldInv, HoldType
<1>3. Apart'
  BY Zenon, <1>1 DEF HoldInv, Apart
<1>4. Awaited' /\ NotLost'
  BY <1>1 DEF HoldInv, Awaited, NotLost
<1>. QED
  BY <1>2, <1>3, <1>4 DEF HoldInv

(* A new request joins the channel; its caller was idle, so no request of it is
   held (frontend.go:116-122). *)
LEMMA ReadHolds ==
  ASSUME HoldInv, NEW r \in Readers, Read(r), CountType',
         count'.faults = 0 => count.faults = 0
  PROVE  HoldInv'
<1>1. /\ readChan \in Seq(Readers) /\ readChan' = Append(readChan, r)
      /\ batcher' = batcher /\ flights' = flights /\ crashed' = crashed
      /\ reader \in [Readers -> {"idle", "waiting"}]
      /\ reader' = [reader EXCEPT ![r] = "waiting"] /\ reader[r] = "idle"
  BY DEF Read, HoldInv, HoldType
<1>2. r \notin Held
  BY <1>1 DEF HoldInv, Awaited
<1>3. /\ Queued' = Queued \cup {r} /\ Filling' = Filling /\ Flying' = Flying
      /\ Held' = Held \cup {r} /\ readChan' \in Seq(Readers)
  BY SMTT(30), <1>1, RangeFacts DEF Queued, Filling, Flying, Held
<1>4. HoldType'
  BY <1>1, <1>3 DEF HoldInv, HoldType
<1>5. Apart'
  <2>1. Distinct(readChan')
    BY <1>1, <1>2, RangeFacts DEF HoldInv, Apart, Held, Queued
  <2>. QED
    BY ZenonT(40), <1>1, <1>2, <1>3, <2>1 DEF HoldInv, Apart, Held
<1>6. Awaited'
  BY <1>1, <1>3 DEF HoldInv, Awaited
<1>7. NotLost'
  BY <1>1, <1>3 DEF HoldInv, NotLost
<1>. QED
  BY <1>4, <1>5, <1>6, <1>7 DEF HoldInv

(* A batch takes off with the requests it was filled with and one that may just
   have left the channel (frontend.go:219-236). *)
LEMMA TakeOff ==
  ASSUME HoldInv, NEW b \in Seq(Readers), b # <<>>, Trigger(b),
         UNCHANGED <<reader, crashed>>, CountType', count'.faults = 0 => count.faults = 0,
         readChan' \in Seq(Readers), Distinct(readChan'),
         Queued' \subseteq Queued, Queued' \cap Range(b) = {},
         Range(b) \cap Flying = {},
         Queued' \cup Range(b) = Queued \cup Filling
  PROVE  HoldInv'
<1>. DEFINE g == [pc |-> "range", reqs |-> b, start |-> 0, end |-> 0, to |-> 1,
                  views |-> <<>>, err |-> FALSE]
<1>1. flights' = flights \cup {g} /\ batcher' = [pc |-> "check", batch |-> <<>>]
  BY DEF Trigger
<1>2. Flight(g) /\ g.reqs = b /\ ~ g.err
  BY DEF Flight
<1>. HIDE DEF g
<1>3. Flying' = Flying \cup Range(b)
  BY SMTT(30), <1>1, <1>2 DEF Flying
<1>4. Filling' = {} /\ Distinct(batcher'.batch)
  BY <1>1 DEF Filling, Range, Distinct
<1>5. Held' = Held
  BY SMTT(30), <1>3, <1>4 DEF Held
<1>6. HoldType'
  BY <1>1, <1>2 DEF HoldInv, HoldType
<1>7. Apart'
  <2>1. \A f \in flights : Range(f.reqs) \cap Range(g.reqs) = {}
    BY <1>2 DEF Flying
  <2>2. \A f, h \in flights' : f # h => Range(f.reqs) \cap Range(h.reqs) = {}
    BY ZenonT(40), <1>1, <2>1 DEF HoldInv, Apart
  <2>3. Queued' \cap Flying' = {}
    BY SMTT(30), <1>3 DEF HoldInv, Apart
  <2>. QED
    BY Zenon, <1>4, <2>2, <2>3 DEF Apart
<1>8. Awaited' /\ NotLost'
  BY <1>1, <1>2, <1>5 DEF HoldInv, Awaited, NotLost
<1>. QED
  BY SMTT(30), <1>6, <1>7, <1>8 DEF HoldInv

(* batchReads takes a request: into the batch, or into the air with it. *)
LEMMA TakeHolds ==
  ASSUME HoldInv, TakeRequest, CountType', count'.faults = 0 => count.faults = 0
  PROVE  HoldInv'
<1>. DEFINE q == readChan
            b == Append(batcher.batch, Head(readChan))
<1>1. /\ q \in Seq(Readers) /\ q # <<>> /\ q' = Tail(q) /\ Distinct(q)
      /\ batcher.batch \in Seq(Readers) /\ Distinct(batcher.batch)
      /\ UNCHANGED <<reader, crashed>>
  BY DEF TakeRequest, HoldInv, HoldType, Apart
<1>2. /\ Head(q) \in Queued /\ Head(q) \in Readers
      /\ q' \in Seq(Readers) /\ Distinct(q') /\ Queued' = Queued \ {Head(q)}
  <2>1. Range(q) \subseteq Readers
    BY <1>1 DEF Range
  <2>. QED
    BY <1>1, <2>1, TailFacts DEF Queued
<1>3. Head(q) \notin Filling /\ Head(q) \notin Flying
  BY <1>2 DEF HoldInv, Apart
<1>4. b \in Seq(Readers) /\ Range(b) = Filling \cup {Head(q)} /\ Distinct(b) /\ b # <<>>
  BY SMTT(30), <1>1, <1>2, <1>3, RangeFacts DEF Filling
<1>5. CASE Trigger(b)
  <2>1. /\ Queued' \subseteq Queued /\ Queued' \cap Range(b) = {}
        /\ Range(b) \cap Flying = {} /\ Queued' \cup Range(b) = Queued \cup Filling
    BY <1>2, <1>3, <1>4 DEF HoldInv, Apart
  <2>. QED
    BY Zenon, <1>1, <1>2, <1>4, <1>5, <2>1, TakeOff
<1>6. CASE batcher' = [pc |-> "check", batch |-> b] /\ flights' = flights
  <2>1. Filling' = Filling \cup {Head(q)} /\ Flying' = Flying /\ batcher'.batch = b
    BY <1>4, <1>6 DEF Filling, Flying
  <2>2. Held' = Held
    BY SMTT(30), <1>2, <2>1 DEF Held
  <2>3. HoldType'
    BY <1>1, <1>2, <1>4, <1>6 DEF HoldInv, HoldType
  <2>4. Apart'
    BY ZenonT(40), <1>2, <1>3, <1>4, <1>6, <2>1 DEF HoldInv, Apart
  <2>5. Awaited' /\ NotLost'
    BY <1>1, <1>6, <2>2 DEF HoldInv, Awaited, NotLost
  <2>. QED
    BY SMTT(30), <2>3, <2>4, <2>5 DEF HoldInv
<1>. QED
  BY <1>5, <1>6 DEF TakeRequest

(* The timer sends a batch that is not full (frontend.go:229-236). *)
LEMMA TickHolds ==
  ASSUME HoldInv, ReadTick, CountType', count'.faults = 0 => count.faults = 0
  PROVE  HoldInv'
<1>1. /\ batcher.batch \in Seq(Readers) /\ readChan \in Seq(Readers)
      /\ UNCHANGED <<readChan, reader, crashed>>
  BY DEF ReadTick, HoldInv, HoldType
<1>2. CASE batcher.batch # <<>>
  <2>1. Queued' = Queued /\ Range(batcher.batch) = Filling
    BY SMTT(30), <1>1 DEF Queued, Filling
  <2>2. /\ Queued' \subseteq Queued /\ Queued' \cap Range(batcher.batch) = {}
        /\ Range(batcher.batch) \cap Flying = {} /\ Distinct(readChan')
        /\ Queued' \cup Range(batcher.batch) = Queued \cup Filling
    BY <1>1, <2>1 DEF HoldInv, Apart
  <2>. QED
    BY SMTT(30), <1>1, <1>2, <2>2, TakeOff DEF ReadTick
<1>3. CASE batcher.batch = <<>>
  <2>1. batcher' = [batcher EXCEPT !.pc = "check"] /\ flights' = flights
    BY <1>3 DEF ReadTick
  <2>2. /\ batcher' \in [pc : {"check", "select", "exited"}, batch : Seq(Readers)]
        /\ batcher'.batch = batcher.batch
    BY ZenonT(40), <2>1 DEF HoldInv, HoldType
  <2>. QED
    BY <1>1, <2>1, <2>2, HoldStutter
<1>. QED
  BY <1>2, <1>3

(* A batch in flight goes on with the same requests (frontend.go:240-279). *)
LEMMA FlightHolds ==
  ASSUME HoldInv, NEW f \in flights, NEW g, Flight(g), g.reqs = f.reqs, Becomes(f, g),
         UNCHANGED <<readChan, batcher, reader, crashed>>, CountType',
         count'.faults = 0 => count.faults = 0 /\ g.err = f.err
  PROVE  HoldInv'
<1>1. flights' = (flights \ {f}) \cup {g}
  BY DEF Becomes
<1>2. Queued' = Queued /\ Filling' = Filling
  BY DEF Queued, Filling
<1>3. Flying' = Flying
  BY <1>1 DEF Flying
<1>4. Held' = Held
  BY <1>2, <1>3 DEF Held
<1>5. HoldType'
  BY SMTT(30), <1>1 DEF HoldInv, HoldType
<1>6. Apart'
  <2>1. \A h \in flights \ {f} : Range(h.reqs) \cap Range(g.reqs) = {}
    BY DEF HoldInv, Apart
  <2>2. \A h, k \in flights' : h # k => Range(h.reqs) \cap Range(k.reqs) = {}
    BY <1>1, <2>1 DEF HoldInv, Apart
  <2>. QED
    BY SMTT(30), <1>2, <1>3, <2>2 DEF HoldInv, Apart
<1>7. Awaited' /\ NotLost'
  BY <1>1, <1>4 DEF HoldInv, Awaited, NotLost
<1>. QED
  BY <1>5, <1>6, <1>7 DEF HoldInv

(* A batch that lands answers only its own requests, and all of them unless it
   failed or the process panics (frontend.go:281-303). *)
LEMMA RespondHolds ==
  ASSUME HoldInv, ~ crashed, NEW f \in flights, Respond(f)
  PROVE  HoldInv'
<1>1. /\ flights' = flights \ {f} /\ UNCHANGED <<readChan, batcher, count>>
      /\ Flight(f) /\ reader \in [Readers -> {"idle", "waiting"}]
  BY DEF Respond, HoldInv, HoldType
<1>2. PICK served : /\ served \subseteq DOMAIN f.reqs
                    /\ reader' = [r \in Readers |->
                         IF r \in {f.reqs[i] : i \in served} THEN "idle" ELSE reader[r]]
                    /\ f.err \/ crashed' \/ served = DOMAIN f.reqs
  <2>1. CASE f.err
    <3>1. 1 \in DOMAIN f.reqs
      BY <1>1 DEF Flight
    <3>. QED
      BY Zenon, <2>1, <3>1 DEF Respond, Answer
  <2>2. CASE ~ f.err
    <3>. DEFINE served == {i \in DOMAIN f.reqs : i <= NumReplicas}
    <3>1. crashed' = (Len(f.reqs) > NumReplicas)
      BY <2>2 DEF Respond
    <3>2. DOMAIN f.reqs = 1 .. Len(f.reqs) /\ Len(f.reqs) \in Nat /\ NumReplicas \in Nat
      BY <1>1, FrontendParams DEF Flight, FrontendParams
    <3>3. Len(f.reqs) > NumReplicas \/ served = DOMAIN f.reqs
      BY <3>2
    <3>4. crashed' \/ served = DOMAIN f.reqs
      BY <3>1, <3>3, Zenon
    <3>. QED
      BY Zenon, <2>2, <3>4 DEF Respond, Answer
  <2>. QED
    BY <2>1, <2>2
<1>3. {f.reqs[i] : i \in served} \subseteq Range(f.reqs)
  BY <1>2 DEF Range
<1>4. Flying' = Flying \ Range(f.reqs) /\ Queued' = Queued /\ Filling' = Filling
  BY <1>1 DEF Flying, Queued, Filling, HoldInv, Apart
<1>5. Held' = Held \ Range(f.reqs)
  <2>1. Range(f.reqs) \subseteq Flying
    BY SMTT(30) DEF Flying
  <2>. QED
    BY <1>4, <2>1 DEF Held, HoldInv, Apart
<1>6. HoldType'
  BY <1>1, <1>2 DEF HoldInv, HoldType
<1>7. Apart'
  BY <1>1, <1>4 DEF HoldInv, Apart
<1>8. Awaited'
  <2>1. Held \subseteq Readers
    BY RangeFacts DEF Held, Queued, Filling, Flying, HoldInv, HoldType, Flight, Range
  <2>. QED
    BY SMTT(30), <1>2, <1>3, <1>5, <2>1 DEF HoldInv, Awaited
<1>9. NotLost'
  <2>. SUFFICES ASSUME count.faults = 0, ~ crashed'
                PROVE  /\ \A r \in Readers : reader'[r] = "waiting" => r \in Held'
                       /\ \A h \in flights' : ~ h.err
    BY <1>1 DEF NotLost
  <2>1. /\ \A r \in Readers : reader[r] = "waiting" => r \in Held
        /\ \A h \in flights : ~ h.err
    BY DEF HoldInv, NotLost
  <2>2. {f.reqs[i] : i \in served} = Range(f.reqs)
    BY <1>2, <2>1 DEF Range
  <2>3. \A r \in Readers : reader'[r] = "waiting" => r \notin Range(f.reqs) /\ reader[r] = "waiting"
    BY <1>2, <2>2
  <2>. QED
    BY <1>1, <1>5, <2>1, <2>3
<1>10. CountType'
  BY <1>1 DEF HoldInv, CountType
<1>. QED
  BY <1>6, <1>7, <1>8, <1>9, <1>10 DEF HoldInv

(* The range is chosen: a window that ends with the next number; nothing else of
   the batch changes (frontend.go:252-261). *)
LEMMA RangeChosen ==
  ASSUME NEW f, Flight(f), proposedSeqNo \in Nat
  PROVE  LET g == WithRange(f)
         IN  /\ Flight(g) /\ g.reqs = f.reqs /\ g.err = f.err
             /\ g.start \in Nat /\ g.end = proposedSeqNo + 1
             /\ 1 <= g.start /\ g.start <= g.end /\ g.end - g.start <= WindowSize
<1>. DEFINE cur == proposedSeqNo + 1
            st == IF cur <= WindowSize THEN 1 ELSE cur - WindowSize
<1>1. st \in Nat /\ cur \in Nat /\ 1 <= st /\ st <= cur /\ cur - st <= WindowSize
  BY FrontendParams DEF FrontendParams
<1>2. ASSUME NEW g, g = WithRange(f)
      PROVE  Flight(g) /\ g.reqs = f.reqs /\ g.err = f.err /\ g.start = st /\ g.end = cur
  BY Zenon, <1>2 DEF Flight, WithRange
<1>. QED
  BY <1>1, <1>2

(* A replica answered: range and requests stay (frontend.go:263-279). *)
LEMMA ReplyAdded ==
  ASSUME NEW f, Flight(f)
  PROVE  LET g == WithReply(f)
         IN  /\ Flight(g) /\ g.reqs = f.reqs /\ g.err = f.err
             /\ g.start = f.start /\ g.end = f.end
<1>1. ASSUME NEW g, g = WithReply(f)
      PROVE  /\ Flight(g) /\ g.reqs = f.reqs /\ g.err = f.err
             /\ g.start = f.start /\ g.end = f.end
  BY Zenon, <1>1 DEF Flight, WithReply
<1>. QED
  BY <1>1

(* A replica failed: range and requests stay (frontend.go:263-279). *)
LEMMA ErrorNoted ==
  ASSUME NEW f, Flight(f)
  PROVE  LET g == WithError(f)
         IN  Flight(g) /\ g.reqs = f.reqs /\ g.start = f.start /\ g.end = f.end /\ g.err
<1>1. ASSUME NEW g, g = WithError(f)
      PROVE  Flight(g) /\ g.reqs = f.reqs /\ g.start = f.start /\ g.end = f.end /\ g.err
  BY Zenon, <1>1 DEF Flight, WithError
<1>. QED
  BY <1>1

(* Every step keeps requests in one place. *)
LEMMA NextHoldInv == WriteType /\ HoldInv /\ [Next]_vars => HoldInv'
<1>. SUFFICES ASSUME WriteType, HoldInv, [Next]_vars PROVE HoldInv'
  OBVIOUS
<1>0. /\ CountType' /\ (count'.faults = 0 => count.faults = 0)
      /\ batcher \in [pc : {"check", "select", "exited"}, batch : Seq(Readers)]
  BY FaultsStay DEF HoldInv, HoldType
<1>1. ASSUME UNCHANGED <<readChan, batcher, flights, reader, crashed>> PROVE HoldInv'
  BY <1>0, <1>1, HoldStutter
<1>2. ASSUME NEW w \in Writers, Write(w) \/ WriteStep(w) PROVE HoldInv'
  BY Zenon, <1>1, <1>2 DEF Write, WriteStep, SendWrite, SendWriteFails, readVars
<1>3. ASSUME NEW i \in Replica, Flip(i) PROVE HoldInv'
  BY <1>1, <1>3 DEF Flip, readVars
<1>4. CASE EpochStep \/ Close \/ UNCHANGED vars
  BY <1>1, <1>4 DEF EpochStep, EpochCheck, EpochTick, SendEpoch, Close, readVars, vars
<1>5. ASSUME NEW r \in Readers, Read(r) PROVE HoldInv'
  BY <1>0, <1>5, ReadHolds
<1>6. CASE BatchCheck
  <2>1. /\ batcher' = [batcher EXCEPT !.pc = IF dead THEN "exited" ELSE "select"]
        /\ UNCHANGED <<readChan, flights, reader, crashed>>
    BY <1>6 DEF BatchCheck
  <2>2. /\ batcher' \in [pc : {"check", "select", "exited"}, batch : Seq(Readers)]
        /\ batcher'.batch = batcher.batch
    BY <1>0, <2>1
  <2>. QED
    BY <1>0, <2>1, <2>2, HoldStutter
<1>7. CASE TakeRequest \/ ReadTick
  BY <1>0, <1>7, TakeHolds, TickHolds
<1>8. ASSUME NEW f \in flights, FlightStep(f), ~ crashed PROVE HoldInv'
  <2>1. Flight(f)
    BY DEF HoldInv, HoldType
  <2>2. CASE ChooseRange(f)
    <3>1. proposedSeqNo \in Nat
      BY DEF WriteType
    <3>. QED
      BY <1>0, <3>1, <2>1, <2>2, RangeChosen, FlightHolds DEF ChooseRange
  <2>3. CASE CallReplica(f)
    BY SMTT(30), <1>0, <2>1, <2>3, ReplyAdded, FlightHolds DEF CallReplica
  <2>4. CASE CallReplicaFails(f)
    <3>1. count' = [count EXCEPT !.faults = @ + 1]
      BY <2>4 DEF CallReplicaFails, Fault
    <3>2. count'.faults # 0
      BY <3>1 DEF HoldInv, CountType
    <3>. QED
      BY <1>0, <2>1, <2>4, <3>2, ErrorNoted, FlightHolds
      DEF CallReplicaFails
  <2>. QED
    BY <1>8, <2>2, <2>3, <2>4, RespondHolds DEF FlightStep
<1>. QED
  BY SMTT(30), <1>2, <1>3, <1>4, <1>5, <1>6, <1>7, <1>8 DEF Next, BatchStep

(* How often a request is in a sequence without repetition. *)
LEMMA Occurrences ==
  ASSUME NEW s, Distinct(s), NEW r
  PROVE  Cardinality({i \in DOMAIN s : s[i] = r}) = IF r \in Range(s) THEN 1 ELSE 0
<1>1. CASE r \in Range(s)
  <2>1. PICK i \in DOMAIN s : s[i] = r
    BY <1>1 DEF Range
  <2>2. {j \in DOMAIN s : s[j] = r} = {i}
    BY <2>1 DEF Distinct
  <2>. QED
    BY ZenonT(40), <1>1, <2>2, FS_Singleton
<1>2. CASE r \notin Range(s)
  <2>1. {i \in DOMAIN s : s[i] = r} = {}
    BY SMTT(30), <1>2 DEF Range
  <2>. QED
    BY <1>2, <2>1, FS_EmptySet
<1>. QED
  BY <1>1, <1>2

(* The places that hold a request: none or one. *)
LEMMA PlacesByHeld ==
  ASSUME HoldInv, NEW r
  PROVE  Places(r) = IF r \in Held THEN 1 ELSE 0
<1>. DEFINE C == {f \in flights : r \in Range(f.reqs)}
<1>1. /\ Cardinality({i \in DOMAIN readChan : readChan[i] = r}) =
           IF r \in Queued THEN 1 ELSE 0
      /\ Cardinality({i \in DOMAIN batcher.batch : batcher.batch[i] = r}) =
           IF r \in Filling THEN 1 ELSE 0
  BY Occurrences DEF HoldInv, Apart, Queued, Filling
<1>2. Cardinality(C) = IF r \in Flying THEN 1 ELSE 0
  <2>1. CASE r \in Flying
    <3>1. PICK f \in flights : r \in Range(f.reqs)
      BY <2>1 DEF Flying
    <3>2. C = {f}
      BY <3>1 DEF HoldInv, Apart
    <3>. QED
      BY Zenon, <2>1, <3>2, FS_Singleton
  <2>2. CASE r \notin Flying
    <3>1. C = {}
      BY <2>2 DEF Flying
    <3>. QED
      BY <2>2, <3>1, FS_EmptySet
  <2>. QED
    BY <2>1, <2>2
<1>3. /\ ~ (r \in Queued /\ r \in Filling) /\ ~ (r \in Queued /\ r \in Flying)
      /\ ~ (r \in Filling /\ r \in Flying)
  BY DEF HoldInv, Apart
<1>. QED
  BY SMTT(30), <1>1, <1>2, <1>3 DEF Places, Held

(* Nothing is held before the first Read. *)
LEMMA InitHoldInv == Init => HoldInv
<1>. SUFFICES ASSUME Init PROVE HoldInv
  OBVIOUS
<1>1. HoldType /\ CountType
  BY SMTT(30) DEF Init, HoldType, CountType
<1>2. Queued = {} /\ Filling = {} /\ Flying = {}
  BY SMTT(30) DEF Init, Queued, Filling, Flying, Range
<1>3. Apart
  BY SMTT(30), <1>2 DEF Init, Apart, Distinct
<1>4. Awaited /\ NotLost
  BY <1>2 DEF Init, Awaited, NotLost, Held
<1>. QED
  BY SMTT(30), <1>1, <1>3, <1>4 DEF HoldInv

(* A request a caller waits for is in exactly one place, unless a batch failed or
   the process panicked, and one nobody waits for is in none (frontend.go:214-238,
   284-300). *)
THEOREM RequestsHeldOnce == Spec => []RequestHeldOnce
<1>1. AckInv /\ HoldInv /\ [Next]_vars => HoldInv'
  BY NextHoldInv DEF AckInv
<1>2. HoldInv => RequestHeldOnce
  BY PlacesByHeld DEF HoldInv, Awaited, NotLost, RequestHeldOnce
<1>. QED
  BY <1>1, <1>2, InitHoldInv, WriteSide, PTL DEF Spec

-----------------------------------------------------------------------------
(* The range of a reply. *)
Bounded ==
  /\ acked \subseteq 1 .. proposedSeqNo
  /\ \A w \in Sending : write[w].seq \in 1 .. proposedSeqNo
  /\ floor \in [Readers -> Nat] /\ \A r \in Readers : floor[r] <= proposedSeqNo

Covering(x, r) ==
  /\ x.start \in Nat /\ x.end \in Nat /\ 1 <= x.start /\ x.start <= x.end
  /\ x.end - x.start <= WindowSize /\ floor[r] < x.end

FlightsCover ==
  \A f \in flights : f.pc # "range" => \A r \in Range(f.reqs) : Covering(f, r)

RepliesCover == \A r \in Readers : reply[r].state = "ok" => Covering(reply[r], r)

CoverInv == Bounded /\ FlightsCover /\ RepliesCover /\ DOMAIN reply = Readers

(* The highest acknowledged number is at most the last one given out. *)
LEMMA HighestBounded ==
  ASSUME NEW n \in Nat, NEW S \in SUBSET (1 .. n)
  PROVE  Highest(S) \in Nat /\ Highest(S) <= n
<1>1. CASE S = {}
  BY <1>1 DEF Highest
<1>2. CASE S # {}
  <2>. DEFINE T == {n - m : m \in S}
  <2>0. \A m \in S : m \in Nat /\ m <= n /\ n - m \in Nat
    OBVIOUS
  <2>1. T \in SUBSET Nat /\ T # {}
    BY <1>2, <2>0, Zenon
  <2>2. PICK t \in T : \A u \in T : <<u, t>> \notin OpToRel(<, Nat)
    BY <2>1, NatLessThanWellFounded, WFMin, Zenon
  <2>3. \A u \in T : ~ (u < t)
    BY <2>1, <2>2, Zenon DEF OpToRel
  <2>4. PICK m \in S : t = n - m
    OBVIOUS
  <2>5. \A k \in S : k <= m
    <3>. SUFFICES ASSUME NEW k \in S PROVE k <= m
      OBVIOUS
    <3>1. n - k \in T
      OBVIOUS
    <3>2. ~ (n - k < n - m)
      BY <2>3, <2>4, <3>1
    <3>. QED
      BY <3>2
  <2>6. Highest(S) \in S
    BY Zenon, <1>2, <2>5 DEF Highest
  <2>. QED
    BY <2>0, <2>6, Zenon
<1>. QED
  BY <1>1, <1>2

(* Numbers only grow, and a call acknowledges its own. *)
LEMMA NextBounded ==
  ASSUME AckInv, Bounded, [Next]_vars
  PROVE  Bounded' /\ proposedSeqNo' >= proposedSeqNo
<1>. USE DEF AckInv
<1>0. proposedSeqNo \in Nat /\ write \in [Writers -> Call]
  BY DEF WriteType
<1>1. ASSUME NEW w \in Writers, Write(w) PROVE Bounded' /\ proposedSeqNo' >= proposedSeqNo
  <2>1. /\ proposedSeqNo' = proposedSeqNo + 1 /\ acked' = acked /\ floor' = floor
        /\ write' = [write EXCEPT ![w] =
             [pc |-> "sending", seq |-> proposedSeqNo + 1, to |-> 1, err |-> FALSE]]
    BY <1>1 DEF Write, readVars
  <2>2. Sending' = Sending \cup {w} /\ write'[w].seq = proposedSeqNo + 1
        /\ \A v \in Sending \ {w} : write'[v] = write[v]
    BY SMTT(30), <1>0, <2>1 DEF Sending
  <2>3. \A v \in Sending' : write'[v].seq \in 1 .. proposedSeqNo'
    BY SMTT(30), <1>0, <2>1, <2>2 DEF Bounded
  <2>. QED
    BY SMTT(30), <1>0, <2>1, <2>3 DEF Bounded
<1>2. ASSUME NEW w \in Writers, WriteStep(w) PROVE Bounded' /\ proposedSeqNo' >= proposedSeqNo
  <2>1. /\ proposedSeqNo' = proposedSeqNo /\ floor' = floor /\ w \in Sending
        /\ \E failed \in BOOLEAN : WriteReturned(w, failed)
    BY Zenon, <1>2 DEF WriteStep, SendWrite, SendWriteFails, readVars, Sending
  <2>2. acked' \subseteq acked \cup {write[w].seq}
    BY <2>1 DEF WriteReturned
  <2>3. Sending' \subseteq Sending /\ \A v \in Sending' : write'[v].seq = write[v].seq
    <3>1. \/ write' = [write EXCEPT ![w] = IdleWrite]
          \/ \E k, e : write' = [write EXCEPT ![w] =
               [pc |-> "sending", seq |-> write[w].seq, to |-> k, err |-> e]]
      BY <2>1 DEF WriteReturned
    <3>. QED
      BY <1>0, <2>1, <3>1 DEF Sending, IdleWrite
  <2>. QED
    BY <1>0, <2>1, <2>2, <2>3 DEF Bounded
<1>3. ASSUME NEW r \in Readers, Read(r) PROVE Bounded' /\ proposedSeqNo' >= proposedSeqNo
  <2>1. /\ UNCHANGED <<proposedSeqNo, write, acked>>
        /\ floor' = [floor EXCEPT ![r] = Highest(acked)]
    BY <1>3 DEF Read, writeVars
  <2>2. Highest(acked) \in Nat /\ Highest(acked) <= proposedSeqNo
    BY <1>0, HighestBounded DEF Bounded
  <2>. QED
    BY <1>0, <2>1, <2>2 DEF Bounded, Sending
<1>4. ASSUME UNCHANGED <<proposedSeqNo, write, acked, floor>>
      PROVE  Bounded' /\ proposedSeqNo' >= proposedSeqNo
  BY <1>0, <1>4 DEF Bounded, Sending
<1>5. CASE OtherStep /\ ~ \E r \in Readers : Read(r)
  <2>1. floor' = floor
    BY Zenon, <1>5 DEF OtherStep, Flip, EpochStep, EpochCheck, EpochTick, SendEpoch, BatchStep,
                BatchCheck, TakeRequest, ReadTick, FlightStep, ChooseRange, CallReplica,
                CallReplicaFails, Respond, Close, readVars
  <2>. QED
    BY <1>4, <1>5, <2>1, OtherStepsKeepWrites
<1>6. CASE UNCHANGED vars
  BY SMTT(30), <1>4, <1>6 DEF vars
<1>. QED
  BY <1>1, <1>2, <1>3, <1>5, <1>6 DEF Next, OtherStep

(* Steps that touch neither batches in flight nor replies nor what callers had
   seen. *)
LEMMA CoverStutter ==
  FlightsCover /\ RepliesCover /\ UNCHANGED <<flights, reply, floor>> =>
    FlightsCover' /\ RepliesCover'
BY DEF FlightsCover, RepliesCover, Covering

(* A new Read forgets the caller's last reply, and no batch in flight carries a
   request of it (frontend.go:116-122). *)
LEMMA ReadCovers ==
  ASSUME HoldInv, CoverInv, NEW r \in Readers, Read(r)
  PROVE  FlightsCover' /\ RepliesCover'
<1>1. /\ flights' = flights /\ reply' = [reply EXCEPT ![r] = NoReply]
      /\ floor' = [floor EXCEPT ![r] = Highest(acked)] /\ reader[r] = "idle"
      /\ floor \in [Readers -> Nat]
  BY DEF Read, CoverInv, Bounded
<1>2. r \notin Flying /\ Flying \subseteq Readers
  <2>1. r \notin Held
    BY <1>1 DEF HoldInv, Awaited
  <2>. QED
    BY <2>1, RangeFacts DEF Held, Flying, HoldInv, HoldType, Flight, Range
<1>3. \A f \in flights : \A q \in Range(f.reqs) : floor'[q] = floor[q]
  BY SMTT(30), <1>1, <1>2 DEF Flying
<1>4. FlightsCover'
  BY <1>1, <1>3 DEF CoverInv, FlightsCover, Covering
<1>5. \A q \in Readers \ {r} : reply'[q] = reply[q] /\ floor'[q] = floor[q]
  BY <1>1
<1>6. reply'[r].state # "ok"
  <2>1. reply'[r] = NoReply
    BY SMTT(30), <1>1 DEF CoverInv
  <2>. QED
    BY <2>1 DEF NoReply
<1>7. RepliesCover'
  BY SMTT(30), <1>5, <1>6 DEF CoverInv, RepliesCover, Covering
<1>. QED
  BY <1>4, <1>7

(* A batch that takes off has no range yet. *)
LEMMA TakeOffCovers ==
  ASSUME CoverInv, NEW b, Trigger(b), UNCHANGED <<reply, floor>>
  PROVE  FlightsCover' /\ RepliesCover'
<1>1. \A f \in flights' : f \in flights \/ f.pc = "range"
  BY DEF Trigger
<1>. QED
  BY <1>1 DEF CoverInv, FlightsCover, RepliesCover, Covering

(* The range is chosen after the requests were taken, so it covers what their
   callers had seen; later steps keep it (frontend.go:252-279). *)
LEMMA FlightCovers ==
  ASSUME AckInv, HoldInv, CoverInv, NEW f \in flights,
         ChooseRange(f) \/ CallReplica(f) \/ CallReplicaFails(f)
  PROVE  FlightsCover' /\ RepliesCover'
<1>0. Flight(f) /\ proposedSeqNo \in Nat
  BY DEF HoldInv, HoldType, AckInv, WriteType
<1>1. reply' = reply /\ floor' = floor
  BY Zenon DEF ChooseRange, CallReplica, CallReplicaFails
<1>2. \A r \in Range(f.reqs) : floor[r] \in Nat /\ floor[r] <= proposedSeqNo
  <2>1. Range(f.reqs) \subseteq Readers
    BY <1>0, RangeFacts DEF Flight, Range
  <2>2. \A r \in Readers : floor[r] \in Nat /\ floor[r] <= proposedSeqNo
    BY DEF CoverInv, Bounded
  <2>. QED
    BY <2>1, <2>2, Zenon
<1>3. f.pc # "range" => \A r \in Range(f.reqs) : Covering(f, r)
  BY Zenon DEF CoverInv, FlightsCover
<1>4. PICK g : Becomes(f, g) /\ \A r \in Range(g.reqs) : Covering(g, r)
  <2>1. CASE ChooseRange(f)
    <3>1. ASSUME NEW g, g = WithRange(f)
          PROVE  \A r \in Range(g.reqs) : Covering(g, r)
      <4>1. /\ g.reqs = f.reqs /\ g.start \in Nat /\ g.end = proposedSeqNo + 1
            /\ 1 <= g.start /\ g.start <= g.end /\ g.end - g.start <= WindowSize
        BY SMTT(30), <1>0, <3>1, RangeChosen
      <4>2. ASSUME NEW r \in Range(f.reqs) PROVE floor[r] < g.end /\ g.end \in Nat
        BY SMTT(30), <1>0, <1>2, <4>1
      <4>. QED
        BY <4>1, <4>2 DEF Covering
    <3>. QED
      BY <2>1, <3>1 DEF ChooseRange
  <2>2. CASE CallReplica(f)
    BY SMTT(30), <1>0, <1>3, <2>2, ReplyAdded DEF CallReplica, Covering
  <2>3. CASE CallReplicaFails(f)
    BY <1>0, <1>3, <2>3, ErrorNoted DEF CallReplicaFails, Covering
  <2>. QED
    BY <2>1, <2>2, <2>3
<1>5. \A x, r : Covering(x, r)' <=> Covering(x, r)
  BY <1>1, Zenon DEF Covering
<1>6. FlightsCover'
  BY <1>4, <1>5, Zenon DEF Becomes, CoverInv, FlightsCover
<1>7. RepliesCover'
  BY <1>1, <1>5, Zenon DEF CoverInv, RepliesCover
<1>. QED
  BY <1>6, <1>7

(* A reply carries the range of its batch (frontend.go:281-303). *)
LEMMA RespondCovers ==
  ASSUME HoldInv, CoverInv, NEW f \in flights, Respond(f)
  PROVE  FlightsCover' /\ RepliesCover'
<1>1. flights' = flights \ {f} /\ floor' = floor /\ f.pc = "respond" /\ Flight(f)
  BY DEF Respond, HoldInv, HoldType
<1>2. FlightsCover'
  BY <1>1 DEF CoverInv, FlightsCover, Covering
<1>3. \A r \in Range(f.reqs) : Covering(f, r)
  BY <1>1 DEF CoverInv, FlightsCover
<1>4. ASSUME NEW r \in Readers, reply'[r].state = "ok" PROVE Covering(reply'[r], r)
  <2>1. CASE f.err
    <3>1. reply'[r] = [NoReply EXCEPT !.state = "error"] \/ reply'[r] = reply[r]
      BY <2>1 DEF Respond, Answer
    <3>2. [NoReply EXCEPT !.state = "error"].state # "ok"
      BY SMTT(30) DEF NoReply
    <3>. QED
      BY Zenon, <1>4, <3>1, <3>2 DEF CoverInv, RepliesCover
  <2>2. CASE ~ f.err
    <3>. DEFINE rep == [state |-> "ok", start |-> f.start, end |-> f.end, views |-> f.views]
    <3>1. (reply'[r] = rep /\ r \in Range(f.reqs)) \/ reply'[r] = reply[r]
      BY SMTT(30), <2>2 DEF Respond, Answer, Range
    <3>2. CASE reply'[r] = rep /\ r \in Range(f.reqs)
      BY SMTT(30), <1>3, <3>2 DEF Covering
    <3>3. CASE reply'[r] = reply[r]
      BY SMTT(30), <1>4, <3>3 DEF CoverInv, RepliesCover
    <3>. QED
      BY <3>1, <3>2, <3>3
  <2>. QED
    BY <2>1, <2>2
<1>5. RepliesCover'
  BY <1>1, <1>4 DEF RepliesCover, Covering
<1>. QED
  BY <1>2, <1>5

(* Every step keeps the ranges covering. *)
LEMMA NextCoverInv ==
  AckInv /\ HoldInv /\ CoverInv /\ [Next]_vars => CoverInv'
<1>. SUFFICES ASSUME AckInv, HoldInv, CoverInv, [Next]_vars
              PROVE  CoverInv'
  OBVIOUS
<1>1. Bounded'
  BY NextBounded DEF CoverInv
<1>2. DOMAIN reply' = Readers
  BY Zenon DEF CoverInv, Next, WriteStep, EpochStep, BatchStep, FlightStep, Write, SendWrite,
     SendWriteFails, EpochCheck, EpochTick, SendEpoch, Flip, Read, BatchCheck, TakeRequest,
     ReadTick, ChooseRange, CallReplica, CallReplicaFails, Respond, Answer, Close, vars,
     writeVars, replicaVars, readVars
<1>3. FlightsCover' /\ RepliesCover'
  <2>1. CASE \E r \in Readers : Read(r)
    BY <2>1, ReadCovers
  <2>2. CASE \E f \in flights : ChooseRange(f) \/ CallReplica(f) \/ CallReplicaFails(f)
    BY <2>2, FlightCovers
  <2>3. CASE \E f \in flights : Respond(f)
    BY <2>3, RespondCovers
  <2>4. CASE TakeRequest \/ ReadTick
    BY <2>4, TakeOffCovers, CoverStutter DEF CoverInv, TakeRequest, ReadTick
  <2>5. CASE UNCHANGED <<flights, reply, floor>>
    BY <2>5, CoverStutter DEF CoverInv
  <2>. QED
    BY ZenonT(40), <2>1, <2>2, <2>3, <2>4, <2>5 DEF Next, WriteStep, EpochStep, BatchStep, FlightStep,
       Write, SendWrite, SendWriteFails, EpochCheck, EpochTick, SendEpoch, Flip, BatchCheck,
       Close, vars, writeVars, replicaVars, readVars
<1>. QED
  BY <1>1, <1>2, <1>3 DEF CoverInv

(* A successful reply names a window that ends after every write the caller had
   seen acknowledged and spans no more than WindowSize (frontend.go:252-303). *)
THEOREM RangesCover == Spec => []RangeCoversAcked
<1>1. ASSUME Init PROVE CoverInv
  <2>1. Bounded
    BY SMTT(30), <1>1 DEF Init, Bounded, Sending, IdleWrite
  <2>2. FlightsCover /\ DOMAIN reply = Readers
    BY SMTT(30), <1>1 DEF Init, FlightsCover
  <2>3. \A r \in Readers : reply[r] = NoReply
    BY SMTT(30), <1>1 DEF Init
  <2>4. RepliesCover
    BY SMTT(30), <2>3 DEF RepliesCover, NoReply
  <2>. QED
    BY SMTT(30), <2>1, <2>2, <2>4 DEF CoverInv
<1>2. CoverInv => RangeCoversAcked
  BY DEF CoverInv, Bounded, RepliesCover, Covering, RangeCoversAcked
<1>3. AckInv => WriteType
  BY DEF AckInv
<1>. QED
  BY <1>1, <1>2, <1>3, WriteSide, InitHoldInv, NextHoldInv, NextCoverInv, PTL DEF Spec
=============================================================================
