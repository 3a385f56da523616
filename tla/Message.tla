------------------------------ MODULE Message ------------------------------
(***************************************************************************)
(* Fragments (libtalek/message.go).  A fragment is [first, left, body]: the *)
(* header's flag, the bytes of the message from this fragment on, and Denom *)
(* bytes of which the last ones may be padding.                            *)
(***************************************************************************)
EXTENDS Integers, Sequences

CONSTANTS
  Denom,  \* partSize - fragmentHeaderLength
  Zero    \* the byte make() fills with

ASSUME DenomAssumption == Denom \in Nat \ {0}

(* newMessage is a message that has arrived; message{} has not begun. *)
NoMessage == [contents |-> <<>>, receivedEnd |-> 0]

NumParts(len) == (len + Denom - 1) \div Denom

Split(contents) ==
  [i \in 1 .. NumParts(Len(contents)) |->
    [first |-> i = 1,
     left |-> Len(contents) - (i - 1) * Denom,
     body |-> [k \in 1 .. Denom |->
                IF (i - 1) * Denom + k \in DOMAIN contents
                  THEN contents[(i - 1) * Denom + k] ELSE Zero]]]

(* The buffer Join copies into: a first fragment allocates one, unless a
   message has begun. *)
Buffer(m, part) ==
  IF part.first /\ m.receivedEnd = 0 THEN [k \in 1 .. part.left |-> Zero] ELSE m.contents

Fits(m, part) == Len(Buffer(m, part)) = m.receivedEnd + part.left

(* Variant: the copy starts at the beginning of the buffer. *)
Join_Overwrites(m, part) ==
  LET buffer == Buffer(m, part) IN
  IF Fits(m, part)
    THEN [contents |-> [k \in DOMAIN buffer |-> IF k <= Denom THEN part.body[k] ELSE buffer[k]],
          receivedEnd |-> m.receivedEnd + Denom]
    ELSE m

(* The message after Join; a fragment that does not fit is dropped. *)
Join(m, part) ==
  LET buffer == Buffer(m, part) IN
  IF Fits(m, part)
    THEN [contents |-> [k \in DOMAIN buffer |->
                         IF k - m.receivedEnd \in 1 .. Denom THEN part.body[k - m.receivedEnd]
                                                             ELSE buffer[k]],
          receivedEnd |-> m.receivedEnd + Denom]
    ELSE m

(* What Join returns: the message is complete, and the fragment belonged to it. *)
Completes(m, part) ==
  Fits(m, part) /\ m.receivedEnd + Denom >= Len(Buffer(m, part))

=============================================================================
