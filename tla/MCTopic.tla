------------------------------ MODULE MCTopic ------------------------------
EXTENDS Topic

(* Positions share buckets, and every third has one bucket twice. *)
MCBuckets(n) == IF n % 3 = 0 THEN <<1, 2>> ELSE IF n % 3 = 1 THEN <<2, 1>> ELSE <<2, 2>>
=============================================================================
