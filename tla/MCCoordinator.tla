--------------------------- MODULE MCCoordinator ---------------------------
EXTENDS Coordinator

Co(i, b, c, loc) == [id |-> i, bucket1 |-> b, bucket2 |-> c, loc |-> loc]

(* Two commits share their buckets (one of them after reduction modulo
   NumBuckets), one has equal buckets; location lists shorter than, as long as
   and longer than NumHash. *)
MCCommits == {Co(1, 0, 1, <<0, 5>>), Co(2, 1, 2, <<3>>), Co(3, 1, 1, <<1, 2, 3>>)}
=============================================================================
