----------------------------- MODULE MCPirRead -----------------------------
EXTENDS PirRead

Query(b, r1, r2) == [bucket |-> b, random |-> <<r1, r2>>]

(* Full and partial batches, empty and full vectors, one bucket twice. *)
MCBatches ==
  {<<Query(0, {}, {}), Query(2, {0, 1}, {1, 2})>>,
   <<Query(1, {0, 1, 2}, {1}), Query(1, {2}, {0, 2})>>,
   <<Query(2, {0, 2}, {1, 2})>>}

MCBackends ==
  {<<"cl0", "read0", "cuda">>, <<"read1", "cl1", "read2">>, <<"cl2", "read0", "read1">>}

MCGroupSize(k) == IF k = "cl0" THEN 2 ELSE IF k = "cl1" THEN 2 ELSE IF k = "cl2" THEN 8 ELSE 4

MCChanged(n) == {1}
=============================================================================
