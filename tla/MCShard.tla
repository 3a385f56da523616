------------------------------ MODULE MCShard ------------------------------
EXTENDS Shard

(* Contended pairs: the buckets clients' PRFs may pick. *)
ValidPlacements == {<<0, 1>>, <<1, 1>>}

(* One more pair with a bucket out of range, which Insert refuses. *)
MCPlacements == ValidPlacements \cup {<<0, NumBuckets>>}
=============================================================================
