--------------------------- MODULE MCContentProbe ---------------------------
(* An empty blob, one shorter than a chunk, one of chunks and a half, one  *)
(* of a whole chunk, and hash sequences of them.                           *)
EXTENDS ContentProbe, TLC

CONSTANTS empty, short, long, whole, tiny, mixed, huge

BlobSizes == empty :> 0 @@ short :> 1 @@ long :> 5 @@ whole :> 2
SeqChildren == tiny :> <<short, empty>> @@ mixed :> <<short, long, empty, whole, long>>
                 @@ huge :> <<long, long, long, long, long, long>>
=============================================================================
