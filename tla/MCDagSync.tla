----------------------------- MODULE MCDagSync -----------------------------
(* A DAG of four blocks: r links to x and a; x links to z and a.  m is not  *)
(* DAG-CBOR.                                                               *)
EXTENDS DagSync, TLC

CONSTANTS r, x, a, z, m, DagCbor

Link(codec, block) == [codec |-> codec, hash |-> block]

FourBlocks == [b \in Block |->
    CASE b = r -> <<Link(DagCbor, x), Link(Raw, a)>>
      [] b = x -> <<Link(Raw, z), Link(Raw, a)>>
      [] OTHER -> <<>>]

RootCid == Link(DagCbor, r)

\* A file of these cids, with the data they name.
File(cids) == [i \in DOMAIN cids |-> [cid |-> cids[i], data |-> cids[i].hash]]

\* Everything, x twice; everything, but x under another codec only; of that, the
\* stem.
Whole == File(<<Link(Raw, x), RootCid, Link(DagCbor, x), Link(Raw, a), Link(Raw, z)>>)
OtherCodec == File(<<Link(Raw, x), RootCid, Link(Raw, a), Link(Raw, z)>>)
Stem == File(<<RootCid, Link(Raw, x)>>)

\* A file with the data of a for that of x; one that cannot be imported.
False == <<[cid |-> RootCid, data |-> r], [cid |-> Link(DagCbor, x), data |-> a]>>
Bad == File(<<Link(Raw, m)>>)

AllCars == (Alice :> {Whole, False, Bad}) @@ (Bob :> {Stem})
OtherCodecCars == (Alice :> {OtherCodec}) @@ (Bob :> {})

Full(visited, pass, inline) ==
    [full |-> TRUE, roots |-> <<RootCid>>, visited |-> visited,
     pass |-> pass, inline |-> inline]

Everything == Full({}, Codec, Codec)
JustLeaves == Full({}, {Raw}, Codec)
StemAsHashes == Full({}, Codec, {Raw})
LeavesAsHashesWithoutX == Full({Link(DagCbor, x)}, Codec, {DagCbor})
TwoLeaves == [full |-> FALSE, roots |-> <<Link(Raw, a), Link(Raw, z)>>,
              visited |-> {}, pass |-> Codec, inline |-> {DagCbor}]

AllRequests ==
    {Everything, JustLeaves, StemAsHashes, LeavesAsHashesWithoutX, TwoLeaves}

(* Pre-order by recursion: what a visit of the cids in turn adds to what   *)
(* was listed before.                                                      *)
RECURSIVE PreOrder(_, _)
PreOrder(cids, listed) ==
    IF cids = <<>> THEN listed
    ELSE LET cid == Head(cids)
             links == IF cid.codec = Raw THEN <<>> ELSE LinksOf[cid.hash]
         IN IF \E i \in DOMAIN listed : listed[i] = cid
            THEN PreOrder(Tail(cids), listed)
            ELSE PreOrder(Tail(cids), PreOrder(links, Append(listed, cid)))

Listing == PreOrder(<<RootCid>>, <<>>)

(* As far as one goes, the listing is in pre-order as DagSync defines it.  *)
ASSUME PreOrderAgrees ==
    \A k \in 0 .. Len(Listing) : InPreOrder(Everything, SubSeq(Listing, 1, k))
=============================================================================
