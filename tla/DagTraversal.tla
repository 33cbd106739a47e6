---------------------------- MODULE DagTraversal ----------------------------
(***************************************************************************)
(* The data of iroh-dag-sync: cids, the two tables of a node's dag.db      *)
(* (tables.rs) and the lazy traversal that sender and receiver both run    *)
(* over them (traversal.rs).                                               *)
(*                                                                         *)
(* A block stands for its bytes, and so for each of its hashes.  A cid     *)
(* names a block by a hash and says with which codec to read it; data that *)
(* comes with a cid may be another block.  Codecs   *)
(* other than raw differ in name only: links are always extracted as       *)
(* DAG-CBOR.                                                               *)
(***************************************************************************)
EXTENDS Naturals, Sequences

CONSTANTS
    Block,
    Codec, Raw,  \* 0x55
    LinksOf,     \* block -> the links in its bytes, read as DAG-CBOR
    Malformed,   \* blocks whose bytes are not DAG-CBOR
    NoBlock, NoCid

Cid == [codec : Codec, hash : Block]

ASSUME DagAssumption ==
    /\ Raw \in Codec
    /\ LinksOf \in [Block -> Seq(Cid)]
    /\ Malformed \subseteq Block
    /\ NoBlock \notin Block
    /\ NoCid \notin Cid

----------------------------------------------------------------------------
(* Tables *)

(* hash_to_blake3 maps a hash to the block that was stored under it;       *)
(* data_to_links has a row for a codec and a block with links.             *)
Tables == [blake3 : [Block -> Block \cup {NoBlock}], links : SUBSET Cid]

NewTables == [blake3 |-> [b \in Block |-> NoBlock], links |-> {}]

Blake3Hash(tables, cid) == tables.blake3[cid.hash]

LinksKey(tables, cid) == [codec |-> cid.codec, hash |-> Blake3Hash(tables, cid)]

(* No row is taken to mean no links. *)
StoredLinks(tables, cid) ==
    IF LinksKey(tables, cid) \in tables.links
    THEN LinksOf[Blake3Hash(tables, cid)] ELSE <<>>

\* Mutant of InsertLinks: a hash that is mapped already is left alone.
InsertLinksOnce(tables, cid, block) ==
    IF Blake3Hash(tables, cid) # NoBlock THEN tables
    ELSE [blake3 |-> [tables.blake3 EXCEPT ![cid.hash] = block],
          links |-> IF LinksOf[block] = <<>> THEN tables.links
                    ELSE tables.links \cup {[codec |-> cid.codec, hash |-> block]}]

(* The bytes of block were taken for those that cid names. *)
InsertLinks(tables, cid, block) ==
    [blake3 |-> [tables.blake3 EXCEPT ![cid.hash] = block],
     links |-> IF LinksOf[block] = <<>> THEN tables.links
               ELSE tables.links \cup {[codec |-> cid.codec, hash |-> block]}]

----------------------------------------------------------------------------
(* Traversals *)

(* TraversalOpts and InlineOpts: a sequence of cids, or a root to follow   *)
(* links from; the codecs the filter lets through and those whose data is  *)
(* sent inline.  Only a full traversal has a filter.                       *)
Request == {q \in [full : BOOLEAN, roots : Seq(Cid), visited : SUBSET Cid,
                   pass : SUBSET Codec, inline : SUBSET Codec] :
               IF q.full THEN Len(q.roots) = 1
               ELSE q.visited = {} /\ q.pass = Codec}

(* The head of stack is its top; prev is the cid whose links are still to  *)
(* be read.                                                                *)
Traversal == [full : BOOLEAN, stack : Seq(Cid), visited : SUBSET Cid,
              prev : Cid \cup {NoCid}]

GetTraversal(q) ==
    [full |-> q.full, stack |-> q.roots, visited |-> q.visited, prev |-> NoCid]

Deferred(tr) == tr.prev # NoCid

(* The links of prev are needed and its block was never seen: an error. *)
IsStuck(tr, tables) ==
    /\ Deferred(tr) /\ tr.prev.codec # Raw
    /\ Blake3Hash(tables, tr.prev) = NoBlock

\* Mutant of Expanded: links are pushed in the order they are in.
ExpandedBackwards(tr, tables) ==
    LET links == IF tr.prev.codec = Raw THEN <<>> ELSE StoredLinks(tables, tr.prev)
    IN [tr EXCEPT !.prev = NoCid,
                  !.stack = [i \in 1 .. Len(links) |-> links[Len(links) + 1 - i]] \o @]

(* The deferred work: the first link comes to the top. *)
Expanded(tr, tables) ==
    [tr EXCEPT !.prev = NoCid,
               !.stack = IF tr.prev.codec = Raw THEN @
                         ELSE StoredLinks(tables, tr.prev) \o @]

AtEnd(tr) == ~Deferred(tr) /\ tr.stack = <<>>

Top(tr) == Head(tr.stack)

AlreadyVisited(tr) == tr.full /\ Top(tr) \in tr.visited

Popped(tr) == [tr EXCEPT !.stack = Tail(@)]

(* The top is the next cid; reading its links is left for later, since its *)
(* data may not have arrived.                                              *)
Visited(tr) ==
    IF tr.full
    THEN [Popped(tr) EXCEPT !.visited = @ \cup {Top(tr)}, !.prev = Top(tr)]
    ELSE Popped(tr)
=============================================================================
