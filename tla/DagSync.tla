------------------------------- MODULE DagSync -------------------------------
(***************************************************************************)
(* Two nodes of iroh-dag-sync (sync.rs, main.rs): Alice imports CAR files  *)
(* and serves sync requests, Bob imports CAR files and syncs from Alice.   *)
(* A node runs one command at a time, since dag.db is locked by it.  In a  *)
(* sync both run the same traversal: Alice over what she has, Bob over     *)
(* what he had and what has arrived, one frame per cid.                    *)
(***************************************************************************)
EXTENDS DagTraversal, FiniteSets

CONSTANTS
    Alice, Bob,
    Cars,            \* node -> the CAR files it may import
    Requests,        \* the requests Bob may make
    Window,          \* frames in flight
    Unsynced         \* blobs a store may lose in a crash until it is synced

Node == {Alice, Bob}

(* What a CAR file lists: a cid and the data that is said to be its own. *)
Entry == [cid : Cid, data : Block]

ASSUME SyncAssumption ==
    /\ Alice # Bob
    /\ Cars \in [Node -> SUBSET Seq(Entry)]
    /\ Requests \subseteq Request
    /\ Window \in Nat \ {0}
    /\ Unsynced \subseteq Block

VARIABLES
    tables,   \* node -> dag.db as committed
    tx,       \* node -> dag.db as its command sees it
    stored,   \* node -> the blobs in its store
    synced,   \* node -> the blobs a crash cannot take back
    pc,       \* node -> where its command is
    car,      \* node -> what is left of the file it imports
    tr,       \* node -> its traversal
    item,     \* node -> the cid the traversal has yielded
    request,  \* of the last sync
    frames,   \* what Alice has written and Bob has not read
    conn,     \* the stream of the response
    result    \* of Bob's last sync

db == <<tables, tx, stored, synced>>
stream == <<frames, conn>>
vars == <<db, pc, car, tr, item, request, stream, result>>

(* The cid is not sent: it is there to state what a frame was meant for. *)
Frame == [kind : {"data", "hash", "torn"}, block : Block, cid : Cid]

TypeOK ==
    /\ tables \in [Node -> Tables] /\ tx \in [Node -> Tables]
    /\ stored \in [Node -> SUBSET Block] /\ synced \in [Node -> SUBSET Block]
    /\ pc \in [Node -> {"idle", "import", "flush", "walk", "item", "commit"}]
    /\ car \in [Node -> Seq(Entry)]
    /\ tr \in [Node -> Traversal]
    /\ item \in [Node -> Cid \cup {NoCid}]
    /\ \A n \in Node : pc[n] = "item" => item[n] \in Cid
    /\ request \in Request
    /\ frames \in Seq(Frame)
    /\ conn \in {"none", "open", "finished", "lost"}
    /\ result \in {"none", "complete", "eof", "failed"}

NoRequest == [full |-> FALSE, roots |-> <<>>, visited |-> {},
              pass |-> Codec, inline |-> Codec]

Init ==
    /\ tables = [n \in Node |-> NewTables] /\ tx = tables
    /\ stored = [n \in Node |-> {}] /\ synced = stored
    /\ pc = [n \in Node |-> "idle"]
    /\ car = [n \in Node |-> <<>>]
    /\ tr = [n \in Node |-> GetTraversal(NoRequest)]
    /\ item = [n \in Node |-> NoCid]
    /\ request = NoRequest
    /\ frames = <<>> /\ conn = "none"
    /\ result = "none"

Goto(n, label) == pc' = [pc EXCEPT ![n] = label]

AddBytes(n, block) ==
    /\ stored' = [stored EXCEPT ![n] = @ \cup {block}]
    /\ synced' = [synced EXCEPT ![n] = @ \cup ({block} \ Unsynced)]

----------------------------------------------------------------------------
(* Import *)

Syncing == pc[Bob] \in {"walk", "item", "commit"}

(* Alice's next command waits until Bob's has ended: nothing of hers can   *)
(* reach him any more, and properties can compare what he has with the     *)
(* tables it was sent from.                                                *)
Import(n, file) ==
    /\ pc[n] = "idle" /\ Goto(n, "import")
    /\ ~Syncing
    /\ car' = [car EXCEPT ![n] = file]
    /\ tr' = [tr EXCEPT ![n] = GetTraversal(NoRequest)]
    /\ item' = [item EXCEPT ![n] = NoCid]
    /\ result' = IF n = Bob THEN "none" ELSE result
    /\ UNCHANGED <<db, request, stream>>

(* The data is believed to be what the cid names: its hash is not checked. *)
ImportBlock(n) ==
    LET entry == Head(car[n])
    IN /\ pc[n] = "import" /\ car[n] # <<>>
       /\ entry.data \notin Malformed
       /\ AddBytes(n, entry.data)
       /\ tx' = [tx EXCEPT ![n] = InsertLinks(@, entry.cid, entry.data)]
       /\ car' = [car EXCEPT ![n] = Tail(@)]
       /\ UNCHANGED <<tables, pc, tr, item, request, stream, result>>

(* The transaction is dropped; the blobs stay in the store. *)
ImportFails(n) ==
    /\ pc[n] = "import" /\ car[n] # <<>>
    /\ Head(car[n]).data \in Malformed
    /\ Goto(n, "idle")
    /\ tx' = [tx EXCEPT ![n] = tables[n]]
    /\ car' = [car EXCEPT ![n] = <<>>]
    /\ UNCHANGED <<tables, stored, synced, tr, item, request, stream, result>>

ImportCommit(n) ==
    /\ pc[n] = "import" /\ car[n] = <<>> /\ Goto(n, "flush")
    /\ tables' = [tables EXCEPT ![n] = tx[n]]
    /\ UNCHANGED <<tx, stored, synced, car, tr, item, request, stream, result>>

(* store.sync_db *)
ImportFlush(n) ==
    /\ pc[n] = "flush" /\ Goto(n, "idle")
    /\ synced' = [synced EXCEPT ![n] = stored[n]]
    /\ UNCHANGED <<tables, tx, stored, car, tr, item, request, stream, result>>

----------------------------------------------------------------------------
(* Both sides of a sync *)

Sync(q) ==
    /\ \A n \in Node : pc[n] = "idle"
    /\ pc' = [n \in Node |-> "walk"]
    /\ tr' = [n \in Node |-> GetTraversal(q)]
    /\ request' = q
    /\ frames' = <<>> /\ conn' = "open"
    /\ result' = "none"
    /\ UNCHANGED <<db, car, item>>

Walking(n) == pc[n] = "walk"

(* Bob's command ends with an error: his transaction is dropped. *)
BobFails ==
    /\ Goto(Bob, "idle")
    /\ tx' = [tx EXCEPT ![Bob] = tables[Bob]]
    /\ result' = "failed"
    /\ frames' = <<>> /\ conn' = "none"

\* Mutant of AliceEnds: the stream stays open.
AliceEndsSilently == Goto(Alice, "idle") /\ UNCHANGED conn

(* Alice's handler ends.  Its stream is finished when it is dropped, also  *)
(* on an error.                                                            *)
AliceEnds ==
    /\ Goto(Alice, "idle")
    /\ conn' = IF conn = "open" THEN "finished" ELSE conn

Stuck(n) ==
    /\ Walking(n) /\ IsStuck(tr[n], tx[n])
    /\ \/ n = Alice /\ AliceEnds /\ UNCHANGED <<tx, frames, result>>
       \/ n = Bob /\ BobFails
    /\ UNCHANGED <<tables, stored, synced, car, tr, item, request>>

Expand(n) ==
    /\ Walking(n) /\ Deferred(tr[n]) /\ ~IsStuck(tr[n], tx[n])
    /\ tr' = [tr EXCEPT ![n] = Expanded(@, tx[n])]
    /\ UNCHANGED <<db, pc, car, item, request, stream, result>>

Skip(n) ==
    /\ Walking(n) /\ ~Deferred(tr[n]) /\ ~AtEnd(tr[n])
    /\ AlreadyVisited(tr[n])
    /\ tr' = [tr EXCEPT ![n] = Popped(@)]
    /\ UNCHANGED <<db, pc, car, item, request, stream, result>>

(* The filter works on what the traversal yields, not on what it follows. *)
Visit(n) ==
    /\ Walking(n) /\ ~Deferred(tr[n]) /\ ~AtEnd(tr[n])
    /\ ~AlreadyVisited(tr[n])
    /\ tr' = [tr EXCEPT ![n] = Visited(@)]
    /\ item' = [item EXCEPT ![n] = Top(tr[n])]
    /\ IF Top(tr[n]).codec \in request.pass THEN Goto(n, "item") ELSE UNCHANGED pc
    /\ UNCHANGED <<db, car, request, stream, result>>

AliceFinishes ==
    /\ Walking(Alice) /\ AtEnd(tr[Alice])
    /\ AliceEnds
    /\ UNCHANGED <<db, car, tr, item, request, frames, result>>

BobFinishes ==
    /\ Walking(Bob) /\ AtEnd(tr[Bob])
    /\ Goto(Bob, "commit")
    /\ result' = "complete"
    /\ UNCHANGED <<db, car, tr, item, request, stream>>

----------------------------------------------------------------------------
(* The sender *)

HasItem(n) == pc[n] = "item"
AliceBlock == Blake3Hash(tx[Alice], item[Alice])

Write(kind) ==
    frames' = Append(frames, [kind |-> kind, block |-> AliceBlock, cid |-> item[Alice]])

\* Mutant of Send: a mapping is sent although it is unknown.
SendUnknown ==
    /\ HasItem(Alice) /\ conn = "open" /\ Len(frames) < Window
    /\ IF item[Alice].codec \in request.inline
       THEN AliceBlock \in stored[Alice] /\ Write("data")
       ELSE Write("hash")
    /\ Goto(Alice, "walk")
    /\ UNCHANGED <<db, car, tr, item, request, conn, result>>

Send ==
    /\ HasItem(Alice) /\ conn = "open" /\ Len(frames) < Window
    /\ AliceBlock # NoBlock
    /\ IF item[Alice].codec \in request.inline
       THEN AliceBlock \in stored[Alice] /\ Write("data")
       ELSE Write("hash")
    /\ Goto(Alice, "walk")
    /\ UNCHANGED <<db, car, tr, item, request, conn, result>>

(* The mapping is unknown; or the blob is not in the store, which is found *)
(* out after the header is written.                                        *)
SendFails ==
    /\ HasItem(Alice) /\ conn = "open" /\ Len(frames) < Window
    /\ \/ AliceBlock = NoBlock /\ UNCHANGED frames
       \/ /\ AliceBlock # NoBlock /\ item[Alice].codec \in request.inline
          /\ AliceBlock \notin stored[Alice]
          /\ Write("torn")
    /\ AliceEnds
    /\ UNCHANGED <<db, car, tr, item, request, result>>

(* Bob is gone. *)
SendStopped ==
    /\ HasItem(Alice) /\ conn \in {"none", "lost"}
    /\ AliceEnds
    /\ UNCHANGED <<db, car, tr, item, request, frames, result>>

----------------------------------------------------------------------------
(* The receiver *)

NextFrame == Head(frames)
Reads(kind) == HasItem(Bob) /\ frames # <<>> /\ NextFrame.kind = kind
Read == frames' = Tail(frames) /\ UNCHANGED conn

\* Mutant of ReceiveHash: Bob goes on waiting for the data of the cid.
ReceiveHashWaiting ==
    /\ Reads("hash") /\ Read
    /\ UNCHANGED <<db, pc, car, tr, item, request, result>>

(* Only the mapping was sent.  It is printed, not kept. *)
ReceiveHash ==
    /\ Reads("hash") /\ Read
    /\ Goto(Bob, "walk")
    /\ UNCHANGED <<db, car, tr, item, request, result>>

\* Mutant of ReceiveData: the data is not checked against the cid.
ReceiveUnchecked ==
    /\ Reads("data") /\ Read
    /\ AddBytes(Bob, NextFrame.block)
    /\ tx' = [tx EXCEPT ![Bob] = InsertLinks(@, item[Bob], NextFrame.block)]
    /\ Goto(Bob, "walk")
    /\ UNCHANGED <<tables, car, tr, item, request, result>>

\* Mutant of ReceiveData: the mapping is kept and the data is not.
ReceiveWithoutStoring ==
    /\ Reads("data") /\ Read
    /\ NextFrame.block = item[Bob].hash /\ NextFrame.block \notin Malformed
    /\ tx' = [tx EXCEPT ![Bob] = InsertLinks(@, item[Bob], NextFrame.block)]
    /\ Goto(Bob, "walk")
    /\ UNCHANGED <<tables, stored, synced, car, tr, item, request, result>>

ReceiveData ==
    /\ Reads("data") /\ Read
    /\ NextFrame.block = item[Bob].hash /\ NextFrame.block \notin Malformed
    /\ AddBytes(Bob, NextFrame.block)
    /\ tx' = [tx EXCEPT ![Bob] = InsertLinks(@, item[Bob], NextFrame.block)]
    /\ Goto(Bob, "walk")
    /\ UNCHANGED <<tables, car, tr, item, request, result>>

(* The data ends early or has another hash than the cid; or it has the     *)
(* hash and, stored already, turns out to have no links to read.           *)
ReceiveFails ==
    /\ \/ Reads("torn") /\ UNCHANGED <<stored, synced>>
       \/ /\ Reads("data")
          /\ IF NextFrame.block # item[Bob].hash THEN UNCHANGED <<stored, synced>>
             ELSE NextFrame.block \in Malformed /\ AddBytes(Bob, NextFrame.block)
    /\ BobFails
    /\ UNCHANGED <<tables, car, tr, item, request>>

(* The end of the stream instead of a header ends the sync well. *)
ReceiveEof ==
    /\ HasItem(Bob) /\ frames = <<>> /\ conn = "finished"
    /\ Goto(Bob, "commit")
    /\ result' = "eof"
    /\ UNCHANGED <<db, car, tr, item, request, stream>>

ReceiveLost ==
    /\ HasItem(Bob) /\ frames = <<>> /\ conn = "lost"
    /\ BobFails
    /\ UNCHANGED <<tables, stored, synced, car, tr, item, request>>

Commit ==
    /\ pc[Bob] = "commit" /\ Goto(Bob, "idle")
    /\ tables' = [tables EXCEPT ![Bob] = tx[Bob]]
    /\ frames' = <<>> /\ conn' = "none"
    /\ UNCHANGED <<tx, stored, synced, car, tr, item, request, result>>

----------------------------------------------------------------------------
(* The environment *)

Truncated == \E k \in 0 .. Len(frames) : frames' = SubSeq(frames, 1, k)

(* The network fails, or what is under way is dropped with Alice's         *)
(* connection, which she closes as soon as she has finished the stream.    *)
Disconnect ==
    /\ conn \in {"open", "finished"}
    /\ conn' = "lost" /\ Truncated
    /\ UNCHANGED <<db, pc, car, tr, item, request, result>>

(* A process is killed: its transaction is lost, and of the blobs those    *)
(* the store had not made durable yet.                                     *)
Crash(n) ==
    /\ pc[n] # "idle"
    /\ Goto(n, "idle")
    /\ tx' = [tx EXCEPT ![n] = tables[n]]
    /\ car' = [car EXCEPT ![n] = <<>>]
    /\ \E kept \in SUBSET stored[n] :
        /\ synced[n] \subseteq kept
        /\ stored' = [stored EXCEPT ![n] = kept]
        /\ synced' = [synced EXCEPT ![n] = kept]
    /\ IF n = Bob THEN conn' = "none" /\ frames' = <<>> /\ result' = "failed"
       ELSE /\ IF conn \in {"open", "finished"}
               THEN conn' = "lost" /\ Truncated ELSE UNCHANGED stream
            /\ UNCHANGED result
    /\ UNCHANGED <<tables, tr, item, request>>

----------------------------------------------------------------------------
ImportStep(n) == ImportBlock(n) \/ ImportFails(n) \/ ImportCommit(n) \/ ImportFlush(n)

WalkStep(n) == Stuck(n) \/ Expand(n) \/ Skip(n) \/ Visit(n)

AliceStep == WalkStep(Alice) \/ AliceFinishes \/ Send \/ SendFails \/ SendStopped

BobStep ==
    \/ WalkStep(Bob) \/ BobFinishes
    \/ ReceiveHash \/ ReceiveData \/ ReceiveFails \/ ReceiveEof \/ ReceiveLost
    \/ Commit

Next ==
    \/ \E n \in Node : (\E file \in Cars[n] : Import(n, file)) \/ ImportStep(n) \/ Crash(n)
    \/ \E q \in Requests : Sync(q)
    \/ AliceStep \/ BobStep
    \/ Disconnect

Spec == Init /\ [][Next]_vars

(* Sender and receiver go on whenever they can. *)
FairSpec == Spec /\ WF_vars(AliceStep) /\ WF_vars(BobStep)
----------------------------------------------------------------------------
(* What must hold *)

ImportedAs(n, hash) ==
    {b \in Block : \E file \in Cars[n] : \E i \in DOMAIN file :
                       file[i].cid.hash = hash /\ file[i].data = b}

(* A mapping that is not true does not spread: a node maps a hash to a     *)
(* block that does not have it only if a file it imported says so, and     *)
(* never by a sync.  Alice may have imported such a file, frames do not    *)
(* say which cid they are for, and Bob takes each for the cid his own      *)
(* traversal stands at.  ("we must not rely on the mapping from cid to     *)
(* blake3 hash", README.md:101)                                            *)
FalseMappingsDoNotSpread ==
    \A n \in Node, hash \in Block :
        tx[n].blake3[hash] \in {hash, NoBlock} \cup ImportedAs(n, hash)

(* Whatever dag.db maps a hash to is in the store, so that a node can      *)
(* export and send it, as far as the store keeps what it was given: a      *)
(* block is stored before it is mapped and mapped before dag.db is         *)
(* committed, on every path, failed and killed commands included.          *)
MappedIsStored ==
    \A n \in Node, hash \in Block :
        tables[n].blake3[hash] \in stored[n] \cup Unsynced \cup {NoBlock}

(* Bob reads the links of everything that has links to follow. *)
FollowsInline == request.full => Codec \ {Raw} \subseteq request.pass \cap request.inline

(* The node knows the links of every cid its traversal has been to. *)
KnowsLinks(n) ==
    \A cid \in tr[n].visited \ request.visited :
        (cid.codec # Raw /\ Blake3Hash(tx[n], cid) # NoBlock)
            => StoredLinks(tx[n], cid) = LinksOf[cid.hash]

FrameMeetsItem == (HasItem(Bob) /\ frames # <<>>) => NextFrame.cid = item[Bob]

(* The two traversals stay in step, although they run over different       *)
(* tables at different speeds: every frame Bob reads was sent for the cid  *)
(* his traversal stands at, when all that is followed is sent inline and   *)
(* Alice knows the links of what she has.                                  *)
InStep == (FollowsInline /\ KnowsLinks(Alice)) => FrameMeetsItem

(* A sync that came to the end of its traversal commits all of the DAG:    *)
(* everything that can be reached from the root without passing what Bob   *)
(* said he has is mapped and its links are followed, so an export of the   *)
(* root succeeds.  The traversal at work skips, defers and works on tables *)
(* that grow under it.  If Alice does not know the links of what she has,  *)
(* Bob may take a hash she sent in place of the data of another cid, unless *)
(* she sends all data.                                                     *)
CompleteIsComplete ==
    (/\ pc[Bob] = "commit" /\ result = "complete" /\ request.full
     /\ FollowsInline /\ (KnowsLinks(Alice) \/ request.inline = Codec)) =>
        /\ request.roots[1] \in tr[Bob].visited
        /\ \A cid \in tr[Bob].visited \ request.visited :
            /\ cid.codec \in request.pass \cap request.inline =>
                   Blake3Hash(tx[Bob], cid) = cid.hash
            /\ cid.codec # Raw =>
                \A i \in DOMAIN LinksOf[cid.hash] :
                    LinksOf[cid.hash][i] \in tr[Bob].visited

(* What the j-th cid of a listing adds to those that can be listed next;   *)
(* the listing starts at the root.                                         *)
LinksAt(q, listing, j) ==
    IF j = 0 THEN q.roots
    ELSE IF listing[j].codec = Raw THEN <<>> ELSE LinksOf[listing[j].hash]

(* What comes before the k-th cid, cids to pass over included. *)
Before(q, listing, k) == q.visited \cup {listing[i] : i \in 1 .. k - 1}

(* "DepthFirstPreOrderLeftToRight" (protocol.rs:170) by definition: next   *)
(* comes the first new link of the last cid that has a new link.           *)
InPreOrder(q, listing) ==
    \A k \in DOMAIN listing :
        LET before == Before(q, listing, k)
        IN /\ listing[k] \notin before
           /\ \E j \in 0 .. k - 1 :
                /\ \E i \in DOMAIN LinksAt(q, listing, j) :
                    /\ listing[k] = LinksAt(q, listing, j)[i]
                    /\ \A h \in 1 .. i - 1 : LinksAt(q, listing, j)[h] \in before
                /\ \A l \in j + 1 .. k - 1 :
                    \A i \in DOMAIN LinksAt(q, listing, l) :
                        LinksAt(q, listing, l)[i] \in before

(* The files that the node has imported told the truth. *)
Truthful(n) == \A hash \in Block : tables[n].blake3[hash] \in {hash, NoBlock}

(* A traversal visits in depth-first pre-order, left to right, although it *)
(* is a loop around a stack that holds cids twice and cids visited long    *)
(* ago, reads links one step late and on Bob's side reads them from tables *)
(* that are only just being written.  A node that has imported a false     *)
(* file may follow false links before a sync puts the mapping right.       *)
VisitsInPreOrder ==
    \A n \in Node :
        (/\ request.full /\ pc[n] \in {"walk", "item", "commit"}
         /\ Truthful(n) /\ KnowsLinks(n)) =>
            LET visited == tr[n].visited \ request.visited
            IN \E listing \in [1 .. Cardinality(visited) -> visited] :
                   InPreOrder(request, listing)

(* Every sync comes to an end, whatever the shape of the DAG, whoever      *)
(* fails and wherever the connection breaks.                               *)
SyncsEnd == Syncing ~> ~Syncing

----------------------------------------------------------------------------
(* What the documentation says, and the code does not do *)

(* "Every item from alice corresponds to a cid in the deterministic        *)
(* traversal." (README.md:148)                                             *)
InStepAlways == FollowsInline => FrameMeetsItem
=============================================================================
