--------------------------- MODULE DagSyncProofs ---------------------------
(***************************************************************************)
(* Theorems about DagSync for every DAG, every set of files and requests,  *)
(* every window and every store.                                           *)
(***************************************************************************)
EXTENDS DagSync, FiniteSetTheorems, TLAPS

----------------------------------------------------------------------------
(* The operators of DagTraversal *)

LEMMA InsertLinksType ==
    ASSUME NEW t \in Tables, NEW cid \in Cid, NEW b \in Block
    PROVE  InsertLinks(t, cid, b) \in Tables
<1>1. [codec |-> cid.codec, hash |-> b] \in Cid
  BY DEF Cid
<1> QED  BY <1>1 DEF InsertLinks, Tables, Cid

LEMMA StoredLinksType ==
    ASSUME NEW t \in Tables, NEW cid \in Cid
    PROVE  StoredLinks(t, cid) \in Seq(Cid)
<1>1. CASE LinksKey(t, cid) \in t.links
  <2>1. LinksKey(t, cid) \in Cid
    BY <1>1 DEF Tables
  <2>2. Blake3Hash(t, cid) \in Block
    BY <2>1 DEF LinksKey, Cid
  <2> QED  BY <1>1, <2>2, DagAssumption DEF StoredLinks
<1>2. CASE LinksKey(t, cid) \notin t.links
  BY <1>2 DEF StoredLinks
<1> QED  BY <1>1, <1>2

LEMMA GetTraversalType ==
    ASSUME NEW q \in Request
    PROVE  GetTraversal(q) \in Traversal
BY DEF Request, GetTraversal, Traversal

LEMMA ExpandedType ==
    ASSUME NEW walk \in Traversal, NEW t \in Tables, Deferred(walk)
    PROVE  Expanded(walk, t) \in Traversal
<1>1. walk.prev \in Cid /\ walk.stack \in Seq(Cid)
  BY DEF Deferred, Traversal
<1>2. StoredLinks(t, walk.prev) \in Seq(Cid)
  BY <1>1, StoredLinksType
<1>3. StoredLinks(t, walk.prev) \o walk.stack \in Seq(Cid)
  BY <1>1, <1>2
<1> QED  BY <1>1, <1>3 DEF Expanded, Traversal

LEMMA TopType ==
    ASSUME NEW walk \in Traversal, ~Deferred(walk), ~AtEnd(walk)
    PROVE  Top(walk) \in Cid /\ Tail(walk.stack) \in Seq(Cid)
BY DEF Traversal, AtEnd, Top

LEMMA PoppedType ==
    ASSUME NEW walk \in Traversal, ~Deferred(walk), ~AtEnd(walk)
    PROVE  Popped(walk) \in Traversal
BY TopType DEF Popped, Traversal

LEMMA VisitedType ==
    ASSUME NEW walk \in Traversal, ~Deferred(walk), ~AtEnd(walk)
    PROVE  Visited(walk) \in Traversal
<1>1. Popped(walk) \in Traversal /\ Top(walk) \in Cid
  BY PoppedType, TopType
<1> QED  BY <1>1 DEF Visited, Traversal

LEMMA NoRequestType == NoRequest \in Request
<1>1. <<>> \in Seq(Cid)
  OBVIOUS
<1> QED  BY <1>1 DEF NoRequest, Request

LEMMA NewTablesType == NewTables \in Tables
BY DEF NewTables, Tables

----------------------------------------------------------------------------
(* Types *)

LEMMA DagInit == Init => TypeOK
<1> SUFFICES ASSUME Init PROVE TypeOK
  OBVIOUS
<1>1. GetTraversal(NoRequest) \in Traversal /\ NoRequest \in Request
  BY NoRequestType, GetTraversalType
<1>2. <<>> \in Seq(Entry) /\ <<>> \in Seq(Frame)
  OBVIOUS
<1> QED  BY <1>1, <1>2, NewTablesType DEF Init, TypeOK

(* Parts of a step that several actions share. *)
LEMMA GotoType ==
    ASSUME TypeOK, NEW n \in Node,
           NEW label \in {"idle", "import", "flush", "walk", "commit"},
           Goto(n, label), UNCHANGED item
    PROVE  /\ pc' \in [Node -> {"idle", "import", "flush", "walk", "item", "commit"}]
           /\ item' \in [Node -> Cid \cup {NoCid}]
           /\ \A k \in Node : pc'[k] = "item" => item'[k] \in Cid
BY DEF TypeOK, Goto

LEMMA AddBytesType ==
    ASSUME TypeOK, NEW n \in Node, NEW b \in Block, AddBytes(n, b)
    PROVE  stored' \in [Node -> SUBSET Block] /\ synced' \in [Node -> SUBSET Block]
BY DEF TypeOK, AddBytes

LEMMA InsertType ==
    ASSUME TypeOK, NEW n \in Node, NEW cid \in Cid, NEW b \in Block,
           tx' = [tx EXCEPT ![n] = InsertLinks(@, cid, b)]
    PROVE  tx' \in [Node -> Tables]
<1>1. InsertLinks(tx[n], cid, b) \in Tables
  BY InsertLinksType DEF TypeOK
<1> QED  BY <1>1 DEF TypeOK

LEMMA RollBackType ==
    ASSUME TypeOK, NEW n \in Node, tx' = [tx EXCEPT ![n] = tables[n]]
    PROVE  tx' \in [Node -> Tables]
BY DEF TypeOK

LEMMA TruncatedType ==
    ASSUME TypeOK, Truncated
    PROVE  frames' \in Seq(Frame)
BY DEF TypeOK, Truncated

LEMMA CarHead ==
    ASSUME TypeOK, NEW n \in Node, car[n] # <<>>
    PROVE  /\ Head(car[n]).cid \in Cid /\ Head(car[n]).data \in Block
           /\ Head(car[n]) = car[n][1] /\ 1 \in DOMAIN car[n]
           /\ [car EXCEPT ![n] = Tail(@)] \in [Node -> Seq(Entry)]
<1>1. car[n] \in Seq(Entry)
  BY DEF TypeOK
<1>2. Head(car[n]) \in Entry /\ Tail(car[n]) \in Seq(Entry)
  BY <1>1
<1>3. Head(car[n]) = car[n][1] /\ 1 \in DOMAIN car[n]
  BY <1>1
<1> QED  BY <1>2, <1>3 DEF TypeOK, Entry

LEMMA ImportType ==
    ASSUME TypeOK, NEW n \in Node,
           (\E file \in Cars[n] : Import(n, file)) \/ ImportStep(n)
    PROVE  TypeOK'
<1>1. CASE \E file \in Cars[n] : Import(n, file)
  <2>1. PICK file \in Cars[n] : Import(n, file)
    BY <1>1
  <2>2. file \in Seq(Entry) /\ GetTraversal(NoRequest) \in Traversal
    BY SyncAssumption, NoRequestType, GetTraversalType
  <2> QED  BY <2>1, <2>2 DEF TypeOK, Import, Goto, db, stream
<1>2. CASE ImportBlock(n)
  <2>1. /\ AddBytes(n, Head(car[n]).data)
        /\ Head(car[n]).cid \in Cid /\ Head(car[n]).data \in Block
    BY <1>2, CarHead DEF ImportBlock
  <2>2. tx' \in [Node -> Tables]
    BY <1>2, <2>1, InsertType DEF ImportBlock
  <2>3. car' \in [Node -> Seq(Entry)]
    BY <1>2, CarHead DEF ImportBlock
  <2> QED  BY <1>2, <2>1, <2>2, <2>3, AddBytesType DEF TypeOK, ImportBlock, stream
<1>3. CASE ImportFails(n)
  <2>1. tx' \in [Node -> Tables]
    BY <1>3, RollBackType DEF ImportFails
  <2> QED  BY <1>3, <2>1, GotoType DEF TypeOK, ImportFails, stream
<1>4. CASE ImportCommit(n)
  BY <1>4, GotoType DEF TypeOK, ImportCommit, stream
<1>5. CASE ImportFlush(n)
  BY <1>5, GotoType DEF TypeOK, ImportFlush, stream
<1> QED  BY <1>1, <1>2, <1>3, <1>4, <1>5 DEF ImportStep

LEMMA SyncType ==
    ASSUME TypeOK, NEW q \in Requests, Sync(q)
    PROVE  TypeOK'
<1>1. q \in Request /\ GetTraversal(q) \in Traversal
  BY SyncAssumption, GetTraversalType
<1> QED  BY <1>1 DEF TypeOK, Sync, db

LEMMA BobFailsType ==
    ASSUME TypeOK, BobFails, UNCHANGED item
    PROVE  /\ pc' \in [Node -> {"idle", "import", "flush", "walk", "item", "commit"}]
           /\ \A k \in Node : pc'[k] = "item" => item'[k] \in Cid
           /\ tx' \in [Node -> Tables]
           /\ frames' \in Seq(Frame) /\ conn' = "none" /\ result' = "failed"
<1>1. Bob \in Node /\ Goto(Bob, "idle")
  BY DEF Node, BobFails
<1>2. tx' \in [Node -> Tables]
  BY <1>1, RollBackType DEF BobFails
<1> QED  BY <1>1, <1>2, GotoType DEF BobFails

LEMMA AliceEndsType ==
    ASSUME TypeOK, AliceEnds, UNCHANGED item
    PROVE  /\ pc' \in [Node -> {"idle", "import", "flush", "walk", "item", "commit"}]
           /\ \A k \in Node : pc'[k] = "item" => item'[k] \in Cid
           /\ conn' \in {"none", "open", "finished", "lost"}
<1>1. Alice \in Node /\ Goto(Alice, "idle")
  BY DEF Node, AliceEnds
<1> QED  BY <1>1, GotoType DEF AliceEnds, TypeOK

LEMMA WalkType ==
    ASSUME TypeOK, NEW n \in Node, WalkStep(n)
    PROVE  TypeOK'
<1>0. tr[n] \in Traversal /\ tx[n] \in Tables
  BY DEF TypeOK
<1>1. CASE Stuck(n)
  <2>1. CASE n = Alice /\ AliceEnds /\ UNCHANGED <<tx, frames, result>>
    BY <1>1, <2>1, AliceEndsType DEF TypeOK, Stuck
  <2>2. CASE n = Bob /\ BobFails
    BY <1>1, <2>2, BobFailsType DEF TypeOK, Stuck
  <2> QED  BY <1>1, <2>1, <2>2 DEF Stuck
<1>2. CASE Expand(n)
  <2>1. Expanded(tr[n], tx[n]) \in Traversal
    BY <1>0, <1>2, ExpandedType DEF Expand
  <2> QED  BY <1>2, <2>1 DEF TypeOK, Expand, db, stream
<1>3. CASE Skip(n)
  <2>1. Popped(tr[n]) \in Traversal
    BY <1>0, <1>3, PoppedType DEF Skip
  <2> QED  BY <1>3, <2>1 DEF TypeOK, Skip, db, stream
<1>4. CASE Visit(n)
  <2>1. Visited(tr[n]) \in Traversal /\ Top(tr[n]) \in Cid
    BY <1>0, <1>4, VisitedType, TopType DEF Visit
  <2> QED  BY <1>4, <2>1 DEF TypeOK, Visit, Goto, db, stream
<1> QED  BY <1>1, <1>2, <1>3, <1>4 DEF WalkStep

LEMMA WriteType ==
    ASSUME TypeOK, HasItem(Alice), AliceBlock # NoBlock,
           NEW kind \in {"data", "hash", "torn"}, Write(kind)
    PROVE  frames' \in Seq(Frame)
<1>1. item[Alice] \in Cid /\ Alice \in Node
  BY DEF TypeOK, HasItem, Node
<1>2. AliceBlock \in Block
  BY <1>1 DEF TypeOK, AliceBlock, Blake3Hash, Tables, Cid
<1>3. [kind |-> kind, block |-> AliceBlock, cid |-> item[Alice]] \in Frame
  BY <1>1, <1>2 DEF Frame
<1> QED  BY <1>3 DEF Write, TypeOK

LEMMA AliceType ==
    ASSUME TypeOK, AliceStep
    PROVE  TypeOK'
<1>0. Alice \in Node
  BY DEF Node
<1>1. CASE WalkStep(Alice)
  BY <1>0, <1>1, WalkType
<1>2. CASE AliceFinishes
  BY <1>2, AliceEndsType DEF TypeOK, AliceFinishes, db
<1>3. CASE Send
  <2>1. frames' \in Seq(Frame)
    BY <1>3, WriteType DEF Send
  <2> QED  BY <1>0, <1>3, <2>1, GotoType DEF TypeOK, Send, db
<1>4. CASE SendFails
  <2>1. frames' \in Seq(Frame)
    <3>1. CASE UNCHANGED frames
      BY <3>1 DEF TypeOK
    <3>2. CASE AliceBlock # NoBlock /\ Write("torn")
      BY <1>4, <3>2, WriteType DEF SendFails
    <3> QED  BY <1>4, <3>1, <3>2 DEF SendFails
  <2> QED  BY <1>4, <2>1, AliceEndsType DEF TypeOK, SendFails, db
<1>5. CASE SendStopped
  BY <1>5, AliceEndsType DEF TypeOK, SendStopped, db
<1> QED  BY <1>1, <1>2, <1>3, <1>4, <1>5 DEF AliceStep

LEMMA ReadsType ==
    ASSUME TypeOK, NEW kind, Reads(kind)
    PROVE  /\ NextFrame \in Frame /\ NextFrame.block \in Block
           /\ Tail(frames) \in Seq(Frame)
           /\ Bob \in Node /\ item[Bob] \in Cid
<1>1. frames \in Seq(Frame) /\ frames # <<>>
  BY DEF TypeOK, Reads
<1>2. NextFrame \in Frame /\ Tail(frames) \in Seq(Frame)
  BY <1>1 DEF NextFrame
<1> QED  BY <1>2 DEF Frame, Reads, HasItem, TypeOK, Node

LEMMA BobType ==
    ASSUME TypeOK, BobStep
    PROVE  TypeOK'
<1>0. Bob \in Node
  BY DEF Node
<1>1. CASE WalkStep(Bob)
  BY <1>0, <1>1, WalkType
<1>2. CASE BobFinishes
  BY <1>0, <1>2, GotoType DEF TypeOK, BobFinishes, db, stream
<1>3. CASE ReceiveHash
  BY <1>0, <1>3, ReadsType, GotoType DEF TypeOK, ReceiveHash, Read, db
<1>4. CASE ReceiveData
  <2>1. NextFrame.block \in Block /\ item[Bob] \in Cid /\ Tail(frames) \in Seq(Frame)
    BY <1>4, ReadsType DEF ReceiveData
  <2>2. tx' \in [Node -> Tables]
    BY <1>0, <1>4, <2>1, InsertType DEF ReceiveData
  <2>3. stored' \in [Node -> SUBSET Block] /\ synced' \in [Node -> SUBSET Block]
    BY <1>0, <1>4, <2>1, AddBytesType DEF ReceiveData
  <2> QED  BY <1>0, <1>4, <2>1, <2>2, <2>3, GotoType DEF TypeOK, ReceiveData, Read
<1>5. CASE ReceiveFails
  <2>1. stored' \in [Node -> SUBSET Block] /\ synced' \in [Node -> SUBSET Block]
    <3>1. CASE UNCHANGED <<stored, synced>>
      BY <3>1 DEF TypeOK
    <3>2. CASE Reads("data") /\ AddBytes(Bob, NextFrame.block)
      BY <1>0, <3>2, ReadsType, AddBytesType
    <3> QED  BY <1>5, <3>1, <3>2 DEF ReceiveFails
  <2> QED  BY <1>5, <2>1, BobFailsType DEF TypeOK, ReceiveFails
<1>6. CASE ReceiveEof
  BY <1>0, <1>6, GotoType DEF TypeOK, ReceiveEof, db, stream
<1>7. CASE ReceiveLost
  BY <1>7, BobFailsType DEF TypeOK, ReceiveLost
<1>8. CASE Commit
  BY <1>0, <1>8, GotoType DEF TypeOK, Commit
<1> QED  BY <1>1, <1>2, <1>3, <1>4, <1>5, <1>6, <1>7, <1>8 DEF BobStep

LEMMA DisconnectType ==
    ASSUME TypeOK, Disconnect
    PROVE  TypeOK'
BY TruncatedType DEF TypeOK, Disconnect, db

LEMMA CrashType ==
    ASSUME TypeOK, NEW n \in Node, Crash(n)
    PROVE  TypeOK'
<1>1. tx' \in [Node -> Tables]
  BY RollBackType DEF Crash
<1>2. stored' \in [Node -> SUBSET Block] /\ synced' \in [Node -> SUBSET Block]
  BY DEF Crash, TypeOK
<1>3. /\ frames' \in Seq(Frame) /\ conn' \in {"none", "open", "finished", "lost"}
      /\ result' \in {"none", "complete", "eof", "failed"}
  <2>0. frames \in Seq(Frame)
    BY DEF TypeOK
  <2>1. CASE n = Bob
    BY <2>1 DEF Crash
  <2>2. CASE n # Bob /\ conn \in {"open", "finished"}
    BY <2>2, TruncatedType DEF Crash, TypeOK
  <2>3. CASE n # Bob /\ conn \notin {"open", "finished"}
    BY <2>0, <2>3 DEF Crash, TypeOK, stream
  <2> QED  BY <2>1, <2>2, <2>3
<1> QED  BY <1>1, <1>2, <1>3, GotoType DEF TypeOK, Crash

LEMMA DagStep == TypeOK /\ [Next]_vars => TypeOK'
<1> SUFFICES ASSUME TypeOK, [Next]_vars PROVE TypeOK'
  OBVIOUS
<1>1. CASE UNCHANGED vars
  BY <1>1 DEF TypeOK, vars, db, stream
<1>2. CASE Next
  BY <1>2, ImportType, CrashType, SyncType, AliceType, BobType, DisconnectType DEF Next
<1> QED  BY <1>1, <1>2

(* Whatever the two nodes import, sync, lose and fail at, their state has  *)
(* its types: a frame never carries a block that is not there, and a       *)
(* traversal that has yielded a cid still knows it.                        *)
THEOREM DagTypeCorrect == Spec => []TypeOK
BY DagInit, DagStep, PTL DEF Spec

----------------------------------------------------------------------------
(* The databases *)

(* What a step may do to the database and the store of a node: insert the  *)
(* block that has the hash, or one that the file it imports names for it,  *)
(* drop the transaction (with a block that was stored and could not be     *)
(* read, or without), commit it, make the store durable, or lose what was  *)
(* not.                                                                    *)
Inserts(n) == \E cid \in Cid, b \in Block :
    /\ AddBytes(n, b)
    /\ tx' = [tx EXCEPT ![n] = InsertLinks(@, cid, b)]
    /\ \/ b = cid.hash
       \/ \E i \in DOMAIN car[n] : car[n][i].cid = cid /\ car[n][i].data = b
    /\ UNCHANGED tables

RollsBack(n) ==
    /\ tx' = [tx EXCEPT ![n] = tables[n]]
    /\ UNCHANGED <<stored, synced>> \/ \E b \in Block : AddBytes(n, b)
    /\ UNCHANGED tables

Commits(n) ==
    /\ tables' = [tables EXCEPT ![n] = tx[n]]
    /\ UNCHANGED <<tx, stored, synced>>

Flushes(n) ==
    /\ synced' = [synced EXCEPT ![n] = stored[n]]
    /\ UNCHANGED <<tables, tx, stored>>

Loses(n) ==
    /\ tx' = [tx EXCEPT ![n] = tables[n]]
    /\ \E kept \in SUBSET stored[n] :
        /\ synced[n] \subseteq kept
        /\ stored' = [stored EXCEPT ![n] = kept]
        /\ synced' = [synced EXCEPT ![n] = kept]
    /\ UNCHANGED tables

DbStep(n) == Inserts(n) \/ RollsBack(n) \/ Commits(n) \/ Flushes(n) \/ Loses(n)

LEMMA ImportDb ==
    ASSUME TypeOK, NEW n \in Node,
           (\E file \in Cars[n] : Import(n, file)) \/ ImportStep(n)
    PROVE  DbStep(n) \/ UNCHANGED db
<1>1. CASE \E file \in Cars[n] : Import(n, file)
  BY <1>1 DEF Import
<1>2. CASE ImportBlock(n)
  <2>1. /\ Head(car[n]).cid \in Cid /\ Head(car[n]).data \in Block
        /\ Head(car[n]) = car[n][1] /\ 1 \in DOMAIN car[n]
    BY <1>2, CarHead DEF ImportBlock
  <2>2. Inserts(n)
    BY <1>2, <2>1 DEF ImportBlock, Inserts
  <2> QED  BY <2>2 DEF DbStep
<1>3. CASE ImportFails(n)
  BY <1>3 DEF ImportFails, RollsBack, DbStep
<1>4. CASE ImportCommit(n)
  BY <1>4 DEF ImportCommit, Commits, DbStep
<1>5. CASE ImportFlush(n)
  BY <1>5 DEF ImportFlush, Flushes, DbStep
<1> QED  BY <1>1, <1>2, <1>3, <1>4, <1>5 DEF ImportStep

LEMMA WalkDb ==
    ASSUME NEW n \in Node, WalkStep(n)
    PROVE  RollsBack(Bob) \/ UNCHANGED db
<1>1. CASE Stuck(n)
  BY <1>1 DEF Stuck, BobFails, RollsBack, db
<1>2. CASE Expand(n) \/ Skip(n) \/ Visit(n)
  BY <1>2 DEF Expand, Skip, Visit
<1> QED  BY <1>1, <1>2 DEF WalkStep

LEMMA BobDb ==
    ASSUME TypeOK, BobStep
    PROVE  DbStep(Bob) \/ UNCHANGED db
<1>1. CASE WalkStep(Bob)
  BY <1>1, WalkDb DEF DbStep, Node
<1>2. CASE BobFinishes \/ ReceiveHash \/ ReceiveEof
  BY <1>2 DEF BobFinishes, ReceiveHash, ReceiveEof
<1>3. CASE ReceiveData
  <2>1. /\ item[Bob] \in Cid /\ NextFrame.block = item[Bob].hash
        /\ NextFrame.block \in Block
    BY <1>3, ReadsType DEF ReceiveData
  <2>2. Inserts(Bob)
    BY <1>3, <2>1 DEF ReceiveData, Inserts
  <2> QED  BY <2>2 DEF DbStep
<1>4. CASE ReceiveFails
  <2>1. UNCHANGED <<stored, synced>> \/ \E b \in Block : AddBytes(Bob, b)
    BY <1>4, ReadsType DEF ReceiveFails
  <2>2. RollsBack(Bob)
    BY <1>4, <2>1 DEF ReceiveFails, BobFails, RollsBack
  <2> QED  BY <2>2 DEF DbStep
<1>5. CASE ReceiveLost
  BY <1>5 DEF ReceiveLost, BobFails, RollsBack, DbStep
<1>6. CASE Commit
  BY <1>6 DEF Commit, Commits, DbStep
<1> QED  BY <1>1, <1>2, <1>3, <1>4, <1>5, <1>6 DEF BobStep

(* No step does anything else to them, whatever else it does. *)
LEMMA OnlyDbSteps ==
    ASSUME TypeOK, [Next]_vars
    PROVE  (\E n \in Node : DbStep(n)) \/ UNCHANGED db
<1>0. Alice \in Node /\ Bob \in Node
  BY DEF Node
<1>1. CASE UNCHANGED vars
  BY <1>1 DEF vars
<1>2. CASE \E n \in Node : (\E file \in Cars[n] : Import(n, file)) \/ ImportStep(n)
  BY <1>2, ImportDb
<1>3. CASE \E n \in Node : Crash(n)
  <2>1. PICK n \in Node : Crash(n)
    BY <1>3
  <2>2. Loses(n)
    BY <2>1 DEF Crash, Loses
  <2> QED  BY <2>2 DEF DbStep
<1>4. CASE \E q \in Requests : Sync(q)
  BY <1>4 DEF Sync
<1>5. CASE AliceStep
  <2>1. CASE WalkStep(Alice)
    BY <1>0, <2>1, WalkDb DEF DbStep
  <2>2. CASE AliceFinishes \/ Send \/ SendFails \/ SendStopped
    BY <2>2 DEF AliceFinishes, Send, SendFails, SendStopped
  <2> QED  BY <1>5, <2>1, <2>2 DEF AliceStep
<1>6. CASE BobStep
  BY <1>0, <1>6, BobDb
<1>7. CASE Disconnect
  BY <1>7 DEF Disconnect
<1> QED  BY <1>1, <1>2, <1>3, <1>4, <1>5, <1>6, <1>7 DEF Next

----------------------------------------------------------------------------
(* Mappings that are not true *)

Sourced(n, t) ==
    \A hash \in Block : t.blake3[hash] \in {hash, NoBlock} \cup ImportedAs(n, hash)

(* The inductive invariant: also what is committed has a source, since a   *)
(* transaction that is dropped goes back to it, and what is left of a file *)
(* was in the file.                                                        *)
SourceInv ==
    \A n \in Node :
        /\ Sourced(n, tables[n]) /\ Sourced(n, tx[n])
        /\ \A i \in DOMAIN car[n] : car[n][i].data \in ImportedAs(n, car[n][i].cid.hash)

LEMMA InsertKeepsSourced ==
    ASSUME NEW n \in Node, NEW t \in Tables, NEW cid \in Cid, NEW b \in Block,
           Sourced(n, t), b \in {cid.hash} \cup ImportedAs(n, cid.hash)
    PROVE  Sourced(n, InsertLinks(t, cid, b))
BY DEF Sourced, InsertLinks, Tables

(* What is left of a file is what was left of it, less its head, or a file *)
(* that is begun, or nothing.                                              *)
LEMMA CarStep ==
    ASSUME TypeOK, SourceInv, [Next]_vars, NEW n \in Node
    PROVE  \A i \in DOMAIN car'[n] : car'[n][i].data \in ImportedAs(n, car'[n][i].cid.hash)
<1>0. car[n] \in Seq(Entry)
  BY DEF TypeOK
<1>1. CASE car'[n] = car[n]
  BY <1>1 DEF SourceInv
<1>2. CASE car'[n] = <<>>
  BY <1>2
<1>3. CASE car[n] # <<>> /\ car'[n] = Tail(car[n])
  <2> SUFFICES ASSUME NEW i \in DOMAIN Tail(car[n])
               PROVE  Tail(car[n])[i].data \in ImportedAs(n, Tail(car[n])[i].cid.hash)
    BY <1>3
  <2>1. Tail(car[n])[i] = car[n][i + 1] /\ i + 1 \in DOMAIN car[n]
    BY <1>0, <1>3
  <2> QED  BY <2>1 DEF SourceInv
<1>4. CASE \E file \in Cars[n] : car'[n] = file
  <2>1. PICK file \in Cars[n] : car'[n] = file
    BY <1>4
  <2>2. file \in Seq(Entry)
    BY SyncAssumption
  <2>3. \A i \in DOMAIN file : file[i] \in Entry
    BY <2>2
  <2> QED  BY <2>1, <2>3 DEF ImportedAs, Entry
<1>5. \/ car'[n] = car[n]
      \/ car'[n] = <<>>
      \/ car[n] # <<>> /\ car'[n] = Tail(car[n])
      \/ \E file \in Cars[n] : car'[n] = file
  <2>1. CASE UNCHANGED vars
    BY <2>1 DEF vars
  <2>2. ASSUME NEW k \in Node, NEW file \in Cars[k], Import(k, file)
        PROVE  car'[n] = car[n] \/ \E f \in Cars[n] : car'[n] = f
    BY <2>2 DEF Import, TypeOK
  <2>3. ASSUME NEW k \in Node, ImportStep(k)
        PROVE  \/ car'[n] = car[n]
               \/ car'[n] = <<>>
               \/ car[n] # <<>> /\ car'[n] = Tail(car[n])
    BY <2>3 DEF ImportStep, ImportBlock, ImportFails, ImportCommit, ImportFlush, TypeOK
  <2>4. ASSUME NEW k \in Node, Crash(k)
        PROVE  car'[n] = car[n] \/ car'[n] = <<>>
    BY <2>4 DEF Crash, TypeOK
  <2>5. ASSUME NEW k \in Node, WalkStep(k)
        PROVE  car' = car
    BY <2>5 DEF WalkStep, Stuck, Expand, Skip, Visit
  <2>6. CASE AliceStep
    BY <2>5, <2>6 DEF AliceStep, AliceFinishes, Send, SendFails, SendStopped, Node
  <2>7. CASE BobStep
    BY <2>5, <2>7 DEF BobStep, BobFinishes, ReceiveHash, ReceiveData, ReceiveFails,
       ReceiveEof, ReceiveLost, Commit, Node
  <2>8. CASE \E q \in Requests : Sync(q)
    BY <2>8 DEF Sync
  <2>9. CASE Disconnect
    BY <2>9 DEF Disconnect
  <2> QED  BY <2>1, <2>2, <2>3, <2>4, <2>6, <2>7, <2>8, <2>9 DEF Next
<1> QED  BY <1>1, <1>2, <1>3, <1>4, <1>5

LEMMA SourceStep ==
    ASSUME TypeOK, SourceInv, [Next]_vars
    PROVE  SourceInv'
<1> SUFFICES \A n \in Node : Sourced(n, tables'[n]) /\ Sourced(n, tx'[n])
  BY CarStep DEF SourceInv, Sourced, ImportedAs
<1>0. \A n \in Node : /\ Sourced(n, tables[n]) /\ Sourced(n, tx[n])
                       /\ tables[n] \in Tables /\ tx[n] \in Tables
  BY DEF SourceInv, TypeOK
<1>1. CASE UNCHANGED db
  BY <1>0, <1>1 DEF db
<1>2. ASSUME NEW n \in Node, DbStep(n)
      PROVE  \A k \in Node : Sourced(k, tables'[k]) /\ Sourced(k, tx'[k])
  <2>1. CASE Inserts(n)
    <3>1. PICK cid \in Cid, b \in Block :
            /\ tx' = [tx EXCEPT ![n] = InsertLinks(@, cid, b)]
            /\ \/ b = cid.hash
               \/ \E i \in DOMAIN car[n] : car[n][i].cid = cid /\ car[n][i].data = b
      BY <2>1 DEF Inserts
    <3>2. b \in {cid.hash} \cup ImportedAs(n, cid.hash)
      BY <3>1 DEF SourceInv
    <3>3. Sourced(n, InsertLinks(tx[n], cid, b))
      BY <1>0, <3>2, InsertKeepsSourced
    <3>4. \A k \in Node : tx'[k] = IF k = n THEN InsertLinks(tx[n], cid, b) ELSE tx[k]
      BY <3>1 DEF TypeOK
    <3>5. UNCHANGED tables
      BY <2>1 DEF Inserts
    <3> QED  BY <1>0, <3>3, <3>4, <3>5
  <2>2. CASE RollsBack(n) \/ Loses(n)
    <3>1. \A k \in Node : tables'[k] = tables[k] /\ tx'[k] \in {tx[k], tables[k]}
      BY <2>2 DEF RollsBack, Loses, TypeOK
    <3> QED  BY <1>0, <3>1
  <2>3. CASE Commits(n)
    <3>1. \A k \in Node : tx'[k] = tx[k] /\ tables'[k] \in {tx[k], tables[k]}
      BY <2>3 DEF Commits, TypeOK
    <3> QED  BY <1>0, <3>1
  <2>4. CASE Flushes(n)
    BY <1>0, <2>4 DEF Flushes
  <2> QED  BY <1>2, <2>1, <2>2, <2>3, <2>4 DEF DbStep
<1> QED  BY <1>1, <1>2, OnlyDbSteps

(* A mapping that is not true never spreads: whatever files the nodes      *)
(* import, a node maps a hash to a block that does not have it only if a   *)
(* file of its own says so.  A sync brings none in, although frames do not *)
(* say which cid they are for and the traversals may fall out of step.     *)
THEOREM FalseMappingsStay == Spec => []FalseMappingsDoNotSpread
<1>1. Init => SourceInv
  BY DEF Init, SourceInv, Sourced, NewTables
<1>2. SourceInv => FalseMappingsDoNotSpread
  BY DEF SourceInv, Sourced, FalseMappingsDoNotSpread
<1> QED  BY <1>1, <1>2, SourceStep, DagInit, DagStep, PTL DEF Spec

----------------------------------------------------------------------------
(* What is mapped is stored *)

Holds(blocks, t) ==
    \A hash \in Block : t.blake3[hash] \in blocks \cup Unsynced \cup {NoBlock}

(* The inductive invariant: the open transaction maps nothing that is not  *)
(* stored either, and of a reliable store a crash takes nothing back.      *)
StoreInv ==
    \A n \in Node :
        /\ Holds(stored[n], tables[n]) /\ Holds(stored[n], tx[n])
        /\ stored[n] \ Unsynced \subseteq synced[n]

LEMMA InsertKeepsHolds ==
    ASSUME NEW t \in Tables, NEW cid \in Cid, NEW b \in Block,
           NEW blocks \in SUBSET Block, Holds(blocks, t)
    PROVE  Holds(blocks \cup {b}, InsertLinks(t, cid, b))
BY DEF Holds, InsertLinks, Tables

LEMMA StoreStep ==
    ASSUME TypeOK, StoreInv, [Next]_vars
    PROVE  StoreInv'
<1>1. CASE UNCHANGED db
  BY <1>1 DEF StoreInv, Holds, db
<1>2. ASSUME NEW n \in Node, DbStep(n)
      PROVE  StoreInv'
  <2>0. \A k \in Node : /\ tables[k] \in Tables /\ tx[k] \in Tables
                        /\ stored[k] \in SUBSET Block /\ synced[k] \in SUBSET Block
    BY DEF TypeOK
  <2>1. CASE Inserts(n)
    <3>1. PICK cid \in Cid, b \in Block : /\ tx' = [tx EXCEPT ![n] = InsertLinks(@, cid, b)]
                                         /\ AddBytes(n, b)
      BY <2>1 DEF Inserts
    <3>2. Holds(stored[n] \cup {b}, InsertLinks(tx[n], cid, b))
      BY <2>0, InsertKeepsHolds DEF StoreInv
    <3>3. \A k \in Node :
            /\ tx'[k] = IF k = n THEN InsertLinks(tx[n], cid, b) ELSE tx[k]
            /\ stored'[k] = IF k = n THEN stored[n] \cup {b} ELSE stored[k]
            /\ synced'[k] = IF k = n THEN synced[n] \cup ({b} \ Unsynced)
                            ELSE synced[k]
      BY <3>1 DEF TypeOK, AddBytes
    <3>4. UNCHANGED tables
      BY <2>1 DEF Inserts
    <3> QED  BY <3>2, <3>3, <3>4 DEF StoreInv, Holds
  <2>2. CASE RollsBack(n)
    <3>1. CASE UNCHANGED <<stored, synced>>
      BY <2>2, <3>1 DEF RollsBack, StoreInv, Holds, TypeOK
    <3>2. CASE \E b \in Block : AddBytes(n, b)
      <4>1. PICK b \in Block : AddBytes(n, b)
        BY <3>2
      <4>2. \A k \in Node : /\ stored[k] \subseteq stored'[k]
                            /\ stored'[k] \ Unsynced \subseteq synced'[k]
        BY <2>0, <4>1 DEF TypeOK, AddBytes, StoreInv
      <4>3. \A k \in Node : tx'[k] = tables[k] \/ tx'[k] = tx[k]
        BY <2>2 DEF RollsBack, TypeOK
      <4> QED  BY <2>2, <4>2, <4>3 DEF RollsBack, StoreInv, Holds
    <3> QED  BY <2>2, <3>1, <3>2 DEF RollsBack
  <2>3. CASE Commits(n)
    BY <2>3 DEF Commits, StoreInv, Holds, TypeOK
  <2>4. CASE Flushes(n)
    BY <2>4 DEF Flushes, StoreInv, Holds, TypeOK
  <2>5. CASE Loses(n)
    <3>1. PICK kept \in SUBSET stored[n] :
            /\ synced[n] \subseteq kept
            /\ stored' = [stored EXCEPT ![n] = kept]
            /\ synced' = [synced EXCEPT ![n] = kept]
      BY <2>5 DEF Loses
    <3>2. \A k \in Node : /\ stored[k] \ Unsynced \subseteq stored'[k]
                          /\ stored'[k] \ Unsynced \subseteq synced'[k]
      BY <3>1 DEF TypeOK, StoreInv
    <3>3. \A k \in Node : tx'[k] = tables[k] \/ tx'[k] = tx[k]
      BY <2>5 DEF Loses, TypeOK
    <3> QED  BY <2>5, <3>2, <3>3 DEF Loses, StoreInv, Holds
  <2> QED  BY <1>2, <2>1, <2>2, <2>3, <2>4, <2>5 DEF DbStep
<1> QED  BY <1>1, <1>2, OnlyDbSteps

(* Whatever dag.db maps is in the store, as far as the store keeps what it *)
(* was given: a block is stored before it is mapped, and neither failed    *)
(* nor killed commands leave a mapping behind whose block is gone.         *)
THEOREM MappedBlocksAreStored == Spec => []MappedIsStored
<1>1. Init => StoreInv
  BY DEF Init, StoreInv, Holds, NewTables
<1>2. StoreInv => MappedIsStored
  BY DEF StoreInv, Holds, MappedIsStored
<1> QED  BY <1>1, <1>2, StoreStep, DagInit, DagStep, PTL DEF Spec

----------------------------------------------------------------------------
(* A sync *)

(* What a traversal of a request is like.                                  *)
WalkOk(q, walk) ==
    /\ walk.full = q.full /\ q.visited \subseteq walk.visited
    /\ Deferred(walk) => q.full /\ walk.prev \in walk.visited \ q.visited
    /\ ~q.full => walk.visited = {}

Follows(n) == pc[n] \in {"walk", "item"}

(* While Bob syncs, Alice does nothing else, so what she sends comes from  *)
(* what she has committed.                                                 *)
SyncInv ==
    /\ Syncing => pc[Alice] \in {"walk", "item", "idle"}
    /\ pc[Alice] # "import" => tx[Alice] = tables[Alice]
    /\ \A j \in DOMAIN frames :
           frames[j].kind = "hash" => frames[j].cid.codec \notin request.inline
    /\ \A n \in Node : Follows(n) => WalkOk(request, tr[n])
    /\ (pc[Bob] = "item" /\ request.full) => tr[Bob].prev = item[Bob]
    /\ (pc[Bob] = "commit" /\ result = "complete") => AtEnd(tr[Bob])

Nodes == Alice \in Node /\ Bob \in Node /\ Alice # Bob

LEMMA TwoNodes == Nodes
BY SyncAssumption DEF Node, Nodes

LEMMA StartOk ==
    ASSUME NEW q \in Request
    PROVE  WalkOk(q, GetTraversal(q))
BY DEF Request, WalkOk, GetTraversal, Deferred

LEMMA ExpandedOk ==
    ASSUME NEW q, NEW walk \in Traversal, NEW t, Deferred(walk), WalkOk(q, walk)
    PROVE  WalkOk(q, Expanded(walk, t))
BY DEF WalkOk, Expanded, Deferred, Traversal

LEMMA PoppedOk ==
    ASSUME NEW q, NEW walk \in Traversal, ~Deferred(walk), WalkOk(q, walk)
    PROVE  WalkOk(q, Popped(walk))
BY DEF WalkOk, Popped, Deferred, Traversal

LEMMA VisitedOk ==
    ASSUME NEW q \in Request, NEW walk \in Traversal, ~Deferred(walk), ~AtEnd(walk),
           ~AlreadyVisited(walk), WalkOk(q, walk)
    PROVE  WalkOk(q, Visited(walk))
<1>1. Top(walk) \in Cid
  BY TopType
<1>2. CASE walk.full
  <2>1. Top(walk) \notin walk.visited
    BY <1>2 DEF AlreadyVisited
  <2>2. Visited(walk) = [walk EXCEPT !.stack = Tail(@), !.visited = @ \cup {Top(walk)},
                                     !.prev = Top(walk)]
    BY <1>2 DEF Visited, Popped, Traversal
  <2> QED  BY <1>1, <1>2, <2>1, <2>2 DEF WalkOk, Deferred, Traversal
<1>3. CASE ~walk.full
  BY <1>3 DEF Visited, Popped, WalkOk, Deferred, Traversal
<1> QED  BY <1>2, <1>3

(* The walking steps of a node, and what they leave alone. *)
Walks(n) == Expand(n) \/ Skip(n) \/ Visit(n)

LEMMA WalksChange ==
    ASSUME TypeOK, NEW n \in Node, Walks(n)
    PROVE  /\ pc[n] = "walk" /\ pc'[n] \in {"walk", "item"}
           /\ \A k \in Node : k # n => pc'[k] = pc[k] /\ tr'[k] = tr[k] /\ item'[k] = item[k]
           /\ UNCHANGED <<tables, tx, stored, synced, request, frames, conn, result>>
           /\ WalkOk(request, tr[n]) => WalkOk(request, tr'[n])
           /\ (pc'[n] = "item" /\ tr[n].full) => tr'[n].prev = item'[n]
<1>0. tr[n] \in Traversal /\ tx[n] \in Tables /\ request \in Request
  BY DEF TypeOK
<1>1. CASE Expand(n)
  <2>1. tr' = [tr EXCEPT ![n] = Expanded(tr[n], tx[n])]
    BY <1>1 DEF Expand
  <2>2. \A k \in Node : tr'[k] = IF k = n THEN Expanded(tr[n], tx[n]) ELSE tr[k]
    BY <2>1 DEF TypeOK
  <2> QED  BY <1>0, <1>1, <2>2, ExpandedOk DEF Expand, Walking, db, stream
<1>2. CASE Skip(n)
  <2>1. \A k \in Node : tr'[k] = IF k = n THEN Popped(tr[n]) ELSE tr[k]
    BY <1>2 DEF Skip, TypeOK
  <2> QED  BY <1>0, <1>2, <2>1, PoppedOk DEF Skip, Walking, db, stream
<1>3. CASE Visit(n)
  <2>1. \A k \in Node : /\ tr'[k] = IF k = n THEN Visited(tr[n]) ELSE tr[k]
                        /\ item'[k] = IF k = n THEN Top(tr[n]) ELSE item[k]
    BY <1>3 DEF Visit, TypeOK
  <2>2. /\ pc[n] = "walk" /\ pc'[n] \in {"walk", "item"}
        /\ \A k \in Node : k # n => pc'[k] = pc[k]
    BY <1>3 DEF Visit, Walking, Goto, TypeOK
  <2>3. tr[n].full => Visited(tr[n]).prev = Top(tr[n])
    BY <1>0 DEF Visited, Popped, Traversal
  <2>4. WalkOk(request, tr[n]) => WalkOk(request, Visited(tr[n]))
    BY <1>0, <1>3, VisitedOk DEF Visit
  <2> QED  BY <1>3, <2>1, <2>2, <2>3, <2>4 DEF Visit, db, stream
<1> QED  BY <1>1, <1>2, <1>3 DEF Walks

LEMMA WalksSyncInv ==
    ASSUME TypeOK, SyncInv, NEW n \in Node, Walks(n)
    PROVE  SyncInv'
<1>1. WalkOk(request, tr[n])
  BY WalksChange DEF SyncInv, Follows
<1>2. tr[n].full = request.full
  BY <1>1 DEF WalkOk
<1> QED  BY <1>1, <1>2, WalksChange, TwoNodes
         DEF SyncInv, Follows, Syncing, Nodes

(* Alice's handler has ended, with or without the start of a frame; Bob's  *)
(* command has ended, or is about to.                                      *)
LEMMA EndSyncInv ==
    ASSUME TypeOK, SyncInv, NEW n \in Node, pc' = [pc EXCEPT ![n] = "idle"],
           \A j \in DOMAIN frames' :
               \/ j \in DOMAIN frames /\ frames'[j] = frames[j]
               \/ frames'[j].kind # "hash",
           UNCHANGED <<tables, tr, item, request>>,
           result' = result \/ n = Bob,
           \/ tx'[Alice] = tables[Alice]
           \/ tx'[Alice] = tx[Alice] /\ (n = Alice => pc[Alice] # "import")
    PROVE  SyncInv'
<1>1. \A k \in Node : pc'[k] = IF k = n THEN "idle" ELSE pc[k]
  BY DEF TypeOK
<1>2. (Syncing => pc[Alice] \in {"walk", "item", "idle"})'
  BY <1>1, TwoNodes DEF SyncInv, Syncing, Nodes
<1>3. (pc[Alice] # "import" => tx[Alice] = tables[Alice])'
  BY <1>1, TwoNodes DEF SyncInv, Nodes
<1> QED  BY <1>1, <1>2, <1>3, TwoNodes DEF SyncInv, Follows, Nodes

LEMMA TruncatedFrames ==
    ASSUME TypeOK, Truncated
    PROVE  /\ Len(frames') <= Len(frames)
           /\ \A j \in DOMAIN frames' : j \in DOMAIN frames /\ frames'[j] = frames[j]
<1>1. PICK k \in 0 .. Len(frames) : frames' = SubSeq(frames, 1, k)
  BY DEF Truncated
<1>2. frames \in Seq(Frame) /\ Len(frames) \in Nat
  BY DEF TypeOK
<1> QED  BY <1>1, <1>2

LEMMA WrittenFrames ==
    ASSUME TypeOK, NEW kind, Write(kind)
    PROVE  /\ Len(frames') = Len(frames) + 1
           /\ frames'[Len(frames) + 1].kind = kind
           /\ frames'[Len(frames) + 1].cid = item[Alice]
           /\ \A j \in DOMAIN frames' :
                  \/ j \in DOMAIN frames /\ frames'[j] = frames[j]
                  \/ j = Len(frames) + 1
BY DEF TypeOK, Write

LEMMA ReadFrames ==
    ASSUME TypeOK, NEW kind, Reads(kind), Read
    PROVE  /\ Len(frames) \in Nat /\ Len(frames) > 0 /\ Len(frames') = Len(frames) - 1
           /\ frames[1].kind = kind /\ NextFrame = frames[1] /\ 1 \in DOMAIN frames
           /\ \A j \in DOMAIN frames' : j + 1 \in DOMAIN frames /\ frames'[j] = frames[j + 1]
BY DEF TypeOK, Reads, Read, NextFrame

LEMMA ImportSyncInv ==
    ASSUME TypeOK, SyncInv, NEW n \in Node,
           (\E file \in Cars[n] : Import(n, file)) \/ ImportStep(n)
    PROVE  SyncInv'
<1>0. Alice \in Node /\ Bob \in Node /\ Alice # Bob
  BY TwoNodes DEF Nodes
<1>1. CASE \E file \in Cars[n] : Import(n, file)
  <2>1. /\ \A k \in Node : pc'[k] = IF k = n THEN "import" ELSE pc[k]
        /\ \A k \in Node : k # n => tr'[k] = tr[k] /\ item'[k] = item[k]
        /\ ~Syncing /\ UNCHANGED <<tables, tx, request, frames>>
        /\ n = Alice => result' = result
    BY <1>1, <1>0 DEF Import, Goto, TypeOK, db, stream
  <2> QED  BY <1>0, <2>1 DEF SyncInv, Syncing, Follows
<1>2. CASE ImportBlock(n)
  <2>1. /\ pc[n] = "import" /\ UNCHANGED <<pc, tr, item, request, frames, result, tables>>
        /\ \A k \in Node : k # n => tx'[k] = tx[k]
    BY <1>2 DEF ImportBlock, TypeOK, stream
  <2> QED  BY <1>0, <2>1 DEF SyncInv, Syncing, Follows
<1>3. CASE ImportFails(n)
  <2>1. /\ pc' = [pc EXCEPT ![n] = "idle"] /\ UNCHANGED <<tables, tr, item, request, frames, result>>
        /\ \A k \in Node : tx'[k] = IF k = n THEN tables[k] ELSE tx[k]
    BY <1>3 DEF ImportFails, Goto, TypeOK, stream
  <2> QED  BY <1>0, <2>1, EndSyncInv
<1>4. CASE ImportCommit(n)
  <2>1. /\ \A k \in Node : pc'[k] = IF k = n THEN "flush" ELSE pc[k]
        /\ \A k \in Node : tables'[k] = IF k = n THEN tx[k] ELSE tables[k]
        /\ pc[n] = "import" /\ UNCHANGED <<tx, tr, item, request, frames, result>>
    BY <1>4 DEF ImportCommit, Goto, TypeOK, stream
  <2> QED  BY <1>0, <2>1 DEF SyncInv, Syncing, Follows
<1>5. CASE ImportFlush(n)
  <2>1. pc' = [pc EXCEPT ![n] = "idle"] /\ pc[n] = "flush"
        /\ UNCHANGED <<tables, tx, tr, item, request, frames, result>>
    BY <1>5 DEF ImportFlush, Goto, stream
  <2> QED  BY <1>0, <2>1, EndSyncInv
<1> QED  BY <1>1, <1>2, <1>3, <1>4, <1>5 DEF ImportStep

LEMMA SyncSyncInv ==
    ASSUME TypeOK, SyncInv, NEW q \in Requests, Sync(q)
    PROVE  SyncInv'
<1>1. q \in Request /\ WalkOk(q, GetTraversal(q))
  BY SyncAssumption, StartOk
<1>2. /\ \A n \in Node : pc[n] = "idle" /\ pc'[n] = "walk" /\ tr'[n] = GetTraversal(q)
      /\ request' = q /\ frames' = <<>> /\ UNCHANGED <<tables, tx>>
  BY DEF Sync, db
<1> QED  BY <1>1, <1>2, TwoNodes DEF SyncInv, Syncing, Follows, Nodes

LEMMA CrashSyncInv ==
    ASSUME TypeOK, SyncInv, NEW n \in Node, Crash(n)
    PROVE  SyncInv'
<1>1. \A j \in DOMAIN frames' : j \in DOMAIN frames /\ frames'[j] = frames[j]
  <2>1. CASE frames' = <<>> \/ UNCHANGED frames
    BY <2>1
  <2>2. CASE Truncated
    BY <2>2, TruncatedFrames
  <2> QED  BY <2>1, <2>2 DEF Crash, stream
<1>2. tx'[Alice] = tables[Alice] \/ (tx'[Alice] = tx[Alice] /\ n # Alice)
  BY TwoNodes DEF Crash, TypeOK, Nodes
<1>3. pc' = [pc EXCEPT ![n] = "idle"] /\ UNCHANGED <<tables, tr, item, request>>
      /\ (result' = result \/ n = Bob)
  BY DEF Crash, Goto
<1> QED  BY <1>1, <1>2, <1>3, EndSyncInv

LEMMA StuckSyncInv ==
    ASSUME TypeOK, SyncInv, NEW n \in Node, Stuck(n)
    PROVE  SyncInv'
<1>1. UNCHANGED <<tables, tr, item, request>> /\ pc[n] = "walk"
  BY DEF Stuck, Walking
<1>2. CASE n = Alice /\ AliceEnds /\ UNCHANGED <<tx, frames, result>>
  BY <1>1, <1>2, EndSyncInv DEF AliceEnds, Goto
<1>3. CASE n = Bob /\ BobFails
  <2>1. tx'[Alice] = tx[Alice] /\ n # Alice
    BY <1>3, TwoNodes DEF BobFails, TypeOK, Nodes
  <2>2. frames' = <<>> /\ pc' = [pc EXCEPT ![n] = "idle"]
    BY <1>3 DEF BobFails, Goto
  <2>3. \A j \in DOMAIN frames' : j \in DOMAIN frames /\ frames'[j] = frames[j]
    BY <2>2
  <2> QED  BY <1>1, <1>3, <2>1, <2>2, <2>3, EndSyncInv
<1> QED  BY <1>2, <1>3 DEF Stuck

LEMMA AliceSyncInv ==
    ASSUME TypeOK, SyncInv, AliceStep
    PROVE  SyncInv'
<1>0. Alice \in Node /\ Bob \in Node /\ Alice # Bob
  BY TwoNodes DEF Nodes
<1>1. CASE WalkStep(Alice)
  BY <1>0, <1>1, WalksSyncInv, StuckSyncInv DEF WalkStep, Walks
<1>2. CASE AliceFinishes \/ SendFails \/ SendStopped
  <2>1. /\ pc' = [pc EXCEPT ![Alice] = "idle"] /\ pc[Alice] \in {"walk", "item"}
        /\ UNCHANGED <<tables, tx, tr, item, request, result>>
    BY <1>2 DEF AliceFinishes, SendFails, SendStopped, AliceEnds, Goto, Walking, HasItem, db
  <2>2. UNCHANGED frames \/ Write("torn")
    BY <1>2 DEF AliceFinishes, SendFails, SendStopped
  <2>3. \A j \in DOMAIN frames' :
            (j \in DOMAIN frames /\ frames'[j] = frames[j]) \/ frames'[j].kind # "hash"
    BY <2>2, WrittenFrames
  <2> QED  BY <1>0, <2>1, <2>3, EndSyncInv
<1>3. CASE Send
  <2>1. /\ \A k \in Node : pc'[k] = IF k = Alice THEN "walk" ELSE pc[k]
        /\ pc[Alice] = "item" /\ UNCHANGED <<tables, tx, tr, item, request, result>>
    BY <1>3 DEF Send, HasItem, Goto, TypeOK, db
  <2>2. \/ Write("data")
        \/ item[Alice].codec \notin request.inline /\ Write("hash")
    BY <1>3 DEF Send
  <2>3. \A j \in DOMAIN frames' :
            frames'[j].kind = "hash" => frames'[j].cid.codec \notin request.inline
    BY <2>2, WrittenFrames DEF SyncInv
  <2> QED  BY <1>0, <2>1, <2>3 DEF SyncInv, Syncing, Follows
<1> QED  BY <1>1, <1>2, <1>3 DEF AliceStep

LEMMA BobSyncInv ==
    ASSUME TypeOK, SyncInv, BobStep
    PROVE  SyncInv'
<1>0. Alice \in Node /\ Bob \in Node /\ Alice # Bob
  BY TwoNodes DEF Nodes
<1>1. CASE WalkStep(Bob)
  BY <1>0, <1>1, WalksSyncInv, StuckSyncInv DEF WalkStep, Walks
<1>2. CASE BobFinishes \/ ReceiveEof
  <2>1. /\ \A k \in Node : pc'[k] = IF k = Bob THEN "commit" ELSE pc[k]
        /\ pc[Bob] \in {"walk", "item"}
        /\ UNCHANGED <<tables, tx, tr, item, request, frames>>
        /\ result' = "complete" => AtEnd(tr[Bob])
    BY <1>2 DEF BobFinishes, ReceiveEof, Walking, HasItem, Goto, TypeOK, db, stream
  <2> QED  BY <1>0, <2>1 DEF SyncInv, Syncing, Follows
<1>3. CASE ReceiveHash \/ ReceiveData
  <2>1. /\ \A k \in Node : pc'[k] = IF k = Bob THEN "walk" ELSE pc[k]
        /\ pc[Bob] = "item" /\ UNCHANGED <<tables, tr, item, request, result>>
        /\ tx'[Alice] = tx[Alice]
    BY <1>0, <1>3 DEF ReceiveHash, ReceiveData, Reads, HasItem, Goto, TypeOK, db
  <2>2. \E kind \in {"hash", "data"} : Reads(kind) /\ Read
    BY <1>3 DEF ReceiveHash, ReceiveData
  <2>3. \A j \in DOMAIN frames' : j + 1 \in DOMAIN frames /\ frames'[j] = frames[j + 1]
    BY <2>2, ReadFrames
  <2> QED  BY <1>0, <2>1, <2>3 DEF SyncInv, Syncing, Follows
<1>4. CASE ReceiveFails \/ ReceiveLost
  <2>1. /\ pc' = [pc EXCEPT ![Bob] = "idle"] /\ frames' = <<>>
        /\ UNCHANGED <<tables, tr, item, request>> /\ tx'[Alice] = tx[Alice]
    BY <1>0, <1>4 DEF ReceiveFails, ReceiveLost, BobFails, Goto, TypeOK
  <2>2. \A j \in DOMAIN frames' : j \in DOMAIN frames /\ frames'[j] = frames[j]
    BY <2>1
  <2> QED  BY <1>0, <2>1, <2>2, EndSyncInv
<1>5. CASE Commit
  <2>1. /\ \A k \in Node : pc'[k] = IF k = Bob THEN "idle" ELSE pc[k]
        /\ frames' = <<>> /\ UNCHANGED <<tx, tr, item, request>> /\ tables'[Alice] = tables[Alice]
    BY <1>0, <1>5 DEF Commit, Goto, TypeOK
  <2> QED  BY <1>0, <2>1 DEF SyncInv, Syncing, Follows
<1> QED  BY <1>1, <1>2, <1>3, <1>4, <1>5 DEF BobStep

LEMMA SyncInvStep == TypeOK /\ SyncInv /\ [Next]_vars => SyncInv'
<1> SUFFICES ASSUME TypeOK, SyncInv, [Next]_vars PROVE SyncInv'
  OBVIOUS
<1>1. CASE UNCHANGED vars
  BY <1>1 DEF SyncInv, Syncing, Follows, vars, db, stream
<1>2. CASE Disconnect
  <2>1. UNCHANGED <<tables, tx, pc, tr, item, request, result>>
    BY <1>2 DEF Disconnect, db
  <2>2. \A j \in DOMAIN frames' : j \in DOMAIN frames /\ frames'[j] = frames[j]
    BY <1>2, TruncatedFrames DEF Disconnect
  <2> QED  BY <2>1, <2>2 DEF SyncInv, Syncing, Follows
<1>3. CASE Next /\ ~Disconnect
  BY <1>3, ImportSyncInv, CrashSyncInv, SyncSyncInv, AliceSyncInv, BobSyncInv DEF Next
<1> QED  BY <1>1, <1>2, <1>3

LEMMA SyncInvInit == Init => SyncInv
BY TwoNodes DEF Init, SyncInv, Syncing, Follows, Nodes

----------------------------------------------------------------------------
(* The steps of a sync *)

(* No frame is added. *)
Fewer == /\ Len(frames') <= Len(frames)
         /\ \A j \in DOMAIN frames' : j \in DOMAIN frames /\ frames'[j] = frames[j]

(* Alice's handler ends, in the middle of a frame or not, or she is killed. *)
HandlerEnds ==
    /\ pc' = [pc EXCEPT ![Alice] = "idle"]
    /\ conn' # "open"
    /\ Fewer \/ (HasItem(Alice) /\ conn = "open" /\ Write("torn"))
    /\ UNCHANGED <<tx, tr, item, request, result>>

(* The connection is lost, or nothing happens. *)
Waits ==
    /\ UNCHANGED stream \/ (conn' = "lost" /\ Fewer)
    /\ UNCHANGED <<tx, pc, tr, item, request, result>>

LEMMA SameFrames ==
    ASSUME TypeOK, UNCHANGED frames
    PROVE  Fewer
BY DEF Fewer, TypeOK

(* Whatever else a step does, Bob's command has ended after it. *)
LEMMA BobEnds ==
    ASSUME TypeOK, BobFails \/ pc' = [pc EXCEPT ![Bob] = "idle"]
    PROVE  ~Syncing'
BY TwoNodes DEF BobFails, Goto, TypeOK, Syncing, Nodes

LEMMA StepsOfSync ==
    ASSUME TypeOK, SyncInv, [Next]_vars, Syncing, Syncing'
    PROVE  \/ \E n \in Node : Walks(n)
           \/ Send \/ HandlerEnds \/ Waits
           \/ ReceiveHash \/ ReceiveData
           \/ BobFinishes \/ ReceiveEof
<1>0. Alice \in Node /\ Bob \in Node /\ Alice # Bob /\ Node = {Alice, Bob}
  BY TwoNodes DEF Nodes, Node
<1>1. CASE UNCHANGED vars
  BY <1>1 DEF vars, db, Waits
<1>2. ASSUME NEW n \in Node,
             (\E file \in Cars[n] : Import(n, file)) \/ ImportStep(n)
      PROVE  FALSE
  <2>1. pc[n] \in {"import", "flush"} \/ ~Syncing
    BY <1>2 DEF Import, ImportStep, ImportBlock, ImportFails, ImportCommit, ImportFlush
  <2> QED  BY <1>0, <2>1 DEF SyncInv, Syncing
<1>3. ASSUME NEW q \in Requests, Sync(q)
      PROVE  FALSE
  BY <1>0, <1>3 DEF Sync, Syncing
<1>4. ASSUME NEW n \in Node, Crash(n)
      PROVE  HandlerEnds
  <2>1. n = Alice
    BY <1>0, <1>4, BobEnds DEF Crash, Goto
  <2>2. tx' = tx
    <3>1. tx[Alice] = tables[Alice]
      BY DEF SyncInv
    <3>2. tx' = [tx EXCEPT ![Alice] = tx[Alice]]
      BY <1>4, <2>1, <3>1 DEF Crash
    <3> QED  BY <3>2 DEF TypeOK
  <2>3. Fewer /\ conn' # "open" /\ UNCHANGED result
    <3>1. CASE conn \in {"open", "finished"}
      BY <1>0, <1>4, <2>1, <3>1, TruncatedFrames DEF Crash, Fewer
    <3>2. CASE conn \notin {"open", "finished"}
      BY <1>0, <1>4, <2>1, <3>2, SameFrames DEF Crash, stream
    <3> QED  BY <3>1, <3>2
  <2> QED  BY <1>4, <2>1, <2>2, <2>3 DEF Crash, Goto, HandlerEnds
<1>5. ASSUME NEW n \in Node, Stuck(n)
      PROVE  HandlerEnds
  <2>1. n = Alice /\ AliceEnds /\ UNCHANGED <<tx, frames, result, tr, item, request>>
    BY <1>5, BobEnds DEF Stuck
  <2> QED  BY <2>1, SameFrames DEF AliceEnds, Goto, HandlerEnds
<1>6. CASE AliceStep
  <2>1. CASE WalkStep(Alice)
    BY <1>0, <1>5, <2>1 DEF WalkStep, Walks
  <2>2. CASE AliceFinishes \/ SendStopped
    <3>1. AliceEnds /\ UNCHANGED <<tx, frames, result, tr, item, request>>
      BY <2>2 DEF AliceFinishes, SendStopped, db
    <3> QED  BY <3>1, SameFrames DEF AliceEnds, Goto, HandlerEnds
  <2>3. CASE SendFails
    <3>1. /\ AliceEnds /\ UNCHANGED <<tx, result, tr, item, request>>
          /\ HasItem(Alice) /\ conn = "open" /\ (UNCHANGED frames \/ Write("torn"))
      BY <2>3 DEF SendFails, db
    <3> QED  BY <3>1, SameFrames DEF AliceEnds, Goto, HandlerEnds
  <2> QED  BY <1>6, <2>1, <2>2, <2>3 DEF AliceStep
<1>7. CASE BobStep
  <2>1. CASE WalkStep(Bob)
    BY <1>0, <1>5, <2>1 DEF WalkStep, Walks
  <2>2. CASE ReceiveFails \/ ReceiveLost \/ Commit
    BY <2>2, BobEnds DEF ReceiveFails, ReceiveLost, Commit, Goto
  <2> QED  BY <1>7, <2>1, <2>2 DEF BobStep
<1>8. CASE Disconnect
  BY <1>8, TruncatedFrames DEF Disconnect, Waits, Fewer, db
<1> QED  BY <1>1, <1>2, <1>3, <1>4, <1>6, <1>7, <1>8 DEF Next

(* Bob begins to sync in one way only. *)
LEMMA SyncBegins ==
    ASSUME TypeOK, [Next]_vars, ~Syncing, Syncing'
    PROVE  \E q \in Requests : Sync(q)
<1>0. Alice \in Node /\ Bob \in Node /\ Alice # Bob /\ Node = {Alice, Bob}
  BY TwoNodes DEF Nodes, Node
<1>1. CASE pc'[Bob] = pc[Bob]
  BY <1>1 DEF Syncing
<1>2. CASE pc'[Bob] \in {"idle", "import", "flush"}
  BY <1>2 DEF Syncing
<1>3. ASSUME NEW n \in Node,
             (\E file \in Cars[n] : Import(n, file)) \/ ImportStep(n) \/ Crash(n)
      PROVE  pc'[Bob] = pc[Bob] \/ pc'[Bob] \in {"idle", "import", "flush"}
  BY <1>0, <1>3 DEF Import, ImportStep, ImportBlock, ImportFails, ImportCommit,
     ImportFlush, Crash, Goto, TypeOK
<1>4. AliceStep => pc'[Bob] = pc[Bob]
  <2>1. WalkStep(Alice) => pc'[Bob] = pc[Bob] \/ Stuck(Alice)
    BY <1>0, WalksChange DEF WalkStep, Walks
  <2>2. Stuck(Alice) => pc'[Bob] = pc[Bob]
    BY <1>0 DEF Stuck, AliceEnds, Goto, TypeOK
  <2>3. AliceFinishes \/ Send \/ SendFails \/ SendStopped => pc'[Bob] = pc[Bob]
    BY <1>0 DEF AliceFinishes, Send, SendFails, SendStopped, AliceEnds, Goto, TypeOK
  <2> QED  BY <2>1, <2>2, <2>3 DEF AliceStep
<1>5. ~BobStep
  <2>1. BobStep => Syncing
    BY DEF BobStep, WalkStep, Stuck, Expand, Skip, Visit, BobFinishes, ReceiveHash,
       ReceiveData, ReceiveFails, ReceiveEof, ReceiveLost, Commit, Reads, Walking,
       HasItem, Syncing
  <2> QED  BY <2>1
<1>6. Disconnect \/ UNCHANGED vars => pc'[Bob] = pc[Bob]
  BY DEF Disconnect, vars
<1> QED  BY <1>1, <1>2, <1>3, <1>4, <1>5, <1>6 DEF Next

(* What the hypotheses of the properties are about only grows. *)
Trusted == FollowsInline /\ (KnowsLinks(Alice) \/ request.inline = Codec)

LEMMA WalksVisit ==
    ASSUME TypeOK, NEW n \in Node, Walks(n)
    PROVE  \A k \in Node : tr[k].visited \subseteq tr'[k].visited
<1>1. tr[n] \in Traversal /\ \A k \in Node : k # n => tr'[k] = tr[k]
  BY WalksChange DEF TypeOK
<1>2. \/ tr'[n] = Expanded(tr[n], tx[n]) \/ tr'[n] = Popped(tr[n])
      \/ tr'[n] = Visited(tr[n])
  BY DEF Walks, Expand, Skip, Visit, TypeOK
<1>3. tr[n].visited \subseteq tr'[n].visited
  BY <1>1, <1>2 DEF Expanded, Popped, Visited, Traversal
<1> QED  BY <1>1, <1>3

LEMMA SyncKeeps ==
    ASSUME TypeOK, SyncInv, [Next]_vars, Syncing, Syncing'
    PROVE  /\ request' = request
           /\ tx'[Alice] = tx[Alice]
           /\ \A n \in Node : tr[n].visited \subseteq tr'[n].visited
<1>1. ASSUME NEW n \in Node, Walks(n)
      PROVE  /\ request' = request /\ tx'[Alice] = tx[Alice]
             /\ \A k \in Node : tr[k].visited \subseteq tr'[k].visited
  BY <1>1, WalksChange, WalksVisit
<1>2. CASE Send \/ HandlerEnds \/ Waits \/ BobFinishes \/ ReceiveEof \/ ReceiveHash
  BY <1>2 DEF Send, HandlerEnds, Waits, BobFinishes, ReceiveEof, ReceiveHash, db
<1>3. CASE ReceiveData
  BY <1>3, TwoNodes DEF ReceiveData, TypeOK, Nodes
<1> QED  BY <1>1, <1>2, <1>3, StepsOfSync

LEMMA KnowledgeShrinks ==
    ASSUME TypeOK, SyncInv, [Next]_vars, Syncing, Syncing'
    PROVE  /\ KnowsLinks(Alice)' => KnowsLinks(Alice)
           /\ FollowsInline' = FollowsInline
           /\ Trusted' => Trusted
<1>1. KnowsLinks(Alice)' => KnowsLinks(Alice)
  BY SyncKeeps, TwoNodes DEF KnowsLinks, Blake3Hash, StoredLinks, LinksKey, Nodes
<1>2. FollowsInline' <=> FollowsInline
  BY SyncKeeps DEF FollowsInline
<1>3. Trusted' => Trusted
  BY <1>1, <1>2, SyncKeeps DEF Trusted
<1> QED  BY <1>1, <1>2, <1>3

----------------------------------------------------------------------------
(* What a traversal still has to do, and what Bob has received *)

Elements(cids) == {cids[i] : i \in DOMAIN cids}
Pending(walk) == Elements(walk.stack)
Reached(walk) == walk.visited \cup Pending(walk)

(* Nothing is forgotten: the links of what was visited are visited or wait *)
(* on the stack, but for those that are still to be read.                  *)
Closed(q, walk) ==
    /\ q.full => q.roots[1] \in Reached(walk)
    /\ \A cid \in walk.visited \ q.visited :
           (cid.codec # Raw /\ cid # walk.prev) =>
               \A i \in DOMAIN LinksOf[cid.hash] : LinksOf[cid.hash][i] \in Reached(walk)

(* The step of a traversal that knows all links. *)
Ideal(walk) ==
    IF Deferred(walk)
    THEN [walk EXCEPT !.prev = NoCid,
                      !.stack = IF walk.prev.codec = Raw THEN @
                                ELSE LinksOf[walk.prev.hash] \o @]
    ELSE IF AlreadyVisited(walk) THEN Popped(walk) ELSE Visited(walk)

LEMMA ElementsOfTail ==
    ASSUME NEW s \in Seq(Cid), s # <<>>
    PROVE  Elements(s) \subseteq {Head(s)} \cup Elements(Tail(s))
<1> SUFFICES ASSUME NEW i \in DOMAIN s, i # 1
             PROVE  \E j \in DOMAIN Tail(s) : Tail(s)[j] = s[i]
  BY DEF Elements
<1>1. i - 1 \in DOMAIN Tail(s) /\ Tail(s)[i - 1] = s[i]
  OBVIOUS
<1> QED  BY <1>1

LEMMA ElementsOfConcat ==
    ASSUME NEW s \in Seq(Cid), NEW t \in Seq(Cid)
    PROVE  Elements(s) \subseteq Elements(s \o t) /\ Elements(t) \subseteq Elements(s \o t)
<1>1. ASSUME NEW i \in DOMAIN s
      PROVE  i \in DOMAIN (s \o t) /\ (s \o t)[i] = s[i]
  OBVIOUS
<1>2. ASSUME NEW i \in DOMAIN t
      PROVE  Len(s) + i \in DOMAIN (s \o t) /\ (s \o t)[Len(s) + i] = t[i]
  OBVIOUS
<1> QED  BY <1>1, <1>2 DEF Elements

LEMMA IdealIsClosed ==
    ASSUME NEW q \in Request, NEW walk \in Traversal,
           Deferred(walk) \/ ~AtEnd(walk), Closed(q, walk), WalkOk(q, walk)
    PROVE  Closed(q, Ideal(walk))
<1>0. walk.stack \in Seq(Cid) /\ walk.visited \in SUBSET Cid
  BY DEF Traversal
<1>1. CASE Deferred(walk)
  <2>1. walk.prev \in Cid /\ LinksOf[walk.prev.hash] \in Seq(Cid)
    BY <1>1, DagAssumption DEF Deferred, Traversal, Cid
  <2> DEFINE links == IF walk.prev.codec = Raw THEN <<>> ELSE LinksOf[walk.prev.hash]
  <2>2. links \in Seq(Cid)
    BY <2>1
  <2>3. Ideal(walk).stack = IF walk.prev.codec = Raw THEN walk.stack
                            ELSE links \o walk.stack
    BY <1>1 DEF Ideal, Traversal
  <2>4. Ideal(walk).visited = walk.visited /\ Ideal(walk).prev = NoCid
    BY <1>1 DEF Ideal, Traversal
  <2>5. walk.prev.codec # Raw => links = LinksOf[walk.prev.hash]
    OBVIOUS
  <2> HIDE DEF links
  <2>6. Pending(walk) \subseteq Pending(Ideal(walk))
    BY <1>0, <2>2, <2>3, ElementsOfConcat DEF Pending
  <2>7. walk.prev.codec # Raw => Elements(links) \subseteq Pending(Ideal(walk))
    BY <1>0, <2>2, <2>3, ElementsOfConcat DEF Pending
  <2>8. walk.prev.codec # Raw =>
            \A i \in DOMAIN LinksOf[walk.prev.hash] :
                LinksOf[walk.prev.hash][i] \in Pending(Ideal(walk))
    BY <2>5, <2>7 DEF Elements
  <2> QED  BY <2>4, <2>6, <2>8 DEF Closed, Reached
<1>2. CASE ~Deferred(walk)
  <2>1. Top(walk) \in Cid /\ walk.stack # <<>> /\ Tail(walk.stack) \in Seq(Cid)
    BY <1>2, TopType DEF AtEnd
  <2>2. Pending(walk) \subseteq {Top(walk)} \cup Pending(Popped(walk))
    <3>1. Popped(walk).stack = Tail(walk.stack)
      BY DEF Popped, Traversal
    <3> QED  BY <1>0, <2>1, <3>1, ElementsOfTail DEF Pending, Top
  <2>3. Popped(walk).visited = walk.visited /\ Popped(walk).prev = NoCid
    BY <1>2 DEF Popped, Deferred, Traversal
  <2>4. CASE AlreadyVisited(walk)
    <3>1. Ideal(walk) = Popped(walk) /\ Top(walk) \in walk.visited
      BY <1>2, <2>4 DEF Ideal, AlreadyVisited
    <3> QED  BY <1>2, <2>2, <2>3, <3>1, DagAssumption DEF Closed, Reached, Deferred
  <2>5. CASE ~AlreadyVisited(walk) /\ walk.full
    <3>1. /\ Ideal(walk).visited = walk.visited \cup {Top(walk)}
          /\ Ideal(walk).prev = Top(walk)
          /\ Ideal(walk).stack = Popped(walk).stack
      BY <1>2, <2>5 DEF Ideal, Visited, Popped, Traversal
    <3>2. Reached(walk) \subseteq Reached(Ideal(walk))
      BY <2>2, <3>1 DEF Reached, Pending
    <3>3. \A cid \in walk.visited : cid # walk.prev
      BY <1>0, <1>2, DagAssumption DEF Deferred
    <3> QED  BY <3>1, <3>2, <3>3 DEF Closed
  <2>6. CASE ~AlreadyVisited(walk) /\ ~walk.full
    <3>1. Ideal(walk) = Popped(walk) /\ ~q.full /\ walk.visited = {}
      BY <1>2, <2>6 DEF Ideal, Visited, WalkOk
    <3> QED  BY <2>3, <3>1 DEF Closed
  <2> QED  BY <2>4, <2>5, <2>6
<1> QED  BY <1>1, <1>2

LEMMA WalksIdeal ==
    ASSUME TypeOK, NEW n \in Node, Walks(n),
           (Deferred(tr[n]) /\ tr[n].prev.codec # Raw) =>
               StoredLinks(tx[n], tr[n].prev) = LinksOf[tr[n].prev.hash]
    PROVE  tr'[n] = Ideal(tr[n]) /\ (Deferred(tr[n]) \/ ~AtEnd(tr[n]))
<1>1. CASE Expand(n)
  BY <1>1 DEF Expand, Expanded, Ideal, TypeOK
<1>2. CASE Skip(n) \/ Visit(n)
  BY <1>2 DEF Skip, Visit, Ideal, TypeOK
<1> QED  BY <1>1, <1>2 DEF Walks

Knows(q, t, cid) ==
    /\ cid.codec \in q.pass \cap q.inline => Blake3Hash(t, cid) = cid.hash
    /\ cid.codec # Raw => StoredLinks(t, cid) = LinksOf[cid.hash]

LEMMA InsertedIsKnown ==
    ASSUME NEW q, NEW t \in Tables, NEW cid \in Cid
    PROVE  Knows(q, InsertLinks(t, cid, cid.hash), cid)
<1> DEFINE new == InsertLinks(t, cid, cid.hash)
<1>1. Blake3Hash(new, cid) = cid.hash
  BY DEF Blake3Hash, InsertLinks, Tables, Cid
<1>2. LinksKey(new, cid) = [codec |-> cid.codec, hash |-> cid.hash]
  BY <1>1 DEF LinksKey
<1>3. StoredLinks(new, cid) = LinksOf[cid.hash]
  <2>1. LinksOf[cid.hash] # <<>> => LinksKey(new, cid) \in new.links
    BY <1>2 DEF InsertLinks
  <2> QED  BY <1>1, <2>1 DEF StoredLinks
<1> QED  BY <1>1, <1>3 DEF Knows

LEMMA InsertKeepsKnown ==
    ASSUME NEW q, NEW t \in Tables, NEW cid \in Cid, NEW other \in Cid,
           Knows(q, t, other), other.codec # Raw => other.codec \in q.pass \cap q.inline
    PROVE  Knows(q, InsertLinks(t, cid, cid.hash), other)
<1> DEFINE new == InsertLinks(t, cid, cid.hash)
<1>1. /\ t.links \subseteq new.links
      /\ Blake3Hash(new, other) = IF other.hash = cid.hash THEN cid.hash
                                  ELSE Blake3Hash(t, other)
  BY DEF Blake3Hash, InsertLinks, Tables, Cid
<1>4. other.codec # Raw => StoredLinks(new, other) = LinksOf[other.hash]
  <2> SUFFICES ASSUME other.codec # Raw
               PROVE  StoredLinks(new, other) = LinksOf[other.hash]
    OBVIOUS
  <2>1. /\ StoredLinks(t, other) = LinksOf[other.hash]
        /\ Blake3Hash(t, other) = other.hash
    BY DEF Knows
  <2>2. Blake3Hash(new, other) = other.hash
    BY <1>1, <2>1
  <2>3. LinksKey(new, other) = LinksKey(t, other)
    BY <2>1, <2>2 DEF LinksKey
  <2> QED  BY <1>1, <2>1, <2>2, <2>3 DEF StoredLinks
<1>5. other.codec \in q.pass \cap q.inline => Blake3Hash(new, other) = other.hash
  BY <1>1 DEF Knows
<1> QED  BY <1>4, <1>5 DEF Knows

(* Bob knows what he has visited, but for the cid he waits for. *)
Received ==
    \A cid \in tr[Bob].visited \ request.visited :
        ~(pc[Bob] = "item" /\ cid = item[Bob]) => Knows(request, tx[Bob], cid)

Accounted == Follows(Bob) \/ (pc[Bob] = "commit" /\ result = "complete")

(* The inductive invariant for completeness. *)
HasInv == (Accounted /\ Trusted) => Received /\ Closed(request, tr[Bob])

LEMMA BobWalks ==
    ASSUME TypeOK, SyncInv, HasInv, Walks(Bob), Trusted
    PROVE  tr'[Bob] = Ideal(tr[Bob]) /\ Closed(request, tr'[Bob]) /\ Received'
<1>0. Bob \in Node
  BY TwoNodes DEF Nodes
<1>1. pc[Bob] = "walk" /\ UNCHANGED <<tx, request>>
  BY <1>0, WalksChange
<1>2. /\ WalkOk(request, tr[Bob]) /\ tr[Bob] \in Traversal /\ request \in Request
      /\ Received /\ Closed(request, tr[Bob])
  BY <1>0, <1>1 DEF SyncInv, HasInv, Accounted, Follows, TypeOK
<1>3. (Deferred(tr[Bob]) /\ tr[Bob].prev.codec # Raw) =>
          StoredLinks(tx[Bob], tr[Bob].prev) = LinksOf[tr[Bob].prev.hash]
  BY <1>1, <1>2 DEF Received, WalkOk, Knows
<1>4. tr'[Bob] = Ideal(tr[Bob]) /\ (Deferred(tr[Bob]) \/ ~AtEnd(tr[Bob]))
  BY <1>0, <1>3, WalksIdeal
<1>5. Closed(request, tr'[Bob])
  BY <1>2, <1>4, IdealIsClosed
<1>6. Received'
  <2>1. CASE Expand(Bob) \/ Skip(Bob)
    <3>0. tr'[Bob] = Expanded(tr[Bob], tx[Bob]) \/ tr'[Bob] = Popped(tr[Bob])
      BY <1>0, <2>1 DEF Expand, Skip, TypeOK
    <3>1. tr'[Bob].visited = tr[Bob].visited
      BY <1>2, <3>0 DEF Expanded, Popped, Traversal
    <3> QED  BY <1>1, <1>2, <3>1 DEF Received
  <2>2. CASE Visit(Bob)
    <3>1. /\ ~Deferred(tr[Bob]) /\ ~AtEnd(tr[Bob]) /\ tr'[Bob] = Visited(tr[Bob])
          /\ item'[Bob] = Top(tr[Bob])
          /\ Top(tr[Bob]).codec \in request.pass => pc'[Bob] = "item"
      BY <1>0, <2>2 DEF Visit, Goto, TypeOK
    <3>2. Top(tr[Bob]) \in Cid
      BY <1>2, <3>1, TopType
    <3>3. CASE request.full
      <4>1. tr'[Bob].visited = tr[Bob].visited \cup {Top(tr[Bob])}
        BY <1>2, <3>1, <3>3 DEF Visited, Popped, Traversal, WalkOk
      <4>2. Top(tr[Bob]).codec \notin request.pass => Knows(request, tx[Bob], Top(tr[Bob]))
        BY <3>2, <3>3 DEF Trusted, FollowsInline, Knows, Cid
      <4> QED  BY <1>1, <1>2, <3>1, <4>1, <4>2 DEF Received
    <3>4. CASE ~request.full
      <4>1. tr'[Bob].visited = {}
        BY <1>2, <3>1, <3>4 DEF Visited, Popped, Traversal, WalkOk
      <4> QED  BY <4>1 DEF Received
    <3> QED  BY <3>3, <3>4
  <2> QED  BY <2>1, <2>2 DEF Walks
<1> QED  BY <1>4, <1>5, <1>6

LEMMA BobReceives ==
    ASSUME TypeOK, SyncInv, HasInv, InStep, Trusted,
           ReceiveHash \/ ReceiveData
    PROVE  Closed(request, tr'[Bob]) /\ Received'
<1>0. Bob \in Node
  BY TwoNodes DEF Nodes
<1>1. /\ pc[Bob] = "item" /\ UNCHANGED <<tr, item, request>>
      /\ item[Bob] \in Cid /\ tx[Bob] \in Tables
  BY <1>0 DEF ReceiveHash, ReceiveData, Reads, HasItem, TypeOK, db
<1>2. Received /\ Closed(request, tr[Bob]) /\ WalkOk(request, tr[Bob])
  BY <1>0, <1>1 DEF SyncInv, HasInv, Accounted, Follows
<1>3. \A cid \in tr[Bob].visited : cid \in Cid
  BY <1>0 DEF TypeOK, Traversal
<1>4. CASE ReceiveData
  <2>1. tx'[Bob] = InsertLinks(tx[Bob], item[Bob], item[Bob].hash)
    BY <1>0, <1>4 DEF ReceiveData, TypeOK
  <2>2. Knows(request, tx'[Bob], item[Bob])
    BY <1>1, <2>1, InsertedIsKnown
  <2>3. \A cid \in tr[Bob].visited :
            cid.codec # Raw => cid.codec \in request.pass \cap request.inline
    BY <1>2, <1>3 DEF Trusted, FollowsInline, WalkOk, Cid
  <2>4. \A cid \in tr[Bob].visited :
            Knows(request, tx[Bob], cid) => Knows(request, tx'[Bob], cid)
    BY <1>1, <1>3, <2>1, <2>3, InsertKeepsKnown
  <2> QED  BY <1>1, <1>2, <1>3, <2>2, <2>4 DEF Received
<1>5. CASE ReceiveHash
  <2>1. UNCHANGED tx /\ Reads("hash") /\ frames # <<>> /\ NextFrame.kind = "hash"
    BY <1>5 DEF ReceiveHash, Reads, db
  <2>2. NextFrame = frames[1] /\ 1 \in DOMAIN frames /\ NextFrame \in Frame
    BY <1>5, ReadFrames, ReadsType DEF ReceiveHash
  <2>3. NextFrame.cid.codec \notin request.inline
    BY <2>1, <2>2 DEF SyncInv
  <2>4. NextFrame.cid.codec \in Codec
    BY <2>2 DEF Frame, Cid
  <2>5. NextFrame.cid = item[Bob]
    <3>1. KnowsLinks(Alice) /\ FollowsInline
      BY <2>3, <2>4 DEF Trusted
    <3> QED  BY <1>1, <2>1, <3>1 DEF InStep, FrameMeetsItem, HasItem
  <2>6. request.full => Knows(request, tx[Bob], item[Bob])
    BY <2>3, <2>4, <2>5 DEF Trusted, FollowsInline, Knows
  <2> QED  BY <1>1, <1>2, <2>1, <2>6 DEF Received, WalkOk
<1> QED  BY <1>1, <1>2, <1>4, <1>5

LEMMA HasStep ==
    ASSUME TypeOK, SyncInv, HasInv, InStep, [Next]_vars
    PROVE  HasInv'
<1> SUFFICES ASSUME Accounted', Trusted' PROVE (Received /\ Closed(request, tr[Bob]))'
  BY DEF HasInv
<1>0. Alice \in Node /\ Bob \in Node /\ Alice # Bob
  BY TwoNodes DEF Nodes
<1>1. Syncing'
  BY DEF Accounted, Follows, Syncing
<1>2. CASE ~Syncing
  <2>1. PICK q \in Requests : Sync(q)
    BY <1>1, <1>2, SyncBegins
  <2>2. q \in Request /\ request' = q /\ tr'[Bob] = GetTraversal(q)
    BY <1>0, <2>1, SyncAssumption DEF Sync
  <2>3. q.full => 1 \in DOMAIN q.roots
    BY <2>2 DEF Request
  <2> QED  BY <2>2, <2>3 DEF Received, Closed, GetTraversal, Reached, Pending, Elements
<1>3. CASE Syncing
  <2>1. Trusted
    BY <1>1, <1>3, KnowledgeShrinks
  <2>2. CASE \E n \in Node : Walks(n)
    <3>1. PICK n \in Node : Walks(n)
      BY <2>2
    <3>2. CASE n = Bob
      BY <2>1, <3>1, <3>2, <1>0, BobWalks, WalksChange
    <3>3. CASE n # Bob
      BY <1>0, <2>1, <3>1, <3>3, WalksChange
         DEF HasInv, Accounted, Follows, Received, Closed, Reached, Pending
    <3> QED  BY <3>2, <3>3
  <2>3. CASE Send \/ HandlerEnds \/ Waits
    <3>1. /\ pc'[Bob] = pc[Bob] /\ UNCHANGED <<tx, tr, item, request, result>>
      BY <1>0, <2>3 DEF Send, HandlerEnds, Waits, Goto, TypeOK, db
    <3> QED  BY <2>1, <3>1 DEF HasInv, Accounted, Follows, Received, Closed, Reached, Pending
  <2>4. CASE ReceiveHash \/ ReceiveData
    <3>1. UNCHANGED <<tr, request>>
      BY <2>4 DEF ReceiveHash, ReceiveData
    <3> QED  BY <2>1, <2>4, <3>1, BobReceives
  <2>5. CASE BobFinishes
    <3>1. /\ pc[Bob] = "walk" /\ UNCHANGED <<tx, tr, item, request>>
      BY <2>5 DEF BobFinishes, Walking, db
    <3> QED  BY <2>1, <3>1 DEF HasInv, Accounted, Follows, Received, Closed, Reached, Pending
  <2>6. CASE ReceiveEof
    BY <1>0, <2>6 DEF ReceiveEof, Goto, TypeOK, Accounted, Follows
  <2> QED  BY <1>1, <1>3, <2>2, <2>3, <2>4, <2>5, <2>6, StepsOfSync
<1> QED  BY <1>2, <1>3

----------------------------------------------------------------------------
(* The two traversals in step *)

Yields(q, walk) ==
    /\ ~Deferred(walk) /\ ~AtEnd(walk) /\ ~AlreadyVisited(walk)
    /\ Top(walk).codec \in q.pass

(* The first m steps of the one traversal that both nodes go through: where *)
(* it is after each, how many cids it has yielded by then, and which.      *)
Run(q, m, walks, count, cids) ==
    /\ m \in Nat /\ cids \in Seq(Cid)
    /\ walks \in [0 .. m -> Traversal] /\ count \in [0 .. m -> 0 .. Len(cids)]
    /\ walks[0] = GetTraversal(q) /\ count[0] = 0 /\ count[m] = Len(cids)
    /\ \A i \in 0 .. m - 1 :
        /\ walks[i + 1] = Ideal(walks[i])
        /\ IF Yields(q, walks[i])
           THEN count[i + 1] = count[i] + 1 /\ cids[count[i] + 1] = Top(walks[i])
           ELSE count[i + 1] = count[i]

LEMMA IdealType ==
    ASSUME NEW walk \in Traversal, Deferred(walk) \/ ~AtEnd(walk)
    PROVE  Ideal(walk) \in Traversal
<1>1. CASE Deferred(walk)
  <2>1. walk.prev \in Cid /\ walk.stack \in Seq(Cid)
    BY <1>1 DEF Deferred, Traversal
  <2>2. LinksOf[walk.prev.hash] \in Seq(Cid)
    BY <2>1, DagAssumption DEF Cid
  <2>3. LinksOf[walk.prev.hash] \o walk.stack \in Seq(Cid)
    BY <2>1, <2>2
  <2> QED  BY <1>1, <2>1, <2>3 DEF Ideal, Traversal
<1>2. CASE ~Deferred(walk)
  BY <1>2, PoppedType, VisitedType DEF Ideal
<1> QED  BY <1>1, <1>2

LEMMA RunStarts ==
    ASSUME NEW q \in Request
    PROVE  Run(q, 0, [i \in 0 .. 0 |-> GetTraversal(q)], [i \in 0 .. 0 |-> 0], <<>>)
<1>1. <<>> \in Seq(Cid) /\ Len(<<>>) = 0
  OBVIOUS
<1> QED  BY <1>1, GetTraversalType DEF Run

LEMMA AppendFacts ==
    ASSUME NEW s \in Seq(Cid), NEW cid \in Cid
    PROVE  /\ Append(s, cid) \in Seq(Cid) /\ Len(s) \in Nat
           /\ Len(Append(s, cid)) = Len(s) + 1 /\ Append(s, cid)[Len(s) + 1] = cid
           /\ \A k \in 1 .. Len(s) : Append(s, cid)[k] = s[k]
OBVIOUS

(* A run goes on until the end of the traversal. *)
LEMMA RunExtends ==
    ASSUME NEW q, NEW m, NEW walks, NEW count, NEW cids,
           Run(q, m, walks, count, cids), Deferred(walks[m]) \/ ~AtEnd(walks[m])
    PROVE  \E walks2, count2, cids2 :
               /\ Run(q, m + 1, walks2, count2, cids2)
               /\ \A i \in 0 .. m : walks2[i] = walks[i] /\ count2[i] = count[i]
               /\ Len(cids) <= Len(cids2)
               /\ \A k \in 1 .. Len(cids) : cids2[k] = cids[k]
<1> DEFINE yields == Yields(q, walks[m])
           cids2 == IF yields THEN Append(cids, Top(walks[m])) ELSE cids
           walks2 == [i \in 0 .. m + 1 |-> IF i = m + 1 THEN Ideal(walks[m]) ELSE walks[i]]
           count2 == [i \in 0 .. m + 1 |-> IF i = m + 1 THEN Len(cids2) ELSE count[i]]
<1>1. /\ m \in Nat /\ cids \in Seq(Cid) /\ Len(cids) \in Nat
      /\ walks \in [0 .. m -> Traversal] /\ count \in [0 .. m -> 0 .. Len(cids)]
      /\ walks[0] = GetTraversal(q) /\ count[0] = 0 /\ count[m] = Len(cids)
  BY DEF Run
<1>2. walks[m] \in Traversal /\ Ideal(walks[m]) \in Traversal
  BY <1>1, IdealType
<1>3. /\ cids2 \in Seq(Cid) /\ Len(cids2) \in Nat /\ Len(cids) <= Len(cids2)
      /\ \A k \in 1 .. Len(cids) : cids2[k] = cids[k]
      /\ IF yields THEN Len(cids2) = Len(cids) + 1 /\ cids2[Len(cids) + 1] = Top(walks[m])
         ELSE cids2 = cids
  <2>1. CASE yields
    <3>1. Top(walks[m]) \in Cid
      BY <1>2, <2>1, TopType DEF Yields
    <3> QED  BY <1>1, <2>1, <3>1, AppendFacts
  <2>2. CASE ~yields
    BY <1>1, <2>2
  <2> QED  BY <2>1, <2>2
<1> HIDE DEF cids2
<1>4. walks2 \in [0 .. m + 1 -> Traversal] /\ count2 \in [0 .. m + 1 -> 0 .. Len(cids2)]
  BY <1>1, <1>2, <1>3
<1>5. /\ \A i \in 0 .. m : walks2[i] = walks[i] /\ count2[i] = count[i]
      /\ walks2[m + 1] = Ideal(walks[m]) /\ count2[m + 1] = Len(cids2)
  BY <1>1
<1> HIDE DEF walks2, count2
<1>6. \A i \in 0 .. (m + 1) - 1 :
        /\ walks2[i + 1] = Ideal(walks2[i])
        /\ IF Yields(q, walks2[i])
           THEN count2[i + 1] = count2[i] + 1 /\ cids2[count2[i] + 1] = Top(walks2[i])
           ELSE count2[i + 1] = count2[i]
  <2> TAKE i \in 0 .. (m + 1) - 1
  <2>1. i \in 0 .. m /\ walks2[i] = walks[i] /\ count2[i] = count[i]
    BY <1>1, <1>5
  <2>2. CASE i = m
    BY <1>1, <1>3, <1>5, <2>1, <2>2
  <2>3. CASE i # m
    <3>1. i \in 0 .. m - 1 /\ i + 1 \in 0 .. m
      BY <1>1, <2>1, <2>3
    <3>2. /\ walks[i + 1] = Ideal(walks[i])
          /\ IF Yields(q, walks[i])
             THEN count[i + 1] = count[i] + 1 /\ cids[count[i] + 1] = Top(walks[i])
             ELSE count[i + 1] = count[i]
      BY <3>1 DEF Run
    <3>3. walks2[i + 1] = walks[i + 1] /\ count2[i + 1] = count[i + 1]
      BY <1>5, <3>1
    <3>4. Yields(q, walks[i]) => cids2[count[i] + 1] = cids[count[i] + 1]
      BY <1>1, <1>3, <2>1, <3>1, <3>2
    <3> QED  BY <2>1, <3>2, <3>3, <3>4
  <2> QED  BY <2>2, <2>3
<1>7. 0 \in 0 .. m /\ m + 1 \in Nat
  BY <1>1
<1>8. Run(q, m + 1, walks2, count2, cids2)
  BY <1>1, <1>3, <1>4, <1>5, <1>6, <1>7 DEF Run
<1> QED  BY <1>3, <1>5, <1>8

(* Alice has made a steps of the run and Bob b; the frames under way are   *)
(* for the cids that were yielded between.                                 *)
Passed(n, count) == IF pc[n] = "item" THEN count - 1 ELSE count

InPlace(m, walks, count, cids, a, b) ==
    /\ Run(request, m, walks, count, cids)
    /\ a \in 0 .. m /\ b \in 0 .. m
    /\ tr[Alice] = walks[a] /\ tr[Bob] = walks[b]
    /\ pc[Alice] = "item" => count[a] > 0 /\ item[Alice] = cids[count[a]]
    /\ pc[Bob] = "item" => count[b] > 0 /\ item[Bob] = cids[count[b]]
    /\ Passed(Bob, count[b]) + Len(frames) <= Len(cids)
    /\ \A j \in DOMAIN frames : frames[j].cid = cids[Passed(Bob, count[b]) + j]
    /\ conn = "open" => Passed(Bob, count[b]) + Len(frames) = Passed(Alice, count[a])

Lockstep == \E m, walks, count, cids, a, b : InPlace(m, walks, count, cids, a, b)

(* The inductive invariant for the frames. *)
LockInv == (Follows(Bob) /\ FollowsInline /\ KnowsLinks(Alice)) => Lockstep

LEMMA InPlaceFacts ==
    ASSUME TypeOK, NEW m, NEW walks, NEW count, NEW cids, NEW a, NEW b,
           InPlace(m, walks, count, cids, a, b)
    PROVE  /\ m \in Nat /\ cids \in Seq(Cid) /\ Len(cids) \in Nat
           /\ a \in 0 .. m /\ b \in 0 .. m
           /\ count[a] \in 0 .. Len(cids) /\ count[b] \in 0 .. Len(cids)
           /\ walks[a] \in Traversal /\ walks[b] \in Traversal
           /\ Passed(Alice, count[a]) \in Nat /\ Passed(Bob, count[b]) \in Nat
           /\ Passed(Alice, count[a]) <= count[a] /\ Passed(Bob, count[b]) <= count[b]
           /\ frames \in Seq(Frame) /\ Len(frames) \in Nat
           /\ DOMAIN frames = 1 .. Len(frames)
<1>1. /\ m \in Nat /\ cids \in Seq(Cid) /\ Len(cids) \in Nat
      /\ a \in 0 .. m /\ b \in 0 .. m
      /\ count \in [0 .. m -> 0 .. Len(cids)] /\ walks \in [0 .. m -> Traversal]
  BY DEF InPlace, Run
<1>2. count[a] \in 0 .. Len(cids) /\ count[b] \in 0 .. Len(cids)
  BY <1>1
<1>3. (pc[Alice] = "item" => count[a] > 0) /\ (pc[Bob] = "item" => count[b] > 0)
  BY DEF InPlace
<1>4. frames \in Seq(Frame) /\ Len(frames) \in Nat /\ DOMAIN frames = 1 .. Len(frames)
  BY DEF TypeOK
<1> QED  BY <1>1, <1>2, <1>3, <1>4 DEF Passed

(* The run may be taken to go on past the place of either node. *)
LEMMA Room ==
    ASSUME TypeOK, NEW m, NEW walks, NEW count, NEW cids, NEW a, NEW b,
           InPlace(m, walks, count, cids, a, b),
           NEW k \in {a, b}, Deferred(walks[k]) \/ ~AtEnd(walks[k])
    PROVE  \E m2, walks2, count2, cids2 :
               InPlace(m2, walks2, count2, cids2, a, b) /\ k < m2
<1>1. /\ m \in Nat /\ a \in 0 .. m /\ b \in 0 .. m /\ Len(cids) \in Nat
      /\ Passed(Bob, count[b]) \in Nat /\ Len(frames) \in Nat
      /\ DOMAIN frames = 1 .. Len(frames)
      /\ count[a] \in 0 .. Len(cids) /\ count[b] \in 0 .. Len(cids)
  BY InPlaceFacts
<1>2. CASE k < m
  BY <1>2
<1>3. CASE k = m
  <2>0. Run(request, m, walks, count, cids)
    BY DEF InPlace
  <2>1. PICK walks2, count2, cids2 :
            /\ Run(request, m + 1, walks2, count2, cids2)
            /\ \A i \in 0 .. m : walks2[i] = walks[i] /\ count2[i] = count[i]
            /\ Len(cids) <= Len(cids2)
            /\ \A i \in 1 .. Len(cids) : cids2[i] = cids[i]
    BY <1>3, <2>0, RunExtends
  <2>2. Len(cids2) \in Nat
    BY <2>1 DEF Run
  <2>3. /\ walks2[a] = walks[a] /\ walks2[b] = walks[b]
        /\ count2[a] = count[a] /\ count2[b] = count[b]
    BY <1>1, <2>1
  <2>4. /\ count[a] > 0 => cids2[count[a]] = cids[count[a]]
        /\ count[b] > 0 => cids2[count[b]] = cids[count[b]]
    BY <1>1, <2>1
  <2>5. Passed(Bob, count[b]) + Len(frames) <= Len(cids)
    BY DEF InPlace
  <2>6. ASSUME NEW j \in DOMAIN frames
        PROVE  cids2[Passed(Bob, count[b]) + j] = cids[Passed(Bob, count[b]) + j]
    <3>1. Passed(Bob, count[b]) + j \in 1 .. Len(cids)
      BY <1>1, <2>5
    <3> QED  BY <2>1, <3>1
  <2>7. Passed(Bob, count[b]) + Len(frames) <= Len(cids2)
    BY <1>1, <2>1, <2>2, <2>5
  <2>8. a \in 0 .. m + 1 /\ b \in 0 .. m + 1
    BY <1>1
  <2>9. InPlace(m + 1, walks2, count2, cids2, a, b)
    BY <2>1, <2>3, <2>4, <2>6, <2>7, <2>8 DEF InPlace
  <2> QED  BY <1>1, <1>3, <2>9
<1> QED  BY <1>1, <1>2, <1>3

(* A walking step that knows the links takes a node to its next place.     *)
LEMMA Advances ==
    ASSUME TypeOK, NEW n \in Node, Walks(n),
           (Deferred(tr[n]) /\ tr[n].prev.codec # Raw) =>
               StoredLinks(tx[n], tr[n].prev) = LinksOf[tr[n].prev.hash],
           NEW m, NEW walks, NEW count, NEW cids, Run(request, m, walks, count, cids),
           NEW k \in 0 .. m, k < m, tr[n] = walks[k]
    PROVE  /\ k + 1 \in 0 .. m /\ tr'[n] = walks[k + 1]
           /\ pc'[n] = "item" => count[k + 1] > 0 /\ item'[n] = cids[count[k + 1]]
           /\ (IF pc'[n] = "item" THEN count[k + 1] - 1 ELSE count[k + 1]) = count[k]
<1>1. /\ m \in Nat /\ k \in 0 .. m - 1 /\ k + 1 \in 0 .. m
      /\ count \in [0 .. m -> 0 .. Len(cids)] /\ Len(cids) \in Nat
  BY DEF Run
<1>2. /\ walks[k + 1] = Ideal(walks[k])
      /\ IF Yields(request, walks[k])
         THEN count[k + 1] = count[k] + 1 /\ cids[count[k] + 1] = Top(walks[k])
         ELSE count[k + 1] = count[k]
  BY <1>1 DEF Run
<1>3. tr'[n] = walks[k + 1]
  BY <1>2, WalksIdeal
<1>4. count[k] \in Nat /\ count[k + 1] \in Nat
  BY <1>1
<1>5. CASE Expand(n) \/ Skip(n)
  <2>1. pc'[n] = "walk" /\ ~Yields(request, walks[k])
    BY <1>5 DEF Expand, Skip, Walking, Yields
  <2> QED  BY <1>1, <1>2, <1>3, <2>1
<1>6. CASE Visit(n)
  <2>1. /\ Yields(request, walks[k]) <=> Top(tr[n]).codec \in request.pass
        /\ item'[n] = Top(tr[n])
        /\ pc'[n] = IF Top(tr[n]).codec \in request.pass THEN "item" ELSE "walk"
    BY <1>6 DEF Visit, Walking, Goto, Yields, TypeOK
  <2> QED  BY <1>1, <1>2, <1>3, <1>4, <2>1
<1> QED  BY <1>5, <1>6 DEF Walks

LEMMA AliceWalks ==
    ASSUME TypeOK, SyncInv, Lockstep, KnowsLinks(Alice), Walks(Alice), Syncing
    PROVE  Lockstep'
<1>0. Alice \in Node /\ Bob \in Node /\ Alice # Bob
  BY TwoNodes DEF Nodes
<1>1. /\ pc[Alice] = "walk" /\ pc'[Bob] = pc[Bob] /\ tr'[Bob] = tr[Bob]
      /\ item'[Bob] = item[Bob] /\ UNCHANGED <<request, frames, conn>>
  BY <1>0, WalksChange
<1>2. (Deferred(tr[Alice]) /\ tr[Alice].prev.codec # Raw) =>
          StoredLinks(tx[Alice], tr[Alice].prev) = LinksOf[tr[Alice].prev.hash]
  <2> SUFFICES ASSUME Deferred(tr[Alice]), tr[Alice].prev.codec # Raw
               PROVE  StoredLinks(tx[Alice], tr[Alice].prev) = LinksOf[tr[Alice].prev.hash]
    OBVIOUS
  <2>1. tr[Alice].prev \in tr[Alice].visited \ request.visited
    BY <1>0, <1>1 DEF SyncInv, Follows, WalkOk
  <2>2. Blake3Hash(tx[Alice], tr[Alice].prev) # NoBlock
    BY DEF Walks, Expand, Skip, Visit, IsStuck
  <2> QED  BY <2>1, <2>2 DEF KnowsLinks
<1>3. PICK m0, walks0, count0, cids0, a, b : InPlace(m0, walks0, count0, cids0, a, b)
  BY DEF Lockstep
<1>4. Deferred(walks0[a]) \/ ~AtEnd(walks0[a])
  BY <1>0, <1>2, <1>3, WalksIdeal DEF InPlace
<1>5. PICK m, walks, count, cids : InPlace(m, walks, count, cids, a, b) /\ a < m
  BY <1>3, <1>4, Room
<1>6. /\ a + 1 \in 0 .. m /\ tr'[Alice] = walks[a + 1]
      /\ pc'[Alice] = "item" => count[a + 1] > 0 /\ item'[Alice] = cids[count[a + 1]]
      /\ (IF pc'[Alice] = "item" THEN count[a + 1] - 1 ELSE count[a + 1]) = count[a]
  BY <1>0, <1>2, <1>5, Advances DEF InPlace
<1>7. /\ Passed(Alice, count[a]) = count[a]
      /\ Passed(Alice, count[a + 1])' = count[a]
      /\ Passed(Bob, count[b])' = Passed(Bob, count[b])
  BY <1>1, <1>6 DEF Passed
<1>8. InPlace(m, walks, count, cids, a + 1, b)'
  BY <1>1, <1>5, <1>6, <1>7 DEF InPlace
<1> QED  BY <1>8 DEF Lockstep

LEMMA BobWalksInPlace ==
    ASSUME TypeOK, SyncInv, HasInv, Lockstep, Trusted, Walks(Bob)
    PROVE  Lockstep'
<1>0. Alice \in Node /\ Bob \in Node /\ Alice # Bob
  BY TwoNodes DEF Nodes
<1>1. /\ pc[Bob] = "walk" /\ pc'[Alice] = pc[Alice] /\ tr'[Alice] = tr[Alice]
      /\ item'[Alice] = item[Alice] /\ UNCHANGED <<request, frames, conn>>
  BY <1>0, WalksChange
<1>2. (Deferred(tr[Bob]) /\ tr[Bob].prev.codec # Raw) =>
          StoredLinks(tx[Bob], tr[Bob].prev) = LinksOf[tr[Bob].prev.hash]
  BY <1>0, <1>1 DEF SyncInv, HasInv, Accounted, Follows, Received, WalkOk, Knows
<1>3. PICK m0, walks0, count0, cids0, a, b : InPlace(m0, walks0, count0, cids0, a, b)
  BY DEF Lockstep
<1>4. Deferred(walks0[b]) \/ ~AtEnd(walks0[b])
  BY <1>0, <1>2, <1>3, WalksIdeal DEF InPlace
<1>5. PICK m, walks, count, cids : InPlace(m, walks, count, cids, a, b) /\ b < m
  BY <1>3, <1>4, Room
<1>6. /\ b + 1 \in 0 .. m /\ tr'[Bob] = walks[b + 1]
      /\ pc'[Bob] = "item" => count[b + 1] > 0 /\ item'[Bob] = cids[count[b + 1]]
      /\ (IF pc'[Bob] = "item" THEN count[b + 1] - 1 ELSE count[b + 1]) = count[b]
  BY <1>0, <1>2, <1>5, Advances DEF InPlace
<1>7. /\ Passed(Bob, count[b]) = count[b]
      /\ Passed(Bob, count[b + 1])' = count[b]
      /\ Passed(Alice, count[a])' = Passed(Alice, count[a])
  BY <1>1, <1>6 DEF Passed
<1>8. InPlace(m, walks, count, cids, a, b + 1)'
  BY <1>1, <1>5, <1>6, <1>7 DEF InPlace
<1> QED  BY <1>8 DEF Lockstep

(* A frame is written: it is for the last cid that Alice's traversal has   *)
(* yielded.                                                                *)
LEMMA WritesInPlace ==
    ASSUME TypeOK, Lockstep, HasItem(Alice), conn = "open",
           NEW kind, Write(kind), pc'[Alice] # "item", pc'[Bob] = pc[Bob],
           UNCHANGED <<tr, item, request>>
    PROVE  Lockstep'
<1>1. PICK m, walks, count, cids, a, b : InPlace(m, walks, count, cids, a, b)
  BY DEF Lockstep
<1>2. /\ Len(cids) \in Nat /\ count[a] \in 0 .. Len(cids)
      /\ Passed(Bob, count[b]) \in Nat /\ Len(frames) \in Nat
      /\ DOMAIN frames = 1 .. Len(frames)
  BY <1>1, InPlaceFacts
<1>3. /\ count[a] > 0 /\ item[Alice] = cids[count[a]]
      /\ Passed(Bob, count[b]) + Len(frames) = count[a] - 1
      /\ \A j \in DOMAIN frames : frames[j].cid = cids[Passed(Bob, count[b]) + j]
  BY <1>1 DEF InPlace, Passed, HasItem
<1>4. /\ Len(frames') = Len(frames) + 1
      /\ frames'[Len(frames) + 1].cid = item[Alice]
      /\ \A j \in DOMAIN frames' :
             \/ j \in DOMAIN frames /\ frames'[j] = frames[j]
             \/ j = Len(frames) + 1
  BY WrittenFrames
<1>5. Passed(Bob, count[b])' = Passed(Bob, count[b]) /\ Passed(Alice, count[a])' = count[a]
  BY DEF Passed
<1>6. Passed(Bob, count[b]) + Len(frames) + 1 = count[a]
  BY <1>2, <1>3
<1>7. ASSUME NEW j \in DOMAIN frames'
      PROVE  frames'[j].cid = cids[Passed(Bob, count[b]) + j]
  <2>1. CASE j \in DOMAIN frames /\ frames'[j] = frames[j]
    BY <1>3, <2>1
  <2>2. CASE j = Len(frames) + 1
    <3>1. Passed(Bob, count[b]) + j = count[a]
      BY <1>2, <1>6, <2>2
    <3> QED  BY <1>3, <1>4, <2>2, <3>1
  <2> QED  BY <1>4, <2>1, <2>2
<1>8. /\ Passed(Bob, count[b]) + Len(frames') = count[a]
      /\ Passed(Bob, count[b]) + Len(frames') <= Len(cids)
  BY <1>2, <1>4, <1>6
<1>9. InPlace(m, walks, count, cids, a, b)'
  BY <1>1, <1>5, <1>7, <1>8 DEF InPlace
<1> QED  BY <1>9 DEF Lockstep

(* Frames are lost and no more are written. *)
LEMMA LosesInPlace ==
    ASSUME TypeOK, Lockstep, Fewer, conn' # "open",
           pc'[Alice] \in {pc[Alice], "idle"}, pc'[Bob] = pc[Bob],
           UNCHANGED <<tr, item, request>>
    PROVE  Lockstep'
<1>1. PICK m, walks, count, cids, a, b : InPlace(m, walks, count, cids, a, b)
  BY DEF Lockstep
<1>2. Len(cids) \in Nat /\ Passed(Bob, count[b]) \in Nat /\ Len(frames) \in Nat
  BY <1>1, InPlaceFacts
<1>3. Len(frames') \in Nat
  BY DEF Fewer
<1>4. Passed(Bob, count[b])' = Passed(Bob, count[b])
  BY DEF Passed
<1>5. Passed(Bob, count[b]) + Len(frames') <= Len(cids)
  BY <1>1, <1>2, <1>3 DEF InPlace, Fewer
<1>6. InPlace(m, walks, count, cids, a, b)'
  BY <1>1, <1>4, <1>5 DEF InPlace, Fewer
<1> QED  BY <1>6 DEF Lockstep

(* Bob takes the first frame for the cid he waits for. *)
LEMMA ReadsInPlace ==
    ASSUME TypeOK, Lockstep, NEW kind, Reads(kind), Read,
           pc' = [pc EXCEPT ![Bob] = "walk"], UNCHANGED <<tr, item, request>>
    PROVE  Lockstep'
<1>0. Alice \in Node /\ Bob \in Node /\ Alice # Bob
  BY TwoNodes DEF Nodes
<1>1. PICK m, walks, count, cids, a, b : InPlace(m, walks, count, cids, a, b)
  BY DEF Lockstep
<1>2. /\ Len(cids) \in Nat /\ count[b] \in 0 .. Len(cids) /\ Len(frames) \in Nat
      /\ DOMAIN frames = 1 .. Len(frames)
  BY <1>1, InPlaceFacts
<1>3. /\ pc[Bob] = "item" /\ pc'[Bob] = "walk" /\ pc'[Alice] = pc[Alice]
      /\ UNCHANGED conn
  BY <1>0 DEF Reads, HasItem, Read, TypeOK
<1>4. /\ Len(frames') = Len(frames) - 1
      /\ \A j \in DOMAIN frames' : j + 1 \in DOMAIN frames /\ frames'[j] = frames[j + 1]
      /\ DOMAIN frames' \subseteq Nat
  <2>1. frames' = Tail(frames) /\ frames \in Seq(Frame) /\ frames # <<>>
    BY DEF Read, Reads, TypeOK
  <2> QED  BY <2>1, ReadFrames
<1>5. /\ Passed(Bob, count[b]) = count[b] - 1 /\ Passed(Bob, count[b])' = count[b]
      /\ Passed(Alice, count[a])' = Passed(Alice, count[a])
  BY <1>3 DEF Passed
<1>6. /\ count[b] - 1 + Len(frames) <= Len(cids)
      /\ \A j \in DOMAIN frames : frames[j].cid = cids[count[b] - 1 + j]
      /\ conn = "open" => count[b] - 1 + Len(frames) = Passed(Alice, count[a])
  BY <1>1, <1>5 DEF InPlace
<1>7. ASSUME NEW j \in DOMAIN frames'
      PROVE  frames'[j].cid = cids[count[b] + j]
  <2>1. j \in Nat /\ frames'[j].cid = cids[count[b] - 1 + (j + 1)]
    BY <1>4, <1>6
  <2>2. count[b] \in Nat /\ j \in Nat
    BY <1>2, <2>1
  <2>3. count[b] - 1 + (j + 1) = count[b] + j
    BY <2>2
  <2> QED  BY <2>1, <2>3
<1>8. count[b] + Len(frames') = count[b] - 1 + Len(frames)
  BY <1>2, <1>4
<1>9. InPlace(m, walks, count, cids, a, b)'
  BY <1>1, <1>3, <1>5, <1>6, <1>7, <1>8 DEF InPlace
<1> QED  BY <1>9 DEF Lockstep

LEMMA SyncsInPlace ==
    ASSUME NEW q \in Requests, Sync(q)
    PROVE  Lockstep'
<1>1. /\ q \in Request /\ request' = q /\ frames' = <<>> /\ Alice \in Node /\ Bob \in Node
      /\ pc'[Alice] = "walk" /\ pc'[Bob] = "walk"
      /\ tr'[Alice] = GetTraversal(q) /\ tr'[Bob] = GetTraversal(q)
  BY TwoNodes, SyncAssumption DEF Sync, Nodes
<1> DEFINE walks == [i \in 0 .. 0 |-> GetTraversal(q)]
           count == [i \in 0 .. 0 |-> 0]
<1>2. Run(q, 0, walks, count, <<>>)
  BY <1>1, RunStarts
<1>3. walks[0] = GetTraversal(q) /\ count[0] = 0 /\ 0 \in 0 .. 0
  OBVIOUS
<1> HIDE DEF walks, count
<1>4. Passed(Alice, count[0])' = 0 /\ Passed(Bob, count[0])' = 0
  BY <1>1, <1>3 DEF Passed
<1>5. InPlace(0, walks, count, <<>>, 0, 0)'
  BY <1>1, <1>2, <1>3, <1>4 DEF InPlace
<1> QED  BY <1>5 DEF Lockstep

LEMMA LockStep ==
    ASSUME TypeOK, SyncInv, HasInv, LockInv, [Next]_vars
    PROVE  LockInv'
<1> SUFFICES ASSUME Follows(Bob)', FollowsInline', KnowsLinks(Alice)'
             PROVE  Lockstep'
  BY DEF LockInv
<1>0. Alice \in Node /\ Bob \in Node /\ Alice # Bob /\ Node = {Alice, Bob}
  BY TwoNodes DEF Nodes, Node
<1>1. Syncing'
  BY DEF Follows, Syncing
<1>2. CASE ~Syncing
  BY <1>1, <1>2, SyncBegins, SyncsInPlace
<1>3. CASE Syncing
  <2>1. KnowsLinks(Alice) /\ FollowsInline /\ Trusted
    BY <1>1, <1>3, KnowledgeShrinks DEF Trusted
  <2>2. Follows(Bob) => Lockstep
    BY <2>1 DEF LockInv
  <2>3. CASE \E n \in Node : Walks(n)
    <3>1. CASE Walks(Alice)
      <4>1. Follows(Bob)
        BY <1>0, <3>1, WalksChange DEF Follows
      <4> QED  BY <1>3, <2>1, <2>2, <3>1, <4>1, AliceWalks
    <3>2. CASE Walks(Bob)
      <4>1. Follows(Bob)
        BY <1>0, <3>2, WalksChange DEF Follows
      <4> QED  BY <2>1, <2>2, <3>2, <4>1, BobWalksInPlace
    <3> QED  BY <1>0, <2>3, <3>1, <3>2
  <2>4. CASE Send
    <3>1. /\ HasItem(Alice) /\ conn = "open" /\ UNCHANGED <<tr, item, request>>
          /\ pc'[Alice] = "walk" /\ pc'[Bob] = pc[Bob]
          /\ Write("data") \/ Write("hash")
      BY <1>0, <2>4 DEF Send, Goto, TypeOK
    <3> QED  BY <2>2, <3>1, WritesInPlace DEF Follows
  <2>5. CASE HandlerEnds
    <3>1. /\ pc'[Alice] = "idle" /\ pc'[Bob] = pc[Bob] /\ conn' # "open"
          /\ UNCHANGED <<tr, item, request>>
      BY <1>0, <2>5 DEF HandlerEnds, TypeOK
    <3>2. Lockstep
      BY <2>2, <3>1 DEF Follows
    <3>3. CASE Fewer
      BY <3>1, <3>2, <3>3, LosesInPlace
    <3>4. CASE HasItem(Alice) /\ conn = "open" /\ Write("torn")
      BY <3>1, <3>2, <3>4, WritesInPlace
    <3> QED  BY <2>5, <3>3, <3>4 DEF HandlerEnds
  <2>6. CASE Waits
    <3>1. Lockstep /\ UNCHANGED <<pc, tr, item, request>>
      BY <2>2, <2>6 DEF Waits, Follows
    <3>2. CASE UNCHANGED stream
      <4>1. PICK m, walks, count, cids, a, b : InPlace(m, walks, count, cids, a, b)
        BY <3>1 DEF Lockstep
      <4>2. InPlace(m, walks, count, cids, a, b)'
        BY <3>1, <3>2, <4>1 DEF InPlace, Passed, stream
      <4> QED  BY <4>2 DEF Lockstep
    <3>3. CASE conn' = "lost" /\ Fewer
      BY <3>1, <3>3, LosesInPlace
    <3> QED  BY <2>6, <3>2, <3>3 DEF Waits
  <2>7. CASE ReceiveHash \/ ReceiveData
    <3>1. /\ Reads("hash") \/ Reads("data")
          /\ Read /\ Goto(Bob, "walk") /\ UNCHANGED <<tr, item, request>>
      BY <2>7 DEF ReceiveHash, ReceiveData
    <3> QED  BY <2>2, <3>1, ReadsInPlace DEF Goto, Follows, Reads, HasItem
  <2>8. CASE BobFinishes \/ ReceiveEof
    BY <1>0, <2>8 DEF BobFinishes, ReceiveEof, Goto, TypeOK, Follows
  <2> QED  BY <1>1, <1>3, <2>3, <2>4, <2>5, <2>6, <2>7, <2>8, StepsOfSync
<1> QED  BY <1>2, <1>3

LEMMA LockstepIsInStep ==
    ASSUME TypeOK, LockInv
    PROVE  InStep
<1> SUFFICES ASSUME FollowsInline, KnowsLinks(Alice), HasItem(Bob), frames # <<>>
             PROVE  NextFrame.cid = item[Bob]
  BY DEF InStep, FrameMeetsItem
<1>1. pc[Bob] = "item" /\ Lockstep
  BY DEF HasItem, Follows, LockInv
<1>2. PICK m, walks, count, cids, a, b : InPlace(m, walks, count, cids, a, b)
  BY <1>1 DEF Lockstep
<1>3. NextFrame = frames[1] /\ 1 \in DOMAIN frames
  BY DEF NextFrame, TypeOK
<1>4. /\ item[Bob] = cids[count[b]] /\ Passed(Bob, count[b]) = count[b] - 1
      /\ frames[1].cid = cids[Passed(Bob, count[b]) + 1]
  BY <1>1, <1>2, <1>3 DEF InPlace, Passed
<1>5. count[b] - 1 + 1 = count[b]
  BY <1>2, InPlaceFacts
<1> QED  BY <1>3, <1>4, <1>5

(* The inductive invariant of a sync. *)
InStepInv == TypeOK /\ SyncInv /\ HasInv /\ LockInv

LEMMA InStepInvInit == Init => InStepInv
<1> SUFFICES ASSUME Init PROVE InStepInv
  OBVIOUS
<1>1. pc[Bob] = "idle"
  BY TwoNodes DEF Init, Nodes
<1>2. TypeOK /\ SyncInv
  BY DagInit, SyncInvInit
<1>3. HasInv /\ LockInv
  BY <1>1 DEF HasInv, LockInv, Accounted, Follows
<1> QED  BY <1>2, <1>3 DEF InStepInv

LEMMA InStepInvStep == InStepInv /\ [Next]_vars => InStepInv'
<1> SUFFICES ASSUME InStepInv, [Next]_vars PROVE InStepInv'
  OBVIOUS
<1>1. TypeOK /\ SyncInv /\ HasInv /\ LockInv
  BY DEF InStepInv
<1>2. TypeOK' /\ SyncInv'
  BY <1>1, DagStep, SyncInvStep
<1>3. InStep
  BY <1>1, LockstepIsInStep
<1>4. HasInv' /\ LockInv'
  BY <1>1, <1>3, HasStep, LockStep
<1> QED  BY <1>2, <1>4 DEF InStepInv

(* The two traversals stay in step for every DAG, every pair of databases, *)
(* every request and every window, whichever frames are lost and whoever   *)
(* fails: a frame that Bob reads was sent for the cid he waits for,        *)
(* provided that what is followed is sent inline and that Alice knows the  *)
(* links of what she has.                                                  *)
THEOREM TraversalsStayInStep == Spec => []InStep
<1>1. InStepInv => InStep
  BY LockstepIsInStep DEF InStepInv
<1> QED  BY <1>1, InStepInvInit, InStepInvStep, PTL DEF Spec

LEMMA FinishedIsComplete ==
    ASSUME TypeOK, SyncInv, HasInv
    PROVE  CompleteIsComplete
<1> SUFFICES ASSUME pc[Bob] = "commit", result = "complete", request.full, Trusted
             PROVE  /\ request.roots[1] \in tr[Bob].visited
                    /\ \A cid \in tr[Bob].visited \ request.visited :
                        /\ cid.codec \in request.pass \cap request.inline =>
                               Blake3Hash(tx[Bob], cid) = cid.hash
                        /\ cid.codec # Raw =>
                            \A i \in DOMAIN LinksOf[cid.hash] :
                                LinksOf[cid.hash][i] \in tr[Bob].visited
  BY DEF CompleteIsComplete, Trusted
<1>1. Received /\ Closed(request, tr[Bob])
  BY DEF HasInv, Accounted
<1>2. tr[Bob].prev = NoCid /\ tr[Bob].stack = <<>>
  BY DEF SyncInv, AtEnd, Deferred
<1>3. Reached(tr[Bob]) = tr[Bob].visited
  BY <1>2 DEF Reached, Pending, Elements
<1>4. ASSUME NEW cid \in tr[Bob].visited
      PROVE  cid # tr[Bob].prev
  BY <1>2, TwoNodes, DagAssumption DEF TypeOK, Traversal, Nodes
<1> QED  BY <1>1, <1>3, <1>4 DEF Received, Closed, Knows

(* A sync that came to the end of its traversal is complete, for every DAG *)
(* and all databases: what Bob then commits maps every cid that can be     *)
(* reached from the root without passing what he said he had, and none of  *)
(* their links was forgotten, although his traversal put off reading links *)
(* until their blocks arrived.                                             *)
THEOREM CompleteSyncsAreComplete == Spec => []CompleteIsComplete
<1>1. InStepInv => CompleteIsComplete
  BY FinishedIsComplete DEF InStepInv
<1> QED  BY <1>1, InStepInvInit, InStepInvStep, PTL DEF Spec
----------------------------------------------------------------------------
(* The order of visits *)

LEMMA LinksAtType ==
    ASSUME NEW q \in Request, NEW listing \in Seq(Cid), NEW j \in 0 .. Len(listing)
    PROVE  LinksAt(q, listing, j) \in Seq(Cid)
<1>1. CASE j = 0
  BY <1>1 DEF LinksAt, Request
<1>2. CASE j # 0
  <2>1. listing[j] \in Cid
    BY <1>2
  <2>2. LinksOf[listing[j].hash] \in Seq(Cid)
    BY <2>1, DagAssumption DEF Cid
  <2>3. <<>> \in Seq(Cid)
    OBVIOUS
  <2> QED  BY <1>2, <2>2, <2>3 DEF LinksAt
<1> QED  BY <1>1, <1>2

LEMMA Appended ==
    ASSUME NEW q, NEW listing \in Seq(Cid), NEW cid \in Cid
    PROVE  /\ Append(listing, cid) \in Seq(Cid) /\ Len(Append(listing, cid)) = Len(listing) + 1
           /\ \A j \in 0 .. Len(listing) :
                  LinksAt(q, Append(listing, cid), j) = LinksAt(q, listing, j)
           /\ \A k \in 1 .. Len(listing) + 1 :
                  Before(q, Append(listing, cid), k) = Before(q, listing, k)
           /\ Before(q, Append(listing, cid), Len(listing) + 2) =
                  Before(q, listing, Len(listing) + 1) \cup {cid}
<1> DEFINE longer == Append(listing, cid)
<1>1. /\ longer \in Seq(Cid) /\ Len(listing) \in Nat /\ Len(longer) = Len(listing) + 1
      /\ longer[Len(listing) + 1] = cid /\ \A i \in 1 .. Len(listing) : longer[i] = listing[i]
  BY AppendFacts
<1> HIDE DEF longer
<1>2. \A j \in 0 .. Len(listing) : LinksAt(q, longer, j) = LinksAt(q, listing, j)
  BY <1>1 DEF LinksAt
<1>3. ASSUME NEW k \in 1 .. Len(listing) + 1
      PROVE  Before(q, longer, k) = Before(q, listing, k)
  <2>1. \A i \in 1 .. k - 1 : i \in 1 .. Len(listing)
    BY <1>1
  <2> QED  BY <1>1, <2>1 DEF Before
<1>4. Before(q, longer, Len(listing) + 2) = Before(q, listing, Len(listing) + 1) \cup {cid}
  <2>1. 1 .. (Len(listing) + 2) - 1 = (1 .. Len(listing)) \cup {Len(listing) + 1}
    BY <1>1
  <2>2. (Len(listing) + 1) - 1 = Len(listing)
    BY <1>1
  <2> QED  BY <1>1, <2>1, <2>2 DEF Before
<1> QED  BY <1>1, <1>2, <1>3, <1>4 DEF longer

(* A listing goes on with the first new link of the last cid that has one. *)
LEMMA GoesOn ==
    ASSUME NEW q, NEW listing \in Seq(Cid), NEW cid \in Cid, NEW before,
           before = Before(q, listing, Len(listing) + 1),
           InPreOrder(q, listing), cid \notin before,
           NEW j \in 0 .. Len(listing), NEW i \in DOMAIN LinksAt(q, listing, j),
           cid = LinksAt(q, listing, j)[i],
           \A h \in 1 .. i - 1 : LinksAt(q, listing, j)[h] \in before,
           \A l \in j + 1 .. Len(listing) : \A h \in DOMAIN LinksAt(q, listing, l) :
               LinksAt(q, listing, l)[h] \in before
    PROVE  InPreOrder(q, Append(listing, cid))
<1> DEFINE longer == Append(listing, cid)
           Comes(s, k) == \E m \in 0 .. k - 1 :
                /\ \E p \in DOMAIN LinksAt(q, s, m) :
                    /\ s[k] = LinksAt(q, s, m)[p]
                    /\ \A h \in 1 .. p - 1 : LinksAt(q, s, m)[h] \in Before(q, s, k)
                /\ \A l \in m + 1 .. k - 1 : \A p \in DOMAIN LinksAt(q, s, l) :
                       LinksAt(q, s, l)[p] \in Before(q, s, k)
<1>1. /\ Len(listing) \in Nat /\ DOMAIN listing = 1 .. Len(listing)
      /\ DOMAIN longer = 1 .. Len(listing) + 1
      /\ longer[Len(listing) + 1] = cid /\ \A k \in 1 .. Len(listing) : longer[k] = listing[k]
  BY AppendFacts
<1>2. /\ \A m \in 0 .. Len(listing) : LinksAt(q, longer, m) = LinksAt(q, listing, m)
      /\ \A k \in 1 .. Len(listing) + 1 : Before(q, longer, k) = Before(q, listing, k)
  BY Appended
<1> HIDE DEF longer
<1> SUFFICES ASSUME NEW k \in 1 .. Len(listing) + 1
             PROVE  longer[k] \notin Before(q, longer, k) /\ Comes(longer, k)
  BY <1>1 DEF InPreOrder, longer
<1>3. \A m \in 0 .. k - 1 : LinksAt(q, longer, m) = LinksAt(q, listing, m)
  BY <1>1, <1>2
<1>4. Before(q, longer, k) = Before(q, listing, k)
  BY <1>2
<1>5. CASE k \in 1 .. Len(listing)
  <2>1. listing[k] \notin Before(q, listing, k) /\ Comes(listing, k)
    BY <1>1, <1>5 DEF InPreOrder
  <2>2. longer[k] = listing[k]
    BY <1>1, <1>5
  <2>3. PICK m \in 0 .. k - 1 :
            /\ \E p \in DOMAIN LinksAt(q, listing, m) :
                /\ listing[k] = LinksAt(q, listing, m)[p]
                /\ \A h \in 1 .. p - 1 : LinksAt(q, listing, m)[h] \in Before(q, listing, k)
            /\ \A l \in m + 1 .. k - 1 : \A p \in DOMAIN LinksAt(q, listing, l) :
                   LinksAt(q, listing, l)[p] \in Before(q, listing, k)
    BY <2>1
  <2>4. \A l \in m + 1 .. k - 1 : l \in 0 .. k - 1
    BY <1>1
  <2>5. Comes(longer, k)
    BY <1>3, <1>4, <2>2, <2>3, <2>4
  <2> QED  BY <1>4, <2>1, <2>2, <2>5
<1>6. CASE k = Len(listing) + 1
  <2>1. k - 1 = Len(listing) /\ longer[k] = cid /\ Before(q, longer, k) = before
    BY <1>1, <1>4, <1>6
  <2>2. \A l \in j + 1 .. k - 1 : l \in 0 .. k - 1
    BY <1>1
  <2>3. LinksAt(q, longer, j) = LinksAt(q, listing, j)
    BY <1>2
  <2> QED  BY <1>3, <2>1, <2>2, <2>3
<1> QED  BY <1>1, <1>5, <1>6

(* Every cid on the stack is a link of the listing, each of which stands   *)
(* there at most once: links of cids listed later stand higher, and the    *)
(* first link of a cid on top.  A link that is not there has been visited, *)
(* unless the links of its cid, the last, are still to be read.            *)
Placed(q, walk, listing, own, link) ==
    LET last == Len(listing)
    IN /\ listing \in Seq(Cid) /\ InPreOrder(q, listing)
       /\ walk.visited = Before(q, listing, last + 1)
       /\ Deferred(walk) => last > 0 /\ walk.prev = listing[last]
       /\ \A p \in DOMAIN walk.stack :
            /\ own[p] \in 0 .. last
            /\ Deferred(walk) => own[p] # last
            /\ link[p] \in DOMAIN LinksAt(q, listing, own[p])
            /\ walk.stack[p] = LinksAt(q, listing, own[p])[link[p]]
       /\ \A p, r \in DOMAIN walk.stack :
            p < r => own[r] < own[p] \/ (own[r] = own[p] /\ link[p] < link[r])
       /\ \A j \in 0 .. last :
            (Deferred(walk) => j # last) =>
                \A i \in DOMAIN LinksAt(q, listing, j) :
                    \/ LinksAt(q, listing, j)[i] \in walk.visited
                    \/ \E p \in DOMAIN walk.stack : own[p] = j /\ link[p] = i

InOrder(q, walk) == \E listing, own, link : Placed(q, walk, listing, own, link)

LEMMA StartsInOrder ==
    ASSUME NEW q \in Request, q.full
    PROVE  InOrder(q, GetTraversal(q))
<1> DEFINE own == [p \in {1} |-> 0]
           link == [p \in {1} |-> 1]
<1>1. q.roots \in Seq(Cid) /\ DOMAIN q.roots = {1}
  <2>1. q.roots \in Seq(Cid) /\ Len(q.roots) = 1
    BY DEF Request
  <2>2. 1 .. 1 = {1}
    OBVIOUS
  <2> QED  BY <2>1, <2>2
<1>2. <<>> \in Seq(Cid) /\ Len(<<>>) = 0 /\ DOMAIN <<>> = {}
  OBVIOUS
<1>3. InPreOrder(q, <<>>)
  BY <1>2 DEF InPreOrder
<1>4. Before(q, <<>>, 0 + 1) = q.visited
  <2>1. 1 .. (0 + 1) - 1 = {}
    OBVIOUS
  <2> QED  BY <2>1 DEF Before
<1>5. LinksAt(q, <<>>, 0) = q.roots
  BY DEF LinksAt
<1>6. own[1] = 0 /\ link[1] = 1 /\ 0 \in 0 .. 0 /\ \A j \in 0 .. 0 : j = 0
  OBVIOUS
<1> HIDE DEF own, link
<1>7. Placed(q, GetTraversal(q), <<>>, own, link)
  BY <1>1, <1>2, <1>3, <1>4, <1>5, <1>6 DEF Placed, GetTraversal, Deferred
<1> QED  BY <1>7 DEF InOrder

(* The links of the last cid come on top of all others. *)
LEMMA ExpandsInOrder ==
    ASSUME NEW q \in Request, NEW walk \in Traversal, Deferred(walk), InOrder(q, walk)
    PROVE  InOrder(q, Ideal(walk))
<1>0. PICK listing, own, link : Placed(q, walk, listing, own, link)
  BY DEF InOrder
<1> DEFINE last == Len(listing)
           links == LinksAt(q, listing, last)
           n == Len(links)
           ideal == Ideal(walk)
           own2 == [p \in DOMAIN ideal.stack |-> IF p <= n THEN last ELSE own[p - n]]
           link2 == [p \in DOMAIN ideal.stack |-> IF p <= n THEN p ELSE link[p - n]]
<1>1. /\ listing \in Seq(Cid) /\ last \in Nat /\ last > 0 /\ last \in 0 .. last
      /\ walk.prev = listing[last] /\ walk.stack \in Seq(Cid) /\ Len(walk.stack) \in Nat
      /\ DOMAIN walk.stack = 1 .. Len(walk.stack)
  BY <1>0 DEF Placed, Traversal
<1>2. links \in Seq(Cid) /\ n \in Nat /\ DOMAIN links = 1 .. n
  BY <1>1, LinksAtType
<1>3. links = IF walk.prev.codec = Raw THEN <<>> ELSE LinksOf[walk.prev.hash]
  BY <1>1 DEF LinksAt
<1>4. ideal.visited = walk.visited /\ ~Deferred(ideal)
  BY DEF Ideal, Deferred, Traversal
<1>5. /\ DOMAIN ideal.stack = 1 .. n + Len(walk.stack)
      /\ \A p \in 1 .. n : ideal.stack[p] = links[p]
      /\ \A p \in DOMAIN walk.stack : ideal.stack[n + p] = walk.stack[p]
  <2>1. CASE walk.prev.codec = Raw
    <3>1. ideal.stack = walk.stack /\ n = 0
      BY <1>3, <2>1 DEF Ideal, Traversal
    <3> QED  BY <1>1, <3>1
  <2>2. CASE walk.prev.codec # Raw
    <3>1. ideal.stack = links \o walk.stack
      BY <1>3, <2>2 DEF Ideal, Traversal
    <3> HIDE DEF ideal, links
    <3> QED  BY <1>1, <1>2, <3>1
  <2> QED  BY <2>1, <2>2
<1> HIDE DEF ideal, links, n, last
<1>6. /\ \A p \in 1 .. n : /\ p \in DOMAIN ideal.stack
                           /\ own2[p] = last /\ link2[p] = p
      /\ \A p \in DOMAIN walk.stack : /\ n + p \in DOMAIN ideal.stack
                                      /\ own2[n + p] = own[p] /\ link2[n + p] = link[p]
  BY <1>1, <1>2, <1>5
<1>7. \A p \in DOMAIN ideal.stack :
          p \in 1 .. n \/ \E o \in DOMAIN walk.stack : p = n + o
  <2> SUFFICES ASSUME NEW p \in DOMAIN ideal.stack, p \notin 1 .. n
               PROVE  p - n \in DOMAIN walk.stack /\ p = n + (p - n)
    OBVIOUS
  <2> QED  BY <1>1, <1>2, <1>5
<1> HIDE DEF own2, link2
<1>8. /\ InPreOrder(q, listing) /\ walk.visited = Before(q, listing, last + 1)
      /\ \A p \in DOMAIN walk.stack :
            /\ own[p] \in 0 .. last /\ own[p] # last
            /\ link[p] \in DOMAIN LinksAt(q, listing, own[p])
            /\ walk.stack[p] = LinksAt(q, listing, own[p])[link[p]]
      /\ \A p, r \in DOMAIN walk.stack :
            p < r => own[r] < own[p] \/ (own[r] = own[p] /\ link[p] < link[r])
      /\ \A j \in 0 .. last : j # last =>
            \A i \in DOMAIN LinksAt(q, listing, j) :
                \/ LinksAt(q, listing, j)[i] \in walk.visited
                \/ \E p \in DOMAIN walk.stack : own[p] = j /\ link[p] = i
  BY <1>0 DEF Placed, last
<1>9. ASSUME NEW p \in DOMAIN ideal.stack
      PROVE  /\ own2[p] \in 0 .. last
             /\ link2[p] \in DOMAIN LinksAt(q, listing, own2[p])
             /\ ideal.stack[p] = LinksAt(q, listing, own2[p])[link2[p]]
  <2>1. CASE p \in 1 .. n
    BY <1>1, <1>2, <1>5, <1>6, <2>1 DEF links
  <2>2. ASSUME NEW o \in DOMAIN walk.stack, p = n + o
        PROVE  /\ own2[p] = own[o] /\ link2[p] = link[o] /\ ideal.stack[p] = walk.stack[o]
    BY <1>5, <1>6, <2>2
  <2> QED  BY <1>7, <1>8, <2>1, <2>2
<1>10. ASSUME NEW p \in DOMAIN ideal.stack, NEW r \in DOMAIN ideal.stack, p < r
       PROVE  own2[r] < own2[p] \/ (own2[r] = own2[p] /\ link2[p] < link2[r])
  <2>1. CASE p \in 1 .. n /\ r \in 1 .. n
    BY <1>6, <1>10, <2>1
  <2>2. ASSUME p \in 1 .. n, NEW o \in DOMAIN walk.stack, r = n + o
        PROVE  own2[r] < own2[p]
    <3>1. own2[r] = own[o] /\ own2[p] = last
      BY <1>6, <2>2
    <3>2. own[o] \in 0 .. last /\ own[o] # last
      BY <1>8
    <3> QED  BY <1>1, <3>1, <3>2
  <2>3. ASSUME NEW o \in DOMAIN walk.stack, p = n + o
        PROVE  \E u \in DOMAIN walk.stack : r = n + u /\ o < u
    <3>1. r \notin 1 .. n
      BY <1>1, <1>2, <1>10, <2>3
    <3>2. PICK u \in DOMAIN walk.stack : r = n + u
      BY <1>7, <3>1
    <3> QED  BY <1>1, <1>2, <1>10, <2>3, <3>2
  <2>4. ASSUME NEW o \in DOMAIN walk.stack, p = n + o
        PROVE  own2[r] < own2[p] \/ (own2[r] = own2[p] /\ link2[p] < link2[r])
    <3>1. PICK u \in DOMAIN walk.stack : r = n + u /\ o < u
      BY <2>3, <2>4
    <3>2. own2[r] = own[u] /\ link2[r] = link[u] /\ own2[p] = own[o] /\ link2[p] = link[o]
      BY <1>6, <2>4, <3>1
    <3> QED  BY <1>8, <3>1, <3>2
  <2> QED  BY <1>7, <2>1, <2>2, <2>4
<1>11. ASSUME NEW j \in 0 .. last, NEW i \in DOMAIN LinksAt(q, listing, j)
       PROVE  \/ LinksAt(q, listing, j)[i] \in walk.visited
              \/ \E p \in DOMAIN ideal.stack : own2[p] = j /\ link2[p] = i
  <2>1. CASE j = last
    <3>1. i \in 1 .. n
      BY <1>2, <2>1 DEF links
    <3> QED  BY <1>6, <2>1, <3>1
  <2>2. CASE j # last
    BY <1>6, <1>8, <2>2
  <2> QED  BY <2>1, <2>2
<1>12. Placed(q, ideal, listing, own2, link2)
  BY <1>1, <1>4, <1>8, <1>9, <1>10, <1>11 DEF Placed, last
<1> QED  BY <1>12 DEF InOrder, ideal

LEMMA TailFacts ==
    ASSUME NEW s \in Seq(Cid), s # <<>>
    PROVE  /\ 1 \in DOMAIN s /\ Head(s) = s[1]
           /\ \A p \in DOMAIN Tail(s) : p + 1 \in DOMAIN s /\ Tail(s)[p] = s[p + 1]
           /\ \A p \in DOMAIN s : p # 1 =>
                  p - 1 \in DOMAIN Tail(s) /\ p - 1 + 1 = p
           /\ DOMAIN s \subseteq Nat \ {0} /\ DOMAIN Tail(s) \subseteq Nat \ {0}
OBVIOUS

(* A cid that was visited is passed over. *)
LEMMA SkipsInOrder ==
    ASSUME NEW q \in Request, NEW walk \in Traversal, ~Deferred(walk), ~AtEnd(walk),
           AlreadyVisited(walk), InOrder(q, walk)
    PROVE  InOrder(q, Ideal(walk))
<1>0. PICK listing, own, link : Placed(q, walk, listing, own, link)
  BY DEF InOrder
<1> DEFINE rest == Tail(walk.stack)
           own2 == [p \in DOMAIN rest |-> own[p + 1]]
           link2 == [p \in DOMAIN rest |-> link[p + 1]]
           ideal == Ideal(walk)
<1>1. /\ 1 \in DOMAIN walk.stack /\ Top(walk) = walk.stack[1]
      /\ \A p \in DOMAIN rest : p + 1 \in DOMAIN walk.stack /\ rest[p] = walk.stack[p + 1]
      /\ \A p \in DOMAIN walk.stack : p # 1 => p - 1 \in DOMAIN rest /\ p - 1 + 1 = p
      /\ DOMAIN rest \subseteq Nat
  BY TailFacts DEF AtEnd, Top, Traversal
<1>2. Top(walk) \in walk.visited
  BY DEF AlreadyVisited
<1>3. ideal.visited = walk.visited /\ ideal.stack = rest /\ ~Deferred(ideal)
  BY DEF Ideal, Popped, Deferred, Traversal
<1> HIDE DEF ideal, rest
<1>4. \A p \in DOMAIN rest : own2[p] = own[p + 1] /\ link2[p] = link[p + 1]
  OBVIOUS
<1> HIDE DEF own2, link2
<1>5. /\ listing \in Seq(Cid) /\ InPreOrder(q, listing)
      /\ walk.visited = Before(q, listing, Len(listing) + 1)
      /\ \A p \in DOMAIN walk.stack :
            /\ own[p] \in 0 .. Len(listing)
            /\ link[p] \in DOMAIN LinksAt(q, listing, own[p])
            /\ walk.stack[p] = LinksAt(q, listing, own[p])[link[p]]
      /\ \A p, r \in DOMAIN walk.stack :
            p < r => own[r] < own[p] \/ (own[r] = own[p] /\ link[p] < link[r])
      /\ \A j \in 0 .. Len(listing) :
            \A i \in DOMAIN LinksAt(q, listing, j) :
                \/ LinksAt(q, listing, j)[i] \in walk.visited
                \/ \E p \in DOMAIN walk.stack : own[p] = j /\ link[p] = i
  BY <1>0 DEF Placed
<1>6. ASSUME NEW p \in DOMAIN rest
      PROVE  /\ own2[p] \in 0 .. Len(listing)
             /\ link2[p] \in DOMAIN LinksAt(q, listing, own2[p])
             /\ rest[p] = LinksAt(q, listing, own2[p])[link2[p]]
  BY <1>1, <1>4, <1>5
<1>7. ASSUME NEW p \in DOMAIN rest, NEW r \in DOMAIN rest, p < r
      PROVE  own2[r] < own2[p] \/ (own2[r] = own2[p] /\ link2[p] < link2[r])
  <2>1. p + 1 < r + 1
    BY <1>1, <1>7
  <2> QED  BY <1>1, <1>4, <1>5, <2>1
<1>8. ASSUME NEW j \in 0 .. Len(listing), NEW i \in DOMAIN LinksAt(q, listing, j)
      PROVE  \/ LinksAt(q, listing, j)[i] \in walk.visited
             \/ \E p \in DOMAIN rest : own2[p] = j /\ link2[p] = i
  <2> SUFFICES ASSUME LinksAt(q, listing, j)[i] \notin walk.visited
               PROVE  \E p \in DOMAIN rest : own2[p] = j /\ link2[p] = i
    OBVIOUS
  <2>1. PICK p \in DOMAIN walk.stack : own[p] = j /\ link[p] = i
    BY <1>5
  <2>2. p # 1
    BY <1>1, <1>2, <1>5, <2>1
  <2>3. p - 1 \in DOMAIN rest /\ own2[p - 1] = j /\ link2[p - 1] = i
    BY <1>1, <1>4, <2>1, <2>2
  <2> QED  BY <2>3
<1>9. Placed(q, ideal, listing, own2, link2)
  BY <1>3, <1>5, <1>6, <1>7, <1>8 DEF Placed
<1> QED  BY <1>9 DEF InOrder, ideal

(* The cid at the top is the next in pre-order. *)
LEMMA VisitsInOrder ==
    ASSUME NEW q \in Request, NEW walk \in Traversal, ~Deferred(walk), ~AtEnd(walk),
           ~AlreadyVisited(walk), walk.full, InOrder(q, walk)
    PROVE  InOrder(q, Ideal(walk))
<1>0. PICK listing, own, link : Placed(q, walk, listing, own, link)
  BY DEF InOrder
<1> DEFINE rest == Tail(walk.stack)
           own2 == [p \in DOMAIN rest |-> own[p + 1]]
           link2 == [p \in DOMAIN rest |-> link[p + 1]]
           ideal == Ideal(walk)
           top == Top(walk)
           longer == Append(listing, top)
           last == Len(listing)
<1>1. /\ 1 \in DOMAIN walk.stack /\ top = walk.stack[1] /\ top \in Cid
      /\ \A p \in DOMAIN rest : p + 1 \in DOMAIN walk.stack /\ rest[p] = walk.stack[p + 1]
      /\ \A p \in DOMAIN walk.stack : p # 1 => p - 1 \in DOMAIN rest /\ p - 1 + 1 = p
      /\ DOMAIN rest \subseteq Nat /\ DOMAIN walk.stack \subseteq Nat \ {0}
  BY TailFacts, TopType DEF AtEnd, Top, Traversal
<1>2. top \notin walk.visited
  BY DEF AlreadyVisited
<1>3. /\ ideal.visited = walk.visited \cup {top} /\ ideal.stack = rest
      /\ Deferred(ideal) /\ ideal.prev = top
  BY <1>1, DagAssumption DEF Ideal, Visited, Popped, Deferred, Traversal
<1> HIDE DEF ideal, rest, top
<1>4. \A p \in DOMAIN rest : own2[p] = own[p + 1] /\ link2[p] = link[p + 1]
  OBVIOUS
<1> HIDE DEF own2, link2
<1>5. /\ listing \in Seq(Cid) /\ InPreOrder(q, listing) /\ last \in Nat
      /\ walk.visited = Before(q, listing, last + 1)
      /\ \A p \in DOMAIN walk.stack :
            /\ own[p] \in 0 .. last
            /\ link[p] \in DOMAIN LinksAt(q, listing, own[p])
            /\ walk.stack[p] = LinksAt(q, listing, own[p])[link[p]]
      /\ \A p, r \in DOMAIN walk.stack :
            p < r => own[r] < own[p] \/ (own[r] = own[p] /\ link[p] < link[r])
      /\ \A j \in 0 .. last :
            \A i \in DOMAIN LinksAt(q, listing, j) :
                \/ LinksAt(q, listing, j)[i] \in walk.visited
                \/ \E p \in DOMAIN walk.stack : own[p] = j /\ link[p] = i
  BY <1>0 DEF Placed
<1>6. /\ longer \in Seq(Cid) /\ Len(longer) = last + 1 /\ longer[last + 1] = top
      /\ \A j \in 0 .. last : LinksAt(q, longer, j) = LinksAt(q, listing, j)
      /\ Before(q, longer, last + 2) = walk.visited \cup {top}
  BY <1>1, <1>5, Appended, AppendFacts
<1>7. InPreOrder(q, longer)
  <2>1. own[1] \in 0 .. last /\ link[1] \in DOMAIN LinksAt(q, listing, own[1])
    BY <1>1, <1>5
  <2>2. top = LinksAt(q, listing, own[1])[link[1]]
    BY <1>1, <1>5
  <2>3. LinksAt(q, listing, own[1]) \in Seq(Cid)
    BY <1>5, <2>1, LinksAtType
  <2>4. ASSUME NEW h \in 1 .. link[1] - 1
        PROVE  LinksAt(q, listing, own[1])[h] \in walk.visited
    <3>1. h \in DOMAIN LinksAt(q, listing, own[1]) /\ h < link[1] /\ link[1] \in Nat
      BY <2>1, <2>3
    <3> SUFFICES ASSUME NEW p \in DOMAIN walk.stack, own[p] = own[1], link[p] = h
                 PROVE  FALSE
      BY <1>5, <2>1, <3>1
    <3>2. p = 1 \/ 1 < p
      BY <1>1
    <3>3. 1 < p => own[p] < own[1] \/ link[1] < link[p]
      BY <1>1, <1>5
    <3> QED  BY <2>1, <3>1, <3>2, <3>3
  <2>5. ASSUME NEW l \in own[1] + 1 .. last, NEW h \in DOMAIN LinksAt(q, listing, l)
        PROVE  LinksAt(q, listing, l)[h] \in walk.visited
    <3>1. l \in 0 .. last /\ own[1] < l
      BY <1>5, <2>1
    <3> SUFFICES ASSUME NEW p \in DOMAIN walk.stack, own[p] = l
                 PROVE  FALSE
      BY <1>5, <3>1
    <3>2. p = 1 \/ 1 < p
      BY <1>1
    <3>3. 1 < p => own[p] <= own[1]
      BY <1>1, <1>5
    <3> QED  BY <2>1, <3>1, <3>2, <3>3
  <2> QED  BY <1>1, <1>2, <1>5, <2>1, <2>2, <2>4, <2>5, GoesOn
<1> HIDE DEF longer, last
<1>8. ASSUME NEW p \in DOMAIN rest
      PROVE  /\ own2[p] \in 0 .. last + 1 /\ own2[p] # last + 1
             /\ link2[p] \in DOMAIN LinksAt(q, longer, own2[p])
             /\ rest[p] = LinksAt(q, longer, own2[p])[link2[p]]
  <2>1. /\ own2[p] \in 0 .. last
        /\ link2[p] \in DOMAIN LinksAt(q, listing, own2[p])
        /\ rest[p] = LinksAt(q, listing, own2[p])[link2[p]]
    BY <1>1, <1>4, <1>5
  <2>2. LinksAt(q, longer, own2[p]) = LinksAt(q, listing, own2[p])
    BY <1>6, <2>1
  <2>3. own2[p] \in 0 .. last + 1 /\ own2[p] # last + 1
    BY <1>5, <2>1
  <2> QED  BY <2>1, <2>2, <2>3
<1>9. ASSUME NEW p \in DOMAIN rest, NEW r \in DOMAIN rest, p < r
      PROVE  own2[r] < own2[p] \/ (own2[r] = own2[p] /\ link2[p] < link2[r])
  <2>1. p + 1 < r + 1
    BY <1>1, <1>9
  <2>2. \/ own[r + 1] < own[p + 1]
        \/ own[r + 1] = own[p + 1] /\ link[p + 1] < link[r + 1]
    BY <1>1, <1>5, <2>1
  <2> QED  BY <1>4, <2>2
<1>10. ASSUME NEW j \in 0 .. last + 1, j # last + 1, NEW i \in DOMAIN LinksAt(q, longer, j)
       PROVE  \/ LinksAt(q, longer, j)[i] \in walk.visited \cup {top}
              \/ \E p \in DOMAIN rest : own2[p] = j /\ link2[p] = i
  <2>1. j \in 0 .. last
    BY <1>5, <1>10
  <2>2. LinksAt(q, longer, j) = LinksAt(q, listing, j)
    BY <1>6, <2>1
  <2> SUFFICES ASSUME LinksAt(q, longer, j)[i] \notin walk.visited \cup {top}
               PROVE  \E p \in DOMAIN rest : own2[p] = j /\ link2[p] = i
    OBVIOUS
  <2>3. PICK p \in DOMAIN walk.stack : own[p] = j /\ link[p] = i
    BY <1>5, <2>1, <2>2
  <2>4. p # 1
    BY <1>1, <1>5, <2>2, <2>3
  <2>5. p - 1 \in DOMAIN rest /\ own2[p - 1] = j /\ link2[p - 1] = i
    BY <1>1, <1>4, <2>3, <2>4
  <2> QED  BY <2>5
<1>11. (last + 1) + 1 = last + 2 /\ last + 1 > 0
  BY <1>5
<1>12. Placed(q, ideal, longer, own2, link2)
  BY <1>3, <1>6, <1>7, <1>8, <1>9, <1>10, <1>11 DEF Placed
<1> QED  BY <1>12 DEF InOrder, ideal

Underway(n) == pc[n] \in {"walk", "item", "commit"}

(* The node knew the links of a cid when it had to read them. *)
ReadLinks(n) ==
    \A cid \in tr[n].visited \ request.visited :
        (cid # tr[n].prev /\ cid.codec # Raw /\ Blake3Hash(tx[n], cid) # NoBlock)
            => StoredLinks(tx[n], cid) = LinksOf[cid.hash]

(* The inductive invariant for the order. *)
OrderInv ==
    \A n \in Node :
        (Underway(n) /\ request.full /\ Truthful(n) /\ ReadLinks(n))
            => InOrder(request, tr[n])

(* A sync adds nothing false to what is committed. *)
AddInv ==
    \A n \in Node : pc[n] # "import" =>
        \A hash \in Block : tx[n].blake3[hash] \in {hash, tables[n].blake3[hash]}

(* Outside of imports a transaction is begun, committed or dropped, left   *)
(* alone, or receives data.                                                *)
LEMMA StepsOfTables ==
    ASSUME TypeOK, [Next]_vars, NEW n \in Node, pc'[n] # "import"
    PROVE  \/ tx'[n] = tables'[n]
           \/ pc[n] # "import" /\ tx'[n] = tx[n] /\ tables'[n] = tables[n]
           \/ n = Bob /\ ReceiveData
<1>0. Alice \in Node /\ Bob \in Node /\ Alice # Bob /\ Node = {Alice, Bob}
  BY TwoNodes DEF Nodes, Node
<1> USE <1>0
<1>1. CASE UNCHANGED vars
  BY <1>1 DEF vars, db
<1>2. ASSUME NEW k \in Node, NEW file \in Cars[k], Import(k, file)
      PROVE  pc[n] # "import" /\ tx'[n] = tx[n] /\ tables'[n] = tables[n]
  BY <1>2 DEF Import, Goto, TypeOK, db
<1>3. ASSUME NEW k \in Node, ImportStep(k)
      PROVE  \/ tx'[n] = tables'[n]
             \/ pc[n] # "import" /\ tx'[n] = tx[n] /\ tables'[n] = tables[n]
  <2>1. CASE ImportBlock(k)
    BY <2>1 DEF ImportBlock, TypeOK
  <2>2. CASE ImportFails(k) \/ ImportCommit(k)
    BY <2>2 DEF ImportFails, ImportCommit, Goto, TypeOK
  <2>3. CASE ImportFlush(k)
    BY <2>3 DEF ImportFlush, Goto, TypeOK
  <2> QED  BY <1>3, <2>1, <2>2, <2>3 DEF ImportStep
<1>4. ASSUME NEW k \in Node, Crash(k)
      PROVE  \/ tx'[n] = tables'[n]
             \/ pc[n] # "import" /\ tx'[n] = tx[n] /\ tables'[n] = tables[n]
  BY <1>4 DEF Crash, Goto, TypeOK
<1>5. ASSUME NEW q \in Requests, Sync(q)
      PROVE  pc[n] # "import" /\ tx'[n] = tx[n] /\ tables'[n] = tables[n]
  BY <1>5 DEF Sync, db
<1>6. ASSUME NEW k \in Node, Walks(k)
      PROVE  pc[n] # "import" /\ tx'[n] = tx[n] /\ tables'[n] = tables[n]
  BY <1>6, WalksChange
<1>7. ASSUME NEW k \in Node, Stuck(k)
      PROVE  \/ tx'[n] = tables'[n]
             \/ pc[n] # "import" /\ tx'[n] = tx[n] /\ tables'[n] = tables[n]
  <2>1. CASE k = Alice /\ AliceEnds /\ UNCHANGED tx
    BY <1>7, <2>1 DEF Stuck, Walking, AliceEnds, Goto, TypeOK
  <2>2. CASE k = Bob /\ BobFails
    BY <1>7, <2>2 DEF Stuck, Walking, BobFails, Goto, TypeOK
  <2> QED  BY <1>7, <2>1, <2>2 DEF Stuck
<1>8. CASE AliceStep
  <2>1. CASE AliceFinishes \/ Send \/ SendFails \/ SendStopped
    BY <2>1 DEF AliceFinishes, Send, SendFails, SendStopped, AliceEnds, Walking, HasItem,
       Goto, TypeOK, db
  <2> QED  BY <1>6, <1>7, <1>8, <2>1 DEF AliceStep, WalkStep, Walks
<1>9. CASE BobStep
  <2>1. CASE ReceiveFails \/ ReceiveLost
    BY <2>1 DEF ReceiveFails, ReceiveLost, BobFails, Reads, HasItem, Goto, TypeOK
  <2>2. CASE Commit
    BY <2>2 DEF Commit, Goto, TypeOK
  <2>3. CASE BobFinishes \/ ReceiveHash \/ ReceiveEof
    BY <2>3 DEF BobFinishes, ReceiveHash, ReceiveEof, Walking, Reads, HasItem, Goto,
       TypeOK, db
  <2>4. CASE ReceiveData
    BY <2>4 DEF ReceiveData, Reads, HasItem, Goto, TypeOK
  <2> QED  BY <1>6, <1>7, <1>9, <2>1, <2>2, <2>3, <2>4 DEF BobStep, WalkStep, Walks
<1>10. CASE Disconnect
  BY <1>10 DEF Disconnect, db
<1> QED  BY <1>1, <1>2, <1>3, <1>4, <1>5, <1>8, <1>9, <1>10 DEF Next

LEMMA AddStep ==
    ASSUME TypeOK, AddInv, [Next]_vars
    PROVE  AddInv'
<1> SUFFICES ASSUME NEW n \in Node, pc'[n] # "import", NEW hash \in Block
             PROVE  tx'[n].blake3[hash] \in {hash, tables'[n].blake3[hash]}
  BY DEF AddInv
<1>1. CASE tx'[n] = tables'[n]
  BY <1>1
<1>2. CASE pc[n] # "import" /\ tx'[n] = tx[n] /\ tables'[n] = tables[n]
  BY <1>2 DEF AddInv
<1>3. CASE n = Bob /\ ReceiveData
  <2>1. /\ item[Bob] \in Cid /\ item[Bob].hash \in Block /\ Bob \in Node
        /\ pc[Bob] # "import" /\ tables' = tables
        /\ tx'[Bob] = InsertLinks(tx[Bob], item[Bob], item[Bob].hash)
    BY <1>3, TwoNodes DEF ReceiveData, Reads, HasItem, TypeOK, Nodes, Cid
  <2>2. tx[Bob] \in Tables
    BY <2>1 DEF TypeOK
  <2>3. tx'[Bob].blake3[hash] \in {hash, tx[Bob].blake3[hash]}
    BY <2>1, <2>2 DEF InsertLinks, Tables
  <2> QED  BY <1>3, <2>1, <2>3 DEF AddInv
<1> QED  BY <1>1, <1>2, <1>3, StepsOfTables

(* All that happens to a traversal under way but for its own steps. *)
LEMMA StepsOfWalk ==
    ASSUME TypeOK, [Next]_vars, NEW n \in Node, Underway(n)'
    PROVE  \/ \E q \in Requests : Sync(q)
           \/ Walks(n)
           \/ /\ Underway(n) /\ request' = request /\ tr'[n] = tr[n]
              /\ tables'[n] = tables[n]
              /\ tx'[n] = tx[n] \/ (n = Bob /\ ReceiveData)
<1>0. Alice \in Node /\ Bob \in Node /\ Alice # Bob /\ Node = {Alice, Bob}
  BY TwoNodes DEF Nodes, Node
<1> USE <1>0 DEF Underway
<1>1. CASE UNCHANGED vars
  BY <1>1 DEF vars, db
<1>2. ASSUME NEW k \in Node, NEW file \in Cars[k], Import(k, file)
      PROVE  /\ Underway(n) /\ request' = request /\ tr'[n] = tr[n]
             /\ tables'[n] = tables[n] /\ tx'[n] = tx[n]
  BY <1>2 DEF Import, Goto, TypeOK, db
<1>3. ASSUME NEW k \in Node, ImportStep(k)
      PROVE  /\ Underway(n) /\ request' = request /\ tr'[n] = tr[n]
             /\ tables'[n] = tables[n] /\ tx'[n] = tx[n]
  <2>1. k # n /\ pc'[n] = pc[n]
    BY <1>3 DEF ImportStep, ImportBlock, ImportFails, ImportCommit, ImportFlush, Goto, TypeOK
  <2> QED  BY <1>3, <2>1 DEF ImportStep, ImportBlock, ImportFails, ImportCommit,
              ImportFlush, TypeOK
<1>4. ASSUME NEW k \in Node, Crash(k)
      PROVE  /\ Underway(n) /\ request' = request /\ tr'[n] = tr[n]
             /\ tables'[n] = tables[n] /\ tx'[n] = tx[n]
  <2>1. k # n /\ pc'[n] = pc[n]
    BY <1>4 DEF Crash, Goto, TypeOK
  <2> QED  BY <1>4, <2>1 DEF Crash, TypeOK
<1>5. ASSUME NEW k \in Node, Walks(k), k # n
      PROVE  /\ Underway(n) /\ request' = request /\ tr'[n] = tr[n]
             /\ tables'[n] = tables[n] /\ tx'[n] = tx[n]
  BY <1>5, WalksChange
<1>6. ASSUME NEW k \in Node, Stuck(k)
      PROVE  /\ Underway(n) /\ request' = request /\ tr'[n] = tr[n]
             /\ tables'[n] = tables[n] /\ tx'[n] = tx[n]
  <2>1. CASE k = Alice /\ AliceEnds /\ UNCHANGED tx
    BY <1>6, <2>1 DEF Stuck, AliceEnds, Goto, TypeOK
  <2>2. CASE k = Bob /\ BobFails
    BY <1>6, <2>2 DEF Stuck, BobFails, Goto, TypeOK
  <2> QED  BY <1>6, <2>1, <2>2 DEF Stuck
<1>7. CASE AliceStep
  <2>1. CASE AliceFinishes \/ SendFails \/ SendStopped
    BY <2>1 DEF AliceFinishes, SendFails, SendStopped, AliceEnds, Goto, TypeOK, db
  <2>2. CASE Send
    BY <2>2 DEF Send, HasItem, Goto, TypeOK, db
  <2> QED  BY <1>5, <1>6, <1>7, <2>1, <2>2 DEF AliceStep, WalkStep, Walks
<1>8. CASE BobStep
  <2>1. CASE ReceiveFails \/ ReceiveLost
    BY <2>1 DEF ReceiveFails, ReceiveLost, BobFails, Goto, TypeOK
  <2>2. CASE Commit
    BY <2>2 DEF Commit, Goto, TypeOK
  <2>3. CASE BobFinishes \/ ReceiveHash \/ ReceiveEof
    BY <2>3 DEF BobFinishes, ReceiveHash, ReceiveEof, Walking, Reads, HasItem, Goto,
       TypeOK, db
  <2>4. CASE ReceiveData
    BY <2>4 DEF ReceiveData, Reads, HasItem, Goto, TypeOK
  <2> QED  BY <1>5, <1>6, <1>8, <2>1, <2>2, <2>3, <2>4 DEF BobStep, WalkStep, Walks
<1>9. CASE Disconnect
  BY <1>9 DEF Disconnect, db
<1> QED  BY <1>1, <1>2, <1>3, <1>4, <1>7, <1>8, <1>9 DEF Next

(* A step does not teach a node links that it should have read before. *)
LEMMA WalksReadLinks ==
    ASSUME TypeOK, SyncInv, NEW n \in Node, Walks(n), request.full, ReadLinks(n)'
    PROVE  ReadLinks(n) /\ tr'[n] = Ideal(tr[n]) /\ (Deferred(tr[n]) \/ ~AtEnd(tr[n]))
<1>1. /\ pc[n] = "walk" /\ UNCHANGED <<tx, request>>
      /\ tr[n] \in Traversal /\ WalkOk(request, tr[n])
  BY WalksChange DEF TypeOK, SyncInv, Follows
<1>2. tr[n].visited \subseteq tr'[n].visited
  BY WalksVisit
<1>3. ASSUME NEW cid \in tr[n].visited, cid # tr[n].prev
      PROVE  cid # tr'[n].prev
  <2>1. cid \in Cid
    BY <1>1 DEF Traversal
  <2>2. CASE Expand(n)
    <3>1. tr'[n].prev = NoCid
      BY <1>1, <2>2 DEF Expand, Expanded, Traversal, TypeOK
    <3> QED  BY <2>1, <3>1, DagAssumption
  <2>3. CASE Skip(n)
    BY <1>1, <1>3, <2>3 DEF Skip, Popped, Traversal, TypeOK
  <2>4. CASE Visit(n)
    <3>1. tr'[n] = Visited(tr[n]) /\ ~AlreadyVisited(tr[n]) /\ tr[n].full
      BY <1>1, <2>4 DEF Visit, WalkOk, TypeOK
    <3>2. tr'[n].prev = Top(tr[n]) /\ Top(tr[n]) \notin tr[n].visited
      BY <1>1, <3>1 DEF Visited, Popped, Traversal, AlreadyVisited
    <3> QED  BY <3>2
  <2> QED  BY <2>2, <2>3, <2>4 DEF Walks
<1>4. ReadLinks(n)
  BY <1>1, <1>2, <1>3 DEF ReadLinks, Blake3Hash, StoredLinks, LinksKey
<1>5. (Deferred(tr[n]) /\ tr[n].prev.codec # Raw) =>
          StoredLinks(tx[n], tr[n].prev) = LinksOf[tr[n].prev.hash]
  <2> SUFFICES ASSUME Deferred(tr[n]), tr[n].prev.codec # Raw
               PROVE  StoredLinks(tx[n], tr[n].prev) = LinksOf[tr[n].prev.hash]
    OBVIOUS
  <2>1. Expand(n) /\ Blake3Hash(tx[n], tr[n].prev) # NoBlock
    BY DEF Walks, Expand, Skip, Visit, IsStuck
  <2>2. tr'[n].prev = NoCid
    BY <1>1, <2>1 DEF Expand, Expanded, Traversal, TypeOK
  <2>3. tr[n].prev \in tr[n].visited \ request.visited /\ tr[n].prev # NoCid
    BY <1>1 DEF WalkOk, Deferred
  <2> QED  BY <1>1, <1>2, <2>1, <2>2, <2>3
              DEF ReadLinks, Blake3Hash, StoredLinks, LinksKey
<1> QED  BY <1>4, <1>5, WalksIdeal

LEMMA ReceivesReadLinks ==
    ASSUME TypeOK, AddInv, SyncInv, ReceiveData, request.full, Truthful(Bob),
           ReadLinks(Bob)'
    PROVE  ReadLinks(Bob)
<1>0. Bob \in Node
  BY TwoNodes DEF Nodes
<1>1. /\ item[Bob] \in Cid /\ tr[Bob].prev = item[Bob] /\ UNCHANGED <<tr, request>>
      /\ tx[Bob] \in Tables /\ tr[Bob] \in Traversal
      /\ \A hash \in Block : tx[Bob].blake3[hash] \in {hash, NoBlock}
      /\ tx'[Bob] = InsertLinks(tx[Bob], item[Bob], item[Bob].hash)
  BY <1>0 DEF ReceiveData, Reads, HasItem, SyncInv, TypeOK, AddInv, Truthful
<1> SUFFICES ASSUME NEW cid \in tr[Bob].visited \ request.visited,
                    cid # tr[Bob].prev, cid.codec # Raw, Blake3Hash(tx[Bob], cid) # NoBlock
             PROVE  StoredLinks(tx[Bob], cid) = LinksOf[cid.hash]
  BY DEF ReadLinks
<1>2. cid \in Cid /\ cid # item[Bob]
  BY <1>1 DEF Traversal
<1>3. Blake3Hash(tx[Bob], cid) = cid.hash
  BY <1>1, <1>2 DEF Blake3Hash, Cid
<1>4. Blake3Hash(tx'[Bob], cid) = cid.hash
  BY <1>1, <1>2, <1>3 DEF InsertLinks, Blake3Hash, Tables, Cid
<1>5. LinksKey(tx[Bob], cid) = cid /\ LinksKey(tx'[Bob], cid) = cid
  BY <1>2, <1>3, <1>4 DEF LinksKey, Cid
<1>6. cid \in tx'[Bob].links <=> cid \in tx[Bob].links
  <2>1. [codec |-> item[Bob].codec, hash |-> item[Bob].hash] = item[Bob]
    BY <1>1 DEF Cid
  <2> QED  BY <1>1, <1>2, <2>1 DEF InsertLinks
<1>7. StoredLinks(tx'[Bob], cid) = LinksOf[cid.hash]
  BY <1>1, <1>2, <1>4, DagAssumption DEF ReadLinks, Cid, Blake3Hash, StoredLinks, LinksKey
<1> QED  BY <1>3, <1>4, <1>5, <1>6, <1>7 DEF StoredLinks

LEMMA OrderStep ==
    ASSUME TypeOK, AddInv, SyncInv, OrderInv, [Next]_vars
    PROVE  OrderInv'
<1> SUFFICES ASSUME NEW n \in Node, Underway(n)', request'.full, Truthful(n)',
                    ReadLinks(n)'
             PROVE  InOrder(request, tr[n])'
  BY DEF OrderInv
<1>1. ASSUME NEW q \in Requests, Sync(q)
      PROVE  InOrder(request', tr'[n])
  <2>1. request' = q /\ q \in Request /\ tr'[n] = GetTraversal(q)
    BY <1>1, SyncAssumption DEF Sync
  <2> QED  BY <2>1, StartsInOrder
<1>2. CASE Walks(n)
  <2>1. /\ pc[n] = "walk" /\ request' = request /\ request \in Request
        /\ tr[n] \in Traversal /\ WalkOk(request, tr[n]) /\ Truthful(n)
    BY <1>2, WalksChange DEF TypeOK, SyncInv, Follows, Truthful
  <2>2. ReadLinks(n) /\ tr'[n] = Ideal(tr[n]) /\ (Deferred(tr[n]) \/ ~AtEnd(tr[n]))
    BY <1>2, <2>1, WalksReadLinks
  <2>3. InOrder(request, tr[n]) /\ tr[n].full
    BY <2>1, <2>2 DEF OrderInv, Underway, WalkOk
  <2>4. InOrder(request, Ideal(tr[n]))
    BY <2>1, <2>2, <2>3, ExpandsInOrder, SkipsInOrder, VisitsInOrder
  <2> QED  BY <2>1, <2>2, <2>4
<1>3. CASE /\ Underway(n) /\ request' = request /\ tr'[n] = tr[n]
           /\ tables'[n] = tables[n]
           /\ tx'[n] = tx[n] \/ (n = Bob /\ ReceiveData)
  <2>0. Truthful(n)
    BY <1>3 DEF Truthful
  <2>1. ReadLinks(n)
    <3>1. CASE tx'[n] = tx[n]
      BY <1>3, <3>1 DEF ReadLinks, Blake3Hash, StoredLinks, LinksKey
    <3>2. CASE n = Bob /\ ReceiveData
      BY <1>3, <2>0, <3>2, ReceivesReadLinks
    <3> QED  BY <1>3, <3>1, <3>2
  <2> QED  BY <1>3, <2>0, <2>1 DEF OrderInv
<1>4. InOrder(request', tr'[n])
  BY <1>1, <1>2, <1>3, StepsOfWalk
<1> QED  BY <1>4

LEMMA ListingCounts ==
    ASSUME NEW q \in Request, NEW walk \in Traversal, InOrder(q, walk)
    PROVE  LET visited == walk.visited \ q.visited
           IN \E listing \in [1 .. Cardinality(visited) -> visited] : InPreOrder(q, listing)
<1> DEFINE visited == walk.visited \ q.visited
<1>1. PICK listing, own, link : Placed(q, walk, listing, own, link)
  BY DEF InOrder
<1> DEFINE last == Len(listing)
<1>2. /\ listing \in Seq(Cid) /\ last \in Nat /\ DOMAIN listing = 1 .. last
      /\ InPreOrder(q, listing) /\ walk.visited = Before(q, listing, last + 1)
  BY <1>1 DEF Placed
<1>3. walk.visited = q.visited \cup {listing[i] : i \in 1 .. last}
  <2>1. (last + 1) - 1 = last
    BY <1>2
  <2> QED  BY <1>2, <2>1 DEF Before
<1>4. \A k \in 1 .. last : listing[k] \notin q.visited /\ \A i \in 1 .. k - 1 : listing[i] # listing[k]
  BY <1>2 DEF InPreOrder, Before
<1>5. visited = {listing[i] : i \in 1 .. last}
  BY <1>3, <1>4
<1> HIDE DEF visited, last
<1>6. listing \in [1 .. last -> visited]
  BY <1>2, <1>5
<1>7. \A i, k \in 1 .. last : listing[i] = listing[k] => i = k
  <2> SUFFICES ASSUME NEW i \in 1 .. last, NEW k \in 1 .. last, i # k
               PROVE  listing[i] # listing[k]
    OBVIOUS
  <2>1. i \in 1 .. k - 1 \/ k \in 1 .. i - 1
    BY <1>2
  <2> QED  BY <1>4, <2>1
<1>8. listing \in Bijection(1 .. last, visited)
  BY <1>5, <1>6, <1>7 DEF Bijection, Injection, Surjection, IsInjective
<1>9. Cardinality(visited) = last
  BY <1>2, <1>8, FS_CountingElements DEF ExistsBijection
<1> QED  BY <1>2, <1>6, <1>9 DEF visited

(* Both traversals visit in depth-first pre-order, left to right, whatever *)
(* the DAG: the stack, on which cids may stand twice or stand although     *)
(* they were visited, and the links read a step late bring up next the     *)
(* first new link of the last cid that has one.                            *)
THEOREM TraversalsVisitInPreOrder == Spec => []VisitsInPreOrder
<1>1. Init => OrderInv /\ AddInv
  BY DEF Init, OrderInv, AddInv, Underway
<1>2. InStepInv /\ AddInv /\ OrderInv /\ [Next]_vars => OrderInv' /\ AddInv'
  BY OrderStep, AddStep DEF InStepInv
<1>3. InStepInv /\ OrderInv => VisitsInPreOrder
  <2> SUFFICES ASSUME InStepInv, OrderInv, NEW n \in Node, request.full,
                      Underway(n), Truthful(n), KnowsLinks(n)
               PROVE  LET visited == tr[n].visited \ request.visited
                      IN \E listing \in [1 .. Cardinality(visited) -> visited] :
                             InPreOrder(request, listing)
    BY DEF VisitsInPreOrder, Underway
  <2>1. ReadLinks(n)
    BY DEF KnowsLinks, ReadLinks
  <2>2. InOrder(request, tr[n]) /\ request \in Request /\ tr[n] \in Traversal
    BY <2>1 DEF OrderInv, InStepInv, TypeOK
  <2> QED  BY <2>2, ListingCounts
<1> QED  BY <1>1, <1>2, <1>3, InStepInvInit, InStepInvStep, PTL DEF Spec
=============================================================================
