------------------------- MODULE TrackerActorProofs -------------------------
(***************************************************************************)
(* Theorems about TrackerActor for any messages, any capacity of the       *)
(* channel and any bound of the batches.                                   *)
(***************************************************************************)
EXTENDS TrackerActor, SequenceTheorems, TLAPS

----------------------------------------------------------------------------
(* Taking messages in *)

LEMMA IncomingType ==
    ASSUME TypeOK
    PROVE  /\ Incoming \in Seq(Message)
           /\ Incoming # <<>> => Head(Incoming) \in Message
<1>1. slot \in Seq(Message) /\ channel \in Seq(Message)
  BY DEF TypeOK
<1>2. Incoming \in Seq(Message)
  BY <1>1, ConcatProperties DEF Incoming
<1> QED  BY <1>2, HeadTailProperties

(* A slot that is not empty holds one message. *)
LEMMA SlotHead ==
    ASSUME TypeOK, slot # <<>>
    PROVE  /\ slot = <<slot[1]>> /\ slot[1] \in Message /\ Len(slot) = 1
           /\ Head(Incoming) = slot[1]
<1>1. slot \in Seq(Message) /\ channel \in Seq(Message) /\ Len(slot) = 1
  <2>1. slot \in Seq(Message) /\ channel \in Seq(Message) /\ Len(slot) \in {0, 1}
    BY DEF TypeOK
  <2>2. Len(slot) \in Nat /\ Len(slot) # 0
    BY <2>1, EmptySeq
  <2> QED  BY <2>1, <2>2
<1>2. slot[1] \in Message
  BY <1>1, ElementOfSeq
<1>3. slot = <<slot[1]>>
  BY <1>1
<1>4. Incoming[1] = slot[1]
  BY <1>1, ConcatProperties DEF Incoming
<1>5. Head(Incoming) = Incoming[1]
  BY <1>1, ConcatProperties, IncomingType DEF Incoming
<1> QED  BY <1>1, <1>2, <1>3, <1>4, <1>5

LEMMA ChannelHead ==
    ASSUME TypeOK, slot = <<>>, Incoming # <<>>
    PROVE  /\ Incoming = channel /\ Head(channel) \in Message
           /\ Tail(channel) \in Seq(Message)
           /\ channel = <<Head(channel)>> \o Tail(channel)
<1>1. channel \in Seq(Message)
  BY DEF TypeOK
<1>2. Incoming = channel
  BY <1>1, ConcatEmptySeq DEF Incoming
<1>3. Head(channel) \in Message /\ Tail(channel) \in Seq(Message)
  BY <1>1, <1>2, HeadTailProperties
<1>4. channel = <<Head(channel)>> \o Tail(channel)
  BY <1>1, <1>2, <1>3
<1> QED  BY <1>2, <1>3, <1>4

(* A message that is held is still the next one: holding it loses and      *)
(* reorders nothing.                                                       *)
LEMMA HoldNextKeeps ==
    ASSUME TypeOK, Incoming # <<>>, HoldNext
    PROVE  /\ Incoming' = Incoming
           /\ slot' \in Seq(Message) /\ Len(slot') = 1
           /\ channel' \in Seq(Message)
<1>1. CASE slot # <<>>
  <2>1. slot' = slot /\ channel' = channel
    BY <1>1, SlotHead DEF HoldNext
  <2>2. slot \in Seq(Message) /\ channel \in Seq(Message) /\ Len(slot) = 1
    BY <1>1, SlotHead DEF TypeOK
  <2> QED  BY <2>1, <2>2 DEF Incoming
<1>2. CASE slot = <<>>
  <2>1. slot' = <<Head(channel)>> /\ channel' = Tail(channel)
    BY <1>2, ChannelHead DEF HoldNext
  <2> QED  BY <1>2, <2>1, ChannelHead DEF Incoming
<1> QED  BY <1>1, <1>2

(* A message that is received is the first, and the rest stays in order. *)
LEMMA ReceiveTakesFirst ==
    ASSUME TypeOK, Incoming # <<>>, Receive
    PROVE  /\ Incoming = <<Head(Incoming)>> \o Incoming'
           /\ slot' = <<>>
           /\ channel' \in Seq(Message)
<1>1. CASE slot # <<>>
  <2>1. slot' = <<>> /\ channel' = channel /\ channel \in Seq(Message)
    BY <1>1 DEF Receive, TypeOK
  <2>2. Incoming' = channel
    BY <2>1, ConcatEmptySeq DEF Incoming
  <2> QED  BY <1>1, <2>1, <2>2, SlotHead DEF Incoming
<1>2. CASE slot = <<>>
  <2>1. slot' = <<>> /\ channel' = Tail(channel)
    BY <1>2 DEF Receive
  <2>2. Incoming' = Tail(channel)
    BY <1>2, <2>1, ChannelHead, ConcatEmptySeq DEF Incoming
  <2> QED  BY <1>2, <2>1, <2>2, ChannelHead
<1> QED  BY <1>1, <1>2

----------------------------------------------------------------------------
(* The inductive invariant *)

(* Where the thread is determines its transaction. *)
TxnMatchesPc ==
    /\ pc \in {"peek", "stopped", "down"} => txn = "none"
    /\ pc = "batch" => txn \in {"read", "write"}
    /\ pc = "commit" => txn = "write"

(* A write transaction extends what is committed; a read transaction sees  *)
(* exactly that.                                                           *)
ViewExtendsDb ==
    /\ txn = "write" => Len(db) <= Len(view) /\ \A i \in 1 .. Len(db) : view[i] = db[i]
    /\ txn = "read" => view = db

ActorInv == TypeOK /\ TxnMatchesPc /\ ViewExtendsDb /\ HandledInOrder /\ ReadsAreDurable

LEMMA ActorInit == Init => ActorInv
<1> SUFFICES ASSUME Init PROVE ActorInv
  OBVIOUS
<1>1. TypeOK
  BY EmptySeq DEF Init, TypeOK
<1>2. TxnMatchesPc /\ ViewExtendsDb /\ ReadsAreDurable
  BY DEF Init, TxnMatchesPc, ViewExtendsDb, ReadsAreDurable
<1>3. <<>> \o (<<>> \o <<>>) = <<>>
  BY EmptySeq, ConcatEmptySeq
<1>4. HandledInOrder
  BY <1>3 DEF Init, HandledInOrder, Incoming
<1> QED  BY <1>1, <1>2, <1>4 DEF ActorInv

LEMMA Associative ==
    ASSUME NEW S, NEW a \in Seq(S), NEW b \in Seq(S), NEW c \in Seq(S)
    PROVE  a \o (b \o c) = (a \o b) \o c
<1> DEFINE l == a \o (b \o c)
           r == (a \o b) \o c
<1>1. l \in Seq(S) /\ r \in Seq(S)
  OBVIOUS
<1>2. Len(l) = Len(r)
  OBVIOUS
<1>3. \A i \in 1 .. Len(l) : l[i] = r[i]
  OBVIOUS
<1> QED  BY <1>1, <1>2, <1>3, SeqEqual

LEMMA ConcatLast ==
    ASSUME NEW S, NEW h \in Seq(S), NEW s \in Seq(S), NEW c \in Seq(S), NEW e \in Seq(S)
    PROVE  h \o (s \o (c \o e)) = (h \o (s \o c)) \o e
<1>1. s \o (c \o e) = (s \o c) \o e
  BY Associative
<1>2. s \o c \in Seq(S)
  BY ConcatProperties
<1>3. h \o ((s \o c) \o e) = (h \o (s \o c)) \o e
  BY <1>2, Associative
<1> QED  BY <1>1, <1>3

(* Steps of callers, and of the thread, that touch neither the messages    *)
(* nor the tables.                                                         *)
LEMMA CallerOnly ==
    ASSUME ActorInv, UNCHANGED <<dropped, queue, pc, txn, n, store, history>>,
           caller' \in [Requests -> {"unsent", "waiting", "settled", "failed"}]
    PROVE  ActorInv'
BY DEF ActorInv, TypeOK, TxnMatchesPc, ViewExtendsDb, HandledInOrder, ReadsAreDurable,
       queue, store, history, Incoming

LEMMA SentLast ==
    ASSUME ActorInv, NEW m \in Message, pc # "down",
           channel' = Append(channel, m), sent' = Append(sent, m),
           UNCHANGED <<slot, pc, txn, n, store, handled>>,
           caller' \in [Requests -> {"unsent", "waiting", "settled", "failed"}],
           dropped' \in BOOLEAN
    PROVE  ActorInv'
<1>1. /\ channel \in Seq(Message) /\ slot \in Seq(Message)
      /\ sent \in Seq(Message) /\ handled \in Seq(Requests)
  BY DEF ActorInv, TypeOK
<1>2. handled \in Seq(Message)
  BY <1>1, SeqMonotonic DEF Message
<1>3. channel' \in Seq(Message) /\ sent' \in Seq(Message)
  BY <1>1, AppendProperties
<1>4. TypeOK'
  BY <1>3 DEF ActorInv, TypeOK, store
<1>5. TxnMatchesPc' /\ ViewExtendsDb' /\ ReadsAreDurable'
  BY DEF ActorInv, TxnMatchesPc, ViewExtendsDb, ReadsAreDurable, store
<1>6. handled \o (slot \o (channel \o <<m>>)) = (handled \o (slot \o channel)) \o <<m>>
  <2>1. <<m>> \in Seq(Message)
    OBVIOUS
  <2> QED  BY <1>1, <1>2, <2>1, ConcatLast
<1>7. channel' = channel \o <<m>> /\ sent' = sent \o <<m>>
  BY <1>1, AppendIsConcat
<1>8. handled' = handled /\ slot' = slot /\ pc' = pc
  OBVIOUS
<1>9. HandledInOrder'
  BY <1>6, <1>7, <1>8 DEF ActorInv, HandledInOrder, Incoming
<1> QED  BY <1>4, <1>5, <1>9 DEF ActorInv

LEMMA CallersKeep ==
    ASSUME ActorInv, NEW r \in Requests, Send(r) \/ SendFails(r) \/ Cancel(r)
    PROVE  ActorInv'
<1>1. caller' \in [Requests -> {"unsent", "waiting", "settled", "failed"}]
  BY DEF ActorInv, TypeOK, Send, SendFails, Cancel
<1>2. CASE Send(r)
  BY <1>1, <1>2, SentLast DEF Send, Running, Message, ActorInv, TypeOK
<1>3. CASE SendFails(r) \/ Cancel(r)
  BY <1>1, <1>3, CallerOnly DEF SendFails, Cancel
<1> QED  BY <1>2, <1>3

LEMMA DropKeeps == ASSUME ActorInv, Drop PROVE ActorInv'
<1>1. caller \in [Requests -> {"unsent", "waiting", "settled", "failed"}]
  BY DEF ActorInv, TypeOK
<1> QED  BY <1>1, SentLast DEF Drop, Running, Message

(* The end of a batch leaves the thread and its transaction in step. *)
LEMMA EndBatchKeeps ==
    ASSUME ActorInv, pc = "batch", EndBatch
    PROVE  /\ pc' \in {"peek", "commit"} /\ txn' \in {"none", "write"}
           /\ TxnMatchesPc'
           /\ txn = "read" => txn' = "none"
           /\ txn = "write" => txn' = "write"
BY DEF ActorInv, TypeOK, TxnMatchesPc, EndBatch

LEMMA EndBatchTables ==
    ASSUME ActorInv, pc = "batch", EndBatch, UNCHANGED <<db, view, seen>>
    PROVE  ViewExtendsDb' /\ ReadsAreDurable'
<1>1. txn = "read" \/ txn = "write"
  BY DEF ActorInv, TxnMatchesPc
<1>2. CASE txn = "read"
  BY <1>2, EndBatchKeeps DEF ActorInv, ViewExtendsDb, ReadsAreDurable
<1>3. CASE txn = "write"
  BY <1>3, EndBatchKeeps DEF ActorInv, ViewExtendsDb, ReadsAreDurable
<1> QED  BY <1>1, <1>2, <1>3

LEMMA BeginKeeps == ASSUME ActorInv, Begin PROVE ActorInv'
<1>1. TypeOK /\ Incoming # <<>> /\ HoldNext
  BY DEF ActorInv, Begin
<1>2. /\ Incoming' = Incoming /\ channel' \in Seq(Message)
      /\ slot' \in Seq(Message) /\ Len(slot') = 1
  BY <1>1, HoldNextKeeps
<1>3. txn' \in {"read", "write"} /\ pc' = "batch"
  BY DEF Begin, BeginTransaction, Category
<1>4. TypeOK'
  BY <1>1, <1>2, <1>3 DEF TypeOK, Begin, BeginTransaction, history
<1>5. TxnMatchesPc' /\ ViewExtendsDb' /\ ReadsAreDurable'
  <2>1. Len(db) \in Int
    BY <1>1, LenProperties DEF TypeOK
  <2> QED  BY <1>3, <2>1 DEF ActorInv, TxnMatchesPc, ViewExtendsDb, ReadsAreDurable,
                             Begin, BeginTransaction
<1>6. HandledInOrder'
  BY <1>2 DEF ActorInv, HandledInOrder, Begin, BeginTransaction, history
<1> QED  BY <1>4, <1>5, <1>6 DEF ActorInv

LEMMA FinishKeeps == ASSUME ActorInv, Finish PROVE ActorInv'
<1>1. TypeOK /\ Incoming # <<>> /\ HoldNext
  BY DEF ActorInv, Finish
<1>2. /\ Incoming' = Incoming /\ channel' \in Seq(Message)
      /\ slot' \in Seq(Message) /\ Len(slot') = 1
  BY <1>1, HoldNextKeeps
<1>3. TypeOK'
  BY <1>1, <1>2 DEF TypeOK, Finish, store, history
<1>4. TxnMatchesPc' /\ ViewExtendsDb' /\ ReadsAreDurable' /\ HandledInOrder'
  BY <1>2 DEF ActorInv, TxnMatchesPc, ViewExtendsDb, ReadsAreDurable, HandledInOrder,
              Finish, store, history
<1> QED  BY <1>3, <1>4 DEF ActorInv

LEMMA PushBackKeeps == ASSUME ActorInv, PushBack PROVE ActorInv'
<1>1. TypeOK /\ Incoming # <<>> /\ HoldNext /\ pc = "batch" /\ EndBatch
  BY DEF ActorInv, PushBack, NotForThisBatch
<1>2. /\ Incoming' = Incoming /\ channel' \in Seq(Message)
      /\ slot' \in Seq(Message) /\ Len(slot') = 1
  BY <1>1, HoldNextKeeps
<1>3. TypeOK'
  BY <1>1, <1>2, EndBatchKeeps DEF TypeOK, PushBack, store, history
<1>4. TxnMatchesPc' /\ ViewExtendsDb' /\ ReadsAreDurable'
  BY <1>1, EndBatchKeeps, EndBatchTables DEF ActorInv, PushBack, store
<1>5. HandledInOrder'
  BY <1>1, <1>2 DEF ActorInv, HandledInOrder, PushBack, history
<1> QED  BY <1>3, <1>4, <1>5 DEF ActorInv

LEMMA TimeoutKeeps == ASSUME ActorInv, Timeout PROVE ActorInv'
<1>1. TypeOK /\ pc = "batch" /\ EndBatch
  BY DEF ActorInv, Timeout
<1>2. TypeOK'
  BY <1>1, EndBatchKeeps DEF TypeOK, Timeout, queue, store, history
<1>3. TxnMatchesPc' /\ ViewExtendsDb' /\ ReadsAreDurable'
  BY <1>1, EndBatchKeeps, EndBatchTables DEF ActorInv, Timeout, store
<1>4. HandledInOrder'
  BY <1>1 DEF ActorInv, HandledInOrder, Timeout, queue, history, Incoming
<1> QED  BY <1>2, <1>3, <1>4 DEF ActorInv

(* The tables after a message is handled, and the lengths read from them. *)
LEMMA HandleTables ==
    ASSUME ActorInv, Handle
    PROVE  /\ db' = db /\ view' \in Seq(Writes) /\ seen' \in [Reads -> Nat \cup {NoAnswer}]
           /\ ViewExtendsDb' /\ ReadsAreDurable'
           /\ txn = "read" => view' = view /\ Head(Incoming) \in Reads
                              /\ seen' = [seen EXCEPT ![Head(Incoming)] = Len(db)]
           /\ txn = "write" => /\ txn' = "write" /\ seen' = seen
                               /\ Head(Incoming) \in Writes
                               /\ view' = Append(view, Head(Incoming))
<1> DEFINE m == Head(Incoming)
<1>1. /\ TypeOK /\ pc = "batch" /\ m \in Requests /\ Category(m) = txn /\ db' = db
      /\ view' = IF m \in Writes THEN Append(view, m) ELSE view
      /\ seen' = IF m \in Reads THEN [seen EXCEPT ![m] = Len(view)] ELSE seen
  BY IncomingType DEF ActorInv, Handle, Message
<1>2. /\ db \in Seq(Writes) /\ view \in Seq(Writes) /\ seen \in [Reads -> Nat \cup {NoAnswer}]
      /\ Len(db) \in Nat /\ Len(view) \in Nat
  BY <1>1, LenProperties DEF TypeOK
<1>3. EndBatch \/ (txn' = txn /\ pc' = pc)
  BY DEF Handle
<1>4. CASE m \in Writes
  <2>1. txn = "write" /\ m \notin Reads
    BY <1>1, <1>4, RequestAssumption DEF Category
  <2>2. txn' = "write"
    BY <1>1, <1>3, <2>1 DEF EndBatch
  <2>3. view' = Append(view, m) /\ seen' = seen
    BY <1>1, <1>4, <2>1
  <2>4. /\ view' \in Seq(Writes) /\ Len(view') = Len(view) + 1
        /\ \A i \in 1 .. Len(view) : view'[i] = view[i]
    BY <1>2, <1>4, <2>3, AppendProperties
  <2>5. ViewExtendsDb'
    BY <1>1, <1>2, <2>1, <2>2, <2>4 DEF ActorInv, ViewExtendsDb
  <2> QED  BY <1>1, <1>2, <1>4, <2>1, <2>2, <2>3, <2>4, <2>5 DEF ActorInv, ReadsAreDurable
<1>5. CASE m \notin Writes
  <2>1. txn = "read" /\ m \in Reads
    BY <1>1, <1>5 DEF Category, Requests
  <2>2. txn' = "none" \/ txn' = "read"
    BY <1>1, <1>3, <2>1 DEF EndBatch
  <2>3. view' = view /\ view = db /\ seen' = [seen EXCEPT ![m] = Len(db)]
    BY <1>1, <1>5, <2>1 DEF ActorInv, ViewExtendsDb
  <2>4. ViewExtendsDb'
    BY <1>1, <2>2, <2>3 DEF ViewExtendsDb
  <2>5. ReadsAreDurable'
    BY <1>1, <1>2, <2>1, <2>3 DEF ActorInv, ReadsAreDurable
  <2>6. seen' \in [Reads -> Nat \cup {NoAnswer}]
    BY <1>2, <2>3
  <2> QED  BY <1>1, <1>2, <2>1, <2>3, <2>4, <2>5, <2>6
<1> QED  BY <1>4, <1>5

LEMMA HandleKeeps == ASSUME ActorInv, Handle PROVE ActorInv'
<1> DEFINE m == Head(Incoming)
<1>1. TypeOK /\ Incoming # <<>> /\ m \in Requests /\ Receive /\ pc = "batch"
  BY IncomingType DEF ActorInv, Handle, Message
<1>2. Incoming = <<m>> \o Incoming' /\ slot' = <<>> /\ channel' \in Seq(Message)
  BY <1>1, ReceiveTakesFirst
<1>3. /\ (EndBatch /\ n' = n) \/ (n' = n + 1 /\ pc' = pc /\ txn' = txn)
      /\ UNCHANGED <<dropped, sent>>
      /\ handled' = Append(handled, m)
      /\ caller' = [caller EXCEPT ![m] = "settled"]
  BY DEF Handle
<1>4. /\ pc' \in {"peek", "batch", "commit"} /\ txn' \in {"none", "read", "write"}
      /\ TxnMatchesPc'
  <2>1. CASE EndBatch
    BY <1>1, <2>1, EndBatchKeeps
  <2>2. CASE pc' = pc /\ txn' = txn
    BY <1>1, <2>2 DEF ActorInv, TxnMatchesPc
  <2> QED  BY <1>3, <2>1, <2>2
<1>5. handled \in Seq(Requests) /\ handled' \in Seq(Requests) /\ sent \in Seq(Message)
  BY <1>1, <1>3, AppendProperties DEF TypeOK
<1>6. n' \in Nat
  BY <1>1, <1>3 DEF TypeOK
<1>7. slot' \in Seq(Message) /\ Len(slot') \in {0, 1}
  BY <1>2, EmptySeq
<1>8. TypeOK'
  BY <1>1, <1>2, <1>3, <1>4, <1>5, <1>6, <1>7, HandleTables DEF TypeOK
<1>9. HandledInOrder'
  <2>1. Incoming' \in Seq(Message)
    BY <1>2, ConcatProperties, <1>7 DEF Incoming
  <2>2. handled \in Seq(Message) /\ <<m>> \in Seq(Message)
    BY <1>1, <1>5, SeqMonotonic DEF Message
  <2>3. handled' = handled \o <<m>>
    BY <1>1, <1>3, <1>5, AppendIsConcat
  <2>4. handled' \o Incoming' = handled \o Incoming
    <3>1. handled \o (<<m>> \o Incoming') = (handled \o <<m>>) \o Incoming'
      BY <2>1, <2>2, Associative
    <3>2. handled \o Incoming = handled \o (<<m>> \o Incoming')
      BY <1>2, Zenon
    <3> QED  BY <2>3, <3>1, <3>2, Zenon
  <2> QED  BY <1>1, <1>3, <2>4 DEF ActorInv, HandledInOrder
<1> QED  BY <1>4, <1>8, <1>9, HandleTables DEF ActorInv

LEMMA CommitKeeps == ASSUME ActorInv, Commit PROVE ActorInv'
<1>1. TypeOK'
  BY DEF ActorInv, TypeOK, Commit, queue, history
<1>2. TxnMatchesPc' /\ ViewExtendsDb' /\ HandledInOrder'
  BY DEF ActorInv, TxnMatchesPc, ViewExtendsDb, HandledInOrder, Incoming, Commit,
         queue, history
<1>3. ReadsAreDurable'
  <2>1. txn = "write" /\ Len(db) <= Len(view)
    BY DEF ActorInv, TxnMatchesPc, ViewExtendsDb, Commit
  <2>2. Len(db) \in Nat /\ Len(view) \in Nat /\ seen \in [Reads -> Nat \cup {NoAnswer}]
    BY LenProperties DEF ActorInv, TypeOK
  <2>3. db' = view /\ seen' = seen
    BY DEF Commit
  <2>4. ASSUME NEW r \in Reads, seen[r] # NoAnswer
        PROVE  seen[r] <= Len(view)
    <3>1. seen[r] \in Nat /\ seen[r] <= Len(db)
      BY <2>2, <2>4 DEF ActorInv, ReadsAreDurable
    <3> QED  BY <2>1, <2>2, <3>1
  <2> QED  BY <2>3, <2>4 DEF ReadsAreDurable
<1> QED  BY <1>1, <1>2, <1>3 DEF ActorInv

LEMMA FailureKeeps == ASSUME ActorInv, Lost \/ Restart PROVE ActorInv'
<1>1. TypeOK'
  BY EmptySeq DEF ActorInv, TypeOK, Lost, Restart, store, history
<1>2. TxnMatchesPc' /\ ViewExtendsDb' /\ ReadsAreDurable'
  BY DEF ActorInv, TxnMatchesPc, ViewExtendsDb, ReadsAreDurable, Lost, Restart, store
<1>3. <<>> \o (<<>> \o <<>>) = <<>>
  BY EmptySeq, ConcatEmptySeq
<1>4. HandledInOrder'
  BY <1>3 DEF HandledInOrder, Lost, Restart, Incoming
<1> QED  BY <1>1, <1>2, <1>4 DEF ActorInv

LEMMA ActorStepKeeps == ActorInv /\ [Next]_vars => ActorInv'
<1> SUFFICES ASSUME ActorInv, [Next]_vars PROVE ActorInv'
  OBVIOUS
<1>1. CASE UNCHANGED vars
  BY <1>1, CallerOnly DEF vars, ActorInv, TypeOK
<1> QED  BY <1>1, CallersKeep, DropKeeps, HandleKeeps, BeginKeeps, FinishKeeps,
            PushBackKeeps, TimeoutKeeps, CommitKeeps, FailureKeeps
         DEF Next, ActorStep, DatabaseFails, Crash

(* What the actor handles is what its callers sent, in that order, for any *)
(* number of messages and wherever batches end.                            *)
THEOREM MessagesAreHandledInOrder == Spec => []HandledInOrder
<1>1. ActorInv => HandledInOrder
  BY DEF ActorInv
<1> QED  BY <1>1, ActorInit, ActorStepKeeps, PTL DEF Spec

(* No read is answered from a write that a crash could still take back. *)
THEOREM ReadsSeeDurableWrites == Spec => []ReadsAreDurable
<1>1. ActorInv => ReadsAreDurable
  BY DEF ActorInv
<1> QED  BY <1>1, ActorInit, ActorStepKeeps, PTL DEF Spec

(* The types of the actor's state. *)
THEOREM ActorTypeCorrect == Spec => []TypeOK
<1>1. ActorInv => TypeOK
  BY DEF ActorInv
<1> QED  BY <1>1, ActorInit, ActorStepKeeps, PTL DEF Spec

----------------------------------------------------------------------------
(* The actor implements ActorLog: every step of it is a step of the log,   *)
(* or leaves the log as it is.                                             *)

(* A read is answered at most once: what is queued was sent and has no     *)
(* answer yet, and no read is queued twice.                                *)
ReadsAnsweredOnce ==
    /\ \A r \in Reads : caller[r] = "unsent" => seen[r] = NoAnswer
    /\ \A i \in 1 .. Len(Incoming) :
         Incoming[i] \in Reads =>
           /\ caller[Incoming[i]] # "unsent" /\ seen[Incoming[i]] = NoAnswer
           /\ \A j \in 1 .. Len(Incoming) : Incoming[j] = Incoming[i] => j = i

LogInv == ActorInv /\ ReadsAnsweredOnce

----------------------------------------------------------------------------
(* ReadsAnsweredOnce is inductive *)

LEMMA OnceInit == Init => ReadsAnsweredOnce
<1> SUFFICES ASSUME Init PROVE ReadsAnsweredOnce
  OBVIOUS
<1>1. Incoming = <<>>
  <2>1. <<>> \o <<>> = <<>>
    BY EmptySeq, ConcatEmptySeq
  <2> QED  BY <2>1 DEF Init, Incoming
<1>2. \A i \in 1 .. Len(Incoming) : FALSE
  BY <1>1, EmptySeq
<1> QED  BY <1>2 DEF Init, ReadsAnsweredOnce, Requests

(* Nothing is queued, and no caller goes back to not having sent. *)
LEMMA OnceWhenEmpty ==
    ASSUME ReadsAnsweredOnce, Incoming' = <<>>, seen' = seen,
           \A r \in Reads : caller'[r] = "unsent" => caller[r] = "unsent"
    PROVE  ReadsAnsweredOnce'
<1>1. \A i \in 1 .. Len(Incoming') : FALSE
  BY EmptySeq
<1> QED  BY <1>1 DEF ReadsAnsweredOnce

(* The same is queued. *)
LEMMA OnceWhenKept ==
    ASSUME ReadsAnsweredOnce, Incoming' = Incoming, seen' = seen,
           \A r \in Reads : caller'[r] = "unsent" => caller[r] = "unsent"
    PROVE  ReadsAnsweredOnce'
BY DEF ReadsAnsweredOnce

(* A message that is sent comes last. *)
LEMMA SentIncoming ==
    ASSUME ActorInv, NEW m \in Message, channel' = Append(channel, m), slot' = slot
    PROVE  /\ Len(Incoming) \in Nat /\ Len(Incoming') = Len(Incoming) + 1
           /\ DOMAIN Incoming = 1 .. Len(Incoming) /\ DOMAIN Incoming' = 1 .. Len(Incoming')
           /\ \A i \in 1 .. Len(Incoming) : Incoming'[i] = Incoming[i]
           /\ Incoming'[Len(Incoming) + 1] = m
<1>1. slot \in Seq(Message) /\ channel \in Seq(Message) /\ Incoming \in Seq(Message)
  BY IncomingType DEF ActorInv, TypeOK
<1>2. Incoming' = Append(Incoming, m)
  <2>1. <<m>> \in Seq(Message) /\ channel' = channel \o <<m>>
    BY <1>1, AppendIsConcat
  <2>2. slot \o (channel \o <<m>>) = (slot \o channel) \o <<m>>
    BY <1>1, <2>1, Associative
  <2>3. Incoming \o <<m>> = Append(Incoming, m)
    BY <1>1, AppendIsConcat
  <2> QED  BY <2>1, <2>2, <2>3 DEF Incoming
<1> QED  BY <1>1, <1>2, AppendProperties, LenProperties

(* The message that is handled was the first; the others move up. *)
LEMMA HandledIncoming ==
    ASSUME ActorInv, Handle
    PROVE  /\ Len(Incoming') \in Nat /\ Len(Incoming) = Len(Incoming') + 1
           /\ DOMAIN Incoming = 1 .. Len(Incoming) /\ DOMAIN Incoming' = 1 .. Len(Incoming')
           /\ Incoming[1] = Head(Incoming)
           /\ \A i \in 1 .. Len(Incoming') : Incoming[i + 1] = Incoming'[i]
<1> DEFINE m == Head(Incoming)
           rest == Incoming'
<1>1. TypeOK /\ Incoming # <<>> /\ m \in Requests /\ Receive
  BY IncomingType DEF ActorInv, Handle, Message
<1>2. Incoming = <<m>> \o rest /\ slot' = <<>> /\ channel' \in Seq(Message)
  BY <1>1, ReceiveTakesFirst
<1>3. rest \in Seq(Message)
  BY <1>2, EmptySeq, ConcatProperties DEF Incoming
<1>4. <<m>> \in Seq(Message) /\ Len(<<m>>) = 1
  BY <1>1 DEF Message
<1>5. Incoming \in Seq(Message)
  BY <1>1, IncomingType
<1> HIDE DEF rest
<1>6. /\ Len(rest) \in Nat /\ Len(<<m>> \o rest) = Len(rest) + 1
      /\ (<<m>> \o rest)[1] = m
      /\ \A i \in 1 .. Len(rest) : (<<m>> \o rest)[i + 1] = rest[i]
  BY <1>3, <1>4, ConcatProperties, LenProperties
<1>7. DOMAIN Incoming = 1 .. Len(Incoming) /\ DOMAIN rest = 1 .. Len(rest)
  BY <1>3, <1>5, LenProperties
<1> QED  BY <1>2, <1>6, <1>7 DEF rest

LEMMA OnceSend ==
    ASSUME LogInv, NEW m \in Message, channel' = Append(channel, m), slot' = slot,
           seen' = seen,
           m \in Reads => caller[m] = "unsent" /\ caller'[m] # "unsent",
           \A r \in Reads : caller'[r] = "unsent" => caller[r] = "unsent"
    PROVE  ReadsAnsweredOnce'
<1>3. /\ Len(Incoming) \in Nat /\ Len(Incoming') = Len(Incoming) + 1
      /\ \A i \in 1 .. Len(Incoming) : Incoming'[i] = Incoming[i]
      /\ Incoming'[Len(Incoming) + 1] = m
  BY SentIncoming DEF LogInv
<1>4. m \in Reads => seen[m] = NoAnswer /\ \A i \in 1 .. Len(Incoming) : Incoming[i] # m
  BY DEF LogInv, ReadsAnsweredOnce
<1>5. ASSUME NEW i \in 1 .. Len(Incoming'), Incoming'[i] \in Reads
      PROVE  /\ caller'[Incoming'[i]] # "unsent" /\ seen'[Incoming'[i]] = NoAnswer
             /\ \A j \in 1 .. Len(Incoming') : Incoming'[j] = Incoming'[i] => j = i
  <2>1. CASE i = Len(Incoming) + 1
    BY <1>3, <1>4, <1>5, <2>1
  <2>2. CASE i \in 1 .. Len(Incoming)
    BY <1>3, <1>4, <1>5, <2>2 DEF LogInv, ReadsAnsweredOnce
  <2> QED  BY <1>3, <2>1, <2>2
<1> QED  BY <1>5 DEF LogInv, ReadsAnsweredOnce

LEMMA OnceHandle == ASSUME LogInv, Handle PROVE ReadsAnsweredOnce'
<1> DEFINE m == Head(Incoming)
<1>1. TypeOK /\ m \in Requests
  BY IncomingType DEF LogInv, ActorInv, Handle, Message
<1>4. /\ Len(Incoming') \in Nat /\ Len(Incoming) = Len(Incoming') + 1
      /\ Incoming[1] = m
      /\ \A i \in 1 .. Len(Incoming') : Incoming[i + 1] = Incoming'[i]
  BY HandledIncoming DEF LogInv
<1>5. /\ \A r \in Reads : r # m => seen'[r] = seen[r]
      /\ \A r \in Requests : caller'[r] = IF r = m THEN "settled" ELSE caller[r]
  BY <1>1 DEF Handle, TypeOK
<1>6. \A i \in 1 .. Len(Incoming') : m \in Reads => Incoming'[i] # m
  BY <1>4 DEF LogInv, ReadsAnsweredOnce
<1>7. ASSUME NEW i \in 1 .. Len(Incoming'), Incoming'[i] \in Reads
      PROVE  /\ caller'[Incoming'[i]] # "unsent" /\ seen'[Incoming'[i]] = NoAnswer
             /\ \A j \in 1 .. Len(Incoming') : Incoming'[j] = Incoming'[i] => j = i
  <2>1. i + 1 \in 1 .. Len(Incoming) /\ Incoming[i + 1] = Incoming'[i]
    BY <1>4
  <2>2. /\ caller[Incoming[i + 1]] # "unsent" /\ seen[Incoming[i + 1]] = NoAnswer
        /\ \A j \in 1 .. Len(Incoming) : Incoming[j] = Incoming[i + 1] => j = i + 1
    BY <1>7, <2>1 DEF LogInv, ReadsAnsweredOnce
  <2>3. Incoming'[i] # m /\ Incoming'[i] \in Requests
    BY <1>6, <1>7 DEF Requests
  <2>4. \A j \in 1 .. Len(Incoming') : Incoming'[j] = Incoming'[i] => j = i
    <3>1. ASSUME NEW j \in 1 .. Len(Incoming'), Incoming'[j] = Incoming'[i]
          PROVE  j = i
      <4>1. j + 1 \in 1 .. Len(Incoming) /\ Incoming[j + 1] = Incoming[i + 1]
        BY <1>4, <2>1, <3>1
      <4>2. j + 1 = i + 1
        BY <2>2, <4>1
      <4> QED  BY <1>4, <4>2
    <3> QED  BY <3>1
  <2> QED  BY <1>5, <1>7, <2>1, <2>2, <2>3, <2>4
<1>8. \A r \in Reads : caller'[r] = "unsent" => seen'[r] = NoAnswer
  BY <1>5 DEF LogInv, ReadsAnsweredOnce, Requests
<1> QED  BY <1>7, <1>8 DEF ReadsAnsweredOnce

LEMMA OnceFailure == ASSUME LogInv, Lost \/ Restart PROVE ReadsAnsweredOnce'
<1>1. <<>> \o <<>> = <<>>
  BY EmptySeq, ConcatEmptySeq
<1>2. Incoming' = <<>> /\ seen' = seen
  BY <1>1 DEF Lost, Restart, Incoming, store
<1>3. \A r \in Reads : caller'[r] = "unsent" => caller[r] = "unsent"
  BY DEF Lost, Restart, Requests
<1> QED  BY <1>2, <1>3, OnceWhenEmpty DEF LogInv

LEMMA OnceStep == LogInv /\ [Next]_vars => ReadsAnsweredOnce'
<1> SUFFICES ASSUME LogInv, [Next]_vars PROVE ReadsAnsweredOnce'
  OBVIOUS
<1>1. TypeOK /\ caller \in [Requests -> {"unsent", "waiting", "settled", "failed"}]
  BY DEF LogInv, ActorInv, TypeOK
<1>2. ASSUME NEW r \in Requests, Send(r) PROVE ReadsAnsweredOnce'
  BY <1>1, <1>2, OnceSend DEF Send, Message, Requests, store
<1>3. ASSUME NEW r \in Requests, SendFails(r) \/ Cancel(r) PROVE ReadsAnsweredOnce'
  <2>1. Incoming' = Incoming /\ seen' = seen
    BY <1>3 DEF SendFails, Cancel, queue, store, Incoming
  <2>2. \A q \in Reads : caller'[q] = "unsent" => caller[q] = "unsent"
    BY <1>1, <1>3 DEF SendFails, Cancel, Requests
  <2> QED  BY <2>1, <2>2, OnceWhenKept DEF LogInv
<1>4. CASE Drop
  <2>1. Stop \notin Reads
    BY RequestAssumption DEF Requests
  <2> QED  BY <1>4, <2>1, OnceSend DEF Drop, Message, store
<1>5. CASE Begin \/ Finish \/ PushBack
  <2>1. TypeOK /\ Incoming # <<>> /\ HoldNext
    BY <1>1, <1>5 DEF Begin, Finish, PushBack, NotForThisBatch
  <2>2. seen' = seen /\ caller' = caller
    BY <1>5 DEF Begin, BeginTransaction, Finish, PushBack, store
  <2> QED  BY <2>1, <2>2, HoldNextKeeps, OnceWhenKept DEF LogInv
<1>6. CASE Timeout \/ Commit \/ UNCHANGED vars
  <2>1. Incoming' = Incoming /\ seen' = seen /\ caller' = caller
    BY <1>6 DEF Timeout, Commit, vars, queue, store, Incoming
  <2> QED  BY <2>1, OnceWhenKept DEF LogInv
<1> QED  BY <1>2, <1>3, <1>4, <1>5, <1>6, OnceHandle, OnceFailure
         DEF Next, ActorStep, DatabaseFails, Crash

LEMMA LogInvariant == Spec => []LogInv
<1>1. Init => LogInv
  BY ActorInit, OnceInit DEF LogInv
<1>2. LogInv /\ [Next]_vars => LogInv'
  BY ActorStepKeeps, OnceStep DEF LogInv
<1> QED  BY <1>1, <1>2, PTL DEF Spec

----------------------------------------------------------------------------
(* Every step is a step of the log *)

(* The log as the actor keeps it. *)
TheLog == IF txn = "write" THEN view ELSE db

(* A step that keeps the log, its durable part and the answers. *)
LEMMA LogKept ==
    ASSUME TheLog' = TheLog, db' = db, seen' = seen
    PROVE  UNCHANGED Log!vars
BY DEF TheLog, Log!vars

LEMMA HandleMaps == ASSUME LogInv, Handle PROVE Log!Next
<1> DEFINE m == Head(Incoming)
<1>1. ActorInv /\ pc = "batch" /\ Incoming # <<>>
  BY DEF LogInv, Handle
<1>2. txn = "read" \/ txn = "write"
  BY <1>1 DEF ActorInv, TxnMatchesPc
<1>3. EndBatch \/ (txn' = txn /\ pc' = pc)
  BY DEF Handle
<1>4. CASE txn = "write"
  <2>1. m \in Writes /\ view' = Append(view, m) /\ txn' = "write" /\ db' = db /\ seen' = seen
    BY <1>1, <1>4, HandleTables
  <2> QED  BY <1>4, <2>1 DEF Log!Next, Log!Write
<1>5. CASE txn = "read"
  <2>1. m \in Reads /\ db' = db /\ seen' = [seen EXCEPT ![m] = Len(db)]
    BY <1>1, <1>5, HandleTables
  <2>2. txn' # "write"
    BY <1>3, <1>5 DEF EndBatch
  <2>3. seen[m] = NoAnswer
    <3>1. Incoming \in Seq(Message)
      BY <1>1, IncomingType DEF ActorInv
    <3>2. 1 \in 1 .. Len(Incoming) /\ Incoming[1] = m
      BY <1>1, <3>1, EmptySeq, LenProperties
    <3> QED  BY <2>1, <3>2 DEF LogInv, ReadsAnsweredOnce
  <2> QED  BY <1>5, <2>1, <2>2, <2>3 DEF Log!Next, Log!Read
<1> QED  BY <1>2, <1>4, <1>5

(* What is lost is the part of the log that was not committed. *)
LEMMA LostMaps == ASSUME LogInv, Lost PROVE [Log!Next]_(Log!vars)
<1>1. TypeOK /\ ViewExtendsDb /\ txn' = "none" /\ UNCHANGED <<db, view, seen>>
  BY DEF LogInv, ActorInv, Lost, store
<1>2. CASE txn = "write"
  <2>1. db \in Seq(Writes) /\ view \in Seq(Writes) /\ Len(db) \in Nat /\ Len(view) \in Nat
    BY <1>1, LenProperties DEF TypeOK
  <2>2. Len(db) <= Len(view) /\ \A i \in 1 .. Len(db) : view[i] = db[i]
    BY <1>1, <1>2 DEF ViewExtendsDb
  <2>3. \A i \in 1 .. Len(db) : view[i] \in Writes
    BY <2>1, <2>2, ElementOfSeq
  <2>4. db = SubSeq(view, 1, Len(db))
    <3> DEFINE p == SubSeq(view, 1, Len(db))
    <3>1. /\ p \in Seq(Writes)
          /\ Len(p) = IF 1 <= Len(db) THEN Len(db) - 1 + 1 ELSE 0
          /\ \A i \in 1 .. Len(db) - 1 + 1 : p[i] = view[1 + i - 1]
      BY <2>1, <2>3, SubSeqProperties
    <3>2. Len(p) = Len(db) /\ \A i \in 1 .. Len(db) : p[i] = db[i]
      BY <2>1, <2>2, <3>1
    <3> QED  BY <2>1, <3>1, <3>2, SeqEqual
  <2> QED  BY <1>1, <1>2, <2>4 DEF Log!Next, Log!Crash
<1>3. CASE txn # "write"
  BY <1>1, <1>3, LogKept DEF TheLog
<1> QED  BY <1>2, <1>3

LEMMA StepMaps == ASSUME LogInv, [Next]_vars PROVE [Log!Next]_(Log!vars)
<1>1. ActorInv /\ TxnMatchesPc /\ ViewExtendsDb
  BY DEF LogInv, ActorInv
<1>2. CASE Drop \/ Finish \/ (\E r \in Requests : Send(r) \/ SendFails(r) \/ Cancel(r))
        \/ UNCHANGED vars
  <2>1. UNCHANGED <<txn, db, view, seen>>
    BY <1>2 DEF Drop, Finish, Send, SendFails, Cancel, vars, store
  <2> QED  BY <2>1, LogKept DEF TheLog
<1>3. CASE Begin
  <2>1. txn = "none" /\ view' = db /\ db' = db /\ seen' = seen
    BY <1>1, <1>3 DEF Begin, BeginTransaction, TxnMatchesPc
  <2> QED  BY <2>1, LogKept DEF TheLog
<1>4. CASE PushBack \/ Timeout
  <2>1. pc = "batch" /\ EndBatch /\ UNCHANGED <<db, view, seen>>
    BY <1>4 DEF PushBack, Timeout, store
  <2>2. TheLog' = TheLog
    BY <1>1, <2>1 DEF EndBatch, TheLog
  <2> QED  BY <2>1, <2>2, LogKept
<1>5. CASE Commit
  <2>1. txn = "write" /\ txn' = "none" /\ db' = view /\ seen' = seen
    BY <1>1, <1>5 DEF Commit, TxnMatchesPc
  <2> QED  BY <2>1 DEF Log!Next, Log!Sync
<1>6. CASE Restart
  <2>1. txn = "none" /\ txn' = txn /\ UNCHANGED <<db, view, seen>>
    BY <1>1, <1>6 DEF Restart, TxnMatchesPc, store
  <2> QED  BY <2>1, LogKept DEF TheLog
<1> QED  BY <1>2, <1>3, <1>4, <1>5, <1>6, HandleMaps, LostMaps
         DEF Next, ActorStep, DatabaseFails, Crash

(* The actor, with its channel, its slot and its batches, keeps the        *)
(* contract of ActorLog: writes take effect in order, a crash takes back   *)
(* only the end that was not committed, and every read is answered from    *)
(* the whole log at a moment when all of it is durable.                    *)
THEOREM ActorImplementsLog == Spec => ImplementsLog
<1>1. Init => Log!Init
  <2> SUFFICES ASSUME Init PROVE Log!Init
    OBVIOUS
  <2>1. txn = "none" /\ db = <<>> /\ <<>> \in Seq(Writes)
    BY EmptySeq DEF Init
  <2> QED  BY <2>1 DEF Init, Log!Init
<1>2. LogInv /\ [Next]_vars => [Log!Next]_(Log!vars)
  BY StepMaps
<1> QED  BY <1>1, <1>2, LogInvariant, PTL DEF Spec, ImplementsLog, Log!Spec
----------------------------------------------------------------------------
(* What the thread leaves behind when it stops, and what reads see *)

(* Every write that was handled is in the log, committed or not. *)
HandledWritesLogged ==
    pc # "down" =>
        \A i \in DOMAIN handled :
            handled[i] \in Writes => \E k \in DOMAIN TheLog : TheLog[k] = handled[i]

HandledReadsAnswered ==
    \A j \in DOMAIN handled : handled[j] \in Reads => seen[handled[j]] \in Nat

(* Nothing is sent after Stop, and a thread that has stopped holds it. *)
StopIsLast ==
    /\ \A i \in DOMAIN Incoming : Incoming[i] = Stop => dropped /\ i = Len(Incoming)
    /\ pc = "stopped" => Incoming # <<>> /\ Head(Incoming) = Stop

HistoryInv ==
    /\ HandledWritesLogged /\ HandledReadsAnswered /\ ReadsSeeEarlierWrites
    /\ StopIsLast

StopInv == ActorInv /\ HistoryInv

LEMMA HistoryInit == Init => HistoryInv
<1> SUFFICES ASSUME Init PROVE HistoryInv
  OBVIOUS
<1>1. Incoming = <<>>
  <2>1. <<>> \o <<>> = <<>>
    BY EmptySeq, ConcatEmptySeq
  <2> QED  BY <2>1 DEF Init, Incoming
<1>2. handled = <<>> /\ pc = "peek" /\ DOMAIN <<>> = {}
  BY DEF Init
<1> QED  BY <1>1, <1>2 DEF HistoryInv, HandledWritesLogged, HandledReadsAnswered,
                           ReadsSeeEarlierWrites, StopIsLast

(* Steps that handle no message keep the log, and answers stand.           *)
LEMMA LogSame ==
    ASSUME ActorInv,
           \/ Drop \/ Finish \/ (\E r \in Requests : Send(r) \/ SendFails(r) \/ Cancel(r))
           \/ Begin \/ PushBack \/ Timeout \/ Commit \/ UNCHANGED vars
    PROVE  TheLog' = TheLog /\ handled' = handled /\ seen' = seen /\ (pc' = "down" => pc = "down")
<1>1. TxnMatchesPc /\ ViewExtendsDb
  BY DEF ActorInv
<1>2. CASE Drop \/ Finish \/ (\E r \in Requests : Send(r) \/ SendFails(r) \/ Cancel(r))
        \/ UNCHANGED vars
  <2>1. UNCHANGED <<txn, db, view, seen, handled>> /\ (pc' = pc \/ pc' = "stopped")
    BY <1>2 DEF Drop, Finish, Send, SendFails, Cancel, vars, store, history
  <2> QED  BY <2>1 DEF TheLog
<1>3. CASE Begin
  <2>1. txn = "none" /\ view' = db /\ db' = db /\ UNCHANGED <<seen, handled>> /\ pc' = "batch"
    BY <1>1, <1>3 DEF Begin, BeginTransaction, TxnMatchesPc, history
  <2> QED  BY <2>1 DEF TheLog
<1>4. CASE PushBack \/ Timeout
  <2>1. /\ pc = "batch" /\ EndBatch /\ UNCHANGED <<db, view, seen, handled>>
        /\ pc' \in {"peek", "commit"}
    BY <1>4 DEF PushBack, Timeout, EndBatch, store, history
  <2> QED  BY <1>1, <2>1 DEF EndBatch, TheLog
<1>5. CASE Commit
  <2>1. txn = "write" /\ txn' = "none" /\ db' = view /\ UNCHANGED <<seen, handled>> /\ pc' = "peek"
    BY <1>1, <1>5 DEF Commit, TxnMatchesPc, history
  <2> QED  BY <2>1 DEF TheLog
<1> QED  BY <1>2, <1>3, <1>4, <1>5

(* What is committed stays, so what a read has seen is never taken back.   *)
LEMMA SeenStays ==
    ASSUME ActorInv, [Next]_vars, NEW r \in Reads, seen[r] \in Nat
    PROVE  seen'[r] \in Nat /\ WritesSeenBy(r) \subseteq {db'[k] : k \in 1 .. seen'[r]}
<1>1. /\ db \in Seq(Writes) /\ view \in Seq(Writes) /\ Len(db) \in Nat /\ Len(view) \in Nat
      /\ seen \in [Reads -> Nat \cup {NoAnswer}]
  BY LenProperties DEF ActorInv, TypeOK
<1>2. seen[r] <= Len(db)
  BY RequestAssumption DEF ActorInv, ReadsAreDurable
<1>3. seen'[r] = seen[r] \/ seen'[r] = Len(db)
  <2>1. CASE Handle
    <3>1. txn = "read" \/ txn = "write"
      BY <2>1 DEF ActorInv, TxnMatchesPc, Handle
    <3> QED  BY <1>1, <2>1, <3>1, HandleTables
  <2>2. CASE ~Handle
    <3>1. seen' = seen
      BY <2>2 DEF Next, vars, Send, SendFails, Cancel, Drop, ActorStep, Begin, BeginTransaction,
                  Finish, PushBack, Timeout, Commit, DatabaseFails, Crash, Lost, Restart, store
    <3> QED  BY <3>1
  <2> QED  BY <2>1, <2>2
<1>4. \A k \in 1 .. Len(db) : db'[k] = db[k]
  <2>1. CASE Commit
    <3>1. txn = "write" /\ db' = view
      BY <2>1 DEF ActorInv, TxnMatchesPc, Commit
    <3> QED  BY <3>1 DEF ActorInv, ViewExtendsDb
  <2>2. CASE ~Commit
    <3>1. db' = db
      BY <2>2 DEF Next, vars, Send, SendFails, Cancel, Drop, ActorStep, Begin, BeginTransaction,
                  Finish, PushBack, Timeout, Handle, DatabaseFails, Crash, Lost, Restart, store
    <3> QED  BY <3>1
  <2> QED  BY <2>1, <2>2
<1>5. ASSUME NEW k \in 1 .. seen[r]
      PROVE  db[k] \in {db'[c] : c \in 1 .. seen'[r]}
  <2>1. k \in 1 .. seen'[r] /\ db'[k] = db[k]
    BY <1>1, <1>2, <1>3, <1>4
  <2> QED  BY <2>1
<1> QED  BY <1>1, <1>3, <1>5 DEF WritesSeenBy

(* A step that handles nothing. *)
LEMMA HistoryKept ==
    ASSUME StopInv, [Next]_vars, handled' = handled, seen' = seen,
           pc' # "down" => pc # "down" /\ TheLog' = TheLog
    PROVE  HandledWritesLogged' /\ HandledReadsAnswered' /\ ReadsSeeEarlierWrites'
<1>1. /\ ActorInv /\ HandledWritesLogged /\ HandledReadsAnswered /\ ReadsSeeEarlierWrites
  BY DEF StopInv, HistoryInv
<1>2. HandledWritesLogged' /\ HandledReadsAnswered'
  BY <1>1 DEF HandledWritesLogged, HandledReadsAnswered
<1>3. ASSUME NEW i \in DOMAIN handled, NEW j \in DOMAIN handled,
             i < j, handled[i] \in Writes, handled[j] \in Reads
      PROVE  handled[i] \in {db'[k] : k \in 1 .. seen'[handled[j]]}
  <2>1. handled[i] \in WritesSeenBy(handled[j]) /\ seen[handled[j]] \in Nat
    BY <1>1, <1>3 DEF ReadsSeeEarlierWrites, HandledReadsAnswered
  <2> QED  BY <1>1, <1>3, <2>1, SeenStays
<1>4. ReadsSeeEarlierWrites'
  <2>1. ASSUME NEW i \in DOMAIN handled, NEW j \in DOMAIN handled,
               i < j /\ handled[i] \in Writes /\ handled[j] \in Reads
        PROVE  handled[i] \in {db'[k] : k \in 1 .. seen'[handled[j]]}
    BY <1>3, <2>1 DEF WritesSeenBy
  <2> QED  BY <2>1 DEF ReadsSeeEarlierWrites, WritesSeenBy
<1> QED  BY <1>2, <1>4

LEMMA HistoryHandle ==
    ASSUME StopInv, Handle
    PROVE  HandledWritesLogged' /\ HandledReadsAnswered' /\ ReadsSeeEarlierWrites'
<1> DEFINE m == Head(Incoming)
           h == Len(handled)
<1>1. /\ ActorInv /\ TypeOK /\ HandledWritesLogged /\ HandledReadsAnswered
      /\ ReadsSeeEarlierWrites /\ [Next]_vars
  BY DEF StopInv, HistoryInv, ActorInv, Next
<1>2. /\ m \in Requests /\ handled \in Seq(Requests) /\ handled' = Append(handled, m)
      /\ pc = "batch" /\ (txn = "read" \/ txn = "write")
      /\ (EndBatch \/ (txn' = txn /\ pc' = pc))
  BY <1>1, IncomingType DEF TypeOK, Handle, Message, ActorInv, TxnMatchesPc
<1>3. /\ h \in Nat /\ DOMAIN handled = 1 .. h /\ DOMAIN handled' = 1 .. h + 1
      /\ handled'[h + 1] = m /\ \A i \in 1 .. h : handled'[i] = handled[i]
  BY <1>2, AppendProperties, LenProperties
<1>4. /\ db \in Seq(Writes) /\ view \in Seq(Writes) /\ Len(db) \in Nat /\ Len(view) \in Nat
      /\ DOMAIN db = 1 .. Len(db) /\ DOMAIN view = 1 .. Len(view)
      /\ seen \in [Reads -> Nat \cup {NoAnswer}]
  BY <1>1, LenProperties DEF TypeOK
<1>5. CASE txn = "write"
  <2>1. /\ m \in Writes /\ m \notin Reads /\ view' = Append(view, m) /\ seen' = seen
        /\ txn' = "write" /\ TheLog = view /\ TheLog' = view'
    BY <1>1, <1>5, HandleTables, RequestAssumption DEF TheLog
  <2>2. /\ DOMAIN view' = 1 .. Len(view) + 1 /\ view'[Len(view) + 1] = m
        /\ \A k \in 1 .. Len(view) : view'[k] = view[k]
    BY <1>4, <2>1, AppendProperties, LenProperties
  <2>3. ASSUME NEW i \in 1 .. h + 1, handled'[i] \in Writes
        PROVE  \E k \in 1 .. Len(view) + 1 : view'[k] = handled'[i]
    <3>1. CASE i = h + 1
      <4>1. Len(view) + 1 \in 1 .. Len(view) + 1
        BY <1>4
      <4> QED  BY <1>3, <2>2, <3>1, <4>1
    <3>2. CASE i \in 1 .. h
      <4>1. PICK k \in 1 .. Len(view) : view[k] = handled[i]
        BY <1>1, <1>2, <1>3, <1>4, <2>1, <2>3, <3>2 DEF HandledWritesLogged
      <4>2. k \in 1 .. Len(view) + 1 /\ view'[k] = handled'[i]
        BY <1>3, <1>4, <2>2, <3>2, <4>1
      <4> QED  BY <4>2
    <3> QED  BY <1>3, <2>3, <3>1, <3>2
  <2>4. HandledWritesLogged'
    BY <1>3, <2>1, <2>2, <2>3 DEF HandledWritesLogged
  <2>5. ASSUME NEW j \in 1 .. h + 1, handled'[j] \in Reads
        PROVE  j \in 1 .. h /\ handled'[j] = handled[j] /\ seen[handled[j]] \in Nat
    <3>1. j # h + 1
      BY <1>3, <2>1, <2>5
    <3>2. j \in 1 .. h
      BY <1>3, <3>1
    <3> QED  BY <1>1, <1>3, <2>5, <3>2 DEF HandledReadsAnswered
  <2>6. HandledReadsAnswered'
    BY <1>3, <2>1, <2>5 DEF HandledReadsAnswered
  <2>7. ASSUME NEW i \in 1 .. h + 1, NEW j \in 1 .. h + 1,
               i < j, handled'[i] \in Writes, handled'[j] \in Reads
        PROVE  handled'[i] \in {db'[k] : k \in 1 .. seen'[handled'[j]]}
    <3>1. j \in 1 .. h /\ handled'[j] = handled[j] /\ seen[handled[j]] \in Nat
      BY <2>5, <2>7
    <3>2. i \in 1 .. h /\ handled'[i] = handled[i]
      BY <1>3, <2>7, <3>1
    <3>3. handled[i] \in WritesSeenBy(handled[j])
      BY <1>1, <1>3, <2>7, <3>1, <3>2 DEF ReadsSeeEarlierWrites
    <3> QED  BY <1>1, <2>7, <3>1, <3>2, <3>3, SeenStays
  <2>8. ReadsSeeEarlierWrites'
    BY <1>3, <2>7 DEF ReadsSeeEarlierWrites, WritesSeenBy
  <2> QED  BY <2>4, <2>6, <2>8
<1>6. CASE txn = "read"
  <2>1. /\ m \in Reads /\ m \notin Writes /\ db' = db /\ seen' = [seen EXCEPT ![m] = Len(db)]
        /\ txn' # "write" /\ TheLog = db /\ TheLog' = db
    BY <1>1, <1>2, <1>6, HandleTables, RequestAssumption DEF TheLog, EndBatch
  <2>2. ASSUME NEW i \in 1 .. h + 1, handled'[i] \in Writes
        PROVE  i \in 1 .. h /\ handled'[i] = handled[i] /\ \E k \in 1 .. Len(db) : db[k] = handled[i]
    <3>1. i # h + 1
      BY <1>3, <2>1, <2>2
    <3>2. i \in 1 .. h
      BY <1>3, <3>1
    <3> QED  BY <1>1, <1>2, <1>3, <1>4, <2>1, <2>2, <3>2 DEF HandledWritesLogged
  <2>3. HandledWritesLogged'
    BY <1>3, <1>4, <2>1, <2>2 DEF HandledWritesLogged
  <2>4. ASSUME NEW j \in 1 .. h + 1, handled'[j] \in Reads
        PROVE  seen'[handled'[j]] \in Nat
    <3>1. CASE handled'[j] = m
      BY <1>4, <2>1, <3>1
    <3>2. CASE handled'[j] # m
      <4>1. j # h + 1
        BY <1>3, <3>2
      <4>2. j \in 1 .. h
        BY <1>3, <4>1
      <4> QED  BY <1>1, <1>3, <1>4, <2>1, <2>4, <3>2, <4>2 DEF HandledReadsAnswered
    <3> QED  BY <3>1, <3>2
  <2>5. HandledReadsAnswered'
    BY <1>3, <2>4 DEF HandledReadsAnswered
  <2>6. ASSUME NEW i \in 1 .. h + 1, NEW j \in 1 .. h + 1,
               i < j, handled'[i] \in Writes, handled'[j] \in Reads
        PROVE  handled'[i] \in {db'[k] : k \in 1 .. seen'[handled'[j]]}
    <3>1. i \in 1 .. h /\ handled'[i] = handled[i] /\ \E k \in 1 .. Len(db) : db[k] = handled[i]
      BY <2>2, <2>6
    <3>2. CASE j = h + 1
      <4>1. seen'[m] = Len(db) /\ handled'[j] = m
        BY <1>3, <1>4, <2>1, <3>2
      <4> QED  BY <2>1, <3>1, <4>1 DEF WritesSeenBy
    <3>3. CASE j # h + 1
      <4>1. j \in 1 .. h /\ handled'[j] = handled[j]
        BY <1>3, <3>3
      <4>2. handled[i] \in WritesSeenBy(handled[j]) /\ seen[handled[j]] \in Nat
        BY <1>1, <1>3, <2>6, <3>1, <4>1 DEF ReadsSeeEarlierWrites, HandledReadsAnswered
      <4> QED  BY <1>1, <2>6, <3>1, <4>1, <4>2, SeenStays
    <3> QED  BY <3>2, <3>3
  <2>7. ReadsSeeEarlierWrites'
    BY <1>3, <2>6 DEF ReadsSeeEarlierWrites, WritesSeenBy
  <2> QED  BY <2>3, <2>5, <2>7
<1> QED  BY <1>2, <1>5, <1>6

LEMMA StopLastStep == StopInv /\ [Next]_vars => StopIsLast'
<1> SUFFICES ASSUME StopInv, [Next]_vars PROVE StopIsLast'
  OBVIOUS
<1>1. ActorInv /\ TypeOK /\ StopIsLast
  BY DEF StopInv, HistoryInv, ActorInv
<1>2. ASSUME Incoming' = Incoming, dropped' = dropped,
             pc' = "stopped" => pc = "stopped" \/ (Incoming # <<>> /\ Head(Incoming) = Stop)
      PROVE  StopIsLast'
  BY <1>1, <1>2 DEF StopIsLast
<1>3. ASSUME NEW m \in Message, channel' = Append(channel, m), slot' = slot,
             ~dropped, m = Stop => dropped', pc' = pc, pc # "stopped"
      PROVE  StopIsLast'
  <2>1. \A i \in 1 .. Len(Incoming) : Incoming[i] # Stop
    BY <1>1, <1>3, SentIncoming DEF StopIsLast
  <2>2. ASSUME NEW i \in DOMAIN Incoming', Incoming'[i] = Stop
        PROVE  dropped' /\ i = Len(Incoming')
    <3>1. i = Len(Incoming) + 1
      BY <1>1, <1>3, <2>1, <2>2, SentIncoming
    <3> QED  BY <1>1, <1>3, <2>2, <3>1, SentIncoming
  <2> QED  BY <1>3, <2>2 DEF StopIsLast
<1>4. CASE \E r \in Requests : Send(r)
  BY <1>3, <1>4, RequestAssumption DEF Send, Running, Message
<1>5. CASE Drop
  BY <1>3, <1>5 DEF Drop, Running, Message
<1>6. CASE Handle
  <2>1. dropped' = dropped /\ pc' # "stopped"
    BY <1>6 DEF Handle, EndBatch
  <2>2. ASSUME NEW i \in DOMAIN Incoming', Incoming'[i] = Stop
        PROVE  dropped' /\ i = Len(Incoming')
    <3>1. i \in 1 .. Len(Incoming') /\ i + 1 \in DOMAIN Incoming /\ Incoming[i + 1] = Stop
      BY <1>1, <1>6, <2>2, HandledIncoming
    <3>2. dropped /\ i + 1 = Len(Incoming)
      BY <1>1, <3>1 DEF StopIsLast
    <3> QED  BY <1>1, <1>6, <2>1, <3>1, <3>2, HandledIncoming
  <2> QED  BY <2>1, <2>2 DEF StopIsLast
<1>7. CASE Begin \/ Finish \/ PushBack
  <2>1. /\ Incoming # <<>> /\ HoldNext /\ dropped' = dropped
        /\ pc' = "stopped" => Head(Incoming) = Stop
    BY <1>7 DEF Begin, BeginTransaction, Finish, PushBack, NotForThisBatch, EndBatch
  <2> QED  BY <1>1, <1>2, <2>1, HoldNextKeeps
<1>8. CASE (\E r \in Requests : SendFails(r) \/ Cancel(r)) \/ Timeout \/ Commit \/ UNCHANGED vars
  <2>1. Incoming' = Incoming /\ dropped' = dropped /\ (pc' = "stopped" => pc = "stopped")
    BY <1>8 DEF SendFails, Cancel, Timeout, EndBatch, Commit, vars, queue, Incoming
  <2> QED  BY <1>2, <2>1
<1>9. CASE Lost \/ Restart
  <2>1. <<>> \o <<>> = <<>> /\ DOMAIN <<>> = {}
    BY EmptySeq, ConcatEmptySeq
  <2>2. Incoming' = <<>> /\ pc' # "stopped"
    BY <1>9, <2>1 DEF Lost, Restart, Incoming
  <2> QED  BY <2>1, <2>2 DEF StopIsLast
<1> QED  BY <1>4, <1>5, <1>6, <1>7, <1>8, <1>9 DEF Next, ActorStep, DatabaseFails, Crash

LEMMA HistoryStep == StopInv /\ [Next]_vars => HistoryInv'
<1> SUFFICES ASSUME StopInv, [Next]_vars PROVE HistoryInv'
  OBVIOUS
<1>1. ActorInv /\ StopIsLast'
  BY StopLastStep DEF StopInv
<1>2. CASE \/ Drop \/ Finish \/ (\E r \in Requests : Send(r) \/ SendFails(r) \/ Cancel(r))
           \/ Begin \/ PushBack \/ Timeout \/ Commit \/ UNCHANGED vars
  <2>1. TheLog' = TheLog /\ handled' = handled /\ seen' = seen /\ (pc = "down" => pc' = "down")
    <3>1. pc = "down" => pc' = "down"
      BY <1>2 DEF Drop, Running, Finish, Send, SendFails, Cancel, Begin, PushBack, Timeout, Commit, vars
    <3> QED  BY <1>1, <1>2, <3>1, LogSame
  <2> QED  BY <1>1, <2>1, HistoryKept DEF HistoryInv
<1>3. CASE Handle
  BY <1>1, <1>3, HistoryHandle DEF HistoryInv
<1>4. CASE Lost
  BY <1>1, <1>4, HistoryKept DEF HistoryInv, Lost, store, history
<1>5. CASE Restart
  <2>1. handled' = <<>> /\ DOMAIN <<>> = {}
    BY <1>5 DEF Restart
  <2> QED  BY <1>1, <2>1 DEF HistoryInv, HandledWritesLogged, HandledReadsAnswered,
                             ReadsSeeEarlierWrites
<1> QED  BY <1>2, <1>3, <1>4, <1>5 DEF Next, ActorStep, DatabaseFails, Crash

LEMMA StopInvariant == Spec => []StopInv
<1>1. Init => StopInv
  BY ActorInit, HistoryInit DEF StopInv
<1>2. StopInv /\ [Next]_vars => StopInv'
  BY ActorStepKeeps, HistoryStep DEF StopInv
<1> QED  BY <1>1, <1>2, PTL DEF Spec

(* A read sees every write that was handled before it, in whatever batches *)
(* the two were, and goes on seeing it after any crash.                    *)
THEOREM ReadsSeeWritesBeforeThem == Spec => []ReadsSeeEarlierWrites
<1>1. StopInv => ReadsSeeEarlierWrites
  BY DEF StopInv, HistoryInv
<1> QED  BY <1>1, StopInvariant, PTL

(* A thread that stopped has handled everything that was sent before Stop  *)
(* and has committed every write of it: dropping the last handle loses     *)
(* nothing, whatever was queued, peeked at or pushed back at the time.     *)
THEOREM StopIsGraceful == Spec => []GracefulStop
<1>1. StopInv => GracefulStop
  <2> SUFFICES ASSUME StopInv, pc = "stopped" PROVE GracefulStop
    BY DEF GracefulStop
  <2>1. ActorInv /\ TypeOK /\ StopIsLast /\ HandledWritesLogged /\ txn = "none"
    BY DEF StopInv, HistoryInv, ActorInv, TxnMatchesPc
  <2>2. Incoming \in Seq(Message) /\ Incoming # <<>> /\ Head(Incoming) = Stop
    BY <2>1, IncomingType DEF StopIsLast
  <2>3. Len(Incoming) \in Nat /\ 1 \in DOMAIN Incoming /\ Incoming[1] = Stop
    BY <2>2, EmptySeq, LenProperties
  <2>4. Len(Incoming) = 1
    BY <2>1, <2>3 DEF StopIsLast
  <2>5. Incoming = <<Stop>>
    BY <2>2, <2>3, <2>4
  <2> QED  BY <2>1, <2>5 DEF GracefulStop, HandledWritesLogged, TheLog
<1> QED  BY <1>1, StopInvariant, PTL
=============================================================================
