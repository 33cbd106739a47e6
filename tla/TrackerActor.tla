---------------------------- MODULE TrackerActor ----------------------------
(***************************************************************************)
(* The actor that owns the tracker's database (tracker.rs, Actor::run;     *)
(* tracker/util.rs, PeekableReceiver): callers put messages in a bounded   *)
(* channel, one thread takes them out and handles runs of messages of the  *)
(* same category inside one transaction.                                   *)
(*                                                                         *)
(* Which message it is does not matter here, only whether it writes or     *)
(* reads; what the tables hold is the sequence of writes applied to them.  *)
(* Tracker models what each message does.                                  *)
(***************************************************************************)
EXTENDS Naturals, Sequences

CONSTANTS
    Writes,      \* Announce, StoreProbeResult, Gc, SetSize(s) messages
    Reads,       \* Query, GetContentForEndpoint, GetDistinctContent, ...
    Unanswered,  \* the messages sent without waiting for an answer
    Stop,        \* the message Inner::drop sends
    Capacity,    \* slots of the channel, the one reserved for Stop included
    MaxBatch,    \* 1000
    NoAnswer

Requests == Writes \cup Reads
Message == Requests \cup {Stop}

ASSUME RequestAssumption ==
    /\ Writes \cap Reads = {}
    /\ Unanswered \subseteq Requests
    /\ Stop \notin Requests
    /\ NoAnswer \notin Nat
ASSUME SizeAssumption == Capacity \in Nat \ {0} /\ MaxBatch \in Nat

VARIABLES
    caller,    \* what became of each request, for its caller
    dropped,   \* the last handle is dropped and Stop is sent
    channel,   \* the messages in the channel
    slot,      \* the message peeked at or pushed back, at most one
    pc,        \* where the actor's thread is
    txn,       \* its transaction
    n,         \* messages handled in this transaction
    db,        \* the writes committed
    view,      \* the writes the open transaction sees
    seen,      \* read -> how many writes its answer was computed from
    sent,      \* history: the messages sent to this actor, in order
    handled    \* history: the messages it handled

queue == <<channel, slot>>
store == <<db, view, seen>>
history == <<sent, handled>>
vars == <<caller, dropped, queue, pc, txn, n, store, history>>

TypeOK ==
    /\ caller \in [Requests -> {"unsent", "waiting", "settled", "failed"}]
    /\ dropped \in BOOLEAN
    /\ channel \in Seq(Message)
    /\ slot \in Seq(Message) /\ Len(slot) \in {0, 1}
    /\ pc \in {"peek", "batch", "commit", "stopped", "down"}
    /\ txn \in {"none", "read", "write"}
    /\ n \in Nat
    /\ db \in Seq(Writes) /\ view \in Seq(Writes)
    /\ seen \in [Reads -> Nat \cup {NoAnswer}]
    /\ sent \in Seq(Message)
    /\ handled \in Seq(Requests)

Init ==
    /\ caller = [r \in Requests |-> "unsent"]
    /\ dropped = FALSE
    /\ channel = <<>> /\ slot = <<>>
    /\ pc = "peek" /\ txn = "none" /\ n = 0
    /\ db = <<>> /\ view = <<>>
    /\ seen = [r \in Reads |-> NoAnswer]
    /\ sent = <<>> /\ handled = <<>>

----------------------------------------------------------------------------
(* Callers *)

Running == pc \in {"peek", "batch", "commit"}

(* One slot of the channel is always kept for Stop. *)
Send(r) ==
    /\ Running /\ ~dropped
    /\ caller[r] = "unsent"
    /\ Len(channel) < Capacity - 1
    /\ channel' = Append(channel, r)
    /\ sent' = Append(sent, r)
    /\ caller' = [caller EXCEPT ![r] = IF r \in Unanswered THEN "settled" ELSE "waiting"]
    /\ UNCHANGED <<dropped, slot, pc, txn, n, store, handled>>

(* Without a receiver there is nothing to send to. *)
SendFails(r) ==
    /\ pc = "down"
    /\ caller[r] = "unsent"
    /\ caller' = [caller EXCEPT ![r] = "failed"]
    /\ UNCHANGED <<dropped, queue, pc, txn, n, store, history>>

(* The caller is aborted; its message, if sent, is handled all the same. *)
Cancel(r) ==
    /\ caller[r] \in {"unsent", "waiting"}
    /\ caller' = [caller EXCEPT ![r] = "settled"]
    /\ UNCHANGED <<dropped, queue, pc, txn, n, store, history>>

(* Callers hold the handle they call through, so the last one goes when no *)
(* caller waits.  Stop always finds room: its permit is reserved.          *)
Drop ==
    /\ Running /\ ~dropped
    /\ \A r \in Requests : caller[r] # "waiting"
    /\ dropped' = TRUE
    /\ channel' = Append(channel, Stop)
    /\ sent' = Append(sent, Stop)
    /\ UNCHANGED <<caller, slot, pc, txn, n, store, handled>>

----------------------------------------------------------------------------
(* The actor's thread *)

Incoming == slot \o channel

(* recv: the message in the slot first, then the channel. *)
Receive ==
    IF slot # <<>> THEN slot' = <<>> /\ UNCHANGED channel
    ELSE channel' = Tail(channel) /\ UNCHANGED slot

\* Mutant of HoldNext: the slot takes a message although it is not empty.
HoldNextTwice ==
    /\ slot' = Append(slot, Head(Incoming))
    /\ channel' = IF slot # <<>> THEN channel ELSE Tail(channel)

(* The next message is in the slot: peeked at, or received and pushed back. *)
HoldNext ==
    /\ slot' = <<Head(Incoming)>>
    /\ channel' = IF slot # <<>> THEN channel ELSE Tail(channel)

\* Mutant of Category: everything is handled in a write transaction.
CategoryAlwaysWrite(m) == "write"

Category(m) == IF m \in Writes THEN "write" ELSE "read"

BeginTransaction ==
    /\ pc' = "batch"
    /\ txn' = Category(Head(Incoming))
    /\ n' = 0
    /\ view' = db
    /\ UNCHANGED <<caller, dropped, db, seen, history>>

\* Mutant of Begin: peek waits for the channel, whatever is in the slot.
BeginFromChannel ==
    /\ pc = "peek"
    /\ channel # <<>> /\ Head(Incoming) # Stop
    /\ slot' = <<Head(channel)>> /\ channel' = Tail(channel)
    /\ BeginTransaction

\* Mutant of Begin: Stop is taken for a message that reads.
BeginOnStop ==
    /\ pc = "peek"
    /\ Incoming # <<>>
    /\ HoldNext
    /\ BeginTransaction

(* peek, and a transaction for the category of the message. *)
Begin ==
    /\ pc = "peek"
    /\ Incoming # <<>> /\ Head(Incoming) # Stop
    /\ HoldNext
    /\ BeginTransaction

Finish ==
    /\ pc = "peek"
    /\ Incoming # <<>> /\ Head(Incoming) = Stop
    /\ HoldNext
    /\ pc' = "stopped"
    /\ UNCHANGED <<caller, dropped, txn, n, store, history>>

(* The end of a batch: a write transaction is left to commit. *)
EndBatch ==
    IF txn = "write" THEN pc' = "commit" /\ UNCHANGED txn
    ELSE pc' = "peek" /\ txn' = "none"

(* The answer is sent inside the transaction.  The batch may end after the *)
(* message because a second has passed, and does when n exceeds MaxBatch.  *)
Handle ==
    LET m == Head(Incoming)
    IN /\ pc = "batch"
       /\ Incoming # <<>> /\ m # Stop /\ Category(m) = txn
       /\ Receive
       /\ handled' = Append(handled, m)
       /\ view' = IF m \in Writes THEN Append(view, m) ELSE view
       /\ seen' = IF m \in Reads THEN [seen EXCEPT ![m] = Len(view)] ELSE seen
       /\ caller' = [caller EXCEPT ![m] = "settled"]
       /\ \/ EndBatch /\ UNCHANGED n
          \/ n <= MaxBatch /\ n' = n + 1 /\ UNCHANGED <<pc, txn>>
       /\ UNCHANGED <<dropped, db, sent>>

NotForThisBatch == Incoming # <<>> /\ (Head(Incoming) = Stop \/ Category(Head(Incoming)) # txn)

\* Mutant of PushBack: Stop ends the loop where it is met.
PushBackStopping ==
    /\ pc = "batch"
    /\ NotForThisBatch
    /\ HoldNext
    /\ IF Head(Incoming) = Stop THEN pc' = "stopped" /\ txn' = "none" ELSE EndBatch
    /\ UNCHANGED <<caller, dropped, n, store, history>>

\* Mutant of PushBack: the message is not pushed back.
PushBackNothing ==
    /\ pc = "batch"
    /\ NotForThisBatch
    /\ Receive
    /\ EndBatch
    /\ UNCHANGED <<caller, dropped, n, store, history>>

(* A message of the other category, or Stop, is received and pushed back. *)
PushBack ==
    /\ pc = "batch"
    /\ NotForThisBatch
    /\ HoldNext
    /\ EndBatch
    /\ UNCHANGED <<caller, dropped, n, store, history>>

\* Mutant of Timeout: the transaction is dropped.
TimeoutRollsBack ==
    /\ pc = "batch"
    /\ pc' = "peek" /\ txn' = "none"
    /\ UNCHANGED <<caller, dropped, queue, n, store, history>>

\* Mutant of Timeout: a batch waits for its next message without a timer.
TimeoutReadsOnly ==
    /\ pc = "batch" /\ txn = "read"
    /\ EndBatch
    /\ UNCHANGED <<caller, dropped, queue, n, store, history>>

(* A second after the transaction began. *)
Timeout ==
    /\ pc = "batch"
    /\ EndBatch
    /\ UNCHANGED <<caller, dropped, queue, n, store, history>>

Commit ==
    /\ pc = "commit"
    /\ db' = view
    /\ pc' = "peek" /\ txn' = "none"
    /\ UNCHANGED <<caller, dropped, queue, n, view, seen, history>>

(* The database fails to begin or to commit a transaction, or the process  *)
(* is killed: what is not committed is lost, and so is every message not   *)
(* handled.                                                                *)
Lost ==
    /\ pc' = "down" /\ txn' = "none"
    /\ channel' = <<>> /\ slot' = <<>>
    /\ caller' = [r \in Requests |-> IF caller[r] = "waiting" THEN "failed" ELSE caller[r]]
    /\ UNCHANGED <<dropped, n, store, history>>

DatabaseFails ==
    /\ \/ pc = "commit"
       \/ pc = "peek" /\ Incoming # <<>> /\ Head(Incoming) # Stop
    /\ Lost

Crash == Running /\ Lost

Restart ==
    /\ pc \in {"down", "stopped"}
    /\ pc' = "peek"
    /\ dropped' = FALSE
    /\ channel' = <<>> /\ slot' = <<>>
    /\ sent' = <<>> /\ handled' = <<>>
    /\ UNCHANGED <<caller, txn, n, store>>

ActorStep == Begin \/ Finish \/ PushBack \/ Timeout \/ Commit

Next ==
    \/ \E r \in Requests : Send(r) \/ SendFails(r) \/ Cancel(r)
    \/ Drop
    \/ Handle \/ ActorStep
    \/ DatabaseFails \/ Crash \/ Restart

Spec == Init /\ [][Next]_vars

(* The thread never waits for anything but a message or its timer, which   *)
(* justifies weak fairness.  Every transaction gets a new timer of one     *)
(* second and finds a message at once, so the timer does not win against   *)
(* it for ever: strong fairness of Handle.  A sender waits in line for a   *)
(* slot of the channel.                                                    *)
FairSpec ==
    /\ Spec
    /\ WF_vars(ActorStep)
    /\ SF_vars(Handle)
    /\ \A r \in Requests : WF_vars(Send(r))

-----------------------------------------------------------------------------
(* What must hold *)

(* While the process lives no message is lost, repeated or overtaken on    *)
(* its way through the channel, the slot and the pushed-back messages at   *)
(* the ends of batches: what is handled is what was sent, in that order.   *)
HandledInOrder == pc # "down" => handled \o Incoming = sent

WritesSeenBy(r) == {db[k] : k \in 1 .. seen[r]}

(* What a read has been answered stands, whatever crashes afterwards: it   *)
(* never saw a write that was not committed.                               *)
ReadsAreDurable ==
    \A r \in Reads : seen[r] # NoAnswer => seen[r] <= Len(db)

(* A read sees every write handled before it, although writes are answered *)
(* before they are committed and a read runs in another transaction.       *)
ReadsSeeEarlierWrites ==
    \A i, j \in DOMAIN handled :
        (i < j /\ handled[i] \in Writes /\ handled[j] \in Reads)
            => handled[i] \in WritesSeenBy(handled[j])

(* When the thread ends because the last handle was dropped, every message *)
(* sent before has been handled and every write among them is committed.   *)
GracefulStop ==
    pc = "stopped" =>
        /\ Incoming = <<Stop>>
        /\ \A i \in DOMAIN handled :
               handled[i] \in Writes => \E k \in DOMAIN db : db[k] = handled[i]

(* The actor implements the log its callers rely on. *)
Log == INSTANCE ActorLog WITH
           log <- IF txn = "write" THEN view ELSE db,
           durable <- Len(db)
ImplementsLog == Log!Spec

(* Every caller gets its answer, or an error: no message stays in the      *)
(* channel or in the slot for ever.                                        *)
EveryoneIsAnswered ==
    \A r \in Requests : (caller[r] = "waiting") ~> (caller[r] # "waiting")

(* A write that was answered is committed or lost to a failure: a write    *)
(* transaction does not wait open for messages that do not come.           *)
WriteBatchesEnd == (txn = "write") ~> (txn # "write")

(* Inner::drop joins the actor's thread, so the thread must end. *)
DropTerminates == dropped ~> ~Running
=============================================================================
