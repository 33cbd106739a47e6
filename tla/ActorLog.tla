------------------------------ MODULE ActorLog ------------------------------
(***************************************************************************)
(* What the tracker's actor promises to its callers: a log of writes, in   *)
(* the order the actor took them, of which a prefix is durable.  Writes    *)
(* are answered before they are durable, so a crash may take back the end  *)
(* of the log; reads see the whole log and only durable writes.  Tracker   *)
(* is written against this contract (ActorWrites, ActorReads) and          *)
(* TrackerActor is shown to implement it.                                  *)
(***************************************************************************)
EXTENDS Naturals, Sequences

CONSTANTS Writes, Reads, NoAnswer

VARIABLES
    log,       \* the writes that have taken effect
    durable,   \* how many of them a crash cannot take back
    seen       \* read -> how many writes its answer was computed from

vars == <<log, durable, seen>>

Init ==
    /\ log \in Seq(Writes) /\ durable = Len(log)
    /\ seen = [r \in Reads |-> NoAnswer]

Write(w) ==
    /\ log' = Append(log, w)
    /\ UNCHANGED <<durable, seen>>

Read(r) ==
    /\ durable = Len(log)
    /\ seen[r] = NoAnswer
    /\ seen' = [seen EXCEPT ![r] = Len(log)]
    /\ UNCHANGED <<log, durable>>

Sync ==
    /\ durable' = Len(log)
    /\ UNCHANGED <<log, seen>>

Crash ==
    /\ log' = SubSeq(log, 1, durable)
    /\ UNCHANGED <<durable, seen>>

Next ==
    \/ \E w \in Writes : Write(w)
    \/ \E r \in Reads : Read(r)
    \/ Sync \/ Crash

Spec == Init /\ [][Next]_vars
=============================================================================
