---------------------------- MODULE NamingSystem ----------------------------
(***************************************************************************)
(* The publisher of the pkarr naming system (iroh-pkarr-naming-system/src/ *)
(* lib.rs): a map from public keys to the record published for each and    *)
(* the task that publishes it, again and again, in a network that keeps    *)
(* the packet with the latest timestamp of each key until it forgets it    *)
(* (external, pkarr).                                                      *)
(*                                                                         *)
(* Timestamp::now never returns the same time twice in a process, so a     *)
(* packet is named by its place in the order of the timestamps.  The two   *)
(* delays of a task, half a second and an hour, are steps that may take    *)
(* any time.                                                               *)
(***************************************************************************)
EXTENDS Naturals, Sequences

CONSTANTS
    Callers,     \* threads that call publish
    Keys, Records,
    MaxStamp,    \* bound of the model: packets signed
    None

ASSUME BoundAssumption == MaxStamp \in Nat /\ None \notin Nat /\ None \notin Records

VARIABLES
    alive,      \* a handle of the IPNS is held
    call,       \* caller -> stamp of the packet its call is about to insert
    signed,     \* history: stamp -> the packet
    packets,    \* Inner::packets: key -> stamp of the packet its task publishes
    task,       \* stamp -> where the task is
    flight,     \* stamps of the packets under way
    dht,        \* key -> stamp of the packet the network holds
    raced       \* history: keys whose last calls were made at the same time

vars == <<alive, call, signed, packets, task, flight, dht, raced>>

Stamps == DOMAIN signed
Key(n) == signed[n].key

Init ==
    /\ alive = TRUE
    /\ call = [c \in Callers |-> None]
    /\ signed = <<>> /\ task = <<>>
    /\ packets = [k \in Keys |-> None]
    /\ flight = {}
    /\ dht = [k \in Keys |-> None]
    /\ raced = {}

----------------------------------------------------------------------------
(* publish *)

(* to_signed_packet *)
SignedPacket(k, record) == [key |-> k, answers |-> <<record>>]

CallsFor(k) == {c \in Callers : call[c] # None /\ Key(call[c]) = k}

(* Some(record): the packet is signed and its task spawned before the map  *)
(* is locked.                                                              *)
Publish(c, k, record) ==
    /\ alive /\ call[c] = None
    /\ Len(signed) < MaxStamp
    /\ signed' = Append(signed, SignedPacket(k, record))
    /\ task' = Append(task, "sleep")
    /\ call' = [call EXCEPT ![c] = Len(signed')]
    /\ raced' = IF CallsFor(k) = {} THEN raced \ {k} ELSE raced \cup {k}
    /\ UNCHANGED <<alive, packets, flight, dht>>

(* abort, of a task whose handle is dropped: it ends where it waits, but a *)
(* poll that runs is not cut short.                                        *)
Aborted(old) ==
    [n \in Stamps |->
        IF n \notin old THEN task[n] ELSE IF task[n] = "poll" THEN "last_poll" ELSE "ended"]

\* Mutant of Insert: the map holds a JoinHandle, which detaches its task.
InsertDetaching(c) ==
    /\ call[c] # None
    /\ packets' = [packets EXCEPT ![Key(call[c])] = call[c]]
    /\ call' = [call EXCEPT ![c] = None]
    /\ UNCHANGED <<alive, signed, task, flight, dht, raced>>

Insert(c) ==
    LET k == Key(call[c])
    IN /\ call[c] # None
       /\ packets' = [packets EXCEPT ![k] = call[c]]
       /\ task' = Aborted({packets[k]})
       /\ call' = [call EXCEPT ![c] = None]
       /\ UNCHANGED <<alive, signed, flight, dht, raced>>

(* publish(None) *)
Remove(c, k) ==
    /\ alive /\ call[c] = None
    /\ packets' = [packets EXCEPT ![k] = None]
    /\ task' = Aborted({packets[k]})
    /\ UNCHANGED <<alive, call, signed, flight, dht, raced>>

(* The last handle is dropped, and with it the map and all it holds. *)
DropInner ==
    /\ alive /\ \A c \in Callers : call[c] = None
    /\ alive' = FALSE
    /\ packets' = [k \in Keys |-> None]
    /\ task' = Aborted({packets[k] : k \in Keys})
    /\ UNCHANGED <<call, signed, flight, dht, raced>>

New == ~alive /\ alive' = TRUE /\ UNCHANGED <<call, signed, packets, task, flight, dht, raced>>

----------------------------------------------------------------------------
(* The task of a packet *)

TaskIs(n, pc) == task' = [task EXCEPT ![n] = pc]

Wake(n) ==
    /\ task[n] = "sleep"
    /\ TaskIs(n, "poll")
    /\ UNCHANGED <<alive, call, signed, packets, flight, dht, raced>>

SendPacket(n) ==
    /\ \/ task[n] = "poll" /\ TaskIs(n, "publish")
       \/ task[n] = "last_poll" /\ TaskIs(n, "ended")
    /\ flight' = flight \cup {n}
    /\ UNCHANGED <<alive, call, signed, packets, dht, raced>>

\* Mutant of Published: a record is published once.
PublishedOnce(n) == IF task[n] = "publish" THEN TaskIs(n, "ended") ELSE UNCHANGED task

(* Whether it was published or not, the task logs it and sleeps. *)
Published(n) == IF task[n] = "publish" THEN TaskIs(n, "sleep") ELSE UNCHANGED task

----------------------------------------------------------------------------
(* The network *)

Newer(n) == dht[Key(n)] = None \/ dht[Key(n)] < n

(* A packet arrives, however late and whoever waits for it. *)
Arrives(n) ==
    /\ n \in flight
    /\ flight' = flight \ {n}
    /\ dht' = IF Newer(n) THEN [dht EXCEPT ![Key(n)] = n] ELSE dht
    /\ Published(n)
    /\ UNCHANGED <<alive, call, signed, packets, raced>>

(* The packet is lost and publish returns an error. *)
PublishFails(n) ==
    /\ n \in flight
    /\ flight' = flight \ {n}
    /\ Published(n)
    /\ UNCHANGED <<alive, call, signed, packets, dht, raced>>

Forget(k) ==
    /\ dht[k] # None
    /\ dht' = [dht EXCEPT ![k] = None]
    /\ UNCHANGED <<alive, call, signed, packets, task, flight, raced>>

TaskStep(n) == Wake(n) \/ SendPacket(n)
NetworkStep(n) == Arrives(n) \/ PublishFails(n)

Next ==
    \/ \E c \in Callers : Insert(c)
    \/ \E c \in Callers, k \in Keys : Remove(c, k) \/ \E r \in Records : Publish(c, k, r)
    \/ DropInner \/ New
    \/ \E n \in Stamps : TaskStep(n) \/ NetworkStep(n)
    \/ \E k \in Keys : Forget(k)

Spec == Init /\ [][Next]_vars

(* Calls and tasks run; a call of the network returns; a packet sent again *)
(* and again arrives some time.  That the network forgets, or that anyone  *)
(* calls, is not assumed.                                                  *)
FairSpec ==
    /\ Spec
    /\ \A c \in Callers : WF_vars(Insert(c))
    /\ \A n \in 1 .. MaxStamp :
        /\ WF_vars(n \in Stamps /\ TaskStep(n))
        /\ WF_vars(n \in Stamps /\ NetworkStep(n))
        /\ SF_vars(n \in Stamps /\ Arrives(n))

----------------------------------------------------------------------------
(* What must hold *)

ToRecord(packet) == packet.answers[1]

(* resolve, once the network answers *)
Resolve(k) == IF dht[k] = None THEN None ELSE ToRecord(signed[dht[k]])

(* A task goes on only while its packet is in the map, or a call is about  *)
(* to put it there: a record that was replaced or removed, or whose IPNS   *)
(* is dropped, is not published by anyone any more, whatever order         *)
(* overlapping calls insert in.  (IPNS::publish, AbortOnDropHandle)        *)
TasksEndWithTheirRecords ==
    \A n \in Stamps :
        task[n] \in {"sleep", "poll", "publish"} =>
            \/ packets[Key(n)] = n
            \/ \E c \in Callers : call[c] = n

(* A record that stays in the map can be resolved, again and again: what   *)
(* the network forgets, or takes late from a task that has ended, is made  *)
(* good by the next round, if the calls for its key did not overlap.       *)
(* Overlapping calls may insert in another order than they took their      *)
(* timestamps, and then the network may refuse the record of the map for   *)
(* good.  (IPNS::publish, REPUBLISH_DELAY)                                 *)
RecordsStayResolvable ==
    \A k \in Keys :
        <>[](packets[k] # None /\ k \notin raced)
            => []<>(packets[k] # None /\ Resolve(k) = ToRecord(signed[packets[k]]))
=============================================================================
