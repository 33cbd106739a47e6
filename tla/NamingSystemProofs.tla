------------------------ MODULE NamingSystemProofs ------------------------
(***************************************************************************)
(* No task of the naming system outlives its record, for any callers, keys *)
(* and records and any number of packets.                                  *)
(***************************************************************************)
EXTENDS NamingSystem, SequenceTheorems, TLAPS

Waiting == {"sleep", "poll", "publish"}

TypeOK ==
    /\ alive \in BOOLEAN
    /\ signed \in Seq([key : Keys, answers : Seq(Records)])
    /\ task \in [Stamps -> Waiting \cup {"last_poll", "ended"}]
    /\ call \in [Callers -> Stamps \cup {None}]
    /\ packets \in [Keys -> Stamps \cup {None}]
    /\ flight \subseteq Stamps
    /\ dht \in [Keys -> Stamps \cup {None}]
    /\ raced \subseteq Keys

(* The packet under a key is one of that key. *)
OwnPackets == \A k \in Keys : packets[k] # None => Key(packets[k]) = k

IInv == TypeOK /\ OwnPackets /\ TasksEndWithTheirRecords

LEMMA InitEstablishesIInv == Init => IInv
<1> SUFFICES ASSUME Init PROVE IInv
  OBVIOUS
<1>1. signed = <<>> /\ task = <<>> /\ Stamps = {}
  BY DEF Init, Stamps
<1>2. TypeOK
  BY <1>1 DEF Init, TypeOK
<1> QED  BY <1>1, <1>2 DEF Init, IInv, OwnPackets, TasksEndWithTheirRecords

LEMMA PacketsHaveKeys ==
    ASSUME TypeOK, NEW n \in Stamps
    PROVE  Key(n) \in Keys
<1>1. signed \in Seq([key : Keys, answers : Seq(Records)]) /\ n \in 1 .. Len(signed)
  BY LenProperties DEF TypeOK, Stamps
<1>2. signed[n] \in [key : Keys, answers : Seq(Records)]
  BY <1>1, ElementOfSeq
<1> QED  BY <1>2 DEF Key

(* abort changes what a task is at, never which tasks there are; those it  *)
(* is called for wait for nothing any more.  (AbortOnDropHandle)           *)
LEMMA AbortedTasks ==
    ASSUME TypeOK, NEW old
    PROVE  /\ Aborted(old) \in [Stamps -> Waiting \cup {"last_poll", "ended"}]
           /\ \A n \in Stamps : Aborted(old)[n] \in Waiting => n \notin old /\ task[n] \in Waiting
BY DEF TypeOK, Aborted, Waiting

LEMMA PublishKeepsIInv ==
    ASSUME IInv, NEW c \in Callers, NEW k \in Keys, NEW record \in Records, Publish(c, k, record)
    PROVE  IInv'
<1> DEFINE n == Len(signed) + 1
           packet == SignedPacket(k, record)
<1> USE DEF IInv, TypeOK, Stamps
<1>1. packet \in [key : Keys, answers : Seq(Records)]
  BY DEF SignedPacket
<1>2. /\ signed' = Append(signed, packet)
      /\ signed' \in Seq([key : Keys, answers : Seq(Records)])
      /\ Len(signed') = n /\ n \in Nat
      /\ Stamps = 1 .. Len(signed) /\ Stamps' = 1 .. n
      /\ signed'[n].key = k
      /\ \A i \in Stamps : signed'[i] = signed[i]
  BY <1>1 DEF Publish, SignedPacket
<1>3. Len(task) = Len(signed) /\ task \in Seq(Waiting \cup {"last_poll", "ended"})
  OBVIOUS
<1>4. /\ task' \in [Stamps' -> Waiting \cup {"last_poll", "ended"}]
      /\ task'[n] = "sleep"
      /\ \A i \in Stamps : task'[i] = task[i]
  <2> DEFINE States == Waiting \cup {"last_poll", "ended"}
  <2>1. "sleep" \in States /\ task' = Append(task, "sleep")
    BY DEF Publish, Waiting
  <2>2. task \in Seq(States)
    BY <1>3
  <2> HIDE DEF States
  <2>3. /\ task' \in Seq(States) /\ Len(task') = Len(task) + 1
        /\ task'[Len(task) + 1] = "sleep"
        /\ \A i \in 1 .. Len(task) : task'[i] = task[i]
    BY <2>1, <2>2, AppendProperties
  <2>4. task' \in [1 .. n -> States]
    BY <2>3, <1>3, LenProperties
  <2> QED  BY <1>2, <1>3, <2>3, <2>4 DEF States
<1>5. /\ Stamps \subseteq Stamps' /\ n \in Stamps' /\ n \notin Stamps
      /\ call' = [call EXCEPT ![c] = n] /\ call[c] = None
      /\ UNCHANGED <<alive, packets, flight, dht>>
  BY <1>2 DEF Publish
<1>6. raced' \subseteq Keys
  BY DEF Publish
<1>7. TypeOK'
  BY <1>2, <1>4, <1>5, <1>6
<1>8. OwnPackets'
  BY <1>2, <1>5 DEF OwnPackets, Key
<1>9. TasksEndWithTheirRecords'
  <2> SUFFICES ASSUME NEW i \in Stamps', task'[i] \in Waiting
               PROVE  packets'[Key(i)'] = i \/ \E d \in Callers : call'[d] = i
    BY DEF TasksEndWithTheirRecords, Waiting
  <2>1. CASE i = n
    BY <2>1, <1>5
  <2>2. CASE i # n
    <3>1. i \in Stamps /\ task[i] \in Waiting /\ Key(i)' = Key(i)
      BY <2>2, <1>2, <1>4 DEF Key
    <3>2. packets[Key(i)] = i \/ \E d \in Callers : call[d] = i
      BY <3>1 DEF TasksEndWithTheirRecords, Waiting
    <3>3. CASE packets[Key(i)] = i
      BY <3>1, <3>3, <1>5
    <3>4. CASE \E d \in Callers : call[d] = i
      <4>1. PICK d \in Callers : call[d] = i
        BY <3>4
      <4>2. d # c
        BY <4>1, <3>1, <1>2, <1>5, BoundAssumption
      <4> QED  BY <4>1, <4>2, <1>5
    <3> QED  BY <3>2, <3>3, <3>4
  <2> QED  BY <2>1, <2>2
<1> QED  BY <1>7, <1>8, <1>9

LEMMA InsertKeepsIInv ==
    ASSUME IInv, NEW c \in Callers, Insert(c)
    PROVE  IInv'
<1> DEFINE n == call[c]
           k == Key(call[c])
<1> USE DEF IInv
<1>1. n \in Stamps /\ k \in Keys /\ n # None
  <2>1. n \in Stamps /\ n # None
    BY DEF Insert, TypeOK
  <2> QED  BY <2>1, PacketsHaveKeys
<1>2. /\ packets' = [packets EXCEPT ![k] = n]
      /\ call' = [call EXCEPT ![c] = None]
      /\ task' = Aborted({packets[k]})
      /\ UNCHANGED <<alive, signed, flight, dht, raced>>
  BY DEF Insert
<1>3. Stamps' = Stamps /\ \A i : Key(i)' = Key(i)
  BY <1>2 DEF Stamps, Key
<1>4. TypeOK'
  BY <1>1, <1>2, <1>3, AbortedTasks DEF TypeOK
<1>5. OwnPackets'
  BY <1>1, <1>2, <1>3 DEF OwnPackets, TypeOK
<1>6. TasksEndWithTheirRecords'
  <2> SUFFICES ASSUME NEW i \in Stamps, task'[i] \in Waiting
               PROVE  packets'[Key(i)] = i \/ \E d \in Callers : call'[d] = i
    BY <1>3 DEF TasksEndWithTheirRecords, Waiting
  <2>1. i # packets[k] /\ task[i] \in Waiting
    BY <1>2, AbortedTasks
  <2>2. packets[Key(i)] = i \/ \E d \in Callers : call[d] = i
    BY <2>1 DEF TasksEndWithTheirRecords, Waiting
  <2>3. CASE packets[Key(i)] = i
    BY <2>1, <2>3, <1>2
  <2>4. CASE \E d \in Callers : call[d] = i
    <3>1. PICK d \in Callers : call[d] = i
      BY <2>4
    <3>2. CASE d = c
      BY <3>1, <3>2, <1>1, <1>2 DEF TypeOK
    <3>3. CASE d # c
      BY <3>1, <3>3, <1>2
    <3> QED  BY <3>2, <3>3
  <2> QED  BY <2>2, <2>3, <2>4
<1> QED  BY <1>4, <1>5, <1>6

(* Records are only taken out, and the tasks that go on are those of the   *)
(* records left and of calls in progress.                                  *)
LEMMA RemovalKeepsIInv ==
    ASSUME IInv, NEW gone \in SUBSET Keys,
           packets' = [k \in Keys |-> IF k \in gone THEN None ELSE packets[k]],
           task' = Aborted({packets[k] : k \in gone}),
           alive' \in BOOLEAN, UNCHANGED <<call, signed, flight, dht, raced>>
    PROVE  IInv'
<1> USE DEF IInv
<1>1. Stamps' = Stamps /\ \A i : Key(i)' = Key(i)
  BY DEF Stamps, Key
<1>2. TypeOK'
  BY <1>1, AbortedTasks DEF TypeOK
<1>3. OwnPackets'
  BY <1>1 DEF OwnPackets
<1>4. TasksEndWithTheirRecords'
  <2> SUFFICES ASSUME NEW i \in Stamps, task'[i] \in Waiting, \A d \in Callers : call[d] # i
               PROVE  packets'[Key(i)] = i
    BY <1>1 DEF TasksEndWithTheirRecords, Waiting
  <2>1. i \notin {packets[k] : k \in gone} /\ task[i] \in Waiting
    BY AbortedTasks
  <2>2. packets[Key(i)] = i
    BY <2>1 DEF TasksEndWithTheirRecords, Waiting
  <2>3. Key(i) \in Keys
    BY PacketsHaveKeys
  <2> QED  BY <2>1, <2>2, <2>3
<1> QED  BY <1>2, <1>3, <1>4

(* A step of a task or of the network: no task that has ended starts.      *)
LEMMA TaskStepKeepsIInv ==
    ASSUME IInv, NEW n \in Stamps, TaskStep(n) \/ NetworkStep(n)
    PROVE  IInv'
<1> USE DEF IInv
<1>1. /\ task' \in [Stamps -> Waiting \cup {"last_poll", "ended"}]
      /\ \A i \in Stamps : task'[i] \in Waiting => task[i] \in Waiting
  BY DEF TaskStep, NetworkStep, Wake, SendPacket, Arrives, PublishFails, Published, TaskIs,
         TypeOK, Waiting
<1>2. /\ UNCHANGED <<alive, call, signed, packets, raced>>
      /\ flight' \subseteq Stamps
      /\ dht' \in [Keys -> Stamps \cup {None}]
  BY DEF TaskStep, NetworkStep, Wake, SendPacket, Arrives, PublishFails, TypeOK
<1>3. Stamps' = Stamps /\ \A i : Key(i)' = Key(i)
  BY <1>2 DEF Stamps, Key
<1>4. TypeOK'
  BY <1>1, <1>2, <1>3 DEF TypeOK
<1> QED  BY <1>1, <1>2, <1>3, <1>4 DEF OwnPackets, TasksEndWithTheirRecords, Waiting

LEMMA NextKeepsIInv == IInv /\ [Next]_vars => IInv'
<1> SUFFICES ASSUME IInv, [Next]_vars PROVE IInv'
  OBVIOUS
<1>1. ASSUME NEW c \in Callers, Insert(c) PROVE IInv'
  BY <1>1, InsertKeepsIInv
<1>2. ASSUME NEW c \in Callers, NEW k \in Keys, Remove(c, k) PROVE IInv'
  <2>1. /\ packets' = [j \in Keys |-> IF j \in {k} THEN None ELSE packets[j]]
        /\ {packets[j] : j \in {k}} = {packets[k]}
    BY <1>2 DEF Remove, IInv, TypeOK
  <2>2. UNCHANGED <<alive, call, signed, flight, dht, raced>> /\ alive \in BOOLEAN
    BY <1>2 DEF Remove, IInv, TypeOK
  <2> QED  BY <1>2, <2>1, <2>2, RemovalKeepsIInv DEF Remove
<1>3. ASSUME NEW c \in Callers, NEW k \in Keys, NEW r \in Records, Publish(c, k, r) PROVE IInv'
  BY <1>3, PublishKeepsIInv
<1>4. CASE DropInner
  <2>1. packets' = [k \in Keys |-> IF k \in Keys THEN None ELSE packets[k]]
    BY <1>4 DEF DropInner
  <2> QED  BY <1>4, <2>1, RemovalKeepsIInv DEF DropInner
<1>5. CASE New
  BY <1>5 DEF New, IInv, TypeOK, OwnPackets, TasksEndWithTheirRecords, Stamps, Key
<1>6. ASSUME NEW n \in Stamps, TaskStep(n) \/ NetworkStep(n) PROVE IInv'
  BY <1>6, TaskStepKeepsIInv
<1>7. ASSUME NEW k \in Keys, Forget(k) PROVE IInv'
  BY <1>7 DEF Forget, IInv, TypeOK, OwnPackets, TasksEndWithTheirRecords, Stamps, Key
<1>8. CASE UNCHANGED vars
  BY <1>8 DEF vars, IInv, TypeOK, OwnPackets, TasksEndWithTheirRecords, Stamps, Key
<1> QED  BY <1>1, <1>2, <1>3, <1>4, <1>5, <1>6, <1>7, <1>8 DEF Next

(* A task goes on only while its packet is in the map or about to be put   *)
(* there: publish replaces or removes a record and nobody publishes it any *)
(* more, in whatever order calls overlap.  (IPNS::publish)                 *)
THEOREM NoTaskOutlivesItsRecord == Spec => []TasksEndWithTheirRecords
<1>1. Init => IInv
  BY InitEstablishesIInv
<1>2. IInv /\ [Next]_vars => IInv'
  BY NextKeepsIInv
<1>3. IInv => TasksEndWithTheirRecords
  BY DEF IInv
<1> QED  BY <1>1, <1>2, <1>3, PTL DEF Spec
=============================================================================
