--------------------------- MODULE TrackerProofs ---------------------------
(***************************************************************************)
(* Theorems about Tracker for every number of hosts, handlers, tasks and   *)
(* paths, every option and every bound of the clock.                       *)
(***************************************************************************)
EXTENDS Tracker, TLAPS

----------------------------------------------------------------------------
(* The tables *)

LEMMA EmptyTableType == EmptyTable \in Table
BY TimeAssumption DEF EmptyTable, Table, NoTime, Time

LEMMA AnnouncedType ==
    ASSUME NEW table \in Table, NEW path \in Path, NEW time \in Time
    PROVE  Announced(table, path, time) \in Table
BY DEF Announced, Table

LEMMA StoreProbeResultType ==
    ASSUME NEW table \in Table, NEW ok, NEW time \in Time
    PROVE  StoreProbeResult(table, ok, time) \in Table
BY DEF StoreProbeResult, Table

LEMMA WithoutType ==
    ASSUME NEW table \in Table, NEW paths
    PROVE  Without(table, paths) \in Table
BY DEF Without, Table

LEMMA ContentType ==
    ASSUME NEW table, NEW host
    PROVE  ContentForEndpoint(table, host) \in SUBSET Path
BY DEF ContentForEndpoint, Rows, PathsOf

LEMMA EndpointsType ==
    ASSUME NEW table
    PROVE  DistinctEndpoints(table) \in SUBSET Hosts
BY PathAssumption DEF DistinctEndpoints, Rows, AnnouncePath

LEMMA SavedType ==
    ASSUME NEW a \in Table, NEW b \in Table
    PROVE  [announces |-> a, probes |-> b] \in [announces : Table, probes : Table]
OBVIOUS

----------------------------------------------------------------------------
(* Types *)

LEMMA EndedType == Ended \in TaskRecord
BY ClockAssumption DEF Ended, TaskRecord

LEMMA SpawnedType ==
    ASSUME NEW h \in Hosts \cup {NoHost}
    PROVE  Spawned(h) \in TaskRecord /\ Spawned(h).pc = "idle" /\ Spawned(h).host = h
BY ClockAssumption DEF Ended, Spawned, TaskRecord

(* A step of one task changes that task alone, to another record. *)
LEMMA BecomesType ==
    ASSUME TasksOK, NEW t \in Tasks, NEW r \in TaskRecord,
           r.pc # "ended" => r.host \in Hosts, Becomes(t, r)
    PROVE  TasksOK'
BY DEF TasksOK, Becomes

LEMMA AbortType ==
    ASSUME TasksOK, NEW aborted, task' = AbortTasks(aborted)
    PROVE  TasksOK'
BY EndedType DEF TasksOK, AbortTasks, Ended

LEMMA TimeRange == now \in StartTime .. MaxTime => now \in Time
BY ClockAssumption, TimeAssumption DEF Time

LEMMA WritesType ==
    ASSUME TablesOK, NEW a \in Table, NEW b \in Table, ActorWrites(a, b),
           answered' \in Table
    PROVE  TablesOK'
BY DEF TablesOK, ActorWrites

LEMMA ReadsType ==
    ASSUME TablesOK, ActorReads, answered' \in Table
    PROVE  TablesOK'
BY DEF TablesOK, ActorReads

LEMMA TablesStutter ==
    ASSUME TablesOK, UNCHANGED tables, answered' \in Table
    PROVE  TablesOK'
BY DEF TablesOK, tables

LEMMA ControlStutter ==
    ASSUME ControlOK, UNCHANGED <<now, status, setup, taskMap, gc>>
    PROVE  ControlOK'
BY DEF ControlOK, setup

----------------------------------------------------------------------------
LEMMA TypeInit == Init => TypeOK
<1> SUFFICES ASSUME Init PROVE TypeOK
  OBVIOUS
<1>1. TablesOK
  BY EmptyTableType DEF Init, TablesOK
<1>2. TasksOK
  BY EndedType DEF Init, TasksOK, Ended
<1>3. ControlOK
  BY ClockAssumption, TimeAssumption DEF Init, ControlOK, Time
<1> QED  BY <1>1, <1>2, <1>3 DEF TypeOK

LEMMA HandlerType ==
    ASSUME TypeOK, NEW c \in Handlers, HandlerStep(c)
    PROVE  TypeOK'
<1>0. TablesOK /\ TasksOK /\ ControlOK /\ answered \in Table
  BY DEF TypeOK, TablesOK
<1>1. ASSUME NEW path \in Path, NEW time \in Stamps, Announce(c, path, time)
      PROVE  TypeOK'
  <2>1. Announced(announces, path, time) \in Table /\ probes \in Table
    BY <1>0, AnnouncedType, ClockAssumption DEF TablesOK
  <2>2. TablesOK'
    BY <1>0, <1>1, <2>1, WritesType DEF Announce
  <2>3. path.endpoint \in Hosts
    BY PathAssumption DEF AnnouncePath
  <2>4. ControlOK'
    BY <1>0, <1>1, <2>3 DEF Announce, ControlOK
  <2>5. TasksOK'
    BY <1>0, <1>1 DEF Announce, TasksOK
  <2> QED  BY <2>2, <2>4, <2>5 DEF TypeOK
<1>2. ASSUME NEW t \in Tasks, SpawnProbeTask(c, t)
      PROVE  TypeOK'
  <2>1. setupHost[c] \in Hosts
    BY <1>0, <1>2 DEF SpawnProbeTask, ControlOK
  <2>2. TasksOK'
    BY <1>0, <1>2, <2>1, SpawnedType DEF SpawnProbeTask, TasksOK
  <2>3. TablesOK' /\ ControlOK'
    BY <1>0, <1>2, TablesStutter DEF SpawnProbeTask, ControlOK
  <2> QED  BY <2>2, <2>3 DEF TypeOK
<1>3. CASE PublishTask(c)
  <2>1. TasksOK'
    BY <1>0, <1>3, AbortType DEF PublishTask
  <2>2. TablesOK' /\ ControlOK'
    BY <1>0, <1>3, TablesStutter DEF PublishTask, ControlOK
  <2> QED  BY <2>1, <2>2 DEF TypeOK
<1> QED  BY <1>1, <1>2, <1>3 DEF HandlerStep

(* What is rolled back to is a pair of tables. *)
LEMMA RollBackType ==
    ASSUME TablesOK, ActorRollsBack, answered' \in Table
    PROVE  TablesOK'
BY DEF TablesOK, ActorRollsBack

LEMMA QueryType == ASSUME TypeOK, ActorQuery \/ ActorFails PROVE TypeOK'
<1>0. TablesOK /\ TasksOK /\ ControlOK /\ answered \in Table
  BY DEF TypeOK, TablesOK
<1>1. TablesOK'
  BY <1>0, ReadsType, RollBackType
     DEF ActorQuery, AnswerQuery, PanicInQuery, ActorFails, ActorDies
<1>2. TasksOK' /\ ControlOK'
  BY <1>0 DEF ActorQuery, AnswerQuery, PanicInQuery, ActorFails, ActorDies, TasksOK,
              ControlOK, setup
<1> QED  BY <1>1, <1>2 DEF TypeOK

LEMMA ProcessEndsType == ASSUME TypeOK, ProcessEnds PROVE TypeOK'
<1>1. TablesOK'
  BY RollBackType DEF TypeOK, TablesOK, ProcessEnds
<1>2. TasksOK'
  BY EndedType DEF ProcessEnds, TasksOK, Ended
<1>3. ControlOK'
  BY DEF TypeOK, ControlOK, ProcessEnds
<1> QED  BY <1>1, <1>2, <1>3 DEF TypeOK

(* The probe a task makes next is one it was told to make. *)
LEMMA NextProbeType ==
    ASSUME TasksOK, NEW t \in Tasks, task[t].todo # {}
    PROVE  NextProbe(t) \in Path /\ task[t].todo \subseteq Path
<1>1. task[t].todo \subseteq Path
  BY DEF TasksOK, TaskRecord
<1>2. \A p \in task[t].todo : p.kind \in {0, 1}
  BY <1>1, PathAssumption DEF AnnouncePath, Partial, Complete
<1>3. \E p \in task[t].todo : \A q \in task[t].todo : p.kind <= q.kind
  <2>1. CASE \E p \in task[t].todo : p.kind = 0
    BY <2>1, <1>2
  <2>2. CASE \A p \in task[t].todo : p.kind # 0
    BY <2>2, <1>2
  <2> QED  BY <2>1, <2>2
<1>4. NextProbe(t) \in task[t].todo
  BY <1>3 DEF NextProbe
<1> QED  BY <1>1, <1>4

(* A log that fails costs the task its results, and leaves it its host. *)
LEMMA LogFailsTask ==
    ASSUME TasksOK, NEW t \in Tasks, task[t].pc # "ended", LogFails(t)
    PROVE  /\ TasksOK'
           /\ task'[t].host = task[t].host /\ task'[t].at = StartTime
           /\ task'[t].ok = {} /\ task'[t].pc # "ended"
           /\ \A u \in Tasks \ {t} : task'[u] = task[u]
<1>1. task[t] \in TaskRecord /\ task[t].host \in Hosts
  BY DEF TasksOK
<1>2. PICK pc \in {"idle", "panicked"} :
          Becomes(t, [Spawned(task[t].host) EXCEPT !.pc = pc])
  BY DEF LogFails
<1> DEFINE new == [Spawned(task[t].host) EXCEPT !.pc = pc]
<1>3. /\ new \in TaskRecord /\ new.host = task[t].host /\ new.at = StartTime
      /\ new.ok = {} /\ new.pc = pc
  BY <1>1, SpawnedType DEF TaskRecord, Spawned, Ended
<1>4. task'[t] = new /\ \A u \in Tasks \ {t} : task'[u] = task[u]
  BY <1>2 DEF Becomes, TasksOK
<1>5. TasksOK'
  BY <1>1, <1>2, <1>3, BecomesType
<1> QED  BY <1>3, <1>4, <1>5

LEMMA TaskType ==
    ASSUME TypeOK, NEW t \in Tasks, TaskStep(t)
    PROVE  TypeOK'
<1>0. TablesOK /\ TasksOK /\ ControlOK /\ answered \in Table /\ now \in Time
  BY TimeRange DEF TypeOK, TablesOK, ControlOK
<1>a. task[t] \in TaskRecord /\ (task[t].pc # "ended" => task[t].host \in Hosts)
  BY <1>0 DEF TasksOK
<1>1. CASE GetContent(t)
  <2>1. TablesOK' /\ ControlOK'
    BY <1>0, <1>1, ReadsType, ControlStutter DEF GetContent
  <2>2. ContentForEndpoint(announces, task[t].host) \in SUBSET Path
    BY ContentType
  <2>3. [task[t] EXCEPT !.pc = "dial",
             !.todo = ContentForEndpoint(announces, task[t].host)] \in TaskRecord
    BY <2>2, <1>a DEF TaskRecord
  <2>4. TasksOK'
    BY <1>0, <1>1, <1>a, <2>3, BecomesType DEF GetContent, TaskRecord
  <2> QED  BY <2>1, <2>4 DEF TypeOK
<1>2. CASE Dial(t)
  <2>1. TablesOK' /\ ControlOK'
    BY <1>0, <1>2, TablesStutter, ControlStutter DEF Dial
  <2>2. /\ [task[t] EXCEPT !.pc = "probe", !.at = now, !.ok = {}] \in TaskRecord
        /\ Spawned(task[t].host) \in TaskRecord /\ task[t].host \in Hosts
        /\ Spawned(task[t].host).host = task[t].host
    BY <1>0, <1>2, <1>a, SpawnedType DEF Dial, TaskRecord
  <2>3. TasksOK'
    <3>1. CASE LogFails(t)
      BY <1>0, <1>2, <3>1, LogFailsTask DEF Dial
    <3>2. CASE ~LogFails(t)
      BY <1>0, <1>2, <1>a, <2>2, <3>2, BecomesType DEF Dial, TaskRecord
    <3> QED  BY <3>1, <3>2
  <2> QED  BY <2>1, <2>3 DEF TypeOK
<1>3. ASSUME Probing(t)
      PROVE  /\ NextProbe(t) \in Path
             /\ [answered EXCEPT ![NextProbe(t)] = now] \in Table
             /\ [task[t] EXCEPT !.todo = task[t].todo \ {NextProbe(t)}] \in TaskRecord
             /\ [task[t] EXCEPT !.todo = task[t].todo \ {NextProbe(t)},
                                !.ok = task[t].ok \cup {NextProbe(t)}] \in TaskRecord
             /\ [Spawned(task[t].host) EXCEPT !.pc = "panicked"] \in TaskRecord
             /\ Spawned(task[t].host).host = task[t].host
             /\ task[t].host \in Hosts
  <2>1. NextProbe(t) \in Path
    BY <1>0, <1>3, NextProbeType DEF Probing
  <2>2. [answered EXCEPT ![NextProbe(t)] = now] \in Table
    BY <1>0, <2>1 DEF Table
  <2>3. task[t].host \in Hosts
    BY <1>3, <1>a DEF Probing
  <2>4. Spawned(task[t].host) \in TaskRecord /\ Spawned(task[t].host).host = task[t].host
    BY <2>3, SpawnedType
  <2> QED  BY <2>1, <2>2, <2>3, <2>4, <1>a DEF TaskRecord
<1>4. CASE ProbeSucceeds(t)
  <2>1. TablesOK' /\ ControlOK'
    BY <1>0, <1>3, <1>4, TablesStutter, ControlStutter DEF ProbeSucceeds
  <2>2. TasksOK'
    BY <1>0, <1>3, <1>4, BecomesType DEF ProbeSucceeds, TaskRecord
  <2> QED  BY <2>1, <2>2 DEF TypeOK
<1>5. CASE ProbeFails(t)
  <2>1. TablesOK' /\ ControlOK'
    BY <1>0, <1>5, TablesStutter, ControlStutter DEF ProbeFails
  <2>2. TasksOK'
    BY <1>0, <1>3, <1>5, BecomesType DEF ProbeFails, TaskRecord
  <2> QED  BY <2>1, <2>2 DEF TypeOK
<1>6. CASE LogProbeFails(t)
  <2>1. TablesOK' /\ ControlOK'
    BY <1>0, <1>3, <1>6, TablesStutter, ControlStutter DEF LogProbeFails
  <2>2. TasksOK'
    BY <1>0, <1>6, LogFailsTask DEF LogProbeFails, Probing
  <2> QED  BY <2>1, <2>2 DEF TypeOK
<1>7. CASE ProbePanics(t)
  <2>1. TablesOK' /\ ControlOK'
    BY <1>0, <1>7, TablesStutter, ControlStutter DEF ProbePanics
  <2>2. TasksOK'
    BY <1>0, <1>3, <1>7, BecomesType DEF ProbePanics, TaskRecord
  <2> QED  BY <2>1, <2>2 DEF TypeOK
<1>8. ASSUME RoundOver(t)
      PROVE  /\ Spawned(task[t].host) \in TaskRecord
             /\ Spawned(task[t].host).host = task[t].host
             /\ task[t].host \in Hosts
  BY <1>8, <1>a, SpawnedType DEF RoundOver, TaskRecord
<1>9. CASE ApplyResult(t)
  <2>1. task[t].at \in Time
    BY <1>a DEF TaskRecord
  <2>2. StoreProbeResult(probes, task[t].ok, task[t].at) \in Table /\ announces \in Table
    BY <1>0, <2>1, StoreProbeResultType DEF TablesOK
  <2>3. TablesOK' /\ ControlOK'
    BY <1>0, <1>9, <2>2, WritesType, ControlStutter DEF ApplyResult
  <2>4. TasksOK'
    BY <1>0, <1>a, <1>8, <1>9, BecomesType DEF ApplyResult, TaskRecord
  <2> QED  BY <2>3, <2>4 DEF TypeOK
<1>10. CASE DropResult(t)
  <2>1. TablesOK' /\ ControlOK'
    BY <1>0, <1>10, TablesStutter, ControlStutter DEF DropResult
  <2>2. TasksOK'
    BY <1>0, <1>a, <1>8, <1>10, BecomesType DEF DropResult, TaskRecord
  <2> QED  BY <2>1, <2>2 DEF TypeOK
<1> QED  BY <1>1, <1>2, <1>4, <1>5, <1>6, <1>7, <1>9, <1>10 DEF TaskStep

LEMMA GcType == ASSUME TypeOK, GcStep PROVE TypeOK'
<1>0. TablesOK /\ TasksOK /\ ControlOK /\ answered \in Table
  BY DEF TypeOK, TablesOK
<1>1. CASE GcCollect
  <2>1. /\ Without(announces, GcExpired(probes, now)) \in Table
        /\ Without(probes, GcExpired(probes, now)) \in Table
    BY <1>0, WithoutType DEF TablesOK
  <2>2. TablesOK'
    BY <1>0, <1>1, <2>1, WritesType DEF GcCollect
  <2>3. TasksOK' /\ ControlOK'
    BY <1>0, <1>1 DEF GcCollect, TasksOK, ControlOK, setup
  <2> QED  BY <2>2, <2>3 DEF TypeOK
<1>2. CASE PanicInGc
  <2>1. TablesOK'
    BY <1>0, <1>2, RollBackType DEF PanicInGc, ActorDies
  <2>2. TasksOK' /\ ControlOK'
    BY <1>0, <1>2 DEF PanicInGc, ActorDies, TasksOK, ControlOK, setup
  <2> QED  BY <2>1, <2>2 DEF TypeOK
<1>3. CASE GcList
  <2>1. TablesOK'
    BY <1>0, <1>3, ReadsType DEF GcList
  <2>2. TasksOK' /\ ControlOK'
    BY <1>0, <1>3, EndpointsType DEF GcList, TasksOK, ControlOK, setup
  <2> QED  BY <2>1, <2>2 DEF TypeOK
<1>4. CASE GcRetain
  <2>1. TablesOK' /\ ControlOK'
    BY <1>0, <1>4, TablesStutter DEF GcRetain, ControlOK, setup
  <2>2. TasksOK'
    BY <1>0, <1>4, AbortType DEF GcRetain
  <2> QED  BY <2>1, <2>2 DEF TypeOK
<1>5. CASE GcFails
  BY <1>5, ProcessEndsType DEF GcFails
<1> QED  BY <1>1, <1>2, <1>3, <1>4, <1>5 DEF GcStep

LEMMA ProcessType ==
    ASSUME TypeOK, Crash \/ Restart \/ Tick \/ ClockStepsBack
    PROVE  TypeOK'
<1>0. TablesOK /\ TasksOK /\ ControlOK /\ answered \in Table
  BY DEF TypeOK, TablesOK
<1>1. CASE Restart
  <2>1. TablesOK'
    BY <1>0, <1>1, TablesStutter DEF Restart
  <2>2. PICK spawned \in [DistinctEndpoints(announces) -> Tasks] :
          /\ taskMap' = [h \in Hosts |-> IF h \in DOMAIN spawned
                                         THEN spawned[h] ELSE NoTask]
          /\ task' = [t \in Tasks |->
                        IF \E h \in DOMAIN spawned : spawned[h] = t
                        THEN Spawned(CHOOSE h \in DOMAIN spawned : spawned[h] = t)
                        ELSE Ended]
    BY <1>1 DEF Restart
  <2>3. DOMAIN spawned \subseteq Hosts
    BY EndpointsType
  <2>4. ControlOK'
    BY <1>0, <1>1, <2>2, <2>3 DEF Restart, ControlOK, setup
  <2>5. ASSUME NEW t \in Tasks
        PROVE  task'[t] \in TaskRecord /\ (task'[t].pc # "ended" => task'[t].host \in Hosts)
    <3>1. CASE \E h \in DOMAIN spawned : spawned[h] = t
      BY <3>1, <2>2, <2>3, SpawnedType
    <3>2. CASE ~ \E h \in DOMAIN spawned : spawned[h] = t
      BY <3>2, <2>2, EndedType DEF Ended
    <3> QED  BY <3>1, <3>2
  <2>6. TasksOK'
    BY <2>2, <2>5 DEF TasksOK
  <2> QED  BY <2>1, <2>4, <2>6 DEF TypeOK
<1>2. CASE Crash
  BY <1>2, ProcessEndsType DEF Crash
<1>3. CASE Tick \/ ClockStepsBack
  <2>1. TablesOK' /\ TasksOK'
    BY <1>0, <1>3, TablesStutter DEF Tick, ClockStepsBack, TasksOK
  <2>2. ControlOK'
    BY <1>0, <1>3, ClockAssumption, TimeAssumption
       DEF Tick, ClockStepsBack, ControlOK, setup, Time
  <2> QED  BY <2>1, <2>2 DEF TypeOK
<1> QED  BY <1>1, <1>2, <1>3

LEMMA TypeStep == TypeOK /\ [Next]_vars => TypeOK'
<1> SUFFICES ASSUME TypeOK, [Next]_vars PROVE TypeOK'
  OBVIOUS
<1>1. CASE UNCHANGED vars
  BY <1>1 DEF vars, tables, setup, TypeOK, TablesOK, TasksOK, ControlOK
<1>2. CASE Next
  BY <1>2, HandlerType, QueryType, TaskType, GcType, ProcessType DEF Next
<1> QED  BY <1>1, <1>2

(* Every reachable state is well typed: times stay within 64 bits, gc's    *)
(* list names hosts, and a task that runs probes a host.                   *)
THEOREM TypeCorrect == Spec => []TypeOK
BY TypeInit, TypeStep, PTL DEF Spec

----------------------------------------------------------------------------
(* No task is lost *)

(* Steps that leave the task map and the handlers alone, and in which no   *)
(* task starts or changes its host, lose no task.                          *)
LEMMA NothingLost ==
    ASSUME NoLostTasks, UNCHANGED <<taskMap, setup>>,
           status' # "down" => status # "down",
           \A t \in Tasks : Live(t)' => Live(t) /\ task'[t].host = task[t].host
    PROVE  NoLostTasks'
BY DEF NoLostTasks, setup

LEMMA NoLostEnd == ASSUME ProcessEnds PROVE NoLostTasks'
BY DEF ProcessEnds, NoLostTasks

LEMMA NoLostInit == Init => NoLostTasks
BY DEF Init, NoLostTasks, Live, Ended

LEMMA NoLostHandler ==
    ASSUME TypeOK, NoLostTasks, NEW c \in Handlers, HandlerStep(c)
    PROVE  NoLostTasks'
<1>0. TasksOK /\ ControlOK
  BY DEF TypeOK
<1>1. ASSUME NEW path \in Path, NEW time \in Stamps, Announce(c, path, time)
      PROVE  NoLostTasks'
  <2>1. status # "down"
    BY <1>1 DEF Announce, ActorWrites
  <2>2. ASSUME NEW t \in Tasks, Live(t)'
        PROVE  \/ taskMap'[task'[t].host] = t
               \/ \E d \in Handlers : setupTask'[d] = t /\ setupHost'[d] = task'[t].host
    <3>1. Live(t) /\ task' = task /\ taskMap' = taskMap /\ setupTask' = setupTask
      BY <1>1, <2>2 DEF Announce, Live
    <3>2. CASE taskMap[task[t].host] = t
      BY <3>1, <3>2
    <3>3. ASSUME NEW d \in Handlers, setupTask[d] = t, setupHost[d] = task[t].host
          PROVE  setupHost'[d] = setupHost[d]
      <4>1. task[t].host \in Hosts
        BY <1>0, <3>1 DEF TasksOK, Live
      <4>2. d # c
        BY <1>1, <3>3, <4>1, SetsAssumption DEF Announce, HandlerIdle
      <4> QED  BY <1>0, <1>1, <4>2 DEF Announce, ControlOK
    <3> QED  BY <3>1, <3>2, <3>3, <2>1 DEF NoLostTasks
  <2> QED  BY <2>2 DEF NoLostTasks
<1>2. ASSUME NEW t \in Tasks, SpawnProbeTask(c, t)
      PROVE  NoLostTasks'
  <2>1. ASSUME NEW u \in Tasks, Live(u)'
        PROVE  \/ taskMap'[task'[u].host] = u
               \/ \E d \in Handlers : setupTask'[d] = u /\ setupHost'[d] = task'[u].host
    <3>1. CASE u = t
      <4>1. setupTask'[c] = t /\ setupHost'[c] = setupHost[c]
        BY <1>0, <1>2 DEF SpawnProbeTask, ControlOK
      <4>2. task'[t].host = setupHost[c]
        BY <1>0, <1>2 DEF SpawnProbeTask, TasksOK, Spawned, Ended
      <4> QED  BY <3>1, <4>1, <4>2
    <3>2. CASE u # t
      <4>1. task'[u] = task[u] /\ Live(u) /\ status # "down"
        BY <1>0, <1>2, <2>1, <3>2 DEF SpawnProbeTask, TasksOK, Live
      <4>2. ASSUME NEW d \in Handlers, setupTask[d] = u
            PROVE  setupTask'[d] = u /\ setupHost'[d] = setupHost[d]
        BY <1>0, <1>2, <4>2, SetsAssumption DEF SpawnProbeTask, ControlOK
      <4> QED  BY <1>2, <4>1, <4>2 DEF NoLostTasks, SpawnProbeTask
    <3> QED  BY <3>1, <3>2
  <2> QED  BY <2>1 DEF NoLostTasks
<1>3. CASE PublishTask(c)
  <2> DEFINE host == setupHost[c]
  <2>1. ASSUME NEW u \in Tasks, Live(u)'
        PROVE  \/ taskMap'[task'[u].host] = u
               \/ \E d \in Handlers : setupTask'[d] = u /\ setupHost'[d] = task'[u].host
    <3>1. task'[u] = task[u] /\ Live(u) /\ u # taskMap[host] /\ status # "down"
      BY <1>0, <1>3, <2>1 DEF PublishTask, AbortTasks, Live, Ended, TasksOK
    <3>2. task[u].host \in Hosts
      BY <1>0, <3>1 DEF Live, TasksOK
    <3>3. CASE taskMap[task[u].host] = u
      BY <1>0, <1>3, <3>1, <3>2, <3>3 DEF PublishTask, ControlOK
    <3>4. ASSUME NEW d \in Handlers, setupTask[d] = u, setupHost[d] = task[u].host
          PROVE  \/ taskMap'[task'[u].host] = u
                 \/ setupTask'[d] = u /\ setupHost'[d] = task'[u].host
      <4>1. CASE d = c
        BY <1>0, <1>3, <3>1, <3>2, <3>4, <4>1 DEF PublishTask, ControlOK
      <4>2. CASE d # c
        BY <1>0, <1>3, <3>1, <3>4, <4>2 DEF PublishTask, ControlOK
      <4> QED  BY <4>1, <4>2
    <3> QED  BY <3>1, <3>3, <3>4 DEF NoLostTasks
  <2> QED  BY <2>1 DEF NoLostTasks
<1> QED  BY <1>1, <1>2, <1>3 DEF HandlerStep

LEMMA NoLostTask ==
    ASSUME TypeOK, NoLostTasks, NEW t \in Tasks, TaskStep(t)
    PROVE  NoLostTasks'
<1>0. TasksOK
  BY DEF TypeOK
<1>1. UNCHANGED <<taskMap, setup, status>>
  BY DEF TaskStep, GetContent, Dial, ProbeSucceeds, ProbeFails, LogProbeFails,
         ProbePanics, ApplyResult, DropResult
<1>2. /\ task[t].pc # "ended" /\ task'[t].host = task[t].host
      /\ \A u \in Tasks \ {t} : task'[u] = task[u]
  <2>1. task[t] \in TaskRecord
    BY <1>0 DEF TasksOK
  <2>2. CASE GetContent(t)
    BY <1>0, <2>1, <2>2 DEF GetContent, TaskRecord, TasksOK, Becomes
  <2>3. CASE Dial(t)
    <3>1. task[t].pc = "dial"
      BY <2>3 DEF Dial
    <3>2. CASE Becomes(t, [task[t] EXCEPT !.pc = "probe", !.at = now, !.ok = {}])
      BY <1>0, <2>1, <3>1, <3>2 DEF TaskRecord, TasksOK, Becomes
    <3>3. CASE Becomes(t, Spawned(task[t].host))
      BY <1>0, <2>1, <3>1, <3>3 DEF Spawned, Ended, TasksOK, Becomes
    <3>4. CASE LogFails(t)
      BY <1>0, <3>1, <3>4, LogFailsTask
    <3> QED  BY <2>3, <3>2, <3>3, <3>4 DEF Dial
  <2>4. CASE ProbeSucceeds(t)
    BY <1>0, <2>1, <2>4 DEF ProbeSucceeds, Probing, TaskRecord, TasksOK, Becomes
  <2>5. CASE ProbeFails(t)
    BY <1>0, <2>1, <2>5 DEF ProbeFails, Probing, TaskRecord, TasksOK, Becomes
  <2>6. CASE LogProbeFails(t)
    BY <1>0, <2>6, LogFailsTask DEF LogProbeFails, Probing
  <2>7. CASE ProbePanics(t)
    BY <1>0, <2>1, <2>7 DEF ProbePanics, Probing, Spawned, Ended, TasksOK, Becomes
  <2>8. CASE ApplyResult(t)
    BY <1>0, <2>1, <2>8 DEF ApplyResult, RoundOver, Spawned, Ended, TasksOK, Becomes
  <2>9. CASE DropResult(t)
    BY <1>0, <2>1, <2>9 DEF DropResult, RoundOver, Spawned, Ended, TasksOK, Becomes
  <2> QED  BY <2>2, <2>3, <2>4, <2>5, <2>6, <2>7, <2>8, <2>9 DEF TaskStep
<1>3. \A u \in Tasks : Live(u)' => Live(u) /\ task'[u].host = task[u].host
  BY <1>2 DEF Live
<1> QED  BY <1>1, <1>3, NothingLost

LEMMA NoLostGc ==
    ASSUME TypeOK, NoLostTasks, GcStep
    PROVE  NoLostTasks'
<1>0. TasksOK /\ ControlOK
  BY DEF TypeOK
<1>1. CASE GcCollect \/ PanicInGc \/ GcList
  <2>1. UNCHANGED <<taskMap, setup, task>> /\ status # "down"
    BY <1>1 DEF GcCollect, PanicInGc, ActorDies, GcList, ActorWrites, ActorReads
  <2> QED  BY <2>1, NothingLost DEF Live
<1>2. CASE GcRetain
  <2>1. ASSUME NEW u \in Tasks, Live(u)'
        PROVE  \/ taskMap'[task'[u].host] = u
               \/ \E d \in Handlers : setupTask'[d] = u /\ setupHost'[d] = task'[u].host
    <3>1. /\ task'[u] = task[u] /\ Live(u) /\ status # "down"
          /\ \A h \in Hosts \ gc.known : taskMap[h] # u
      BY <1>0, <1>2, <2>1 DEF GcRetain, AbortTasks, Live, Ended, TasksOK
    <3>2. task[u].host \in Hosts
      BY <1>0, <3>1 DEF Live, TasksOK
    <3> QED  BY <1>0, <1>2, <3>1, <3>2 DEF NoLostTasks, GcRetain, setup
  <2> QED  BY <2>1 DEF NoLostTasks
<1> QED  BY <1>1, <1>2, NoLostEnd DEF GcStep, GcFails

LEMMA NoLostProcess ==
    ASSUME TypeOK, NoLostTasks, Crash \/ Restart \/ Tick \/ ClockStepsBack
    PROVE  NoLostTasks'
<1>1. CASE Restart
  <2>1. PICK spawned \in [DistinctEndpoints(announces) -> Tasks] :
          /\ \A g, h \in DOMAIN spawned : spawned[g] = spawned[h] => g = h
          /\ taskMap' = [h \in Hosts |-> IF h \in DOMAIN spawned
                                         THEN spawned[h] ELSE NoTask]
          /\ task' = [t \in Tasks |->
                        IF \E h \in DOMAIN spawned : spawned[h] = t
                        THEN Spawned(CHOOSE h \in DOMAIN spawned : spawned[h] = t)
                        ELSE Ended]
    BY <1>1 DEF Restart
  <2>2. ASSUME NEW u \in Tasks, Live(u)'
        PROVE  taskMap'[task'[u].host] = u
    <3>1. \E h \in DOMAIN spawned : spawned[h] = u
      BY <2>1, <2>2 DEF Live, Ended
    <3>2. PICK h \in DOMAIN spawned : spawned[h] = u /\ task'[u] = Spawned(h)
      BY <2>1, <3>1
    <3>3. task'[u].host = h
      BY <3>2 DEF Spawned, Ended
    <3>4. h \in Hosts
      BY EndpointsType
    <3> QED  BY <2>1, <3>2, <3>3, <3>4
  <2> QED  BY <2>2 DEF NoLostTasks
<1>2. CASE Tick \/ ClockStepsBack
  BY <1>2, NothingLost DEF Tick, ClockStepsBack, Live
<1> QED  BY <1>1, <1>2, NoLostEnd DEF Crash

LEMMA NoLostStep == TypeOK /\ NoLostTasks /\ [Next]_vars => NoLostTasks'
<1> SUFFICES ASSUME TypeOK, NoLostTasks, [Next]_vars PROVE NoLostTasks'
  OBVIOUS
<1>1. CASE UNCHANGED vars
  BY <1>1, NothingLost DEF vars, Live
<1>2. CASE ActorQuery \/ ActorFails
  <2>1. UNCHANGED <<taskMap, setup, task>> /\ status # "down"
    BY <1>2 DEF ActorQuery, AnswerQuery, PanicInQuery, ActorFails, ActorReads, ActorDies
  <2> QED  BY <2>1, NothingLost DEF Live
<1> QED  BY <1>1, <1>2, NoLostHandler, NoLostTask, NoLostGc, NoLostProcess DEF Next

(* A probe task that runs is in the task map or in the hands of the        *)
(* handler that is about to publish it, however spawning, publishing, the  *)
(* gc loop and restarts interleave: TaskMap never leaks a task.            *)
THEOREM NoTaskIsLost == Spec => []NoLostTasks
BY TypeInit, TypeStep, NoLostInit, NoLostStep, PTL DEF Spec

----------------------------------------------------------------------------
(* What is served and when: the times in the tables against the clock *)

LEMMA InRangeRows ==
    ASSUME NEW table, NEW query
    PROVE  InRange(query, table) \subseteq Path
BY DEF InRange, Rows

(* An age that does not exceed the clock was computed without wrapping.    *)
LEMMA AgeExact ==
    ASSUME NEW a \in Time, NEW b \in Time, NEW d \in Nat,
           Age(a, b) <= d, d <= a
    PROVE  b <= a /\ a - b <= d
BY TimeAssumption DEF Age, Time

(* No announce is served that is older than announce_timeout or from the   *)
(* future, although the subtraction of times wraps around and hosts choose *)
(* the times they sign: once the clock has reached announce_timeout, an    *)
(* age that wraps is too large to pass the test.                           *)
THEOREM OnlyRecentAnnouncesAreServed == Spec => []ServedAnnouncesAreRecent
<1>1. TypeOK => ServedAnnouncesAreRecent
  <2> SUFFICES ASSUME TypeOK, StartTime >= AnnounceTimeout,
                      NEW query \in Query, NEW p \in Served(query)
               PROVE  announces[p] <= now /\ now - announces[p] <= AnnounceTimeout
    BY DEF ServedAnnouncesAreRecent
  <2>1. /\ p \in Path /\ announces[p] # NoTime
        /\ Age(now, announces[p]) <= AnnounceTimeout
    BY DEF Served, QueryHosts, InRange, Rows, RecentlyAnnounced
  <2>2. now \in Time /\ AnnounceTimeout <= now
    BY ClockAssumption, TimeAssumption DEF TypeOK, ControlOK, Time
  <2>3. announces[p] \in Time
    BY <2>1 DEF TypeOK, TablesOK, Table
  <2> QED  BY <2>1, <2>2, <2>3, AgeExact, TimeAssumption
<1> QED  BY <1>1, TypeInit, TypeStep, PTL DEF Spec

----------------------------------------------------------------------------
(* Verified queries and garbage collection *)

(* The collection takes nothing away from the answer to a verified query   *)
(* that is asked at the same time: whatever the options, as long as probes *)
(* do not time out later than both expiries.                               *)
THEOREM GcKeepsVerifiedHosts == Spec => GcKeepsVerified
<1>1. ASSUME GcCollect,
             ProbeTimeout <= AnnounceExpiry \/ ProbeTimeout <= ProbeExpiry,
             TypeOK, NEW query \in Queries(TRUE)
      PROVE  Served(query) = Served(query)'
  <2> DEFINE expired == GcExpired(probes, now)
  <2>1. /\ announces' = Without(announces, expired)
        /\ probes' = Without(probes, expired)
        /\ now' = now
    BY <1>1 DEF GcCollect, ActorWrites
  <2>2. \A p \in Path \ expired : announces'[p] = announces[p] /\ probes'[p] = probes[p]
    BY <2>1 DEF Without
  <2>3. \A p \in Path \cap expired : announces'[p] = NoTime /\ probes'[p] = NoTime
    BY <2>1 DEF Without
  <2>4. query.verified
    BY DEF Queries
  <2>5. now \in Time /\ probes \in Table
    BY <1>1, TimeRange DEF TypeOK, TablesOK, ControlOK
  <2>6. ASSUME NEW p \in Path, RecentlyProbed(p, probes, now)
        PROVE  p \notin expired
    <3>1. probes[p] \in Time
      BY <2>5, <2>6 DEF RecentlyProbed, Table
    <3>2. Age(now, probes[p]) \in Int /\ Age(now, probes[p]) <= ProbeTimeout
      BY <2>5, <2>6, <3>1, TimeAssumption DEF RecentlyProbed, Age, Time
    <3> QED  BY <1>1, <3>2, TimeAssumption DEF GcExpired
  <2>7. Served(query) \subseteq Served(query)'
    <3> SUFFICES ASSUME NEW p \in Served(query) PROVE p \in Served(query)'
      OBVIOUS
    <3>1. p \in Path /\ RecentlyProbed(p, probes, now)
      BY <2>4 DEF Served, QueryHosts, InRange, Rows
    <3>2. announces'[p] = announces[p] /\ probes'[p] = probes[p]
      BY <2>2, <2>6, <3>1
    <3> QED  BY <2>1, <3>1, <3>2 DEF Served, QueryHosts, InRange, Rows,
                                     RecentlyAnnounced, RecentlyProbed
  <2>8. Served(query)' \subseteq Served(query)
    <3> SUFFICES ASSUME NEW p \in Served(query)' PROVE p \in Served(query)
      OBVIOUS
    <3>1. p \in Path /\ announces'[p] # NoTime
      BY DEF Served, QueryHosts, InRange, Rows
    <3>2. announces'[p] = announces[p] /\ probes'[p] = probes[p]
      BY <2>2, <2>3, <3>1
    <3> QED  BY <2>1, <3>1, <3>2 DEF Served, QueryHosts, InRange, Rows,
                                     RecentlyAnnounced, RecentlyProbed
  <2> QED  BY <2>7, <2>8
<1>2. TypeOK /\ [Next]_vars =>
        [GcCollect /\ (ProbeTimeout <= AnnounceExpiry \/ ProbeTimeout <= ProbeExpiry)
            => \A query \in Queries(TRUE) : Served(query) = Served(query)']_vars
  BY <1>1
<1> QED  BY <1>2, TypeInit, TypeStep, PTL DEF Spec, GcKeepsVerified

----------------------------------------------------------------------------
(* Verified means probed *)

(* Every time in a table of probes is that of a round whose host answered  *)
(* the probe of that path, then or later.                                  *)
AnsweredSince(table) ==
    \A p \in Path : table[p] # NoTime =>
        answered[p] # NoTime /\ table[p] <= answered[p]

(* The inductive invariant: the tables, the committed tables, and the      *)
(* results a task carries but has not stored.                              *)
ProbeTimesInv ==
    /\ AnsweredSince(probes)
    /\ AnsweredSince(saved.probes)
    /\ \A p \in Path : answered[p] <= now
    /\ \A t \in Tasks :
        /\ task[t].at <= now
        /\ \A p \in task[t].ok : answered[p] # NoTime /\ task[t].at <= answered[p]

LEMMA ProbeTimesInit == Init => ProbeTimesInv
BY ClockAssumption, TimeAssumption
   DEF Init, ProbeTimesInv, AnsweredSince, EmptyTable, NoTime, Ended, Time

(* Writes that keep the probes, or drop some of them. *)
LEMMA FewerProbes ==
    ASSUME TypeOK, ProbeTimesInv, NEW a, NEW b, ActorWrites(a, b),
           \A p \in Path : b[p] = probes[p] \/ b[p] = NoTime,
           UNCHANGED <<now, task, answered>>
    PROVE  ProbeTimesInv'
<1>1. AnsweredSince(b)
  BY DEF ProbeTimesInv, AnsweredSince
<1>2. probes' = b /\ (saved'.probes = b \/ saved' = saved)
  BY DEF ActorWrites
<1> QED  BY <1>1, <1>2 DEF ProbeTimesInv, AnsweredSince

(* Steps after which the tables of probes are among those before. *)
LEMMA SameProbes ==
    ASSUME ProbeTimesInv, probes' \in {probes, saved.probes},
           saved'.probes \in {probes, saved.probes}, answered' = answered,
           now' = now,
           \A t \in Tasks : /\ task'[t].at <= now
                             /\ \A p \in task'[t].ok :
                                   answered[p] # NoTime /\ task'[t].at <= answered[p]
    PROVE  ProbeTimesInv'
BY DEF ProbeTimesInv, AnsweredSince

(* A task that starts or ends carries no results. *)
LEMMA FreshTask ==
    ASSUME TypeOK, NEW r, r = Ended \/ \E h : r = Spawned(h)
    PROVE  r.at <= now /\ r.ok = {}
<1>1. StartTime <= now
  BY ClockAssumption, TimeAssumption DEF TypeOK, ControlOK, Time
<1>2. r.at = StartTime /\ r.ok = {}
  <2>1. CASE r = Ended
    BY <2>1 DEF Ended
  <2>2. ASSUME NEW h, r = Spawned(h)
        PROVE  r.at = StartTime /\ r.ok = {}
    BY <2>2 DEF Ended, Spawned
  <2> QED  BY <2>1, <2>2
<1> QED  BY <1>1, <1>2

(* Neither the end of the process nor that of the actor dates an answer     *)
(* later.                                                                  *)
LEMMA ProbeTimesEnd ==
    ASSUME TypeOK, ProbeTimesInv, ProcessEnds \/ ActorFails
    PROVE  ProbeTimesInv'
<1>1. CASE ProcessEnds
  <2>1. \A t \in Tasks : task'[t] = Ended
    BY <1>1 DEF ProcessEnds
  <2> QED  BY <1>1, <2>1, FreshTask, SameProbes DEF ProcessEnds, ActorRollsBack
<1>2. CASE ActorFails
  BY <1>2, SameProbes DEF ActorFails, ActorDies, ActorRollsBack, ProbeTimesInv
<1> QED  BY <1>1, <1>2

LEMMA ProbeTimesHandler ==
    ASSUME TypeOK, ProbeTimesInv, NEW c \in Handlers, HandlerStep(c)
    PROVE  ProbeTimesInv'
<1>0. TasksOK
  BY DEF TypeOK
<1>1. ASSUME NEW path \in Path, NEW time \in Stamps, Announce(c, path, time)
      PROVE  ProbeTimesInv'
  BY <1>1, FewerProbes DEF Announce
<1>2. ASSUME NEW t \in Tasks, SpawnProbeTask(c, t)
      PROVE  ProbeTimesInv'
  <2>1. \A u \in Tasks : task'[u] = task[u] \/ task'[u] = Spawned(setupHost[c])
    BY <1>0, <1>2 DEF SpawnProbeTask, TasksOK
  <2> QED  BY <1>2, <2>1, FreshTask, SameProbes DEF SpawnProbeTask, tables, ProbeTimesInv
<1>3. CASE PublishTask(c)
  <2>1. \A u \in Tasks : task'[u] = task[u] \/ task'[u] = Ended
    BY <1>3 DEF PublishTask, AbortTasks
  <2> QED  BY <1>3, <2>1, FreshTask, SameProbes DEF PublishTask, tables, ProbeTimesInv
<1> QED  BY <1>1, <1>2, <1>3 DEF HandlerStep

LEMMA ProbeTimesGc ==
    ASSUME TypeOK, ProbeTimesInv, GcStep
    PROVE  ProbeTimesInv'
<1>1. CASE GcCollect
  <2>1. \A p \in Path : LET b == Without(probes, GcExpired(probes, now))
                        IN b[p] = probes[p] \/ b[p] = NoTime
    BY DEF Without
  <2> QED  BY <1>1, <2>1, FewerProbes DEF GcCollect
<1>2. CASE PanicInGc
  BY <1>2, SameProbes DEF PanicInGc, ActorDies, ActorRollsBack, ProbeTimesInv
<1>3. CASE GcList
  BY <1>3, SameProbes DEF GcList, ActorReads, ProbeTimesInv
<1>4. CASE GcRetain
  <2>1. \A u \in Tasks : task'[u] = task[u] \/ task'[u] = Ended
    BY <1>4 DEF GcRetain, AbortTasks
  <2> QED  BY <1>4, <2>1, FreshTask, SameProbes DEF GcRetain, tables, ProbeTimesInv
<1>5. CASE GcFails
  BY <1>5, ProbeTimesEnd DEF GcFails
<1> QED  BY <1>1, <1>2, <1>3, <1>4, <1>5 DEF GcStep

LEMMA ProbeTimesProcess ==
    ASSUME TypeOK, ProbeTimesInv, Crash \/ Restart \/ Tick
    PROVE  ProbeTimesInv'
<1>1. CASE Crash
  BY <1>1, ProbeTimesEnd DEF Crash
<1>2. CASE Restart
  <2>1. \A t \in Tasks : task'[t] = Ended \/ \E h : task'[t] = Spawned(h)
    BY <1>2 DEF Restart
  <2> QED  BY <1>2, <2>1, FreshTask, SameProbes DEF Restart, tables
<1>3. CASE Tick
  <2>1. now \in Int /\ now' = now + 1
    BY <1>3, ClockAssumption, TimeAssumption DEF Tick, TypeOK, ControlOK, Time
  <2>2. \A p \in Path : answered[p] \in Int
    BY DEF TypeOK, TablesOK, Table, Time, NoTime
  <2>3. \A t \in Tasks : task[t].at \in Int
    BY DEF TypeOK, TasksOK, TaskRecord, Time
  <2> QED  BY <1>3, <2>1, <2>2, <2>3 DEF Tick, tables, ProbeTimesInv, AnsweredSince
<1> QED  BY <1>1, <1>2, <1>3

(* The probe that succeeds is answered now, not before the round began. *)
LEMMA ProbeTimesAnswer ==
    ASSUME TypeOK, ProbeTimesInv, NEW t \in Tasks, Probing(t),
           answered' = [answered EXCEPT ![NextProbe(t)] = now]
    PROVE  /\ \A p \in Path : answered[p] # NoTime =>
                    answered'[p] # NoTime /\ answered[p] <= answered'[p]
           /\ \A p \in Path : answered'[p] <= now
           /\ answered'[NextProbe(t)] = now /\ now # NoTime
<1>1. NextProbe(t) \in Path
  BY NextProbeType DEF TypeOK, Probing
<1>2. answered \in Table /\ now \in Time
  BY TimeRange DEF TypeOK, TablesOK, ControlOK
<1>3. \A p \in Path : answered[p] \in Int
  BY <1>2 DEF Table, Time, NoTime
<1>4. answered'[NextProbe(t)] = now /\ \A p \in Path \ {NextProbe(t)} : answered'[p] = answered[p]
  BY <1>1, <1>2 DEF Table
<1>5. now \in Int /\ now # NoTime
  BY <1>2 DEF Time, NoTime
<1> QED  BY <1>1, <1>3, <1>4, <1>5 DEF ProbeTimesInv

(* Answers only get later: what holds of the tables still does. *)
LEMMA LaterAnswers ==
    ASSUME TypeOK, ProbeTimesInv, answered' \in Table, UNCHANGED tables,
           \A p \in Path : answered[p] # NoTime =>
                answered'[p] # NoTime /\ answered[p] <= answered'[p]
    PROVE  AnsweredSince(probes)' /\ AnsweredSince(saved.probes)'
<1>1. \A p \in Path : /\ answered[p] \in Int /\ answered'[p] \in Int
                       /\ probes[p] \in Int /\ saved.probes[p] \in Int
  BY DEF TypeOK, TablesOK, Table, Time, NoTime
<1>2. probes' = probes /\ saved' = saved
  BY DEF tables
<1> QED  BY <1>1, <1>2 DEF ProbeTimesInv, AnsweredSince

LEMMA ProbeTimesTask ==
    ASSUME TypeOK, ProbeTimesInv, NEW t \in Tasks, TaskStep(t)
    PROVE  ProbeTimesInv'
<1>0. TasksOK /\ task[t] \in TaskRecord /\ task[t].ok \subseteq Path /\ task[t].at \in Int
  BY DEF TypeOK, TasksOK, TaskRecord, Time
<1>1. \A r : Becomes(t, r) => task'[t] = r /\ \A u \in Tasks \ {t} : task'[u] = task[u]
  BY <1>0 DEF Becomes, TasksOK
<1>a. /\ StartTime <= now
      /\ Spawned(task[t].host).at = StartTime /\ Spawned(task[t].host).ok = {}
  BY ClockAssumption, TimeAssumption DEF TypeOK, ControlOK, Time, Spawned, Ended
<1>2. CASE GetContent(t)
  <2>1. task'[t].at = task[t].at /\ task'[t].ok = task[t].ok
    BY <1>0, <1>2 DEF GetContent, TaskRecord, TasksOK, Becomes
  <2> QED  BY <1>1, <1>2, <2>1, SameProbes DEF GetContent, ActorReads, ProbeTimesInv
<1>3. CASE Dial(t)
  <2>1. \/ task'[t].at = now /\ task'[t].ok = {}
        \/ task'[t].at = StartTime /\ task'[t].ok = {}
    <3>1. CASE Becomes(t, [task[t] EXCEPT !.pc = "probe", !.at = now, !.ok = {}])
      BY <1>0, <3>1 DEF TaskRecord, TasksOK, Becomes
    <3>2. CASE Becomes(t, Spawned(task[t].host))
      BY <1>1, <1>a, <3>2
    <3>3. CASE LogFails(t)
      BY <1>0, <1>3, <3>3, LogFailsTask DEF Dial
    <3> QED  BY <1>3, <3>1, <3>2, <3>3 DEF Dial
  <2>2. now <= now
    BY TimeRange DEF TypeOK, ControlOK, Time
  <2>3. \A u \in Tasks \ {t} : task'[u] = task[u]
    <3>1. CASE LogFails(t)
      BY <1>0, <1>3, <3>1, LogFailsTask DEF Dial
    <3>2. CASE ~LogFails(t)
      BY <1>1, <1>3, <3>2 DEF Dial
    <3> QED  BY <3>1, <3>2
  <2> QED  BY <1>3, <1>a, <2>1, <2>2, <2>3, SameProbes DEF Dial, tables, ProbeTimesInv
<1>4. CASE ProbeSucceeds(t)
  <2> DEFINE path == NextProbe(t)
  <2>1. task'[t].at = task[t].at /\ task'[t].ok = task[t].ok \cup {path}
    BY <1>0, <1>4 DEF ProbeSucceeds, TaskRecord, TasksOK, Becomes
  <2>2. /\ \A p \in Path : answered[p] # NoTime =>
              answered'[p] # NoTime /\ answered[p] <= answered'[p]
        /\ \A p \in Path : answered'[p] <= now
        /\ answered'[path] = now /\ now # NoTime
    BY <1>4, ProbeTimesAnswer DEF ProbeSucceeds
  <2>3. answered' \in Table
    BY <1>4, TaskType DEF TypeOK, TablesOK
  <2>4. AnsweredSince(probes)' /\ AnsweredSince(saved.probes)'
    BY <1>4, <2>2, <2>3, LaterAnswers DEF ProbeSucceeds
  <2>5. ASSUME NEW u \in Tasks
        PROVE  /\ task'[u].at <= now
               /\ \A p \in task'[u].ok : answered'[p] # NoTime /\ task'[u].at <= answered'[p]
    <3>1. task[u].at \in Int /\ task[u].ok \subseteq Path /\ task[u].at <= now
      BY <1>0 DEF TasksOK, TaskRecord, Time, ProbeTimesInv
    <3>2. \A p \in Path : answered[p] \in Int /\ answered'[p] \in Int
      BY <2>3 DEF TypeOK, TablesOK, Table, Time, NoTime
    <3>3. \A p \in task[u].ok : answered'[p] # NoTime /\ task[u].at <= answered'[p]
      BY <2>2, <3>1, <3>2 DEF ProbeTimesInv
    <3>4. CASE u = t
      BY <2>1, <2>2, <3>1, <3>3, <3>4
    <3>5. CASE u # t
      BY <1>1, <1>4, <3>1, <3>3, <3>5 DEF ProbeSucceeds
    <3> QED  BY <3>4, <3>5
  <2>6. now' = now
    BY <1>4 DEF ProbeSucceeds
  <2> QED  BY <2>2, <2>4, <2>5, <2>6 DEF ProbeTimesInv
<1>5. CASE ProbeFails(t)
  <2>1. task'[t].at = task[t].at /\ task'[t].ok = task[t].ok
    BY <1>0, <1>5 DEF ProbeFails, TaskRecord, TasksOK, Becomes
  <2> QED  BY <1>1, <1>5, <2>1, SameProbes DEF ProbeFails, tables, ProbeTimesInv
<1>6. CASE LogProbeFails(t)
  <2>1. /\ task'[t].at <= now /\ task'[t].ok = {} /\ Probing(t)
        /\ \A u \in Tasks \ {t} : task'[u] = task[u]
    BY <1>0, <1>a, <1>6, LogFailsTask DEF LogProbeFails, Probing
  <2>2. CASE answered' = answered
    BY <1>1, <1>6, <2>1, <2>2, SameProbes DEF LogProbeFails, tables, ProbeTimesInv
  <2>3. CASE answered' = [answered EXCEPT ![NextProbe(t)] = now]
    <3>1. /\ \A p \in Path : answered[p] # NoTime =>
                answered'[p] # NoTime /\ answered[p] <= answered'[p]
          /\ \A p \in Path : answered'[p] <= now
      BY <2>1, <2>3, ProbeTimesAnswer
    <3>2. answered' \in Table
      BY <1>6, TaskType DEF TypeOK, TablesOK
    <3>3. AnsweredSince(probes)' /\ AnsweredSince(saved.probes)'
      BY <1>6, <3>1, <3>2, LaterAnswers DEF LogProbeFails
    <3>4. ASSUME NEW u \in Tasks
          PROVE  /\ task'[u].at <= now
                 /\ \A p \in task'[u].ok : answered'[p] # NoTime /\ task'[u].at <= answered'[p]
      <4>1. task[u].at \in Int /\ task[u].ok \subseteq Path /\ task[u].at <= now
        BY <1>0 DEF TasksOK, TaskRecord, Time, ProbeTimesInv
      <4>2. \A p \in Path : answered[p] \in Int /\ answered'[p] \in Int
        BY <3>2 DEF TypeOK, TablesOK, Table, Time, NoTime
      <4>3. \A p \in task[u].ok : answered'[p] # NoTime /\ task[u].at <= answered'[p]
        BY <3>1, <4>1, <4>2 DEF ProbeTimesInv
      <4>4. u = t \/ task'[u] = task[u]
        BY <2>1
      <4> QED  BY <2>1, <4>1, <4>3, <4>4
    <3>5. now' = now
      BY <1>6 DEF LogProbeFails
    <3> QED  BY <3>1, <3>3, <3>4, <3>5 DEF ProbeTimesInv
  <2> QED  BY <1>6, <2>2, <2>3 DEF LogProbeFails
<1>7. CASE ProbePanics(t)
  <2> DEFINE new == [Spawned(task[t].host) EXCEPT !.pc = "panicked"]
  <2>a. new.at = StartTime /\ new.ok = {}
    BY DEF Spawned, Ended
  <2>b. task'[t] = new
    BY <1>1, <1>7 DEF ProbePanics
  <2>1. task'[t].at <= now /\ task'[t].ok = {}
    BY <1>a, <2>a, <2>b
  <2> QED  BY <1>1, <1>7, <2>1, SameProbes DEF ProbePanics, tables, ProbeTimesInv
<1>8. CASE ApplyResult(t)
  <2> DEFINE stored == StoreProbeResult(probes, task[t].ok, task[t].at)
  <2>1. task'[t].at <= now /\ task'[t].ok = {}
    BY <1>1, <1>a, <1>8 DEF ApplyResult
  <2>2. \A p \in Path : stored[p] # NoTime => answered[p] # NoTime /\ stored[p] <= answered[p]
    BY DEF StoreProbeResult, ProbeTimesInv, AnsweredSince
  <2>3. probes' = stored /\ (saved'.probes = stored \/ saved' = saved)
    BY <1>8 DEF ApplyResult, ActorWrites
  <2>4. answered' = answered /\ now' = now
    BY <1>8 DEF ApplyResult
  <2>5. AnsweredSince(probes)' /\ AnsweredSince(saved.probes)'
    BY <2>2, <2>3, <2>4 DEF ProbeTimesInv, AnsweredSince
  <2>6. \A u \in Tasks : u = t \/ task'[u] = task[u]
    BY <1>1, <1>8 DEF ApplyResult
  <2> QED  BY <2>1, <2>4, <2>5, <2>6 DEF ProbeTimesInv
<1>9. CASE DropResult(t)
  <2>1. task'[t].at <= now /\ task'[t].ok = {}
    BY <1>1, <1>a, <1>9 DEF DropResult
  <2> QED  BY <1>1, <1>9, <2>1, SameProbes DEF DropResult, tables, ProbeTimesInv
<1> QED  BY <1>2, <1>3, <1>4, <1>5, <1>6, <1>7, <1>8, <1>9 DEF TaskStep

LEMMA ProbeTimesStep ==
    ASSUME ~ClockSteps
    PROVE  TypeOK /\ ProbeTimesInv /\ [Next]_vars => ProbeTimesInv'
<1> SUFFICES ASSUME TypeOK, ProbeTimesInv, [Next]_vars PROVE ProbeTimesInv'
  OBVIOUS
<1>1. CASE UNCHANGED vars
  BY <1>1 DEF vars, tables, ProbeTimesInv, AnsweredSince
<1>2. CASE ActorQuery
  BY <1>2, SameProbes DEF ActorQuery, AnswerQuery, PanicInQuery, ActorReads,
                          ActorDies, ProbeTimesInv
<1>3. CASE ClockStepsBack
  BY <1>3 DEF ClockStepsBack
<1> QED  BY <1>1, <1>2, <1>3, ProbeTimesHandler, ProbeTimesTask, ProbeTimesGc,
            ProbeTimesProcess, ProbeTimesEnd DEF Next

LEMMA ProbeTimesServed == TypeOK /\ ProbeTimesInv => VerifiedMeansProbed
<1> SUFFICES ASSUME TypeOK, ProbeTimesInv,
                    NEW query \in Queries(TRUE), NEW p \in Served(query)
             PROVE  answered[p] # NoTime /\ now - answered[p] <= ProbeTimeout
  BY DEF VerifiedMeansProbed
<1>1. p \in Path /\ RecentlyProbed(p, probes, now)
  BY DEF Served, QueryHosts, InRange, Rows, Queries
<1>2. /\ probes[p] \in Time /\ answered[p] \in Int /\ now \in Time
      /\ Age(now, probes[p]) <= ProbeTimeout
  BY <1>1, TimeRange DEF TypeOK, TablesOK, ControlOK, Table, Time, NoTime, RecentlyProbed
<1>3. answered[p] # NoTime /\ probes[p] <= answered[p] /\ answered[p] <= now
  BY <1>1 DEF ProbeTimesInv, AnsweredSince, RecentlyProbed
<1> QED  BY <1>2, <1>3, TimeAssumption DEF Age, Time

(* A host in the answer to a verified query answered a probe of that path  *)
(* within probe_timeout, whatever tasks race, fail, or are aborted and     *)
(* whatever a crash takes back, unless the system clock is set back.       *)
THEOREM VerifiedHostsWereProbed ==
    ASSUME ~ClockSteps
    PROVE  Spec => []VerifiedMeansProbed
<1>1. Init => TypeOK /\ ProbeTimesInv
  BY TypeInit, ProbeTimesInit
<1>2. TypeOK /\ ProbeTimesInv /\ [Next]_vars => TypeOK' /\ ProbeTimesInv'
  BY TypeStep, ProbeTimesStep
<1>3. TypeOK /\ ProbeTimesInv => VerifiedMeansProbed
  BY ProbeTimesServed
<1> QED  BY <1>1, <1>2, <1>3, PTL DEF Spec

----------------------------------------------------------------------------
(* Found until timeout *)

(* The only step that changes the announces while the process runs on and  *)
(* gc stands still is an announce.                                         *)
LEMMA AnnouncesChange ==
    ASSUME TypeOK, [Next]_vars, now' = now, gc' = gc, status' = status
    PROVE  \/ announces' = announces
           \/ \E path \in Path, time \in Time : announces' = Announced(announces, path, time)
<1>1. CASE UNCHANGED vars
  BY <1>1 DEF vars, tables
<1>2. ASSUME NEW c \in Handlers, HandlerStep(c)
      PROVE  \/ announces' = announces
             \/ \E path \in Path, time \in Time : announces' = Announced(announces, path, time)
  <2>1. ASSUME NEW path \in Path, NEW time \in Stamps, Announce(c, path, time)
        PROVE  announces' = Announced(announces, path, time) /\ time \in Time
    BY <2>1, ClockAssumption DEF Announce, ActorWrites
  <2>2. ASSUME (\E t \in Tasks : SpawnProbeTask(c, t)) \/ PublishTask(c)
        PROVE  announces' = announces
    BY <2>2 DEF SpawnProbeTask, PublishTask, tables
  <2> QED  BY <1>2, <2>1, <2>2 DEF HandlerStep
<1>3. ASSUME ActorQuery \/ ActorFails PROVE announces' = announces
  BY <1>3 DEF ActorQuery, AnswerQuery, PanicInQuery, ActorFails, ActorDies, ActorReads
<1>4. ASSUME NEW t \in Tasks, TaskStep(t) PROVE announces' = announces
  BY <1>4 DEF TaskStep, GetContent, Dial, ProbeSucceeds, ProbeFails, LogProbeFails,
              ProbePanics, ApplyResult, DropResult, ActorReads, ActorWrites, tables
<1>5. ASSUME GcStep PROVE announces' = announces
  <2>1. ~GcCollect
    <3> SUFFICES ASSUME GcCollect PROVE FALSE
      OBVIOUS
    <3>1. gc \in [pc : {"sleep", "list", "retain"}, known : SUBSET Hosts]
      BY DEF TypeOK, ControlOK
    <3> QED  BY <3>1 DEF GcCollect
  <2>2. ~PanicInGc
    BY DEF PanicInGc, ActorDies
  <2>3. ~GcFails
    BY DEF GcFails, ProcessEnds
  <2> QED  BY <1>5, <2>1, <2>2, <2>3 DEF GcStep, GcList, GcRetain, ActorReads, tables
<1>6. ASSUME Crash \/ Restart \/ Tick \/ ClockStepsBack PROVE announces' = announces
  BY <1>6 DEF Crash, ProcessEnds, Restart, Tick, ClockStepsBack, tables
<1> QED  BY <1>1, <1>2, <1>3, <1>4, <1>5, <1>6 DEF Next

(* Nothing but the clock, gc and a restart takes a host out of the answer  *)
(* to an unverified query, in whatever order its announces arrive; except  *)
(* its own announce of a time the tracker's clock has not reached.         *)
THEOREM HostsAreFoundUntilTimeout == Spec => FoundUntilTimeout
<1>1. ASSUME TypeOK, [Next]_vars, now' = now, gc' = gc, status' = status,
             NEW query \in Queries(FALSE), NEW p \in Served(query)
      PROVE  p \in Served(query)' \/ announces'[p] > now
  <2>1. /\ p \in Path /\ announces[p] # NoTime /\ ~query.verified
        /\ Age(now, announces[p]) <= AnnounceTimeout
    BY DEF Served, QueryHosts, InRange, Rows, RecentlyAnnounced, Queries
  <2>2. announces[p] \in Time /\ now \in Time
    BY <1>1, <2>1, TimeRange DEF TypeOK, TablesOK, ControlOK, Table
  <2>3. CASE announces'[p] = announces[p]
    BY <1>1, <2>1, <2>3 DEF Served, QueryHosts, InRange, Rows, RecentlyAnnounced, Queries
  <2>4. CASE announces'[p] # announces[p]
    <3>1. PICK path \in Path, time \in Time : announces' = Announced(announces, path, time)
      BY <1>1, <2>4, AnnouncesChange
    <3>2. announces'[p] = time /\ announces[p] < time
      BY <2>1, <2>4, <3>1 DEF Announced, TypeOK, TablesOK, Table
    <3>3. CASE time <= now
      <4>1. Age(now, time) <= AnnounceTimeout
        BY <2>1, <2>2, <3>2, <3>3, TimeAssumption DEF Age, Time
      <4>2. time # NoTime
        BY <3>1 DEF Time, NoTime
      <4> QED  BY <1>1, <2>1, <3>2, <4>1, <4>2
               DEF Served, QueryHosts, InRange, Rows, RecentlyAnnounced, Queries
    <3>4. CASE time > now
      BY <3>2, <3>4
    <3> QED  BY <2>2, <3>3, <3>4 DEF Time
  <2> QED  BY <2>3, <2>4
<1>2. TypeOK /\ [Next]_vars =>
        [(now' = now /\ gc' = gc /\ status' = status) =>
            \A query \in Queries(FALSE) : \A p \in Served(query) :
                p \in Served(query)' \/ announces'[p] > now]_vars
  BY <1>1
<1> QED  BY <1>2, TypeInit, TypeStep, PTL DEF Spec, FoundUntilTimeout
=============================================================================
