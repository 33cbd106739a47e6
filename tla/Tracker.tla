------------------------------ MODULE Tracker ------------------------------
(***************************************************************************)
(* The content tracker (iroh-content-tracker/src/tracker.rs): connection   *)
(* handlers that take announces and queries, one probe task per host, the  *)
(* garbage collection loop, and the database they share through the actor. *)
(*                                                                         *)
(* A call of the actor is one atomic step here, taken when the actor       *)
(* handles the message: the caller waits for the answer, and the actor     *)
(* handles messages one by one in the order they were sent.  TrackerActor  *)
(* models the channel, the batches and the transactions below that step.   *)
(* Everything a caller does between two calls is a step of its own, so the *)
(* answers it acts on may be stale by then.                                *)
(***************************************************************************)
EXTENDS TrackerTables

CONSTANTS
    Handlers,    \* tasks that serve incoming connections
    Tasks,       \* probe tasks, spawned again when they have ended
    NoHost, NoTask,
    StartTime,   \* the clock when the tracker is first started
    MaxTime,     \* bound of the clock
    Stamps,      \* times that announces carry, set by the announcing host
    Unprobeable, \* paths whose complete content has no chunk to ask for
    Logging,     \* TRUE: the options name files to log dials and probes to
    ClockSteps,  \* TRUE: the system clock may be set back
    Crashes      \* TRUE: the process may be killed, and its database may fail

ASSUME SetsAssumption ==
    /\ NoHost \notin Hosts
    /\ NoTask \notin Tasks
ASSUME ClockAssumption ==
    /\ StartTime \in Time /\ MaxTime \in Time /\ StartTime <= MaxTime
    /\ Stamps \subseteq Time
    /\ Unprobeable \subseteq Path
    /\ Logging \in BOOLEAN /\ ClockSteps \in BOOLEAN /\ Crashes \in BOOLEAN

VARIABLES
    announces,    \* the announces table as the actor sees it
    probes,       \* the probes table as the actor sees it
    saved,        \* the tables as of the last committed transaction
    now,          \* the system clock
    status,       \* of the process
    setupHost,    \* handler -> the host it is setting up a probe task for
    setupTask,    \* handler -> the task it has spawned and not published
    task,         \* the probe tasks
    taskMap,      \* probe_tasks: host -> the published task
    gc,           \* the gc loop
    answered      \* history: when a host last answered a probe of a path

tables == <<announces, probes, saved>>
setup == <<setupHost, setupTask>>
vars == <<tables, now, status, setup, task, taskMap, gc, answered>>

Ended == [pc |-> "ended", host |-> NoHost, at |-> StartTime,
          todo |-> {}, ok |-> {}]
Spawned(host) == [Ended EXCEPT !.pc = "idle", !.host = host]

TaskRecord == [pc : {"ended", "idle", "dial", "probe", "panicked"},
               host : Hosts \cup {NoHost}, at : Time,
               todo : SUBSET Path, ok : SUBSET Path]

TablesOK ==
    /\ announces \in Table /\ probes \in Table
    /\ saved \in [announces : Table, probes : Table]
    /\ answered \in Table

TasksOK ==
    /\ task \in [Tasks -> TaskRecord]
    /\ \A t \in Tasks : task[t].pc # "ended" => task[t].host \in Hosts

ControlOK ==
    /\ now \in StartTime .. MaxTime
    /\ status \in {"up", "actor_dead", "down"}
    /\ setupHost \in [Handlers -> Hosts \cup {NoHost}]
    /\ setupTask \in [Handlers -> Tasks \cup {NoTask}]
    /\ taskMap \in [Hosts -> Tasks \cup {NoTask}]
    /\ gc \in [pc : {"sleep", "list", "retain"}, known : SUBSET Hosts]

(* The types; a task that runs probes a host. *)
TypeOK == TablesOK /\ TasksOK /\ ControlOK

Init ==
    /\ announces = EmptyTable /\ probes = EmptyTable
    /\ saved = [announces |-> EmptyTable, probes |-> EmptyTable]
    /\ now = StartTime
    /\ status = "up"
    /\ setupHost = [c \in Handlers |-> NoHost]
    /\ setupTask = [c \in Handlers |-> NoTask]
    /\ task = [t \in Tasks |-> Ended]
    /\ taskMap = [h \in Hosts |-> NoTask]
    /\ gc = [pc |-> "sleep", known |-> {}]
    /\ answered = EmptyTable

----------------------------------------------------------------------------
(* The actor *)

(* A message that writes is handled in a transaction that the next message *)
(* may share; a crash or a panic before its commit loses it, although the  *)
(* caller has been answered.  A message that reads is handled after that   *)
(* commit.                                                                 *)
ActorWrites(newAnnounces, newProbes) ==
    /\ status = "up"
    /\ announces' = newAnnounces
    /\ probes' = newProbes
    /\ \/ saved' = [announces |-> newAnnounces, probes |-> newProbes]
       \/ (Crashes \/ OverflowChecks) /\ saved' = saved

ActorReads ==
    /\ status = "up"
    /\ saved' = [announces |-> announces, probes |-> probes]
    /\ UNCHANGED <<announces, probes>>

(* A panic or an error ends the actor thread; from then on every call of   *)
(* it fails.                                                               *)
ActorDies ==
    /\ status = "up"
    /\ status' = "actor_dead"
    /\ UNCHANGED <<now, setup, task, taskMap, gc, answered>>

(* The transaction that is open is dropped, with every write in it. *)
ActorRollsBack ==
    /\ announces' = saved.announces /\ probes' = saved.probes
    /\ UNCHANGED saved

(* The database fails to begin, to read, to write or to commit. *)
ActorFails ==
    /\ Crashes
    /\ ActorDies
    /\ ActorRollsBack

----------------------------------------------------------------------------
(* Connection handlers *)

HandlerIdle(c) == setupHost[c] = NoHost

Announce(c, path, time) ==
    /\ HandlerIdle(c)
    /\ ActorWrites(Announced(announces, path, time), probes)
    /\ setupHost' = IF NewHostForContent(announces, path)
                    THEN [setupHost EXCEPT ![c] = path.endpoint]
                    ELSE setupHost
    /\ UNCHANGED <<now, status, setupTask, task, taskMap, gc, answered>>

\* Mutant of SpawnProbeTask: a task is set up although the announce opened
\* no path.
SpawnProbeTaskAlways(c, t) ==
    /\ status # "down"
    /\ setupTask[c] = NoTask
    /\ task[t].pc = "ended"
    /\ task' = [task EXCEPT ![t] = Spawned(setupHost[c])]
    /\ setupTask' = [setupTask EXCEPT ![c] = t]
    /\ UNCHANGED <<tables, now, status, setupHost, taskMap, gc, answered>>

(* setup_probe_task: the task is spawned, and runs, before it is published *)
(* in the task map.                                                        *)
SpawnProbeTask(c, t) ==
    /\ status # "down"
    /\ setupHost[c] # NoHost /\ setupTask[c] = NoTask
    /\ task[t].pc = "ended"
    /\ task' = [task EXCEPT ![t] = Spawned(setupHost[c])]
    /\ setupTask' = [setupTask EXCEPT ![c] = t]
    /\ UNCHANGED <<tables, now, status, setupHost, taskMap, gc, answered>>

AbortTasks(aborted) ==
    [t \in Tasks |-> IF t \in aborted THEN Ended ELSE task[t]]

\* Mutant of PublishTask: the task that was mapped goes on running.
PublishTaskLeaking(c) ==
    /\ status # "down"
    /\ setupTask[c] # NoTask
    /\ taskMap' = [taskMap EXCEPT ![setupHost[c]] = setupTask[c]]
    /\ setupHost' = [setupHost EXCEPT ![c] = NoHost]
    /\ setupTask' = [setupTask EXCEPT ![c] = NoTask]
    /\ UNCHANGED <<tables, now, status, task, gc, answered>>

(* TaskMap::publish: the handle of the task it replaces is dropped, which  *)
(* aborts that task.                                                       *)
PublishTask(c) ==
    LET host == setupHost[c]
    IN /\ status # "down"
       /\ setupTask[c] # NoTask
       /\ task' = AbortTasks({taskMap[host]})
       /\ taskMap' = [taskMap EXCEPT ![host] = setupTask[c]]
       /\ setupHost' = [setupHost EXCEPT ![c] = NoHost]
       /\ setupTask' = [setupTask EXCEPT ![c] = NoTask]
       /\ UNCHANGED <<tables, now, status, gc, answered>>

(* A query changes nothing but what is committed; what it is answered is   *)
(* QueryHosts, about which the properties speak.                           *)
AnswerQuery(query) ==
    /\ ~QueryPanics(query, announces, probes, now)
    /\ ActorReads
    /\ UNCHANGED <<now, status, setup, task, taskMap, gc, answered>>

PanicInQuery(query) ==
    /\ QueryPanics(query, announces, probes, now)
    /\ ActorReads
    /\ ActorDies

----------------------------------------------------------------------------
(* Probe tasks *)

Becomes(t, newTask) == task' = [task EXCEPT ![t] = newTask]

(* The task wakes up and asks for the content of its host. *)
GetContent(t) ==
    /\ task[t].pc = "idle"
    /\ ActorReads
    /\ Becomes(t, [task[t] EXCEPT !.pc = "dial",
                   !.todo = ContentForEndpoint(announces, task[t].host)])
    /\ UNCHANGED <<now, status, setup, taskMap, gc, answered>>

(* The results of a round, those of probes that succeeded included, are    *)
(* lost when a log cannot be written; the task panics when the log cannot  *)
(* be opened.                                                              *)
LogFails(t) ==
    /\ Logging
    /\ \E pc \in {"idle", "panicked"} :
           Becomes(t, [Spawned(task[t].host) EXCEPT !.pc = pc])

(* The round's time is taken before the host is dialed; if the host cannot *)
(* be reached the round is over.                                           *)
Dial(t) ==
    /\ status # "down"
    /\ task[t].pc = "dial"
    /\ \/ Becomes(t, [task[t] EXCEPT !.pc = "probe", !.at = now, !.ok = {}])
       \/ Becomes(t, Spawned(task[t].host))
       \/ LogFails(t)
    /\ UNCHANGED <<tables, now, status, setup, taskMap, gc, answered>>

(* The content to probe next, partial before complete. *)
NextProbe(t) == CHOOSE p \in task[t].todo :
                    \A q \in task[t].todo : p.kind <= q.kind

Probing(t) == status # "down" /\ task[t].pc = "probe" /\ task[t].todo # {}

ProbeSucceeds(t) ==
    LET path == NextProbe(t)
    IN /\ Probing(t)
       /\ path \notin Unprobeable
       /\ Becomes(t, [task[t] EXCEPT !.todo = task[t].todo \ {path},
                      !.ok = task[t].ok \cup {path}])
       /\ answered' = [answered EXCEPT ![path] = now]
       /\ UNCHANGED <<tables, now, status, setup, taskMap, gc>>

ProbeFails(t) ==
    /\ Probing(t)
    /\ Becomes(t, [task[t] EXCEPT !.todo = task[t].todo \ {NextProbe(t)}])
    /\ UNCHANGED <<tables, now, status, setup, taskMap, gc, answered>>

(* The outcome of a probe, whichever it is, cannot be logged. *)
LogProbeFails(t) ==
    /\ Probing(t)
    /\ LogFails(t)
    /\ \/ UNCHANGED answered
       \/ /\ NextProbe(t) \notin Unprobeable
          /\ answered' = [answered EXCEPT ![NextProbe(t)] = now]
    /\ UNCHANGED <<tables, now, status, setup, taskMap, gc>>

(* A random chunk of content without chunks: the task panics.  Its handle  *)
(* stays in the task map.                                                  *)
ProbePanics(t) ==
    /\ Probing(t)
    /\ NextProbe(t) \in Unprobeable
    /\ Becomes(t, [Spawned(task[t].host) EXCEPT !.pc = "panicked"])
    /\ UNCHANGED <<tables, now, status, setup, taskMap, gc, answered>>

RoundOver(t) == task[t].pc = "probe" /\ task[t].todo = {}

\* Mutant of ApplyResult: the results are stamped when they are stored.
ApplyResultLate(t) ==
    /\ RoundOver(t)
    /\ ActorWrites(announces, StoreProbeResult(probes, task[t].ok, now))
    /\ Becomes(t, Spawned(task[t].host))
    /\ UNCHANGED <<now, status, setup, taskMap, gc, answered>>

(* The results are stored under the time taken before the host was dialed. *)
ApplyResult(t) ==
    /\ RoundOver(t)
    /\ ActorWrites(announces,
                   StoreProbeResult(probes, task[t].ok, task[t].at))
    /\ Becomes(t, Spawned(task[t].host))
    /\ UNCHANGED <<now, status, setup, taskMap, gc, answered>>

(* Without the actor a result is logged and dropped. *)
DropResult(t) ==
    /\ status = "actor_dead"
    /\ RoundOver(t)
    /\ Becomes(t, Spawned(task[t].host))
    /\ UNCHANGED <<tables, now, status, setup, taskMap, gc, answered>>

----------------------------------------------------------------------------
(* The gc loop *)

GcCollect ==
    LET expired == GcExpired(probes, now)
    IN /\ gc.pc = "sleep"
       /\ ~GcPanics(probes, now)
       /\ ActorWrites(Without(announces, expired), Without(probes, expired))
       /\ gc' = [gc EXCEPT !.pc = "list"]
       /\ UNCHANGED <<now, status, setup, task, taskMap, answered>>

(* The transaction of the collection, and every write that shares it, is   *)
(* dropped.                                                                *)
PanicInGc ==
    /\ gc.pc = "sleep"
    /\ GcPanics(probes, now)
    /\ ActorDies
    /\ ActorRollsBack

GcList ==
    /\ gc.pc = "list"
    /\ ActorReads
    /\ gc' = [pc |-> "retain", known |-> DistinctEndpoints(announces)]
    /\ UNCHANGED <<now, status, setup, task, taskMap, answered>>

\* Mutant of GcRetain: no task is ever aborted.
GcRetainNone ==
    /\ status # "down"
    /\ gc.pc = "retain"
    /\ gc' = [pc |-> "sleep", known |-> {}]
    /\ UNCHANGED <<tables, now, status, setup, task, taskMap, answered>>

(* The hosts that were not listed lose their task.  The list was answered  *)
(* some time ago: a host may have announced since.                         *)
GcRetain ==
    LET gone == Hosts \ gc.known
    IN /\ status # "down"
       /\ gc.pc = "retain"
       /\ task' = AbortTasks({taskMap[h] : h \in gone})
       /\ taskMap' = [h \in Hosts |-> IF h \in gone THEN NoTask ELSE taskMap[h]]
       /\ gc' = [pc |-> "sleep", known |-> {}]
       /\ UNCHANGED <<tables, now, status, setup, answered>>

\* Mutant of GcFails: the loop ignores the error of its call.
GcFailsQuietly ==
    /\ status = "actor_dead"
    /\ gc.pc \in {"sleep", "list"}
    /\ gc' = [gc EXCEPT !.pc = IF @ = "sleep" THEN "list" ELSE "sleep"]
    /\ UNCHANGED <<tables, now, status, setup, task, taskMap, answered>>

(* The process is gone, with its tasks and what was not committed. *)
ProcessEnds ==
    /\ status' = "down"
    /\ ActorRollsBack
    /\ setupHost' = [c \in Handlers |-> NoHost]
    /\ setupTask' = [c \in Handlers |-> NoTask]
    /\ task' = [t \in Tasks |-> Ended]
    /\ taskMap' = [h \in Hosts |-> NoTask]
    /\ gc' = [pc |-> "sleep", known |-> {}]
    /\ UNCHANGED <<now, answered>>

(* A call of the loop fails: the loop returns the error, and main with it. *)
GcFails ==
    /\ status = "actor_dead"
    /\ gc.pc \in {"sleep", "list"}
    /\ ProcessEnds

----------------------------------------------------------------------------
(* The process and its clock *)

(* The process is killed, or main returns: on ctrl-c, or because the accept *)
(* loop ended at a connection that failed to be accepted.                  *)
Crash == Crashes /\ status # "down" /\ ProcessEnds

(* Tracker::new: a probe task for every host of the committed tables. *)
Restart ==
    /\ status = "down"
    /\ status' = "up"
    /\ \E spawned \in [DistinctEndpoints(announces) -> Tasks] :
        /\ \A g, h \in DOMAIN spawned : spawned[g] = spawned[h] => g = h
        /\ taskMap' = [h \in Hosts |-> IF h \in DOMAIN spawned
                                       THEN spawned[h] ELSE NoTask]
        /\ task' = [t \in Tasks |->
                     IF \E h \in DOMAIN spawned : spawned[h] = t
                     THEN Spawned(CHOOSE h \in DOMAIN spawned : spawned[h] = t)
                     ELSE Ended]
    /\ UNCHANGED <<tables, now, setup, gc, answered>>

Tick ==
    /\ now < MaxTime
    /\ now' = now + 1
    /\ UNCHANGED <<tables, status, setup, task, taskMap, gc, answered>>

ClockStepsBack ==
    /\ ClockSteps
    /\ now > StartTime
    /\ now' = now - 1
    /\ UNCHANGED <<tables, status, setup, task, taskMap, gc, answered>>

----------------------------------------------------------------------------
HandlerStep(c) ==
    \/ \E path \in Path, time \in Stamps : Announce(c, path, time)
    \/ \E t \in Tasks : SpawnProbeTask(c, t)
    \/ PublishTask(c)

ActorQuery == \E query \in Query : AnswerQuery(query) \/ PanicInQuery(query)

TaskStep(t) ==
    \/ GetContent(t) \/ Dial(t)
    \/ ProbeSucceeds(t) \/ ProbeFails(t) \/ LogProbeFails(t) \/ ProbePanics(t)
    \/ ApplyResult(t) \/ DropResult(t)

GcStep == GcCollect \/ PanicInGc \/ GcList \/ GcRetain \/ GcFails

Next ==
    \/ \E c \in Handlers : HandlerStep(c)
    \/ ActorQuery \/ ActorFails
    \/ \E t \in Tasks : TaskStep(t)
    \/ GcStep
    \/ Crash \/ Restart \/ Tick \/ ClockStepsBack

Spec == Init /\ [][Next]_vars

(* The gc loop wakes up every gc_interval and every await of it ends. *)
FairSpec == Spec /\ WF_vars(GcStep)
----------------------------------------------------------------------------
(* What must hold *)

Live(t) == task[t].pc # "ended"
Idle == \A c \in Handlers : HandlerIdle(c)
Queries(verified) == {query \in Query : query.verified = verified}
Served(query) == QueryHosts(query, announces, probes, now)

(* No probe task is ever lost track of, whatever order handlers spawn and  *)
(* publish in and whenever the gc loop aborts: a task that runs is either  *)
(* in the task map under its own host, or held by the handler that is      *)
(* about to publish it.  So once no handler is busy a host is probed by at *)
(* most one task, and gc can stop it (task_map.rs, setup_probe_task).      *)
NoLostTasks ==
    status # "down" =>
        \A t \in Tasks : Live(t) =>
            \/ taskMap[task[t].host] = t
            \/ \E c \in Handlers : setupTask[c] = t /\ setupHost[c] = task[t].host

(* A host listed in the answer to a verified query did answer a probe of   *)
(* that very path within probe_timeout.  It takes the whole round of a     *)
(* task: the time taken before the dial, failed and lost results, tasks    *)
(* that race, rows gc removed, and tables that outlive the process.  The   *)
(* clock must not step back.                                               *)
VerifiedMeansProbed ==
    \A query \in Queries(TRUE) : \A p \in Served(query) :
        answered[p] # NoTime /\ now - answered[p] <= ProbeTimeout

(* An announce that is served is at most announce_timeout old and not from *)
(* the future, although ages wrap around at zero and hosts choose the      *)
(* times they announce.                                                    *)
ServedAnnouncesAreRecent ==
    StartTime >= AnnounceTimeout =>
        \A query \in Query : \A p \in Served(query) :
            announces[p] <= now /\ now - announces[p] <= AnnounceTimeout

(* A host that queries find is found until its announce times out or gc    *)
(* removes it: late, reordered or repeated announces and everything that   *)
(* probes do never hide it.  Only the host can, by an announce that is     *)
(* ahead of the tracker's clock.                                           *)
FoundUntilTimeout ==
    [][ (now' = now /\ gc' = gc /\ status' = status) =>
            \A query \in Queries(FALSE) : \A p \in Served(query) :
                p \in Served(query)' \/ announces'[p] > now ]_vars

(* A host served to verified queries is not lost to a gc that runs at that *)
(* moment, as long as probes expire no sooner than they time out.          *)
GcKeepsVerified ==
    [][ (GcCollect /\ (ProbeTimeout <= AnnounceExpiry \/ ProbeTimeout <= ProbeExpiry)) =>
            \A query \in Queries(TRUE) : Served(query) = Served(query)' ]_vars

(* The probe task of a host that has no announce left is aborted, unless   *)
(* the host announces again.                                               *)
OrphanTasksEnd ==
    \A h \in Hosts :
        (taskMap[h] # NoTask /\ h \notin DistinctEndpoints(announces))
            ~> (\/ taskMap[h] = NoTask
                \/ h \in DistinctEndpoints(announces)
                \/ status # "up")

(* A process whose actor has died does not linger: the gc loop's next call *)
(* fails and ends it.                                                      *)
DeadActorExits == (status = "actor_dead") ~> (status = "down")

----------------------------------------------------------------------------
(* What the documentation says, and the code does not do *)

(* "There is one task per endpoint, and it probes all content items for    *)
(* that peer." (tracker.rs:64): once its announces are handled, every host *)
(* with an announce has a probe task.                                      *)
HostsHaveTasks ==
    (status = "up" /\ Idle) =>
        \A h \in DistinctEndpoints(announces) : taskMap[h] # NoTask
=============================================================================
