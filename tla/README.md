# TLA+ models of iroh-experiments

This directory holds TLA+ models of the programs in this repository, the TLC
configurations that check them on small instances, and proofs, checked by the
TLA+ proof system, of the properties that matter most for instances of any
size. `PROJECT.json` maps every definition to the lines it models and lists
runs, mutants, findings, hazards and theorems.

    tlc -config Tracker_times.cfg MCTracker      check a run
    tlapm TrackerProofs.tla                      check the proofs of a module

Paths below are short: T is
`src/content-discovery/iroh-content-tracker/src/tracker.rs`, CL is
`src/content-discovery/iroh-content-discovery/src/client.rs`, PR is
`protocol.rs` next to it, DAG is `src/iroh-dag-sync/src/`, HL and AX are
`lib.rs` and `axum.rs` in `src/h3-iroh/src/`, NS is
`src/iroh-pkarr-naming-system/src/lib.rs`.

## 1. The system

| component | state | operations | hard behaviour |
|---|---|---|---|
| content tracker, database actor (T:76-340, 807-830; tracker/util.rs) | two redb tables, an open transaction, a channel of 1024 messages, a receiver with one slot for a message peeked at or pushed back | begin a read or write batch, handle a message, push one back, time out, commit, Stop on the drop of the last handle | answers inside an uncommitted transaction, reads in a snapshot, a full channel at shutdown, order across batches |
| content tracker, handlers, probe tasks, gc loop (T:342-530, 833-1240; task_map.rs, io.rs, main.rs) | tables `announces` and `probes`, map from host to probe task, log files | announce, query, probe round, store results, gc, retain tasks, restart | stale answers between two awaits, tasks spawned before they are published, wrapping times, logs that fail, panics in the actor |
| probe requests (iroh_blobs_util.rs, T:953-1110) | caches of sizes shared by all tasks | look up or ask for sizes, draw a random chunk, ask for it | empty ranges, two tasks filling one cache from two hosts, hosts that claim what is not so |
| discovery protocol (PR) | none | times, signatures, encoding | subtraction of unsigned times |
| discovery client (CL) and its command line | a connection per call, or one of the application's | announce, query, announce_all, query_all, calls on a connection | 0-RTT data that is rejected, both sides closing, one stream per connection |
| dag sync (DAG) | dag.db: hash to BLAKE3, links of blocks; a blob store | import, serve, sync, export, traverse | two traversals in lockstep over different, growing tables; partial streams; commit and store made durable apart |
| h3-iroh, streams (HL) | send and receive streams with a write or read in flight | send_data, poll_ready, poll_finish, poll_data, reset, stop_sending, drop | a future that owns the stream while it is in flight, writes cut to pieces, streams dropped unfinished |
| h3-iroh, axum server (AX) | an accept loop per connection, a task per request | accept, resolve, read the body, call the service, send the response | requests resolved one by one, clients that leave half way, errors taken for the end of a body |
| pkarr naming system (NS) | a map from key to record and the task that republishes it | publish, remove, drop, resolve | overlapping calls, a task aborted while it runs, a network that loses, delays and forgets |
| S3 bao store | outboards in memory, URLs | import, serve | none of consequence: imports end before serving starts |

They interact thus. A client opens a connection per call (CL); the tracker
spawns a handler per connection, which sends messages to the actor and spawns
a probe task for a host it has not seen (T:865, 1129). Probe tasks ask the
actor what the host announced, dial the host and send their results back. The
gc loop asks the actor to collect, then for the hosts that are left, and aborts
the tasks of all others (T:868-884). The actor alone touches the tables. In dag
sync two processes share one stream; each has its own dag.db and blob store.
In h3-iroh the accept loop and the tasks of requests share a connection, and
h3 calls the streams of HL. The naming system is called from any thread; its
tasks share the network with each other and with the past. The S3 store stands
alone.

What makes each correct: the tracker serves what is recent and verified, never
hides a host it should find, probes every host with exactly one task and stops
it in the end; the actor answers everything, in order, reads only what is
durable, and ends; a client's request is done at most once and its call
returns; a dag sync passes no false mapping on, ends, and is complete if it
says so.

## 2. Modules

| module | models | state and actions |
|---|---|---|
| `TrackerTables` | the tables and what every message computes from them (T:342-640, tracker/tables.rs, PR:38-62) | operators only: `Announced`, `QueryHosts`, `StoreProbeResult`, `ContentForEndpoint`, `GcExpired`, ages modulo `U64` |
| `Tracker` | handlers, probe tasks, task map, gc loop, clock, crash and restart | one action per step between two awaits: `Announce`, `SpawnProbeTask`, `PublishTask`, `GetContent`, `Dial`, `ProbeSucceeds`, ..., `GcCollect`, `GcList`, `GcRetain`; a call of the actor is one step |
| `ActorLog` | what the actor promises: a log of writes, of which a prefix is durable, and reads answered from it | abstract specification |
| `TrackerActor` | the actor below that step: channel, reserved permit, slot, batches, timer, commit, failure, Stop | implements `ActorLog` |
| `DiscoveryClient` | client calls and the connection handlers that serve them (CL:68-300, T:894-951) | per call and connection: `Start`, `Handshake`, `SendRequest`, `AcceptStream`, `Answer`, `HandlerFails`, `ReadReply`, `CloseLater`, `Disconnect` |
| `DagTraversal` | cids, tables and the lazy traversal (DAG traversal.rs, tables.rs) | operators only: `InsertLinks`, `StoredLinks`, `Expanded`, `Visited` |
| `DagSync` | two nodes: imports, syncs, frames, commits, failures, crashes (DAG sync.rs, main.rs) | per node: import and walk steps; `Send`, `ReceiveHash`, `ReceiveData`, ... |
| `ContentProbe` | the requests of a probe and the caches of sizes (T:953-1110, iroh_blobs_util.rs) | per task: `Probe`, `LookUp`, `VerifiedSize`, `GetHashSeq`, `GetChildSize`, `SetSizes`, `Draw`, `AskChunk`; the draw as the loop `RandomHashSeqRanges` over `AtChild` |
| `ByteStreams` | what the streams of h3-iroh promise: each byte once, in order, the end after all of them | abstract specification |
| `H3Streams` | `SendStream` and `RecvStream` (HL:391-614) over QUIC streams | one action per outcome of a call: `SendData`, `PollReadyPending`, `PollReadyOk`, `PollData`, `PollFinish`, ...; `Dropped`; implements `ByteStreams` |
| `H3Server` | the server of AX and its clients, on `H3Streams` | `Open`, `Accept`, `Resolve`, `ServerReceives`, `ServerSends`, `ServerFlushes`, ..., `Abandon`, `ClientDrops`, `LoseConnection` |
| `NamingSystem` | publisher and its tasks (NS) | `Publish`, `Insert`, `Remove`, `DropInner`; `Wake`, `SendPacket` of a task; `Arrives`, `PublishFails`, `Forget` of the network |
| `MCTracker`, `MCDagSync`, `MCDiscoveryClient`, `MCContentProbe`, `MCH3Server` | the small instances | `MCDagSync` also checks, by an ASSUME, that the definition of pre-order in `DagSync` agrees with one by recursion |
| `TrackerProofs`, `TrackerActorProofs`, `DagSyncProofs`, `DiscoveryClientProofs`, `H3Proofs`, `NamingSystemProofs`, `ContentProbeProofs` | theorems | |
| `NaturalRecursion` | induction on the naturals and functions defined by recursion, as theorems about sets and functions | |

`H3Server` composes with `H3Streams` by extending it: a step of a client or a
handler takes the outcome of one call of its stream. `Tracker` and
`TrackerActor` are two views of one program, and so are `Tracker` and
`ContentProbe`: the first takes the outcome of a probe as a choice, the second
says how it comes about.

How the models correspond to the code:

- *Times* are kept as `AbsoluteTime` keeps them, with an unsigned subtraction
  that wraps at `U64` (release build) or panics (`OverflowChecks`, debug
  build). An actor that panics, or whose database fails (`ActorFails`), leaves
  a process whose calls all fail.
- *The actor in `Tracker`* handles a message in one step. A write may or may
  not be committed with that step; a read is handled after the commit of what
  precedes it. `TrackerActor` shows both, and `ReadsAreDurable` is why the step
  of a read may commit.
- *Handlers in `Tracker`* stand for as many connections as serve announces at
  one time; a handler between two announces is idle, so two handlers are two
  concurrent connections and any number of sequential ones.
- *A probe* succeeds, fails or, on content without chunks, panics; the log
  that records it may fail to be written or opened.
- *The channel of the actor* counts the permit that is held back for Stop.
- *A block in `DagSync`* stands for its bytes and so for each of its hashes; a
  frame holds the block whose bytes it carries. Data is checked by comparing
  its block with the hash of the cid; an import checks nothing (DAG
  main.rs:79-96), so an entry of a CAR file is a cid with any block as its
  data. Frames carry, for properties alone, the cid they were sent for. Alice's
  next import waits until Bob's sync has ended (the guard `~Syncing` of
  `Import`): once her handler has ended her tables do not matter to him any
  more, so this leaves out no behaviour of his, and the properties can compare
  what he has with the tables it was sent from.
- *A connection in `DiscoveryClient`* belongs to one call or, `Shared`, to the
  application; the theorems cover both, the run the former. What a request asks
  for is left out; whether its answer is empty decides what the client makes
  of it. `times` counts how often the tracker did what a call asked for.
- *A probe in `ContentProbe`* asks a host that may claim any size, of a blob,
  of a hash sequence and of each of its children; a claim is known to be true
  when the last chunk after it has been read, which iroh-blobs verifies against
  the hash. The sizes of children are collected one by one and cached at the
  end, by a call of the actor that is a step of its own. Lengths of chunks and
  hashes are constants. The caches are kept by the actor and lost with the
  process (`Restart`); that the actor may be gone is in `Tracker`.
- *A bidirectional stream in `H3Streams`* is two streams. Their bytes are
  numbered, so that one that is lost, doubled or overtaken shows. A message is
  a number of frames of one length; what they hold is h3's. The future that
  owns a stream while a call waits is the value `"future"` of its field
  `stream`. A stream that is dropped is finished if it was not ended, or
  reset if its peer has stopped it, as iroh does.
- *The accept loop in `H3Server`* holds the request it resolves (`acceptor`);
  every other request has a task of its own. The service answers with any
  number of frames up to a bound; AX panics when sending them fails.
- *A packet in `NamingSystem`* is named by its timestamp, its place in the
  order of all. The two delays of a task take any time. A task that is aborted
  while it is polled ends at its next await: `"last_poll"`.

## 3. Runs

Every passing run is finished by TLC. `CHECK_DEADLOCK FALSE` is in all of them:
the clock has a bound in `Tracker`, and in the other models a system whose
calls, messages and imports are done may stop.

| run | instance | shows |
|---|---|---|
| `tasks` | 2 handlers, 2 hosts, 3 tasks, one path per host of which one makes a probe panic, clock 0..1; crashes, failing logs and databases, a clock that may step back, overflow panics; symmetric | the types; no probe task that runs is ever unreachable |
| `times` | 1 handler, 1 host, 2 tasks, clock 1..5, timeouts 1, expiries 2, announces dated 1, 3, 4; crashes, failing logs and databases; fair gc loop | served announces are recent though ages wrap; what verified queries find was probed within the timeout, also with two rounds of one host under way; nothing hides a host but its own announce from the future; gc never removes what a verified query finds; tasks of hosts without announces end; a process with a dead actor exits |
| `hosts_have_tasks` | as `times`, smaller | a sentence of a comment that the code does not keep, see findings |
| `actor` | 2 writes (one whose caller gives up), 2 reads, capacity 3, fair | order, durable reads, reads that see earlier writes, Stop commits everything before it; every caller is answered, transactions end, the thread ends; implements `ActorLog` |
| `client_calls` | an announce and a query on a connection each, one at a time | a request is done at most once; failures have causes; calls return; handlers end |
| `dag_sync` | a DAG of four blocks with a shared leaf and a block that is no DAG-CBOR, 3 files at Alice, one of which has the data of one block under the cid of another, 1 at Bob, 5 requests, 1 frame in flight, one blob that the store may lose | a false mapping stays with the node whose file has it; what is mapped is stored, traversals in step if the sender knows the links of what it has, and in pre-order, complete syncs complete, syncs end |
| `dag_in_step` | the same, but Alice has one file, with a block under another codec than that of its link, and Bob imports none | a sentence of the README of dag sync that the code does not keep |
| `h3` | 2 requests on one connection, one of them with a body and a client that may reset, stop or drop it; frames of 2 bytes, window of 2; the connection may be lost at any point | streams implement `ByteStreams`; no call unwraps a stream that a future owns; services get whole bodies unless the client has gone; a response that is read to its end has every frame the service yielded; requests and handlers end |
| `h3_entire` | one request with a body | a sentence of a comment that the code does not keep |
| `probe` | 2 tasks, blobs of 0, 1, 2 and 5 bytes with chunks of 2, 3 hash sequences of which one is too large, claims 0, 1, 2, 5, 6; restarts | chunks asked for exist, so no claim of a host gets into the caches that is not true; each full chunk is drawn by one number |
| `probe_uniform` | the same with one task | a sentence of a comment that the code does not keep |
| `pkarr` | 2 callers, 1 key, 2 records, 3 packets; the IPNS dropped and made anew | no task outlives its record; a record that stays is resolvable again and again |

Why the bounds are enough. *Tracker*: races need two handlers that set up a
task for one host while an older task runs: two handlers, three tasks; a second
host shows that tasks are never mixed up. This run is reduced by symmetry and
by a view that leaves out `answered`: no action reads this history and neither
do the two invariants, so states that differ in it alone have the same future.
Times are compared pairwise with a timeout and an expiry: with both small, 1..5
has times before, at and after every boundary, and one in the future, and a
round takes its time before the dial, so that its results may be stored several
ticks later, and after those of a second task of the host that is not published
yet; times below `U64` wrap. *Actor*: a batch ends by a message of the other
category, by its size, by its timer or by Stop; two messages of each category
with a batch of one (`MaxBatch = 0` counts from zero) reach every order of
these. *Client*: two calls that share a bound of one make the second wait for
the first; each has a connection of its own. *Dag sync*: a shared leaf, a leaf
that comes twice by different ways, a cid already visited, a mapping that is
false at Alice, requests with and without a filter, inline data and visited
cids, and stores that hold nothing, a stem or everything before the sync. One
frame in flight lets Alice be two cids ahead of Bob; the proofs of `InStep` and
`CompleteIsComplete` are for every window. *h3*: with a window as long as a
frame a receiver that lags cuts writes in every place; a body of one more frame
tells the end of the headers from the end of the request; the second request is
held up by the first in every way, and need not hold it up itself, as all
requests behave alike. *Probes*: there are a blob without a chunk, one without
a full chunk, one of a whole chunk, and one with full chunks and a rest, and a
sequence that lists them all, one twice; two tasks are all that can race for an
entry. *Naming system*: keys share nothing but the map, so one is enough; three
packets are one that is replaced twice, or the two of overlapping calls and a
later one.

Fairness. *gc loop* (`WF(GcStep)`): it sleeps for a fixed time and awaits
answers of an actor that answers or is dead. *Actor* (`WF(ActorStep)`): a
thread that runs. `SF(Handle)`: a batch begins with a fresh timer of a second
and a message at hand, so the timer does not win for ever. `WF(Send(r))`: a
sender queues for a slot in order. *Client*: both sides go on when they can,
handshakes complete or fail; neither side sets a timeout on a call, so none is
assumed. *Dag sync* (`WF(AliceStep)`, `WF(BobStep)`): both processes go on when
they can. *h3* (`WF(Progress)`): streams wake the tasks that wait for them, and
since every step of a task brings an end nearer it is enough that one that can
go on does. *Naming system*: `WF` of the insertion that ends a call, of the
steps of a task and of the return of a network call; `SF(Arrives(n))`: a packet
sent again and again arrives some time, which is what republishing relies on.
No fairness is assumed of clocks, crashes, failures, disconnects, callers,
clients that leave and a network that forgets.

## 4. What is proved

For any sets of hosts, handlers, tasks, paths, messages, blocks, calls,
requests, keys and records, any options, capacity, batch size, frame length and
window (calls: a finite set). Each proof goes by an inductive invariant
`IInv` with `Init => IInv`, `IInv /\ [Next]_vars => IInv'` and `IInv => Inv`,
one step per action.

- `TrackerProofs`. `TypeCorrect` by the types of every operator of
  `TrackerTables`; `NoTaskIsLost`, where *NoLostTasks* is inductive together
  with the types: one step per action says which task it spawns, moves or
  aborts, and that aborting the task a map entry names leaves no other one
  unreachable. Of the times: `OnlyRecentAnnouncesAreServed` (arithmetic of
  wrapping ages; assumes the clock started no earlier than a timeout after the
  epoch, as the property states); `VerifiedHostsWereProbed` (the invariant
  relates rows of the table, of the committed table, results held by tasks and
  the round's time to the history of answers; assumes `~ClockSteps`);
  `GcKeepsVerifiedHosts` and `HostsAreFoundUntilTimeout`, action properties.
- `TrackerActorProofs`. `ActorTypeCorrect`, `MessagesAreHandledInOrder`,
  `ReadsSeeDurableWrites`: the invariant ties the place in the loop to the kind
  of transaction, and the snapshot to what is committed.
  `ReadsSeeWritesBeforeThem` and `StopIsGraceful` are about the history of what
  was handled. *HistoryInv* ties it to the state: a write that was handled is
  in the log, committed or in the open transaction, a read that was handled has
  its answer, and nothing is sent after Stop; so a thread that takes Stop has
  handled all that was sent, and commits what is open on its way out.
  `ActorImplementsLog`: every step of `TrackerActor` is a step of `ActorLog` or
  a stutter under the mapping in `TrackerActor`. It needs that no read is
  answered twice, hence that no read is in the channel that was answered.
- `DagSyncProofs`. `DagTypeCorrect`; `FalseMappingsStay`;
  `MappedBlocksAreStored`, with a strengthening that speaks of the open
  transaction too and of what a crash can take back. Both go by one lemma that
  lists all that a step can do to a database and its store (`OnlyDbSteps`).
  `TraversalsStayInStep` and `CompleteSyncsAreComplete`, for every DAG, all
  databases, every request and every window, by one invariant, since each needs
  the other: to walk the same way Bob must know the links Alice knows, and he
  knows them if the data he took was meant for the cid he took it for.
  *SyncInv* says what a traversal is like and that Alice changes nothing while
  Bob syncs. *HasInv* says of Bob that he knows all he has visited, but for the
  cid he waits for, and that no link of these is forgotten: it is visited, on
  the stack, or still to be read. *LockInv* says that there is one `Run` of the
  traversal that knows every link (`Ideal`), a finite sequence of places with
  the cids yielded up to each; that Alice and Bob are both at a place of it;
  and that the frames under way are for the cids yielded between the two
  places, all of them while the connection is open and the first of them
  afterwards. Neither finite DAGs nor induction is needed: the run is only as
  long as the traversals have come and grows with them (`RunExtends`). It takes
  no mapping to be true: what a false one changes are the links Alice has,
  which the premise of the property is about, and the blocks in her frames,
  which Bob refuses. `TraversalsVisitInPreOrder`, of a node without false
  mappings (`Truthful`), whose links are then those of the DAG, is about the
  definition that next comes the first new link of the last cid that has a new
  link. The invariant (`Placed`) gives every cid on the stack an owner in the
  listing and a place among the links of the owner: links of later owners stand
  higher, earlier links of one owner above later ones, and a link that is not
  on the stack has been visited, unless its owner is the one whose links are
  still to be read. So the cid at the top, if it is new, is the next of the
  listing. That data which arrives does not teach Bob links he should have read
  before is `ReceivesReadLinks`.
- `DiscoveryClientProofs`. `ClientTypeCorrect`; `RequestsAreDoneOnce`;
  `CallsFailForAReason`. The invariant says what the state of a handler tells
  of the answers on its connection, that a handler that has not served has
  done nothing, and who can have closed a connection that one call uses.
- `H3Proofs`. `H3TypeCorrect`; `NoCallFindsItsStreamGone`;
  `WholeRequestsAreServed`; `ResponsesAreWhole`; `StreamsImplementPromise`:
  every step of `H3Server` is, for each stream, a step of `ByteStreams` or a
  stutter. The invariant has three parts. *StreamInv*: while a sender is open
  or finished, what was read, what is under way and what is still to be written
  are, one after the other, all that was sent; nothing is left to be written
  once the sender has finished; no more is under way than the window.
  *CallInv*: what the place of a client and of a handler says of their streams:
  when a call has returned the stream is back and the buffer empty, a message
  is finished after all its frames, a body is what was read. *OrderInv*:
  requests are accepted at most once. The lemmas `PollReadyDoes`, `ReadDoes`,
  ... state what a call does to its stream once, and that it leaves all others
  alone.
- `NamingSystemProofs`. `NoTaskOutlivesItsRecord`: a task runs on only while
  its packet is in the map or about to be inserted; inductive together
  with the types and with *OwnPackets*: the packet the map holds for a key was
  signed for this key.
- `ContentProbeProofs`. `FullChunksHaveOneNumber`: for every list of sizes the
  loop of `random_hash_seq_ranges` gives each full chunk of each child to
  exactly one number below the total. Its invariant says what the loop has made
  of a number after some children: either the number was below the chunks of
  those children and fell on one of them, or what remains is the number less
  their chunks. `RequestsAreForRealChunks` and `ProbesDrawFullChunksOnce` share
  the invariant that the caches hold no sizes but the true ones, that the sizes
  a task has read of a hash sequence are those of its first children, and that
  a task draws from the true sizes whatever has become of the caches.
- `NaturalRecursion`. The induction theorems of the library take an operator,
  which the provers cannot instantiate. Here induction is about a set of
  naturals and follows from the existence of a least element, and a function
  that goes by steps over an interval is shown to exist as the union of its
  finite `Runs`; the proofs above cite these with a set and a function in hand.

An assumption a proof forced into the open: `CompleteIsComplete` asks that Alice
knows the links of what she has, or that she sends all data. Without it TLC
finds a sync that is not complete although Bob reached its end: the root links
to x as DAG-CBOR and to y as raw, x links to y as DAG-CBOR, y to a leaf; Alice
has x under the raw codec, so she walks past its link (finding 2), and Bob, who
has y as raw and asks for DAG-CBOR data only, takes the hash of the raw y that
she sends next for the DAG-CBOR y that he stands at. He has y mapped, but its
links under the other codec, finds none and goes on to a good end.

Only model-checked: `OrphanTasksEnd`, `DeadActorExits`, `EveryoneIsAnswered`,
`WriteBatchesEnd`, `DropTerminates`, `SyncsEnd`, `CallsEnd`, `HandlersEnd`,
`RequestsEnd` and `RecordsStayResolvable`, since liveness under fairness is out
of the prover's reach. Every invariant, every action property and both
refinements that a run checks are theorems.

## 5. Findings

Each is a run that TLC refutes; `PROJECT.json` has the quotes.

1. `hosts_have_tasks`: a host that announces between gc's listing and its
   retain loses its probe task for good (T:879).
2. `dag_in_step`: links are kept per codec, so a sender that has a block under
   another codec and its receiver fall out of step (DAG tables.rs:36).
3. `h3_entire`: an error while the body of a request is read ends it like its
   end does, so the service is called with a part of the body (AX:86, against
   AX:74).
4. `probe_uniform`: the draw of a probe counts full chunks only, so the chunk at
   the end of a child that is not full is never asked for, and a child shorter
   than a chunk not at all (`iroh_blobs_util.rs`:206, against its line 202).

Seen while modelling, without a run: an import maps the hash of a cid to
whatever data the CAR file holds for it and never computes the hash (DAG
main.rs:79-96, against `src/iroh-dag-sync/README.md`:115, where the table holds
"local, validated data"; in `dag_sync` Alice imports such a file, and
`FalseMappingsDoNotSpread` says that it goes no further); a query for a blob is
answered with hosts of the hash sequence of the same hash (T:597-612); a probe
of content without chunks panics and leaves its host without a running task
(T:1054); an announce that no probe ever confirms is never collected (T:494); a
clock that steps back makes gc drop the newest probes (PR:60); an announce
ahead of the tracker's clock hides the host until the clock gets there (T:418);
an announce returns Ok although its handler failed, since a dropped stream ends
like a finished one (CL:138); a service whose response body ends in an error
has its stream finished like one that is complete (AX:122); a response of more
than about a hundred hosts exceeds the limit for requests that the client reads
it with (CL:218, PR:17), so the query fails; a published probe task owns what
`Inner::drop` waits for, so the graceful Stop runs only when no host is known,
and with one known Ctrl-C ends the process like a crash (T:843); of a host's
complete blobs only one is probed (T:354, against T:64); gc reads the age of
the probe as the age of the announce and removes fresh announces (T:498,
against T:505); a second call on one connection is never answered (T:928,
against CL:263); the results of two overlapping rounds of one host are stored
in either order, so a probe may be dated back (T:452); an error of the database
inside gc or while results are stored is dropped, and half of the work with it
(T:326); dag.db is committed before the blob store is made durable, so after a
crash it may map blocks that are not there (DAG main.rs:99, against README:115
of dag sync); send_data replaces a buffer that is not flushed, where it could
return NotReady (HL:569, 624); publish takes its timestamp before it locks the
map, so of two overlapping calls the record that stays may be the older one,
which the network refuses for good (NS:72, 92).

## 6. Not modelled, and the plan

Left out as without state or I/O only: signatures and encoding, key and config
files, the printing of the command lines, export and printing of a DAG. Hash
codes other than those known to dag sync end a command before anything is
changed. In h3-iroh: `poll_send` (HL:577), which forwards one call; streams of
one direction and datagrams, which no program here uses; `examples/server.rs`,
which is AX with files for a service. What h3 makes of frames, and QUIC, pkarr,
redb and iroh-blobs themselves, are external and modelled by how they are used.
The S3 store reads its objects before it serves and changes nothing after: no
two steps of it share state.

What the plan still holds, in this order:

1. `TrackerShutdown`: handles, tasks and the drop of `Inner` (T:79-100, 843),
   composed with `TrackerActor`, whose `Drop` is its last step.
2. The serve loops of dag sync and the S3 store, which end at the first failed
   connection.
