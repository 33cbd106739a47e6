--------------------------- MODULE TrackerTables ---------------------------
(***************************************************************************)
(* The tracker's database as data: the two redb tables of the content      *)
(* tracker (tracker/tables.rs) and, for every message that its actor       *)
(* handles, what the handler computes from the tables and the clock        *)
(* (tracker.rs, struct Actor).  There is no state here: Tracker.tla turns  *)
(* these operators into actions.                                           *)
(*                                                                         *)
(* A table maps the path of an announce to a time in microseconds; the     *)
(* signature stored beside the time plays no part in any decision and is   *)
(* left out.  Announces whose signature does not verify change nothing and *)
(* are not among the inputs.                                               *)
(***************************************************************************)
EXTENDS Integers

CONSTANTS
    Hosts,            \* endpoint ids of the hosts that announce
    Path,             \* the paths that may be announced, see AnnouncePath
    U64,              \* 2^64: times are unsigned and subtraction wraps
    OverflowChecks,   \* TRUE: a build where an underflow panics (debug)
    AnnounceTimeout,  \* options.announce_timeout, in microseconds
    AnnounceExpiry,   \* options.announce_expiry
    ProbeTimeout,     \* options.probe_timeout
    ProbeExpiry       \* options.probe_expiry

Raw == 0       \* BlobFormat, in the order of its byte in the key
HashSeq == 1
Partial == 0   \* AnnounceKind, in the order of its byte in the key
Complete == 1

AnnouncePath == [hash : Nat, format : {Raw, HashSeq},
                 kind : {Partial, Complete}, endpoint : Hosts]

ASSUME PathAssumption == Path \subseteq AnnouncePath
ASSUME TimeAssumption ==
    /\ U64 \in Nat \ {0}
    /\ OverflowChecks \in BOOLEAN
    /\ AnnounceTimeout \in Nat /\ AnnounceExpiry \in Nat
    /\ ProbeTimeout \in Nat /\ ProbeExpiry \in Nat

Time == 0 .. U64 - 1
NoTime == -1                          \* the table has no row for this path
Table == [Path -> Time \cup {NoTime}]
EmptyTable == [p \in Path |-> NoTime]

Rows(table) == {p \in Path : table[p] # NoTime}
PathsOf(host) == {p \in Path : p.endpoint = host}
Content(p) == [hash |-> p.hash, format |-> p.format]

\* Mutant of Age: a subtraction that stops at zero.
AgeSaturating(a, b) == IF b <= a THEN a - b ELSE 0

(* a - b as the u64 subtraction of AbsoluteTime computes it.               *)
Age(a, b) == IF b <= a THEN a - b ELSE a + U64 - b

----------------------------------------------------------------------------
(* Announce *)

(* The announce opens a path the tracker has not seen, so it asks for a    *)
(* probe task.                                                             *)
NewHostForContent(announces, path) == announces[path] = NoTime

\* Mutant of Announced: the row is overwritten whatever its time.
AnnouncedAlways(announces, path, time) == [announces EXCEPT ![path] = time]

Announced(announces, path, time) ==
    IF announces[path] = NoTime \/ announces[path] < time
    THEN [announces EXCEPT ![path] = time]
    ELSE announces

----------------------------------------------------------------------------
(* Query *)

Query == [hash : {p.hash : p \in Path}, format : {Raw, HashSeq},
          complete : BOOLEAN, verified : BOOLEAN]

(* The rows the handler looks at.  The range of keys it scans spans every  *)
(* format of the hash, whatever format the query names.                    *)
InRange(query, announces) ==
    {p \in Rows(announces) : /\ p.hash = query.hash
                             /\ query.complete => p.kind = Complete}

RecentlyAnnounced(path, announces, now) ==
    Age(now, announces[path]) <= AnnounceTimeout

RecentlyProbed(path, probes, now) ==
    probes[path] # NoTime /\ Age(now, probes[path]) <= ProbeTimeout

(* The announces a query is answered with. *)
QueryHosts(query, announces, probes, now) ==
    {p \in InRange(query, announces) :
        /\ RecentlyAnnounced(p, announces, now)
        /\ query.verified => RecentlyProbed(p, probes, now)}

(* An age the handler computes underflows and the build panics. *)
QueryPanics(query, announces, probes, now) ==
    /\ OverflowChecks
    /\ \E p \in InRange(query, announces) :
        \/ announces[p] > now
        \/ /\ query.verified /\ RecentlyAnnounced(p, announces, now)
           /\ probes[p] > now

----------------------------------------------------------------------------
(* Probes *)

StoreProbeResult(probes, ok, time) ==
    [p \in Path |-> IF p \in ok THEN time ELSE probes[p]]

\* The order of keys (hash, format, kind, endpoint) among the rows of one
\* endpoint and kind.
Before(p, q) == \/ p.hash < q.hash
                \/ p.hash = q.hash /\ p.format < q.format

(* What a probe task is told to probe: rows are inserted into a map keyed  *)
(* by announce kind, in key order, so the last row of each kind is left.   *)
ContentForEndpoint(announces, host) ==
    LET mine == Rows(announces) \cap PathsOf(host)
    IN {p \in mine : ~ \E q \in mine : q.kind = p.kind /\ Before(p, q)}

----------------------------------------------------------------------------
(* Garbage collection *)

DistinctEndpoints(announces) == {p.endpoint : p \in Rows(announces)}

\* Mutant of GcExpired: a probe is dropped in the last moment it is served.
GcExpiredEarly(probes, now) ==
    {p \in Rows(probes) : Age(now, probes[p]) >= ProbeTimeout}

(* The paths gc removes.  It walks the table of probes, so what it calls   *)
(* the age of the announce is the age of the last successful probe.        *)
GcExpired(probes, now) ==
    LET announceAge(p) == Age(now, probes[p])
        probeAge(p) == Age(now, probes[p])
    IN {p \in Rows(probes) : /\ announceAge(p) > AnnounceExpiry
                             /\ probeAge(p) > ProbeExpiry}

GcPanics(probes, now) == OverflowChecks /\ \E p \in Rows(probes) : probes[p] > now

Without(table, paths) ==
    [p \in Path |-> IF p \in paths THEN NoTime ELSE table[p]]
============================================================================
