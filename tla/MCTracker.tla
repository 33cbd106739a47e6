----------------------------- MODULE MCTracker -----------------------------
(* Small instances of Tracker.  The configurations choose among these sets. *)
EXTENDS Tracker, TLC

CONSTANTS h1, h2, c1, c2, t1, t2, t3

Blob(hash, host) ==
    [hash |-> hash, format |-> Raw, kind |-> Complete, endpoint |-> host]

OnePath == {Blob(1, h1)}
FirstPath == OnePath
NoPath == {}

\* Two hosts that announce one blob each.
OnePathPerHost == {Blob(1, h1), Blob(1, h2)}

(* No action reads answered: states that differ in it alone are the same to *)
(* properties that do not read it.                                         *)
NoHistory == <<tables, now, status, setup, task, taskMap, gc>>

Symmetry == Permutations({c1, c2}) \cup Permutations({t1, t2, t3})
============================================================================
