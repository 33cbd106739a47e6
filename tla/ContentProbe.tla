---------------------------- MODULE ContentProbe ----------------------------
(***************************************************************************)
(* A probe of one item of content (tracker.rs, Tracker::probe;             *)
(* iroh_blobs_util.rs): the tracker asks a host for one random chunk of    *)
(* the content the host has announced as complete, or for the size of      *)
(* content announced as partial.  To draw the chunk it must know sizes; a  *)
(* task that finds none in the cache the tasks share asks its host.        *)
(*                                                                         *)
(* A host may claim any size.  What it sends is verified against the hash  *)
(* (external, iroh_blobs), but only if it is read: a claim is known to be  *)
(* true once the last chunk after it has been.                             *)
(* That the actor, which keeps the cache, may be gone is left to Tracker.  *)
(***************************************************************************)
EXTENDS Naturals, Sequences, FiniteSets

CONSTANTS
    Tasks,
    Blobs, Seqs,   \* the hashes of blobs and of hash sequences
    Size,          \* blob -> its size
    Children,      \* hash sequence -> the blobs it lists
    ChunkLen,      \* 1024
    HashLen,       \* 32
    MaxSeqSize,    \* max_hash_seq_size
    Claims,        \* sizes that hosts claim
    Unknown, Nothing

Contents == Blobs \cup Seqs
SizesOf(s) == [i \in DOMAIN Children[s] |-> Size[Children[s][i]]]

ASSUME ContentAssumption ==
    /\ Blobs \cap Seqs = {} /\ Nothing \notin Contents
    /\ Size \in [Blobs -> Nat]
    /\ Children \in [Seqs -> Seq(Blobs)]
    /\ ChunkLen \in Nat \ {0} /\ HashLen \in Nat \ {0} /\ MaxSeqSize \in Nat
    /\ Claims \subseteq Nat
    /\ Unknown \notin Nat /\ \A s \in Seqs : Unknown # SizesOf(s)

VARIABLES
    sizes,        \* State::sizes: blob -> the size cached for it
    collections,  \* State::collections: hash sequence -> the sizes of its children
    task          \* the probe each task is at

vars == <<sizes, collections, task>>

Idle == [pc |-> "idle", content |-> Nothing, drawn |-> Nothing]

Init ==
    /\ sizes = [b \in Blobs |-> Unknown]
    /\ collections = [s \in Seqs |-> Unknown]
    /\ task = [t \in Tasks |-> Idle]

----------------------------------------------------------------------------
(* The draw *)

Chunks(size) == (size + ChunkLen - 1) \div ChunkLen
FullChunks(size) == size \div ChunkLen

TotalChunks(childSizes) ==
    LET sum[i \in 0 .. Len(childSizes)] ==
            IF i = 0 THEN 0 ELSE sum[i - 1] + FullChunks(childSizes[i])
    IN sum[Len(childSizes)]

\* Mutant of AtChild: off by one at the end of a child.
AtChildLate(at, i, chunks) ==
    IF at.child # 0 THEN at
    ELSE IF at.chunk <= chunks THEN [at EXCEPT !.child = i]
    ELSE [at EXCEPT !.chunk = @ - chunks]

(* The loop at a child of so many full chunks; no child is found yet if    *)
(* child is 0, and chunk is what remains of the random number.             *)
AtChild(at, i, chunks) ==
    IF at.child # 0 THEN at
    ELSE IF at.chunk < chunks THEN [at EXCEPT !.child = i]
    ELSE [at EXCEPT !.chunk = @ - chunks]

(* random_hash_seq_ranges: the child that holds the chunk, and which chunk *)
(* of the child it is, if the full chunks of all children are numbered     *)
(* through.                                                                *)
RandomHashSeqRanges(childSizes, randomChunk) ==
    LET after[i \in 0 .. Len(childSizes)] ==
            IF i = 0 THEN [child |-> 0, chunk |-> randomChunk]
            ELSE AtChild(after[i - 1], i, FullChunks(childSizes[i]))
    IN after[Len(childSizes)]

----------------------------------------------------------------------------
(* A probe *)

Becomes(t, pc, drawn) ==
    task' = [task EXCEPT ![t] = [@ EXCEPT !.pc = pc, !.drawn = drawn]]

Probe(t, content) ==
    /\ task[t] = Idle
    /\ \E pc \in {"any_size", "look_up"} :
           task' = [task EXCEPT ![t] = [@ EXCEPT !.pc = pc, !.content = content]]
    /\ UNCHANGED <<sizes, collections>>

(* unverified_size: the host's word is enough for content announced as     *)
(* partial.                                                                *)
UnverifiedSize(t) ==
    /\ task[t].pc = "any_size"
    /\ \E pc \in {"answered", "failed"} : Becomes(t, pc, Nothing)
    /\ UNCHANGED <<sizes, collections>>

Cached(content) == IF content \in Blobs THEN sizes[content] ELSE collections[content]

(* get_size, get_sizes: calls of the actor, which may change its mind for  *)
(* another task before this one has asked its host.                        *)
LookUp(t) ==
    /\ task[t].pc = "look_up"
    /\ IF Cached(task[t].content) = Unknown
       THEN Becomes(t, "ask_size", Nothing)
       ELSE Becomes(t, "draw", Cached(task[t].content))
    /\ UNCHANGED <<sizes, collections>>

(* verified_size: the last chunk is asked for and read to its end, which   *)
(* fails unless the size is that of the blob.                              *)
VerifiedSize(t) ==
    LET blob == task[t].content
    IN /\ task[t].pc = "ask_size" /\ blob \in Blobs
       /\ \E claim \in Claims : claim = Size[blob] /\ Becomes(t, "set_size", claim)
       /\ UNCHANGED <<sizes, collections>>

SetSize(t) ==
    /\ task[t].pc = "set_size"
    /\ sizes' = [sizes EXCEPT ![task[t].content] = task[t].drawn]
    /\ Becomes(t, "draw", task[t].drawn)
    /\ UNCHANGED collections

(* get_hash_seq_and_sizes: all of the hash sequence, unless the host       *)
(* claims too large a size.                                                *)
GetHashSeq(t) ==
    LET seq == task[t].content
    IN /\ task[t].pc = "ask_size" /\ seq \in Seqs
       /\ \E claim \in Claims :
            /\ claim <= MaxSeqSize
            /\ claim = HashLen * Len(Children[seq])
       /\ Becomes(t, "children", <<>>)
       /\ UNCHANGED <<sizes, collections>>

(* The child whose size is read next, while there are more. *)
Child(t) == Children[task[t].content][Len(task[t].drawn) + 1]
MoreChildren(t) ==
    task[t].pc = "children" /\ Len(task[t].drawn) < Len(Children[task[t].content])

\* Mutant of GetChildSize: the header is believed and the last chunk, which
\* would give it away, not read.
GetChildSizeUnread(t) ==
    /\ MoreChildren(t)
    /\ \E claim \in Claims : Becomes(t, "children", Append(task[t].drawn, claim))
    /\ UNCHANGED <<sizes, collections>>

(* The header of a child and, with drain, its last chunk. *)
GetChildSize(t) ==
    /\ MoreChildren(t)
    /\ \E claim \in Claims :
           claim = Size[Child(t)] /\ Becomes(t, "children", Append(task[t].drawn, claim))
    /\ UNCHANGED <<sizes, collections>>

SetSizes(t) ==
    /\ task[t].pc = "children" /\ ~MoreChildren(t)
    /\ collections' = [collections EXCEPT ![task[t].content] = task[t].drawn]
    /\ Becomes(t, "draw", task[t].drawn)
    /\ UNCHANGED sizes

(* The host does not answer, claims too much or does not send what it      *)
(* claims to have.                                                         *)
SizeFails(t) ==
    /\ task[t].pc = "ask_size" \/ MoreChildren(t)
    /\ Becomes(t, "failed", Nothing)
    /\ UNCHANGED <<sizes, collections>>

Draws(content, known) ==
    IF content \in Blobs THEN 0 .. Chunks(known) - 1 ELSE 0 .. TotalChunks(known) - 1

Request(content, known, draw) ==
    IF content \in Blobs THEN [child |-> 0, chunk |-> draw]
    ELSE RandomHashSeqRanges(known, draw)

(* A draw from an empty range panics. *)
Draw(t) ==
    LET content == task[t].content
        known == task[t].drawn
    IN /\ task[t].pc = "draw"
       /\ IF Draws(content, known) = {}
          THEN Becomes(t, "panicked", Nothing)
          ELSE \E draw \in Draws(content, known) :
                   Becomes(t, "ask_chunk", Request(content, known, draw))
       /\ UNCHANGED <<sizes, collections>>

(* chunk_probe, or a request for one chunk of a child. *)
AskChunk(t) ==
    /\ task[t].pc = "ask_chunk"
    /\ \E pc \in {"answered", "failed"} : Becomes(t, pc, task[t].drawn)
    /\ UNCHANGED <<sizes, collections>>

NextProbe(t) ==
    /\ task[t].pc \in {"answered", "failed"}
    /\ task' = [task EXCEPT ![t] = Idle]
    /\ UNCHANGED <<sizes, collections>>

(* The caches do not outlive the process. *)
Restart == sizes' = [b \in Blobs |-> Unknown] /\ collections' = [s \in Seqs |-> Unknown]
           /\ task' = [t \in Tasks |-> Idle]

Next ==
    \/ \E t \in Tasks :
          \/ \E content \in Contents : Probe(t, content)
          \/ UnverifiedSize(t) \/ LookUp(t)
          \/ VerifiedSize(t) \/ SetSize(t)
          \/ GetHashSeq(t) \/ GetChildSize(t) \/ SetSizes(t) \/ SizeFails(t)
          \/ Draw(t) \/ AskChunk(t) \/ NextProbe(t)
    \/ Restart

Spec == Init /\ [][Next]_vars

----------------------------------------------------------------------------
(* What must hold *)

(* The chunk a host is asked for exists: of a blob any chunk, of a hash    *)
(* sequence a chunk of a child that it lists.  Sizes learnt from one host  *)
(* are kept until the process ends and used for all hosts, so one false    *)
(* claim that got into the cache would make honest hosts fail for ever,    *)
(* and expect("request inconsistent with hash seq") could panic.  A probe  *)
(* only panics over content without a chunk to draw: an empty blob, or a   *)
(* hash sequence of children that are all shorter than a chunk, which is   *)
(* what Tracker calls unprobeable.  (Tracker::probe, get_or_insert_size,   *)
(* random_hash_seq_ranges)                                                 *)
ProbesAskForRealChunks ==
    \A t \in Tasks :
        LET content == task[t].content
            request == task[t].drawn
        IN /\ task[t].pc = "ask_chunk" =>
                IF content \in Blobs THEN request.chunk < Chunks(Size[content])
                ELSE /\ request.child \in DOMAIN Children[content]
                     /\ request.chunk < Chunks(SizesOf(content)[request.child])
           /\ task[t].pc = "panicked" =>
                IF content \in Blobs THEN Size[content] = 0
                ELSE \A i \in DOMAIN Children[content] : SizesOf(content)[i] < ChunkLen

FullChunkOf(childSizes, chunk) ==
    /\ chunk.child \in DOMAIN childSizes
    /\ chunk.chunk \in 0 .. FullChunks(childSizes[chunk.child]) - 1

(* The numbers in range and the full chunks correspond one to one.         *)
OneNumberPerFullChunk(childSizes) ==
    LET drawn == [n \in 0 .. TotalChunks(childSizes) - 1 |->
                      RandomHashSeqRanges(childSizes, n)]
    IN /\ \A n \in DOMAIN drawn : FullChunkOf(childSizes, drawn[n])
       /\ \A n, k \in DOMAIN drawn : drawn[n] = drawn[k] => n = k
       /\ \A i \in DOMAIN childSizes :
             \A c \in 0 .. FullChunks(childSizes[i]) - 1 :
                 \E n \in DOMAIN drawn : drawn[n] = [child |-> i, chunk |-> c]

(* Every full chunk of every child is drawn by exactly one random number,  *)
(* and no number draws anything else: the loop neither leaves out nor      *)
(* favours a chunk at the boundary of two children.  This is less than the *)
(* comment of the function says, see ChunksAreDrawnUniformly.              *)
(* (random_hash_seq_ranges)                                                *)
FullChunksAreDrawnOnce ==
    \A s \in Seqs : collections[s] # Unknown => OneNumberPerFullChunk(collections[s])

NumbersThatDraw(childSizes, child, chunk) ==
    {n \in 0 .. TotalChunks(childSizes) - 1 :
         RandomHashSeqRanges(childSizes, n) = [child |-> child, chunk |-> chunk]}

(* "The random chunk is chosen uniformly from the chunks of the children"  *)
(* (iroh_blobs_util.rs:202): any two chunks are drawn by equally many      *)
(* numbers.  They are not: the chunk at the end of a child that is not     *)
(* full is never drawn, and a child shorter than a chunk has no other.     *)
(* (random_hash_seq_ranges)                                                *)
ChunksAreDrawnUniformly ==
    \A s \in Seqs : collections[s] # Unknown =>
        LET known == collections[s]
        IN \A i, k \in DOMAIN known :
             \A c \in 0 .. Chunks(known[i]) - 1, d \in 0 .. Chunks(known[k]) - 1 :
                 Cardinality(NumbersThatDraw(known, i, c))
                     = Cardinality(NumbersThatDraw(known, k, d))
=============================================================================
