----------------------------- MODULE H3Streams -----------------------------
(***************************************************************************)
(* The streams of h3-iroh (h3-iroh/src/lib.rs): SendStream and RecvStream, *)
(* each of which hands its QUIC stream to a future while a write or a read *)
(* is in flight, and what they rest on: the QUIC streams of a connection   *)
(* (external, iroh::endpoint).                                             *)
(*                                                                         *)
(* A request uses one bidirectional stream, which is two streams here.     *)
(* What travels on them are frames of FrameLen bytes; the bytes of a       *)
(* stream are numbered, so that one that is lost, repeated or overtaken    *)
(* shows.                                                                  *)
(***************************************************************************)
EXTENDS Naturals, Sequences

CONSTANTS
    Requests,
    FrameLen,   \* bytes of a frame
    Window      \* bytes QUIC takes from a sender ahead of the receiver

ASSUME LengthAssumption == FrameLen \in Nat \ {0} /\ Window \in Nat \ {0}

RequestStream(r) == <<r, "request">>
ResponseStream(r) == <<r, "response">>
Streams == Requests \X {"request", "response"}

VARIABLES
    frames,     \* history: stream -> frames passed to send_data
    send,       \* stream -> its SendStream
    quic,       \* stream -> bytes under way, how it was ended, if it was stopped
    recv,       \* stream -> its RecvStream, and history: the bytes read from it
    lost        \* the connection is lost

streams == <<frames, send, quic, recv, lost>>

Bytes(n) == [i \in 1 .. n * FrameLen |-> i]
Frame(n) == [i \in 1 .. FrameLen |-> (n - 1) * FrameLen + i]

StreamsOK ==
    /\ frames \in [Streams -> Nat]
    /\ send \in [Streams -> [stream : {"here", "future"}, writing : Seq(Nat)]]
    /\ quic \in [Streams -> [bytes : Seq(Nat), stopped : BOOLEAN,
                             fin : {"open", "finished", "dropped", "reset"}]]
    /\ recv \in [Streams -> [stream : {"here", "future"}, got : Seq(Nat),
                             end : {"open", "end", "failed"}]]
    /\ lost \in BOOLEAN

StreamsInit ==
    /\ frames = [s \in Streams |-> 0]
    /\ send = [s \in Streams |-> [stream |-> "here", writing |-> <<>>]]
    /\ quic = [s \in Streams |-> [bytes |-> <<>>, stopped |-> FALSE, fin |-> "open"]]
    /\ recv = [s \in Streams |-> [stream |-> "here", got |-> <<>>, end |-> "open"]]
    /\ lost = FALSE

----------------------------------------------------------------------------
(* SendStream *)

(* send_data: the frame is kept, whatever was kept before. *)
SendData(s) ==
    /\ frames' = [frames EXCEPT ![s] = @ + 1]
    /\ send' = [send EXCEPT ![s].writing = Frame(frames[s] + 1)]
    /\ UNCHANGED <<quic, recv, lost>>

Room(s) == Window - Len(quic[s].bytes)
WriteFails(s) == lost \/ quic[s].stopped

(* A write takes what there is room for. *)
Write(s, count) ==
    quic' = [quic EXCEPT ![s].bytes = @ \o SubSeq(send[s].writing, 1, count)]

\* Mutant of PollReadyPending: what was written is not advanced over.
PollReadyPendingAgain(s) ==
    LET count == Room(s)
    IN /\ ~WriteFails(s)
       /\ count < Len(send[s].writing)
       /\ count > 0 \/ send[s].stream = "here"
       /\ Write(s, count)
       /\ send' = [send EXCEPT ![s].stream = "future"]
       /\ UNCHANGED <<frames, recv, lost>>

(* poll_ready writes until QUIC takes no more; then the stream stays with  *)
(* the future of the write that waits.                                     *)
PollReadyPending(s) ==
    LET count == Room(s)
        writing == send[s].writing
    IN /\ ~WriteFails(s)
       /\ count < Len(writing)
       /\ count > 0 \/ send[s].stream = "here"
       /\ Write(s, count)
       /\ send' = [send EXCEPT ![s] =
                      [stream |-> "future", writing |-> SubSeq(writing, count + 1, Len(writing))]]
       /\ UNCHANGED <<frames, recv, lost>>

\* Mutant of PollReadyOk: the buffer is not cleared.
PollReadyOkKeeping(s) ==
    /\ ~WriteFails(s)
    /\ Len(send[s].writing) <= Room(s)
    /\ Write(s, Len(send[s].writing))
    /\ send' = [send EXCEPT ![s].stream = "here"]
    /\ UNCHANGED <<frames, recv, lost>>

PollReadyOk(s) ==
    /\ ~WriteFails(s)
    /\ Len(send[s].writing) <= Room(s)
    /\ Write(s, Len(send[s].writing))
    /\ send' = [send EXCEPT ![s] = [stream |-> "here", writing |-> <<>>]]
    /\ UNCHANGED <<frames, recv, lost>>

(* The peer has stopped the stream, or the connection is lost: the stream  *)
(* is back, and so is what was not written.                                *)
PollReadyErr(s) ==
    /\ WriteFails(s)
    /\ send' = [send EXCEPT ![s].stream = "here"]
    /\ UNCHANGED <<frames, recv, lost>>

(* poll_finish does not look at what is still being written. *)
PollFinish(s) ==
    /\ quic' = IF lost THEN quic ELSE [quic EXCEPT ![s].fin = "finished"]
    /\ UNCHANGED <<frames, send, recv, lost>>

PollFinishErr(s) == lost /\ UNCHANGED streams

----------------------------------------------------------------------------
(* RecvStream *)

(* poll_data with nothing to read: the stream stays with the read.         *)
PollDataPending(s) ==
    /\ quic[s].bytes = <<>> /\ quic[s].fin = "open" /\ ~lost
    /\ recv[s].stream = "here"
    /\ recv' = [recv EXCEPT ![s].stream = "future"]
    /\ UNCHANGED <<frames, send, quic, lost>>

(* Bytes have arrived. *)
PollData(s) ==
    \E count \in 1 .. Len(quic[s].bytes) :
        /\ recv' = [recv EXCEPT ![s] =
                       [stream |-> "here", end |-> @.end,
                        got |-> @.got \o SubSeq(quic[s].bytes, 1, count)]]
        /\ quic' = [quic EXCEPT ![s].bytes = SubSeq(@, count + 1, Len(@))]
        /\ UNCHANGED <<frames, send, lost>>

AllRead(s) == quic[s].bytes = <<>> /\ quic[s].fin \in {"finished", "dropped"}

(* h3 takes the end of the stream for the end of the message if it has     *)
(* read a frame at least and none in part.                                 *)
WholeFrames(s) == \E n \in 1 .. Len(recv[s].got) : Len(recv[s].got) = n * FrameLen

PollDataEnd(s) ==
    /\ AllRead(s) /\ ~lost
    /\ WholeFrames(s)
    /\ recv' = [recv EXCEPT ![s].stream = "here", ![s].end = "end"]
    /\ UNCHANGED <<frames, send, lost>>

PollDataFails(s) ==
    /\ \/ lost
       \/ quic[s].fin = "reset"
       \/ AllRead(s) /\ ~WholeFrames(s)
    /\ recv' = [recv EXCEPT ![s].stream = "here", ![s].end = "failed"]
    /\ UNCHANGED <<frames, send, lost>>

----------------------------------------------------------------------------
(* Both *)

\* Mutant of Dropped: the peer is not told that nobody reads on.
DroppedUnnoticed(out, in) ==
    IF lost THEN quic
    ELSE [quic EXCEPT ![out].fin = IF @ # "open" THEN @
                                   ELSE IF quic[out].stopped THEN "reset" ELSE "dropped"]

(* A SendStream that is dropped, as it is after an error, finishes its     *)
(* stream, or resets it if the peer has stopped it; a RecvStream that is   *)
(* dropped stops its stream unless it has read the end of it.  A write or  *)
(* read in flight is dropped with them.                                    *)
Dropped(out, in) ==
    IF lost THEN quic
    ELSE [quic EXCEPT
            ![out].fin = IF @ # "open" THEN @
                         ELSE IF quic[out].stopped THEN "reset" ELSE "dropped",
            ![in].stopped = @ \/ recv'[in].end = "open"]

(* reset of the one stream and stop_sending of the other. *)
ResetAndStop(out, in) ==
    /\ quic' = [quic EXCEPT ![out].fin = "reset", ![in].stopped = TRUE]
    /\ UNCHANGED <<frames, send, recv, lost>>

LoseConnection ==
    /\ ~lost
    /\ lost' = TRUE
    /\ UNCHANGED <<frames, send, quic, recv>>

----------------------------------------------------------------------------
(* What streams promise *)

Unfinished(s) == quic[s].fin \in {"dropped", "reset"}

Sent(s) == IF Unfinished(s) THEN recv[s].got \o quic[s].bytes ELSE Bytes(frames[s])

Promise == INSTANCE ByteStreams WITH
               sent <- [s \in Streams |-> Sent(s)],
               received <- [s \in Streams |-> recv[s].got],
               writer <- [s \in Streams |-> quic[s].fin],
               reader <- [s \in Streams |-> recv[s].end]
=============================================================================
