----------------------------- MODULE ByteStreams -----------------------------
(***************************************************************************)
(* What the streams of h3-iroh promise: the receiver gets the bytes that   *)
(* were sent, each once and in order, and reads the end of the stream only *)
(* after all of them.  A sender that goes away without finishing ends the  *)
(* stream where it happens to be.  Streams are independent of each other:  *)
(* a step may be one of several of them.                                   *)
(***************************************************************************)
EXTENDS Sequences, SequencesExt

CONSTANT Streams

VARIABLES
    sent,       \* stream -> the bytes passed to the sender
    received,   \* stream -> the bytes the receiver has read
    writer,     \* stream -> "open", "finished", "dropped" or "reset"
    reader      \* stream -> "open", "end" or "failed"

vars == <<sent, received, writer, reader>>

Init ==
    /\ sent = [s \in Streams |-> <<>>]
    /\ received = [s \in Streams |-> <<>>]
    /\ writer = [s \in Streams |-> "open"]
    /\ reader = [s \in Streams |-> "open"]

SentSame(s) == sent'[s] = sent[s] /\ writer'[s] = writer[s]
ReceivedSame(s) == received'[s] = received[s] /\ reader'[s] = reader[s]

Send(s) ==
    /\ writer[s] = "open" /\ writer'[s] = "open"
    /\ IsStrictPrefix(sent[s], sent'[s])
    /\ ReceivedSame(s)

Receive(s) ==
    /\ reader[s] = "open" /\ reader'[s] = "open"
    /\ IsStrictPrefix(received[s], received'[s])
    /\ IsPrefix(received'[s], sent[s])
    /\ SentSame(s)

Finish(s) ==
    /\ writer[s] = "open" /\ writer'[s] = "finished"
    /\ sent'[s] = sent[s]
    /\ ReceivedSame(s)

(* What was sent but not yet on its way is lost. *)
CutOff(s) ==
    /\ IsPrefix(sent'[s], sent[s]) /\ IsPrefix(received[s], sent'[s])
    /\ ReceivedSame(s)

Drop(s) == writer[s] = "open" /\ writer'[s] = "dropped" /\ CutOff(s)
Reset(s) == writer'[s] = "reset" /\ CutOff(s)

End(s) ==
    /\ reader[s] = "open" /\ reader'[s] = "end"
    /\ writer[s] \in {"finished", "dropped"}
    /\ received[s] = sent[s] /\ received'[s] = received[s]
    /\ SentSame(s)

Fail(s) ==
    /\ reader[s] = "open" /\ reader'[s] = "failed"
    /\ received'[s] = received[s]
    /\ SentSame(s)

Step(s) ==
    \/ Send(s) \/ Finish(s) \/ Drop(s) \/ Reset(s)
    \/ Receive(s) \/ End(s) \/ Fail(s)
    \/ SentSame(s) /\ ReceivedSame(s)

Next == \A s \in Streams : Step(s)

Spec == Init /\ [][Next]_vars
=============================================================================
