------------------------------ MODULE H3Server ------------------------------
(***************************************************************************)
(* Requests to a router that is served over h3-iroh (h3-iroh/src/axum.rs): *)
(* the loop that accepts the requests of a connection one by one, a task   *)
(* per request that reads its body, calls the service and sends the        *)
(* response, and clients as in h3-iroh/examples/client.rs, which may also  *)
(* send a body and go away.                                                *)
(***************************************************************************)
EXTENDS H3Streams

CONSTANTS
    RequestFrames,   \* request -> its frames, the first holds its headers
    ResponseFrames,  \* request -> the frames of its response, at most
    Leavers,         \* the requests whose clients may go away
    Accepting        \* what the accept loop does when it resolves no request

ASSUME FramesAssumption ==
    /\ RequestFrames \in [Requests -> Nat \ {0}]
    /\ ResponseFrames \in [Requests -> Nat \ {0}]
    /\ Leavers \subseteq Requests
    /\ Accepting \notin Requests /\ "ended" \notin Requests

VARIABLES
    opened,     \* the requests whose streams were opened, in order
    accepted,   \* how many of them the server has accepted
    acceptor,   \* the request that is being resolved, Accepting, or "ended"
    client,     \* request -> where its client is
    server,     \* request -> where its handler is
    body        \* history: request -> the bytes its service was called with

vars == <<streams, opened, accepted, acceptor, client, server, body>>
control == <<opened, accepted, acceptor, client, server, body>>

ClientBusy == {"send", "flush", "recv"}
ServerBusy == {"recv", "send", "flush"}

TypeOK ==
    /\ StreamsOK
    /\ opened \in Seq(Requests)
    /\ accepted \in 0 .. Len(opened)
    /\ acceptor \in Requests \cup {Accepting, "ended"}
    /\ client \in [Requests -> ClientBusy \cup {"idle", "done", "failed", "gone"}]
    /\ server \in [Requests -> ServerBusy \cup {"none", "refused", "done", "failed", "panicked"}]
    /\ body \in [Requests -> Seq(Nat)]

Init ==
    /\ StreamsInit
    /\ opened = <<>> /\ accepted = 0 /\ acceptor = Accepting
    /\ client = [r \in Requests |-> "idle"]
    /\ server = [r \in Requests |-> "none"]
    /\ body = [r \in Requests |-> <<>>]

----------------------------------------------------------------------------
(* Clients *)

ClientBecomes(r, pc) == client' = [client EXCEPT ![r] = pc]
ServerBecomes(r, pc) == server' = [server EXCEPT ![r] = pc]

ClientStreamsDropped(r) == quic' = Dropped(RequestStream(r), ResponseStream(r))
ServerStreamsDropped(r) == quic' = Dropped(ResponseStream(r), RequestStream(r))

(* poll_open_bidi: QUIC numbers the streams in the order they are opened. *)
Open(r) ==
    /\ client[r] = "idle" /\ ~lost
    /\ opened' = Append(opened, r)
    /\ ClientBecomes(r, "send")
    /\ UNCHANGED <<streams, accepted, acceptor, server, body>>

ClientSends(r) ==
    /\ client[r] = "send"
    /\ frames[RequestStream(r)] < RequestFrames[r]
    /\ SendData(RequestStream(r))
    /\ ClientBecomes(r, "flush")
    /\ UNCHANGED <<opened, accepted, acceptor, server, body>>

ClientFlushes(r) ==
    /\ client[r] = "flush"
    /\ \/ PollReadyPending(RequestStream(r)) /\ UNCHANGED client
       \/ PollReadyOk(RequestStream(r)) /\ ClientBecomes(r, "send")
       \/ PollReadyErr(RequestStream(r)) /\ ClientBecomes(r, "failed") /\ ClientStreamsDropped(r)
    /\ UNCHANGED <<opened, accepted, acceptor, server, body>>

ClientFinishes(r) ==
    /\ client[r] = "send"
    /\ frames[RequestStream(r)] = RequestFrames[r]
    /\ \/ PollFinish(RequestStream(r)) /\ ClientBecomes(r, "recv")
       \/ PollFinishErr(RequestStream(r)) /\ ClientBecomes(r, "failed")
    /\ UNCHANGED <<opened, accepted, acceptor, server, body>>

ClientReceives(r) ==
    LET s == ResponseStream(r)
    IN /\ client[r] = "recv"
       /\ \/ (PollDataPending(s) \/ PollData(s)) /\ UNCHANGED client
          \/ PollDataEnd(s) /\ ClientBecomes(r, "done") /\ ClientStreamsDropped(r)
          \/ PollDataFails(s) /\ ClientBecomes(r, "failed") /\ ClientStreamsDropped(r)
       /\ UNCHANGED <<opened, accepted, acceptor, server, body>>

(* A client that waits for no call stops its request. *)
Abandon(r) ==
    /\ r \in Leavers
    /\ client[r] \in {"send", "recv"} /\ ~lost
    /\ recv[ResponseStream(r)].stream = "here"
    /\ ResetAndStop(RequestStream(r), ResponseStream(r))
    /\ ClientBecomes(r, "gone")
    /\ UNCHANGED <<opened, accepted, acceptor, server, body>>

(* The client drops its request, be it in the middle of a call. *)
ClientDrops(r) ==
    /\ r \in Leavers
    /\ client[r] \in ClientBusy
    /\ UNCHANGED <<frames, send, recv, lost>>
    /\ ClientStreamsDropped(r)
    /\ ClientBecomes(r, "gone")
    /\ UNCHANGED <<opened, accepted, acceptor, server, body>>

----------------------------------------------------------------------------
(* handle_connection *)

\* Mutant of Accept: the stream is counted twice.
AcceptTwice ==
    /\ acceptor = Accepting /\ ~lost
    /\ accepted < Len(opened)
    /\ acceptor' = opened[accepted + 1]
    /\ accepted' = accepted + 2
    /\ UNCHANGED <<streams, opened, client, server, body>>

(* A stream is there once something of it, or of a later one, has arrived. *)
Arrived(r) == quic[RequestStream(r)].bytes # <<>> \/ quic[RequestStream(r)].fin # "open"

Accept ==
    /\ acceptor = Accepting /\ ~lost
    /\ \E i \in accepted + 1 .. Len(opened) : Arrived(opened[i])
    /\ acceptor' = opened[accepted + 1]
    /\ accepted' = accepted + 1
    /\ UNCHANGED <<streams, opened, client, server, body>>

(* resolve_request reads the headers; the loop waits for it.  A handler is *)
(* spawned for the request, or the request is dropped.                     *)
Resolve(r) ==
    LET s == RequestStream(r)
    IN /\ acceptor = r
       /\ \/ /\ PollDataPending(s) \/ PollData(s)
             /\ IF Len(recv'[s].got) >= FrameLen
                THEN ServerBecomes(r, "recv") /\ acceptor' = Accepting
                ELSE UNCHANGED <<server, acceptor>>
          \/ /\ PollDataFails(s)
             /\ ServerBecomes(r, "refused") /\ ServerStreamsDropped(r)
             /\ acceptor' = Accepting
       /\ UNCHANGED <<opened, accepted, client, body>>

(* accept fails, and the loop ends. *)
StopAccepting ==
    /\ acceptor = Accepting /\ lost
    /\ acceptor' = "ended"
    /\ UNCHANGED <<streams, opened, accepted, client, server, body>>

----------------------------------------------------------------------------
(* handle_request *)

(* The service is called with what was read after the headers. *)
CallService(r) ==
    /\ ServerBecomes(r, "send")
    /\ body' = [body EXCEPT ![r] = SubSeq(recv[RequestStream(r)].got, FrameLen + 1,
                                          Len(recv[RequestStream(r)].got))]

\* Mutant of ServerReceives: the body is what the first read returns.
ServerReceivesOnce(r) ==
    LET s == RequestStream(r)
    IN /\ server[r] = "recv"
       /\ \/ PollDataPending(s) /\ UNCHANGED <<server, body>>
          \/ PollData(s) /\ CallService(r)
          \/ (PollDataEnd(s) \/ PollDataFails(s)) /\ CallService(r) /\ UNCHANGED quic
       /\ UNCHANGED <<opened, accepted, acceptor, client>>

(* The body is read until recv_data returns no data: an error ends it like *)
(* the end does.                                                           *)
ServerReceives(r) ==
    LET s == RequestStream(r)
    IN /\ server[r] = "recv"
       /\ \/ (PollDataPending(s) \/ PollData(s)) /\ UNCHANGED <<server, body>>
          \/ (PollDataEnd(s) \/ PollDataFails(s)) /\ CallService(r) /\ UNCHANGED quic
       /\ UNCHANGED <<opened, accepted, acceptor, client>>

ServerSends(r) ==
    /\ server[r] = "send"
    /\ frames[ResponseStream(r)] < ResponseFrames[r]
    /\ SendData(ResponseStream(r))
    /\ ServerBecomes(r, "flush")
    /\ UNCHANGED <<opened, accepted, acceptor, client, body>>

\* Mutant of ServerFlushes: the result of sending is not awaited.
ServerFlushesEarly(r) ==
    /\ server[r] = "flush"
    /\ \/ PollReadyPending(ResponseStream(r)) /\ ServerBecomes(r, "send")
       \/ PollReadyOk(ResponseStream(r)) /\ ServerBecomes(r, "send")
       \/ PollReadyErr(ResponseStream(r)) /\ ServerBecomes(r, "panicked") /\ ServerStreamsDropped(r)
    /\ UNCHANGED <<opened, accepted, acceptor, client, body>>

(* The result of sending is unwrapped: an error ends the task with a panic. *)
ServerFlushes(r) ==
    /\ server[r] = "flush"
    /\ \/ PollReadyPending(ResponseStream(r)) /\ UNCHANGED server
       \/ PollReadyOk(ResponseStream(r)) /\ ServerBecomes(r, "send")
       \/ PollReadyErr(ResponseStream(r)) /\ ServerBecomes(r, "panicked") /\ ServerStreamsDropped(r)
    /\ UNCHANGED <<opened, accepted, acceptor, client, body>>

(* The handler returns and drops its streams, both of which are at their   *)
(* ends.  The service's body is at its end, after some frames or none; an  *)
(* error in it is logged and counts for nothing.                           *)
ServerFinishes(r) ==
    /\ server[r] = "send"
    /\ frames[ResponseStream(r)] > 0
    /\ \/ PollFinish(ResponseStream(r)) /\ ServerBecomes(r, "done")
       \/ PollFinishErr(ResponseStream(r)) /\ ServerBecomes(r, "failed")
    /\ UNCHANGED <<opened, accepted, acceptor, client, body>>

----------------------------------------------------------------------------
ClientStep(r) == ClientSends(r) \/ ClientFlushes(r) \/ ClientFinishes(r) \/ ClientReceives(r)
ServerStep(r) ==
    \/ Resolve(r) \/ ServerReceives(r)
    \/ ServerSends(r) \/ ServerFlushes(r) \/ ServerFinishes(r)

Next ==
    \/ \E r \in Requests :
           \/ Open(r) \/ ClientStep(r) \/ Abandon(r) \/ ClientDrops(r)
           \/ ServerStep(r)
    \/ Accept \/ StopAccepting
    \/ LoseConnection /\ UNCHANGED control

Spec == Init /\ [][Next]_vars

(* Tasks are polled when what they wait for is there: their streams wake   *)
(* them.  As every step brings an end nearer it is enough that some task   *)
(* that can go on does.  A client may leave, but is not held up otherwise. *)
Progress == Accept \/ \E r \in Requests : ClientStep(r) \/ ServerStep(r)

FairSpec == Spec /\ WF_vars(Progress)

----------------------------------------------------------------------------
(* What must hold *)

(* Streams keep their promise (ByteStreams): what is read is what was      *)
(* sent, in order, none of it twice, and the end of a stream is read only  *)
(* after all that was sent, unless the sender left before.  Writes are cut *)
(* to pieces by the window and go on in a future that owns the stream.     *)
StreamsKeepPromise == Promise!Spec

(* Whenever a call has returned, its stream is back from the future and    *)
(* nothing is left to write: finish, reset and stop_sending unwrap the     *)
(* stream, and poll_send and send_data rely on an empty buffer.            *)
CallsFindTheirStream ==
    \A r \in Requests :
        /\ client[r] = "send" => send[RequestStream(r)] = [stream |-> "here", writing |-> <<>>]
        /\ server[r] = "send" => send[ResponseStream(r)] = [stream |-> "here", writing |-> <<>>]
        /\ server[r] = "send" => recv[RequestStream(r)].stream = "here"

WholeBody(r) == [i \in 1 .. (RequestFrames[r] - 1) * FrameLen |-> FrameLen + i]
ServiceCalled(r) == server[r] \in {"send", "flush", "done", "failed", "panicked"}

(* A service is called with the whole body of a request, unless its client *)
(* has gone away or the connection is lost.                                *)
CompleteRequestsServedWhole ==
    \A r \in Requests :
        ServiceCalled(r) => body[r] = WholeBody(r) \/ lost \/ client[r] \in {"gone", "failed"}

(* A client that reads a response to its end has read all the frames the   *)
(* service yielded, although a handler that panics or fails finishes its   *)
(* stream, too, when it is dropped.  Of a service whose body ends in an    *)
(* error (axum.rs:122) these are the frames before it: the stream is       *)
(* finished after them as after all.  (handle_request)                     *)
FinishedResponsesAreWhole ==
    \A r \in Requests :
        client[r] = "done" =>
            /\ server[r] = "done"
            /\ recv[ResponseStream(r)].got = Bytes(frames[ResponseStream(r)])
            /\ body[r] = WholeBody(r)

(* A request comes to an end for its client, whatever becomes of other     *)
(* requests on the connection, which are resolved one by one, and so does  *)
(* the task that handles it, whatever becomes of the client.               *)
RequestsEnd ==
    \A r \in Requests :
        /\ client[r] \in ClientBusy ~> client[r] \notin ClientBusy
        /\ server[r] \in ServerBusy ~> server[r] \notin ServerBusy

----------------------------------------------------------------------------
(* What the documentation says, and the code does not do *)

(* "Handles a single request, buffering the entire request."               *)
(* (axum.rs:74)                                                            *)
EntireRequestBuffered ==
    \A r \in Requests : ServiceCalled(r) => body[r] = WholeBody(r)
=============================================================================
