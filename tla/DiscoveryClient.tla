--------------------------- MODULE DiscoveryClient ---------------------------
(***************************************************************************)
(* Calls of a content discovery client (iroh-content-discovery/client.rs)  *)
(* and the connection handlers of the trackers it calls                    *)
(* (iroh-content-tracker/tracker.rs, accept_loop and handle_connection).   *)
(* announce and query make a connection per call, with the request as      *)
(* 0-RTT data if the client has a session ticket; announce_all and         *)
(* query_all run such calls for several trackers, a bounded number at a    *)
(* time; announce_conn and query_conn make calls on a connection that the  *)
(* application owns.                                                       *)
(*                                                                         *)
(* A connection belongs to the calls made on it, so an instance of this    *)
(* module fixes which call uses which.  What a request asks for does not   *)
(* matter, only whether its answer is empty (an announce) or not (a query).*)
(***************************************************************************)
EXTENDS Naturals, Sequences, FiniteSets

CONSTANTS
    Call, Announces,   \* the calls, and those that announce
    Conn, On,          \* the connections, and which a call is made on
    NoCall,
    Parallelism        \* calls announce_all or query_all runs at once

ASSUME ClientAssumption ==
    /\ IsFiniteSet(Call) /\ Announces \subseteq Call
    /\ On \in [Call -> Conn]
    /\ NoCall \notin Call
    /\ Parallelism \in Nat \ {0}

VARIABLES
    call,      \* where each call is
    zeroRtt,   \* the calls that have sent their request as 0-RTT data
    link,      \* the connections
    inbox,     \* connection -> the calls whose streams reached the tracker
    handler,   \* connection -> the tracker's task that handles it
    serving,   \* connection -> the call whose request it took
    reply,     \* call -> what has arrived on the stream it reads
    times      \* history: how often a tracker has done what a call asked

client == <<call, zeroRtt>>
tracker == <<handler, serving>>
vars == <<client, link, inbox, tracker, reply, times>>

Ended == {"ok", "error"}
InFlight == {k \in Call : call[k] \notin {"unstarted"} \cup Ended}
CallsOn(c) == {k \in Call : On[k] = c}

(* The connection is the application's: announce_conn, query_conn. *)
Shared(c) == Cardinality(CallsOn(c)) > 1

(* Types; a stream is read by the call it was opened for. *)
TypeOK ==
    /\ call \in [Call -> {"unstarted", "connect", "early", "open", "wait"} \cup Ended]
    /\ zeroRtt \subseteq Call
    /\ link \in [Conn -> {"none", "handshake", "up", "closed", "lost"}]
    /\ inbox \in [Conn -> Seq(Call)]
    /\ \A c \in Conn : \A i \in DOMAIN inbox[c] : On[inbox[c][i]] = c
    /\ handler \in [Conn -> {"none", "accept", "busy", "linger", "gone", "failed"}]
    /\ serving \in [Conn -> Call \cup {NoCall}]
    /\ \A c \in Conn : handler[c] = "busy" => serving[c] \in CallsOn(c)
    /\ reply \in [Call -> {"none", "empty", "response", "long"}]
    /\ times \in [Call -> Nat]

Init ==
    /\ call = [k \in Call |-> "unstarted"]
    /\ zeroRtt = {}
    /\ link = [c \in Conn |-> "none"]
    /\ inbox = [c \in Conn |-> <<>>]
    /\ handler = [c \in Conn |-> "none"]
    /\ serving = [c \in Conn |-> NoCall]
    /\ reply = [k \in Call |-> "none"]
    /\ times = [k \in Call |-> 0]

Becomes(k, state) == call' = [call EXCEPT ![k] = state]
Down(c) == link[c] \in {"closed", "lost"}
CloseLink(c) == link' = [link EXCEPT ![c] = IF Down(c) THEN @ ELSE "closed"]

----------------------------------------------------------------------------
(* The client *)

(* The calls of announce_all or query_all that run. *)
Parallel == {k \in InFlight : ~Shared(On[k])}

(* connect_with_opts, and into_0rtt when there is a ticket: the request is *)
(* sent at once.  A call on the application's connection waits for it.     *)
Start(k) ==
    LET c == On[k]
    IN /\ call[k] = "unstarted"
       /\ Shared(c) \/ Cardinality(Parallel) < Parallelism
       /\ link' = [link EXCEPT ![c] = IF @ = "none" THEN "handshake" ELSE @]
       /\ \/ Becomes(k, "connect") /\ UNCHANGED zeroRtt
          \/ ~Shared(c) /\ Becomes(k, "early") /\ zeroRtt' = zeroRtt \cup {k}
       /\ UNCHANGED <<inbox, tracker, reply, times>>

(* 1-RTT: the connection is there. *)
Connected(k) ==
    /\ call[k] = "connect" /\ link[On[k]] = "up"
    /\ Becomes(k, "open")
    /\ UNCHANGED <<zeroRtt, link, inbox, tracker, reply, times>>

(* A new stream for the request, also for one whose 0-RTT data was         *)
(* rejected.                                                               *)
SendRequest(k) ==
    /\ call[k] = "open" /\ link[On[k]] = "up"
    /\ Becomes(k, "wait")
    /\ inbox' = [inbox EXCEPT ![On[k]] = Append(@, k)]
    /\ UNCHANGED <<zeroRtt, link, tracker, reply, times>>

\* Mutant of AnswerIsGood: whatever ends the stream is taken for an answer.
AnyAnswerIsGood(k) == TRUE

(* An announce reads to the end of its stream and looks at nothing; a      *)
(* query needs a response to deserialize.                                  *)
AnswerIsGood(k) == k \in Announces \/ reply[k] = "response"

(* A connection the call made is closed with it, one that sent 0-RTT data  *)
(* only after the time a session ticket takes to arrive.                   *)
ReadReply(k) ==
    /\ call[k] = "wait" /\ reply[k] # "none"
    /\ Becomes(k, IF AnswerIsGood(k) THEN "ok" ELSE "error")
    /\ IF Shared(On[k]) \/ (k \in zeroRtt /\ AnswerIsGood(k)) THEN UNCHANGED link
       ELSE CloseLink(On[k])
    /\ UNCHANGED <<zeroRtt, inbox, tracker, reply, times>>

\* Mutant of CloseLater: a connection with a session ticket is kept.
CloseLaterOwned(c) ==
    /\ link[c] = "up" /\ Shared(c)
    /\ \A k \in CallsOn(c) : call[k] \in Ended
    /\ CloseLink(c)
    /\ UNCHANGED <<client, inbox, tracker, reply, times>>

(* wait_for_session_ticket; the application closes its connection when it  *)
(* has made its calls.                                                     *)
CloseLater(c) ==
    /\ link[c] = "up"
    /\ \A k \in CallsOn(c) : call[k] \in Ended
    /\ CloseLink(c)
    /\ UNCHANGED <<client, inbox, tracker, reply, times>>

CallFails(k) ==
    /\ k \in InFlight /\ Down(On[k])
    /\ Becomes(k, "error")
    /\ UNCHANGED <<zeroRtt, link, inbox, tracker, reply, times>>

----------------------------------------------------------------------------
(* The handshake, and the tracker *)

\* Mutant of Handshake: rejected 0-RTT data is not sent again.
HandshakeWithoutResend(c) ==
    LET early == {k \in CallsOn(c) : call[k] = "early"}
    IN /\ link[c] = "handshake"
       /\ link' = [link EXCEPT ![c] = "up"]
       /\ handler' = [handler EXCEPT ![c] = "accept"]
       /\ call' = [k \in Call |-> IF k \in early THEN "wait" ELSE call[k]]
       /\ \/ UNCHANGED inbox
          \/ \E k \in early : inbox' = [inbox EXCEPT ![c] = <<k>>]
       /\ UNCHANGED <<zeroRtt, serving, reply, times>>

(* The handshake is completed on both sides.  0-RTT data is accepted, and  *)
(* is what the tracker reads first, or it is rejected: then the tracker    *)
(* never sees it and the client sends it again.                            *)
Handshake(c) ==
    LET early == {k \in CallsOn(c) : call[k] = "early"}
    IN /\ link[c] = "handshake"
       /\ link' = [link EXCEPT ![c] = "up"]
       /\ handler' = [handler EXCEPT ![c] = "accept"]
       /\ \/ /\ call' = [k \in Call |-> IF k \in early THEN "open" ELSE call[k]]
             /\ UNCHANGED inbox
          \/ \E k \in early :
                /\ Becomes(k, "wait")
                /\ inbox' = [inbox EXCEPT ![c] = <<k>>]
       /\ UNCHANGED <<zeroRtt, serving, reply, times>>

\* Mutant of AcceptStream: the handler waits for a request and takes none.
AcceptNothing(c) ==
    /\ handler[c] = "accept" /\ inbox[c] # <<>>
    /\ handler' = [handler EXCEPT ![c] = "busy"]
    /\ UNCHANGED <<client, link, inbox, serving, reply, times>>

(* accept_bi, once per connection, and the request. *)
AcceptStream(c) ==
    /\ handler[c] = "accept" /\ inbox[c] # <<>>
    /\ handler' = [handler EXCEPT ![c] = "busy"]
    /\ serving' = [serving EXCEPT ![c] = Head(inbox[c])]
    /\ inbox' = [inbox EXCEPT ![c] = Tail(@)]
    /\ UNCHANGED <<client, link, reply, times>>

\* Mutant of Answer: the handler is done when it has written the answer,
\* and drops the connection with it.
AnswerAndLeave(c) ==
    LET k == serving[c]
    IN /\ handler[c] = "busy"
       /\ handler' = [handler EXCEPT ![c] = "gone"]
       /\ times' = [times EXCEPT ![k] = @ + 1]
       /\ CloseLink(c)
       /\ UNCHANGED <<client, inbox, serving, reply>>

(* The request is done; the answer is written and the handler stays until  *)
(* the connection is closed.  A response may have more hosts than fit the  *)
(* limit that the client reads it with, which is that of a request.        *)
Answer(c) ==
    LET k == serving[c]
    IN /\ handler[c] = "busy"
       /\ handler' = [handler EXCEPT ![c] = "linger"]
       /\ times' = [times EXCEPT ![k] = @ + 1]
       /\ \E answer \in IF k \in Announces THEN {"empty"} ELSE {"response", "long"} :
             reply' = [reply EXCEPT ![k] = IF link[c] = "up" THEN answer ELSE @]
       /\ UNCHANGED <<client, link, inbox, serving>>

(* The request cannot be read or verified, or the actor ends before or     *)
(* after it did the request: the handler returns.  The stream it drops is  *)
(* finished and the connection closed; the client may see the first before *)
(* the second.                                                             *)
HandlerFails(c) ==
    LET k == serving[c]
    IN /\ handler[c] = "busy"
       /\ handler' = [handler EXCEPT ![c] = "failed"]
       /\ CloseLink(c)
       /\ \/ UNCHANGED reply
          \/ link[c] = "up" /\ reply' = [reply EXCEPT ![k] = "empty"]
       /\ \E done \in 0..1 : times' = [times EXCEPT ![k] = @ + done]
       /\ UNCHANGED <<client, inbox, serving>>

HandlerEnds(c) ==
    /\ handler[c] \in {"accept", "linger"} /\ Down(c)
    /\ handler' = [handler EXCEPT ![c] = "gone"]
    /\ UNCHANGED <<client, link, inbox, serving, reply, times>>

(* The connection cannot be made, or is lost. *)
Disconnect(c) ==
    /\ link[c] \in {"handshake", "up"}
    /\ link' = [link EXCEPT ![c] = "lost"]
    /\ UNCHANGED <<client, inbox, tracker, reply, times>>

----------------------------------------------------------------------------
CallStep(k) == Connected(k) \/ SendRequest(k) \/ ReadReply(k) \/ CallFails(k)

ConnStep(c) ==
    CloseLater(c) \/ Handshake(c) \/ AcceptStream(c) \/ Answer(c) \/ HandlerEnds(c)

Next ==
    \/ \E k \in Call : Start(k) \/ CallStep(k)
    \/ \E c \in Conn : ConnStep(c) \/ HandlerFails(c) \/ Disconnect(c)

Spec == Init /\ [][Next]_vars

(* Both sides go on when they can and handshakes complete or fail; nothing *)
(* times out, since neither side sets a timeout on a call.                 *)
FairSpec ==
    /\ Spec
    /\ \A k \in Call : WF_vars(Start(k)) /\ WF_vars(CallStep(k))
    /\ \A c \in Conn : WF_vars(ConnStep(c))
----------------------------------------------------------------------------
(* What must hold *)

(* A request is done at most once, although 0-RTT data that is rejected is *)
(* sent again, and a call that returned an answer was done; an announce    *)
(* may return Ok undone only if its handler failed.                        *)
DoneOnce ==
    \A k \in Call :
        /\ times[k] <= 1
        /\ call[k] = "ok" =>
            (times[k] = 1 \/ (k \in Announces /\ handler[On[k]] = "failed"))

(* A call on a connection of its own fails only if the connection was      *)
(* lost, the handler failed or the response is too long: no answer is cut  *)
(* off by a side that is done and closes, and 0-RTT data that was rejected *)
(* costs no call.                                                          *)
FailuresHaveCauses ==
    \A k \in Call :
        (~Shared(On[k]) /\ call[k] = "error") =>
            (link[On[k]] = "lost" \/ handler[On[k]] = "failed" \/ reply[k] = "long")

(* Every call on a connection of its own returns, also when earlier ones   *)
(* fill the bound on parallel calls, and 0-RTT data is rejected.           *)
CallsEnd ==
    \A k \in Call : ~Shared(On[k]) => <>(call[k] \in Ended)

(* No handler stays behind for ever: conn.closed() returns. *)
HandlersEnd ==
    \A c \in Conn : ~Shared(c) => (handler[c] # "none" ~> handler[c] \in {"gone", "failed"})
=============================================================================
