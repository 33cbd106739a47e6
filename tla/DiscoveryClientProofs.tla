----------------------- MODULE DiscoveryClientProofs -----------------------
(***************************************************************************)
(* Theorems about DiscoveryClient for any calls, connections and bound on  *)
(* calls in parallel, whichever calls share a connection.                  *)
(***************************************************************************)
EXTENDS DiscoveryClient, FiniteSetTheorems, TLAPS

----------------------------------------------------------------------------
(* Types *)

LEMMA ClientInit == Init => TypeOK
BY DEF Init, TypeOK

LEMMA BecomesType ==
    ASSUME TypeOK, NEW k \in Call,
           NEW state \in {"unstarted", "connect", "early", "open", "wait"} \cup Ended,
           Becomes(k, state)
    PROVE  /\ call' \in [Call -> {"unstarted", "connect", "early", "open", "wait"} \cup Ended]
           /\ \A j \in Call : call'[j] = IF j = k THEN state ELSE call[j]
BY DEF TypeOK, Becomes

LEMMA CloseLinkType ==
    ASSUME TypeOK, NEW c \in Conn, CloseLink(c)
    PROVE  /\ link' \in [Conn -> {"none", "handshake", "up", "closed", "lost"}]
           /\ \A d \in Conn :
                link'[d] = IF d = c /\ ~Down(c) THEN "closed" ELSE link[d]
BY DEF TypeOK, CloseLink, Down

LEMMA OnType == ASSUME NEW k \in Call PROVE On[k] \in Conn
BY ClientAssumption

LEMMA CallStepType ==
    ASSUME TypeOK, NEW k \in Call, Start(k) \/ CallStep(k)
    PROVE  TypeOK'
<1>0. On[k] \in Conn
  BY OnType
<1>1. CASE Start(k)
  BY <1>0, <1>1 DEF Start, TypeOK, Becomes, tracker
<1>2. CASE Connected(k)
  BY <1>2 DEF Connected, TypeOK, Becomes, tracker, CallsOn
<1>3. CASE SendRequest(k)
  <2>1. inbox' \in [Conn -> Seq(Call)]
    BY <1>0, <1>3 DEF SendRequest, TypeOK
  <2>2. \A c \in Conn : \A i \in DOMAIN inbox'[c] : On[inbox'[c][i]] = c
    <3> SUFFICES ASSUME NEW c \in Conn, NEW i \in DOMAIN inbox'[c]
                 PROVE  On[inbox'[c][i]] = c
      OBVIOUS
    <3>1. CASE c # On[k]
      BY <1>3, <3>1 DEF SendRequest, TypeOK
    <3>2. CASE c = On[k]
      <4>1. inbox'[c] = Append(inbox[c], k) /\ inbox[c] \in Seq(Call)
        BY <1>3, <3>2 DEF SendRequest, TypeOK
      <4> QED  BY <3>2, <4>1 DEF TypeOK
    <3> QED  BY <3>1, <3>2
  <2> QED  BY <1>3, <2>1, <2>2 DEF SendRequest, TypeOK, Becomes, tracker, CallsOn
<1>4. CASE ReadReply(k)
  <2>1. link' \in [Conn -> {"none", "handshake", "up", "closed", "lost"}]
    BY <1>0, <1>4, CloseLinkType DEF ReadReply, TypeOK
  <2> QED  BY <1>4, <2>1 DEF ReadReply, TypeOK, Becomes, Ended, tracker, CallsOn
<1>5. CASE CallFails(k)
  BY <1>5 DEF CallFails, TypeOK, Becomes, Ended, tracker, CallsOn
<1> QED  BY <1>1, <1>2, <1>3, <1>4, <1>5 DEF CallStep

LEMMA ConnStepType ==
    ASSUME TypeOK, NEW c \in Conn, ConnStep(c) \/ HandlerFails(c) \/ Disconnect(c)
    PROVE  TypeOK'
<1>1. CASE CloseLater(c)
  BY <1>1, CloseLinkType DEF CloseLater, TypeOK, client, tracker, CallsOn
<1>2. CASE Handshake(c)
  <2>1. /\ call' \in [Call -> {"unstarted", "connect", "early", "open", "wait"} \cup Ended]
        /\ inbox' \in [Conn -> Seq(Call)]
        /\ \A d \in Conn : \A i \in DOMAIN inbox'[d] : On[inbox'[d][i]] = d
    <3> DEFINE early == {k \in CallsOn(c) : call[k] = "early"}
    <3>1. CASE /\ call' = [k \in Call |-> IF k \in early THEN "open" ELSE call[k]]
               /\ UNCHANGED inbox
      BY <3>1 DEF TypeOK
    <3>2. ASSUME NEW k \in early, Becomes(k, "wait"), inbox' = [inbox EXCEPT ![c] = <<k>>]
          PROVE  <2>1!1 /\ <2>1!2 /\ <2>1!3
      <4>1. k \in Call /\ On[k] = c
        BY DEF CallsOn
      <4>2. <<k>> \in Seq(Call) /\ \A i \in DOMAIN <<k>> : <<k>>[i] = k
        BY <4>1
      <4> QED  BY <3>2, <4>1, <4>2, BecomesType DEF TypeOK
    <3> QED  BY <1>2, <3>1, <3>2 DEF Handshake
  <2> QED  BY <1>2, <2>1 DEF Handshake, TypeOK, CallsOn
<1>3. CASE AcceptStream(c)
  <2>1. inbox[c] \in Seq(Call) /\ inbox[c] # <<>>
    BY <1>3 DEF AcceptStream, TypeOK
  <2>2. Head(inbox[c]) \in CallsOn(c)
    <3>1. 1 \in DOMAIN inbox[c] /\ Head(inbox[c]) = inbox[c][1] /\ inbox[c][1] \in Call
      BY <2>1
    <3> QED  BY <3>1 DEF TypeOK, CallsOn
  <2>3. /\ Tail(inbox[c]) \in Seq(Call)
        /\ \A i \in DOMAIN Tail(inbox[c]) :
              i + 1 \in DOMAIN inbox[c] /\ Tail(inbox[c])[i] = inbox[c][i + 1]
    BY <2>1
  <2>4. \A d \in Conn : \A i \in DOMAIN inbox'[d] : On[inbox'[d][i]] = d
    BY <1>3, <2>3 DEF AcceptStream, TypeOK
  <2> QED  BY <1>3, <2>2, <2>3, <2>4 DEF AcceptStream, TypeOK, client, CallsOn
<1>4. CASE Answer(c)
  <2>1. serving[c] \in Call
    BY <1>4 DEF Answer, TypeOK, CallsOn
  <2> QED  BY <1>4, <2>1 DEF Answer, TypeOK, client, CallsOn
<1>5. CASE HandlerEnds(c)
  BY <1>5 DEF HandlerEnds, TypeOK, client, CallsOn
<1>6. CASE HandlerFails(c)
  <2>1. serving[c] \in Call
    BY <1>6 DEF HandlerFails, TypeOK, CallsOn
  <2>2. link' \in [Conn -> {"none", "handshake", "up", "closed", "lost"}]
    BY <1>6, CloseLinkType DEF HandlerFails
  <2>3. reply' \in [Call -> {"none", "empty", "response", "long"}]
    BY <1>6, <2>1 DEF HandlerFails, TypeOK
  <2>4. times' \in [Call -> Nat]
    BY <1>6, <2>1 DEF HandlerFails, TypeOK
  <2>5. handler' = [handler EXCEPT ![c] = "failed"] /\ UNCHANGED <<client, inbox, serving>>
    BY <1>6 DEF HandlerFails
  <2> QED  BY <2>2, <2>3, <2>4, <2>5 DEF TypeOK, client, CallsOn
<1>7. CASE Disconnect(c)
  BY <1>7 DEF Disconnect, TypeOK, client, tracker, CallsOn
<1> QED  BY <1>1, <1>2, <1>3, <1>4, <1>5, <1>6, <1>7 DEF ConnStep

LEMMA ClientStep == TypeOK /\ [Next]_vars => TypeOK'
<1> SUFFICES ASSUME TypeOK, [Next]_vars PROVE TypeOK'
  OBVIOUS
<1>1. CASE UNCHANGED vars
  BY <1>1 DEF TypeOK, vars, client, tracker, CallsOn
<1>2. CASE Next
  BY <1>2, CallStepType, ConnStepType DEF Next
<1> QED  BY <1>1, <1>2

(* The types: a handler only ever serves a request of its own connection,  *)
(* 0-RTT data and requests that are sent again included.                   *)
THEOREM ClientTypeCorrect == Spec => []TypeOK
BY ClientInit, ClientStep, PTL DEF Spec

----------------------------------------------------------------------------
(* The inductive invariant *)

(* A connection that is not up has no handler yet, and until a handler has *)
(* done its request there is no answer to any call on its connection.      *)
NothingEarly ==
    /\ \A c \in Conn : link[c] \in {"none", "handshake"} => handler[c] = "none"
    /\ \A k \in Call :
         handler[On[k]] \in {"none", "accept", "busy"} => reply[k] = "none" /\ times[k] = 0

(* What a call can read tells what its handler did. *)
RepliesTell ==
    \A k \in Call :
        /\ times[k] <= 1
        /\ reply[k] \in {"response", "long"} => times[k] = 1 /\ k \notin Announces
        /\ reply[k] = "empty" =>
             handler[On[k]] = "failed" \/ (times[k] = 1 /\ k \in Announces)

OkMeansDone ==
    \A k \in Call :
        call[k] = "ok" =>
            (times[k] = 1 \/ (k \in Announces /\ handler[On[k]] = "failed"))

(* A connection of one call is closed by a failing handler or after the    *)
(* call has ended.                                                         *)
ClosedByUse ==
    \A c \in Conn :
        (link[c] = "closed" /\ ~Shared(c)) =>
            handler[c] = "failed" \/ \A k \in CallsOn(c) : call[k] \in Ended

ClientInv ==
    TypeOK /\ NothingEarly /\ RepliesTell /\ OkMeansDone /\ ClosedByUse /\ FailuresHaveCauses

LEMMA InvInit == Init => ClientInv
BY ClientInit, OnType
   DEF Init, ClientInv, NothingEarly, RepliesTell, OkMeansDone, ClosedByUse,
       FailuresHaveCauses, Ended

(* A connection that is not shared has one call at most. *)
LEMMA OneCall ==
    ASSUME NEW k \in Call, ~Shared(On[k]), NEW j \in CallsOn(On[k])
    PROVE  j = k
<1> DEFINE calls == CallsOn(On[k])
<1>1. IsFiniteSet(calls) /\ k \in calls
  BY ClientAssumption, FS_Subset DEF CallsOn
<1>2. Cardinality(calls) \in Nat /\ Cardinality(calls) # 0
  BY <1>1, FS_CardinalityType, FS_EmptySet
<1>3. Cardinality(calls) = 1
  BY <1>2 DEF Shared
<1>4. PICK x : calls = {x}
  BY <1>1, <1>3, FS_Singleton
<1> QED  BY <1>1, <1>4

(* Steps of a call. *)
LEMMA CallStepInv ==
    ASSUME ClientInv, NEW k \in Call, Start(k) \/ CallStep(k)
    PROVE  ClientInv'
<1>0. TypeOK /\ TypeOK' /\ On[k] \in Conn /\ \A j \in Call : On[j] \in Conn
  BY CallStepType, OnType DEF ClientInv
<1>1. UNCHANGED <<handler, serving, reply, times>>
  BY DEF Start, CallStep, Connected, SendRequest, ReadReply, CallFails, tracker
<1>2. RepliesTell'
  BY <1>1 DEF ClientInv, RepliesTell
<1>3. \A c \in Conn :
        \/ link'[c] = link[c]
        \/ link[c] = "none" /\ link'[c] = "handshake"
        \/ c = On[k] /\ link'[c] = "closed" /\ ReadReply(k) /\ link[c] # "lost"
  <2>1. CASE Start(k)
    BY <1>0, <2>1 DEF Start, TypeOK
  <2>2. CASE ReadReply(k)
    BY <1>0, <2>2, CloseLinkType DEF ReadReply, Down
  <2>3. CASE Connected(k) \/ SendRequest(k) \/ CallFails(k)
    BY <2>3 DEF Connected, SendRequest, CallFails
  <2> QED  BY <2>1, <2>2, <2>3 DEF CallStep
<1>4. \A j \in Call : j # k => call'[j] = call[j]
  BY <1>0, BecomesType DEF Start, CallStep, Connected, SendRequest, ReadReply, CallFails,
     Becomes, TypeOK
<1>5. NothingEarly'
  <2>1. \A c \in Conn : link'[c] \in {"none", "handshake"} => link[c] \in {"none", "handshake"}
    BY <1>3
  <2> QED  BY <1>1, <2>1 DEF ClientInv, NothingEarly
<1>6. call[k] \notin Ended
  BY DEF Start, CallStep, Connected, SendRequest, ReadReply, CallFails, InFlight, Ended
<1>7. call'[k] = "ok" => times[k] = 1 \/ (k \in Announces /\ handler[On[k]] = "failed")
  <2> SUFFICES ASSUME call'[k] = "ok"
               PROVE  times[k] = 1 \/ (k \in Announces /\ handler[On[k]] = "failed")
    OBVIOUS
  <2>1. ReadReply(k) /\ AnswerIsGood(k)
    BY <1>0 DEF Start, CallStep, Connected, SendRequest, ReadReply, CallFails, Becomes, TypeOK
  <2>2. reply[k] \in {"empty", "response", "long"}
    BY <1>0, <2>1 DEF ReadReply, TypeOK
  <2> QED  BY <2>1, <2>2 DEF AnswerIsGood, ClientInv, RepliesTell
<1>8. OkMeansDone'
  BY <1>1, <1>4, <1>7 DEF ClientInv, OkMeansDone
<1>9. ReadReply(k) => call'[k] \in Ended
  BY <1>0, BecomesType DEF ReadReply, Ended
<1>10. ClosedByUse'
  <2> SUFFICES ASSUME NEW c \in Conn, link'[c] = "closed", ~Shared(c), handler[c] # "failed",
                      NEW j \in CallsOn(c)
               PROVE  call'[j] \in Ended
    BY <1>1 DEF ClosedByUse, Shared, CallsOn
  <2>1. CASE link[c] = "closed"
    BY <1>4, <1>6, <2>1 DEF ClientInv, ClosedByUse, CallsOn
  <2>2. CASE link[c] # "closed"
    <3>1. c = On[k] /\ ReadReply(k)
      BY <1>3, <2>2
    <3>2. j = k
      BY <3>1, OneCall
    <3> QED  BY <1>9, <3>1, <3>2
  <2> QED  BY <2>1, <2>2
<1>11. ASSUME ~Shared(On[k]), call'[k] = "error"
       PROVE  link'[On[k]] = "lost" \/ handler[On[k]] = "failed" \/ reply[k] = "long"
  <2>1. ReadReply(k) \/ CallFails(k)
    BY <1>0, <1>11 DEF Start, CallStep, Connected, SendRequest, Becomes, TypeOK
  <2>2. CASE ReadReply(k)
    <3>1. ~AnswerIsGood(k) /\ reply[k] # "none"
      BY <1>0, <1>11, <2>2, BecomesType DEF ReadReply, Ended
    <3>2. k \notin Announces /\ reply[k] \in {"empty", "long"}
      BY <1>0, <3>1 DEF AnswerIsGood, TypeOK
    <3> QED  BY <3>2 DEF ClientInv, RepliesTell
  <2>3. CASE CallFails(k)
    <3>1. Down(On[k]) /\ UNCHANGED link
      BY <2>3 DEF CallFails
    <3>2. CASE link[On[k]] = "closed"
      BY <1>0, <1>6, <1>11, <3>2 DEF ClientInv, ClosedByUse, CallsOn
    <3> QED  BY <3>1, <3>2 DEF Down
  <2> QED  BY <2>1, <2>2, <2>3
<1>12. FailuresHaveCauses'
  <2> SUFFICES ASSUME NEW j \in Call, ~Shared(On[j]), call'[j] = "error"
               PROVE  link'[On[j]] = "lost" \/ handler[On[j]] = "failed" \/ reply[j] = "long"
    BY <1>1 DEF FailuresHaveCauses, Shared, CallsOn
  <2>1. CASE j = k
    BY <1>11, <2>1
  <2>2. CASE j # k
    <3>1. link[On[j]] = "lost" \/ handler[On[j]] = "failed" \/ reply[j] = "long"
      BY <1>4, <2>2 DEF ClientInv, FailuresHaveCauses
    <3>2. link[On[j]] = "lost" => link'[On[j]] = "lost"
      BY <1>0, <1>3
    <3> QED  BY <3>1, <3>2
  <2> QED  BY <2>1, <2>2
<1> QED  BY <1>0, <1>2, <1>5, <1>8, <1>10, <1>12 DEF ClientInv

(* Steps of a connection and its handler. *)
LEMMA LinkOnly ==
    ASSUME ClientInv, TypeOK', NEW c \in Conn, UNCHANGED <<client, tracker, reply, times>>,
           \A d \in Conn : d # c => link'[d] = link[d],
           link[c] # "lost", link'[c] \in {"closed", "lost"},
           link'[c] = "closed" => \A k \in CallsOn(c) : call[k] \in Ended
    PROVE  ClientInv'
BY OnType DEF ClientInv, NothingEarly, RepliesTell, OkMeansDone, ClosedByUse,
   FailuresHaveCauses, client, tracker, Shared, CallsOn

LEMMA HandshakeInv ==
    ASSUME ClientInv, NEW c \in Conn, Handshake(c)
    PROVE  ClientInv'
<1>0. TypeOK /\ TypeOK' /\ \A k \in Call : On[k] \in Conn
  BY ConnStepType, OnType DEF ClientInv, ConnStep
<1>1. /\ link[c] = "handshake" /\ UNCHANGED <<zeroRtt, serving, reply, times>>
      /\ \A d \in Conn : /\ link'[d] = IF d = c THEN "up" ELSE link[d]
                         /\ handler'[d] = IF d = c THEN "accept" ELSE handler[d]
  BY <1>0 DEF Handshake, TypeOK
<1>2. \A k \in Call :
        \/ call'[k] = call[k]
        \/ call[k] = "early" /\ call'[k] \in {"open", "wait"}
  BY <1>0 DEF Handshake, TypeOK, Becomes, CallsOn
<1>3. handler[c] = "none"
  BY <1>1 DEF ClientInv, NothingEarly
<1>4. \A k \in Call : On[k] = c => reply[k] = "none" /\ times[k] = 0 /\ call[k] # "ok"
  BY <1>3 DEF ClientInv, NothingEarly, OkMeansDone
<1>5. NothingEarly'
  BY <1>0, <1>1, <1>4 DEF ClientInv, NothingEarly
<1>6. RepliesTell'
  BY <1>0, <1>1, <1>4 DEF ClientInv, RepliesTell
<1>7. OkMeansDone'
  BY <1>0, <1>1, <1>2, <1>4 DEF ClientInv, OkMeansDone
<1>8. ClosedByUse'
  BY <1>0, <1>1, <1>2 DEF ClientInv, ClosedByUse, Ended, Shared, CallsOn
<1>9. FailuresHaveCauses'
  BY <1>0, <1>1, <1>2, <1>3, <1>4 DEF ClientInv, FailuresHaveCauses, Shared, CallsOn
<1> QED  BY <1>0, <1>5, <1>6, <1>7, <1>8, <1>9 DEF ClientInv

(* A busy handler answers, or fails, and is done. *)
LEMMA ServedInv ==
    ASSUME ClientInv, NEW c \in Conn, Answer(c) \/ HandlerFails(c)
    PROVE  ClientInv'
<1> DEFINE k == serving[c]
<1>0. TypeOK /\ TypeOK' /\ \A j \in Call : On[j] \in Conn
  BY ConnStepType, OnType DEF ClientInv, ConnStep
<1>1. handler[c] = "busy" /\ k \in Call /\ On[k] = c
  BY <1>0 DEF Answer, HandlerFails, TypeOK, CallsOn
<1>2. \A j \in Call : On[j] = c => reply[j] = "none" /\ times[j] = 0 /\ call[j] # "ok"
  BY <1>1 DEF ClientInv, NothingEarly, OkMeansDone
<1>3. /\ UNCHANGED <<client, serving>>
      /\ \A d \in Conn : d # c => handler'[d] = handler[d] /\ link'[d] = link[d]
      /\ \A j \in Call : j # k => reply'[j] = reply[j] /\ times'[j] = times[j]
  <2>1. CASE Answer(c)
    BY <1>0, <2>1 DEF Answer, TypeOK
  <2>2. CASE HandlerFails(c)
    BY <1>0, <2>2, CloseLinkType DEF HandlerFails, TypeOK
  <2> QED  BY <2>1, <2>2
<1>4. /\ handler'[c] \in {"linger", "failed"} /\ times'[k] \in 0..1
      /\ link'[c] = link[c] \/ (handler'[c] = "failed" /\ link'[c] = "closed" /\ link[c] # "lost")
      /\ reply'[k] \in {"response", "long"} => times'[k] = 1 /\ k \notin Announces
      /\ reply'[k] = "empty" => handler'[c] = "failed" \/ (times'[k] = 1 /\ k \in Announces)
  <2>1. CASE Answer(c)
    BY <1>0, <1>1, <1>2, <2>1 DEF Answer, TypeOK
  <2>2. CASE HandlerFails(c)
    <3>1. handler'[c] = "failed"
      BY <1>0, <2>2 DEF HandlerFails, TypeOK
    <3>2. times'[k] \in 0..1
      BY <1>0, <1>1, <1>2, <2>2 DEF HandlerFails, TypeOK
    <3>3. reply'[k] \in {"none", "empty"}
      BY <1>0, <1>1, <1>2, <2>2 DEF HandlerFails, TypeOK
    <3>4. link'[c] = link[c] \/ (link'[c] = "closed" /\ link[c] # "lost")
      BY <1>0, <2>2, CloseLinkType DEF HandlerFails, Down
    <3> QED  BY <3>1, <3>2, <3>3, <3>4
  <2> QED  BY <2>1, <2>2
<1>5. link[c] \notin {"none", "handshake"}
  BY <1>1 DEF ClientInv, NothingEarly
<1>6. NothingEarly'
  BY <1>0, <1>1, <1>3, <1>4, <1>5 DEF ClientInv, NothingEarly
<1>7. RepliesTell'
  <2> SUFFICES ASSUME NEW j \in Call PROVE RepliesTell!(j)'
    BY DEF RepliesTell
  <2>1. CASE j = k
    BY <1>1, <1>4, <2>1
  <2>2. CASE j # k
    <3>1. reply'[j] = reply[j] /\ times'[j] = times[j]
      BY <1>3, <2>2
    <3>2. CASE On[j] = c
      BY <1>2, <3>1, <3>2
    <3>3. CASE On[j] # c
      BY <1>0, <1>3, <3>1, <3>3 DEF ClientInv, RepliesTell
    <3> QED  BY <3>2, <3>3
  <2> QED  BY <2>1, <2>2
<1>8. OkMeansDone'
  BY <1>0, <1>1, <1>2, <1>3 DEF ClientInv, OkMeansDone, client
<1>9. ClosedByUse'
  <2> SUFFICES ASSUME NEW d \in Conn, link'[d] = "closed", ~Shared(d), handler'[d] # "failed"
               PROVE  \A j \in CallsOn(d) : call[j] \in Ended
    BY <1>3 DEF ClosedByUse, client, Shared, CallsOn
  <2>1. link[d] = "closed" /\ handler[d] # "failed"
    BY <1>1, <1>3, <1>4
  <2> QED  BY <2>1 DEF ClientInv, ClosedByUse
<1>10. FailuresHaveCauses'
  <2> SUFFICES ASSUME NEW j \in Call, ~Shared(On[j]), call[j] = "error"
               PROVE  link'[On[j]] = "lost" \/ handler'[On[j]] = "failed" \/ reply'[j] = "long"
    BY <1>3 DEF FailuresHaveCauses, client, Shared, CallsOn
  <2>1. link[On[j]] = "lost" \/ handler[On[j]] = "failed" \/ reply[j] = "long"
    BY DEF ClientInv, FailuresHaveCauses
  <2>2. CASE On[j] = c
    BY <1>1, <1>2, <1>4, <2>1, <2>2
  <2>3. CASE On[j] # c
    BY <1>0, <1>1, <1>3, <2>1, <2>3
  <2> QED  BY <2>2, <2>3
<1> QED  BY <1>0, <1>6, <1>7, <1>8, <1>9, <1>10 DEF ClientInv

LEMMA HandlerOnly ==
    ASSUME ClientInv, NEW c \in Conn, AcceptStream(c) \/ HandlerEnds(c)
    PROVE  ClientInv'
<1>0. TypeOK /\ TypeOK' /\ \A k \in Call : On[k] \in Conn
  BY ConnStepType, OnType DEF ClientInv, ConnStep
<1>1. /\ UNCHANGED <<client, link, reply, times>>
      /\ \A d \in Conn : d # c => handler'[d] = handler[d]
      /\ \/ handler[c] = "accept" /\ handler'[c] = "busy"
         \/ handler[c] \in {"accept", "linger"} /\ handler'[c] = "gone"
  BY <1>0 DEF AcceptStream, HandlerEnds, TypeOK
<1>2. link[c] \notin {"none", "handshake"}
  BY <1>1 DEF ClientInv, NothingEarly
<1>3. NothingEarly' /\ RepliesTell' /\ OkMeansDone'
  BY <1>0, <1>1, <1>2 DEF ClientInv, NothingEarly, RepliesTell, OkMeansDone, client
<1>4. ClosedByUse' /\ FailuresHaveCauses'
  BY <1>0, <1>1 DEF ClientInv, ClosedByUse, FailuresHaveCauses, client, Shared, CallsOn
<1> QED  BY <1>0, <1>3, <1>4 DEF ClientInv

LEMMA ConnStepInv ==
    ASSUME ClientInv, NEW c \in Conn, ConnStep(c) \/ HandlerFails(c) \/ Disconnect(c)
    PROVE  ClientInv'
<1>0. TypeOK /\ TypeOK'
  BY ConnStepType DEF ClientInv
<1>1. CASE CloseLater(c)
  <2>1. \A d \in Conn : link'[d] = IF d = c THEN "closed" ELSE link[d]
    BY <1>0, <1>1, CloseLinkType DEF CloseLater, Down
  <2> QED  BY <1>0, <1>1, <2>1, LinkOnly DEF CloseLater
<1>2. CASE Disconnect(c)
  <2>1. \A d \in Conn : link'[d] = IF d = c THEN "lost" ELSE link[d]
    BY <1>0, <1>2 DEF Disconnect, TypeOK
  <2> QED  BY <1>0, <1>2, <2>1, LinkOnly DEF Disconnect
<1>3. CASE Handshake(c)
  BY <1>3, HandshakeInv
<1>4. CASE Answer(c) \/ HandlerFails(c)
  BY <1>4, ServedInv
<1>5. CASE AcceptStream(c) \/ HandlerEnds(c)
  BY <1>5, HandlerOnly
<1> QED  BY <1>1, <1>2, <1>3, <1>4, <1>5 DEF ConnStep

LEMMA InvStep == ClientInv /\ [Next]_vars => ClientInv'
<1> SUFFICES ASSUME ClientInv, [Next]_vars PROVE ClientInv'
  OBVIOUS
<1>1. CASE UNCHANGED vars
  <2>1. TypeOK'
    BY <1>1, ClientStep DEF ClientInv
  <2> QED  BY <1>1, <2>1
           DEF ClientInv, NothingEarly, RepliesTell, OkMeansDone, ClosedByUse,
               FailuresHaveCauses, vars, client, tracker, Shared, CallsOn
<1>2. CASE Next
  BY <1>2, CallStepInv, ConnStepInv DEF Next
<1> QED  BY <1>1, <1>2

(* A request is done at most once and a call that returned Ok was done,    *)
(* except an announce whose handler failed: also with 0-RTT data that is   *)
(* rejected and sent again, and on connections that calls share.           *)
THEOREM RequestsAreDoneOnce == Spec => []DoneOnce
<1>1. ClientInv => DoneOnce
  BY DEF ClientInv, RepliesTell, OkMeansDone, DoneOnce
<1> QED  BY <1>1, InvInit, InvStep, PTL DEF Spec

(* A call on a connection of its own fails for a reason: the connection    *)
(* was lost, its handler failed or the response was too long.              *)
THEOREM CallsFailForAReason == Spec => []FailuresHaveCauses
<1>1. ClientInv => FailuresHaveCauses
  BY DEF ClientInv
<1> QED  BY <1>1, InvInit, InvStep, PTL DEF Spec
=============================================================================
