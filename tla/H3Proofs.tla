------------------------------ MODULE H3Proofs ------------------------------
(***************************************************************************)
(* Theorems about H3Server for any requests, any lengths of requests,      *)
(* responses and frames, and any window.                                   *)
(***************************************************************************)
EXTENDS H3Server, SequenceTheorems, TLAPS

----------------------------------------------------------------------------
(* Bytes *)

LEMMA Product ==
    ASSUME NEW m \in Nat, NEW n \in Nat
    PROVE  m * n \in Nat /\ (m + 1) * n = m * n + n
OBVIOUS

LEMMA BytesAre ==
    ASSUME NEW n \in Nat
    PROVE  /\ Bytes(n) \in Seq(Nat) /\ Len(Bytes(n)) = n * FrameLen
           /\ n * FrameLen \in Nat
           /\ \A i \in 1 .. n * FrameLen : Bytes(n)[i] = i
<1>1. n * FrameLen \in Nat
  BY Product, LengthAssumption
<1>2. Bytes(n) \in [1 .. n * FrameLen -> Nat] /\ \A i \in 1 .. n * FrameLen : Bytes(n)[i] = i
  BY <1>1 DEF Bytes
<1> QED  BY <1>1, <1>2, LenProperties

LEMMA FrameIs ==
    ASSUME NEW n \in Nat
    PROVE  /\ Frame(n + 1) \in Seq(Nat) /\ Len(Frame(n + 1)) = FrameLen
           /\ \A i \in 1 .. FrameLen : Frame(n + 1)[i] = n * FrameLen + i
<1>1. n * FrameLen \in Nat /\ (n + 1) - 1 = n /\ FrameLen \in Nat
  BY Product, LengthAssumption
<1>2. /\ Frame(n + 1) \in [1 .. FrameLen -> Nat]
      /\ \A i \in 1 .. FrameLen : Frame(n + 1)[i] = n * FrameLen + i
  BY <1>1 DEF Frame
<1> QED  BY <1>1, <1>2, LenProperties

(* The next frame continues the bytes. *)
LEMMA NextFrame ==
    ASSUME NEW n \in Nat
    PROVE  Bytes(n) \o Frame(n + 1) = Bytes(n + 1)
<1> DEFINE past == Bytes(n)
           next == Frame(n + 1)
           all == Bytes(n + 1)
           len == n * FrameLen
<1>1. (n + 1) * FrameLen = len + FrameLen /\ len \in Nat /\ FrameLen \in Nat
  BY Product, LengthAssumption
<1>2. past \in Seq(Nat) /\ Len(past) = len /\ \A i \in 1 .. len : past[i] = i
  BY BytesAre
<1>3. /\ next \in Seq(Nat) /\ Len(next) = FrameLen
      /\ \A i \in 1 .. FrameLen : next[i] = len + i
  BY FrameIs
<1>4. all \in Seq(Nat) /\ Len(all) = len + FrameLen /\ \A i \in 1 .. len + FrameLen : all[i] = i
  BY <1>1, BytesAre
<1> HIDE DEF past, next, all, len
<1>5. /\ past \o next \in Seq(Nat) /\ Len(past \o next) = len + FrameLen
      /\ \A i \in 1 .. len + FrameLen :
           (past \o next)[i] = IF i <= len THEN past[i] ELSE next[i - len]
  BY <1>1, <1>2, <1>3, ConcatProperties
<1>6. \A i \in 1 .. len + FrameLen : (past \o next)[i] = i
  BY <1>1, <1>2, <1>3, <1>5
<1>7. past \o next = all
  BY <1>4, <1>5, <1>6, SeqEqual
<1> QED  BY <1>7 DEF past, next, all

(* What is left of all frames without the first. *)
LEMMA BodyOfBytes ==
    ASSUME NEW r \in Requests, NEW got, got = Bytes(RequestFrames[r])
    PROVE  SubSeq(got, FrameLen + 1, Len(got)) = WholeBody(r)
<1> DEFINE n == RequestFrames[r]
           part == SubSeq(Bytes(n), FrameLen + 1, n * FrameLen)
<1>1. n \in Nat \ {0} /\ n - 1 \in Nat /\ FrameLen \in Nat \ {0}
  BY FramesAssumption, LengthAssumption
<1>2. n * FrameLen = (n - 1) * FrameLen + FrameLen /\ (n - 1) * FrameLen \in Nat
  <2>1. ((n - 1) + 1) * FrameLen = (n - 1) * FrameLen + FrameLen /\ (n - 1) * FrameLen \in Nat
    BY <1>1, Product
  <2>2. (n - 1) + 1 = n
    BY <1>1
  <2> QED  BY <2>1, <2>2
<1> HIDE DEF n
<1>3. /\ Bytes(n) \in Seq(Nat) /\ Len(Bytes(n)) = n * FrameLen
      /\ \A i \in 1 .. n * FrameLen : Bytes(n)[i] = i
  BY <1>1, BytesAre
<1>4. \A i \in FrameLen + 1 .. n * FrameLen : Bytes(n)[i] \in Nat
  BY <1>1, <1>2, <1>3
<1>5. /\ part \in Seq(Nat)
      /\ Len(part) = IF FrameLen + 1 <= n * FrameLen THEN n * FrameLen - (FrameLen + 1) + 1 ELSE 0
      /\ \A i \in 1 .. n * FrameLen - (FrameLen + 1) + 1 :
           part[i] = Bytes(n)[FrameLen + 1 + i - 1]
  BY <1>1, <1>2, <1>4, SubSeqProperties
<1> HIDE DEF part
<1>6. Len(part) = (n - 1) * FrameLen
  BY <1>1, <1>2, <1>5
<1>7. ASSUME NEW i \in 1 .. (n - 1) * FrameLen PROVE part[i] = FrameLen + i
  <2>1. FrameLen + i \in 1 .. n * FrameLen /\ FrameLen + 1 + i - 1 = FrameLen + i
    BY <1>1, <1>2
  <2>2. part[i] = Bytes(n)[FrameLen + i]
    BY <1>1, <1>2, <1>5, <2>1
  <2> QED  BY <1>3, <2>1, <2>2
<1>8. part = [i \in 1 .. (n - 1) * FrameLen |-> FrameLen + i]
  <2>1. part \in [1 .. (n - 1) * FrameLen -> Nat]
    BY <1>5, <1>6, LenProperties
  <2> QED  BY <1>7, <2>1
<1> QED  BY <1>3, <1>8 DEF part, n, WholeBody

----------------------------------------------------------------------------
(* Prefixes *)

LEMMA Associative ==
    \A s, t, u \in Seq(Nat) : (s \o t) \o u = s \o (t \o u)
BY ConcatAssociative

LEMMA Splits ==
    ASSUME NEW s \in Seq(Nat), NEW k \in 0 .. Len(s)
    PROVE  /\ SubSeq(s, 1, k) \in Seq(Nat) /\ SubSeq(s, k + 1, Len(s)) \in Seq(Nat)
           /\ SubSeq(s, 1, k) \o SubSeq(s, k + 1, Len(s)) = s
           /\ Len(SubSeq(s, 1, k)) = k
           /\ k > 0 => SubSeq(s, 1, k) # <<>>
           /\ k = Len(s) => SubSeq(s, 1, k) = s
<1>1. Len(s) \in Nat /\ \A i \in 1 .. Len(s) : s[i] \in Nat
  BY LenProperties
<1>2. SubSeq(s, 1, k) \in Seq(Nat) /\ SubSeq(s, k + 1, Len(s)) \in Seq(Nat)
  <2>1. /\ \A i \in 1 .. k : s[i] \in Nat
        /\ \A i \in k + 1 .. Len(s) : s[i] \in Nat
    BY <1>1
  <2> QED  BY <1>1, <2>1, SubSeqProperties
<1>3. SubSeq(s, 1, k) \o SubSeq(s, k + 1, Len(s)) = SubSeq(s, 1, Len(s))
  <2>1. 1 \in 1 .. Len(s) + 1 /\ k \in 1 - 1 .. Len(s) /\ Len(s) \in k .. Len(s)
    BY <1>1
  <2> QED  BY <2>1, ConcatAdjacentSubSeq
<1>4. SubSeq(s, 1, Len(s)) = s
  BY SubSeqFull
<1>5. Len(SubSeq(s, 1, k)) = k
  <2>1. \A i \in 1 .. k : s[i] \in Nat
    BY <1>1
  <2>2. Len(SubSeq(s, 1, k)) = IF 1 <= k THEN k - 1 + 1 ELSE 0
    BY <1>1, <2>1, SubSeqProperties
  <2> QED  BY <1>1, <2>2
<1>6. k > 0 => SubSeq(s, 1, k) # <<>>
  BY <1>5, EmptySeq
<1> QED  BY <1>2, <1>3, <1>4, <1>5, <1>6

LEMMA PrefixOfConcat ==
    ASSUME NEW s \in Seq(Nat), NEW t \in Seq(Nat)
    PROVE  /\ Promise!IsPrefix(s, s \o t)
           /\ t # <<>> => Promise!IsStrictPrefix(s, s \o t)
<1>1. /\ Len(s) \in Nat /\ Len(t) \in Nat
      /\ Len(s \o t) = Len(s) + Len(t) /\ s \o t \in Seq(Nat)
  BY LenProperties, ConcatProperties
<1>2. SubSeq(s, 1, Len(s)) = SubSeq(s \o t, 1, Len(s))
  <2>1. CASE Len(s) = 0
    <3>1. Len(s) < 1
      BY <2>1
    <3> QED  BY <3>1, <1>1, SubSeqEmpty
  <2>2. CASE Len(s) # 0
    <3>1. 1 \in 1 .. Len(s) /\ Len(s) \in 1 .. Len(s)
      BY <1>1, <2>2
    <3> QED  BY <3>1, SubSeqOfConcat1
  <2> QED  BY <2>1, <2>2
<1>3. t # <<>> => s # s \o t
  BY ConcatEqualIffEmpty
<1>4. Promise!IsPrefix(s, s \o t)
  BY <1>1, <1>2 DEF Promise!IsPrefix
<1> QED  BY <1>3, <1>4 DEF Promise!IsStrictPrefix

LEMMA PrefixOfItself ==
    ASSUME NEW s
    PROVE  Len(s) \in Nat => Promise!IsPrefix(s, s)
BY DEF Promise!IsPrefix
----------------------------------------------------------------------------
(* What a step does to a stream *)

(* Nothing is lost between sender and receiver as long as the stream has   *)
(* not ended early, a stream is finished with nothing left to write, and   *)
(* what is under way fits the window.                                      *)
StreamInv(s) ==
    /\ quic[s].fin \in {"open", "finished"} =>
         recv[s].got \o (quic[s].bytes \o send[s].writing) = Bytes(frames[s])
    /\ quic[s].fin = "finished" => send[s].writing = <<>>
    /\ Len(quic[s].bytes) <= Window

SenderSame(s) == frames'[s] = frames[s] /\ send'[s].writing = send[s].writing
WireSame(s) == quic'[s].bytes = quic[s].bytes /\ quic'[s].fin = quic[s].fin
ReaderSame(s) == recv'[s].got = recv[s].got /\ recv'[s].end = recv[s].end

Still(s) == SenderSame(s) /\ WireSame(s) /\ ReaderSame(s)

Sends(s) ==
    /\ quic[s].fin = "open" /\ send[s].writing = <<>>
    /\ frames'[s] = frames[s] + 1
    /\ send'[s].writing = Frame(frames[s] + 1)
    /\ WireSame(s) /\ ReaderSame(s)

Writes(s) ==
    /\ quic[s].fin = "open" /\ quic'[s].fin = "open"
    /\ Len(quic'[s].bytes) <= Window
    /\ \E k \in 0 .. Len(send[s].writing) :
         /\ quic'[s].bytes = quic[s].bytes \o SubSeq(send[s].writing, 1, k)
         /\ send'[s].writing = SubSeq(send[s].writing, k + 1, Len(send[s].writing))
    /\ frames'[s] = frames[s] /\ ReaderSame(s)

Finishes(s) ==
    /\ quic[s].fin = "open" /\ quic'[s].fin = "finished"
    /\ send[s].writing = <<>> /\ quic'[s].bytes = quic[s].bytes
    /\ SenderSame(s) /\ ReaderSame(s)

Leaves(s) ==
    /\ \/ quic[s].fin = "open" /\ quic'[s].fin \in {"dropped", "reset"}
       \/ quic[s].fin = "finished" /\ quic'[s].fin = "reset"
    /\ quic'[s].bytes = quic[s].bytes
    /\ SenderSame(s) /\ ReaderSame(s)

Reads(s) ==
    /\ recv[s].end = "open" /\ recv'[s].end = "open"
    /\ \E k \in 1 .. Len(quic[s].bytes) :
         /\ recv'[s].got = recv[s].got \o SubSeq(quic[s].bytes, 1, k)
         /\ quic'[s].bytes = SubSeq(quic[s].bytes, k + 1, Len(quic[s].bytes))
    /\ quic'[s].fin = quic[s].fin /\ SenderSame(s)

Ends(s) ==
    /\ recv[s].end = "open"
    /\ recv'[s].end = "failed" \/ (recv'[s].end = "end" /\ AllRead(s))
    /\ recv'[s].got = recv[s].got
    /\ SenderSame(s) /\ WireSame(s)

StreamStep(s) ==
    \/ Still(s) \/ Sends(s) \/ Writes(s) \/ Finishes(s) \/ Leaves(s)
    \/ Reads(s) \/ Ends(s)

LEMMA StreamTypes ==
    ASSUME StreamsOK, NEW s \in Streams
    PROVE  /\ frames[s] \in Nat /\ send[s].writing \in Seq(Nat)
           /\ quic[s].bytes \in Seq(Nat) /\ recv[s].got \in Seq(Nat)
           /\ recv[s].got \o quic[s].bytes \in Seq(Nat)
           /\ Len(recv[s].got) \in Nat /\ Len(quic[s].bytes) \in Nat
           /\ Len(send[s].writing) \in Nat
           /\ Len(recv[s].got \o quic[s].bytes) \in Nat
<1>1. /\ frames[s] \in Nat /\ send[s].writing \in Seq(Nat)
      /\ quic[s].bytes \in Seq(Nat) /\ recv[s].got \in Seq(Nat)
  BY DEF StreamsOK
<1>2. recv[s].got \o quic[s].bytes \in Seq(Nat)
  BY <1>1, ConcatProperties
<1> QED  BY <1>1, <1>2, LenProperties

LEMMA SendsKeeps ==
    ASSUME StreamsOK, NEW s \in Streams, StreamInv(s), Sends(s)
    PROVE  StreamInv(s)' /\ Promise!Step(s)
<1> DEFINE got == recv[s].got
           bytes == quic[s].bytes
           next == Frame(frames[s] + 1)
<1>1. /\ got \in Seq(Nat) /\ bytes \in Seq(Nat) /\ got \o bytes \in Seq(Nat)
      /\ frames[s] \in Nat /\ next \in Seq(Nat)
  BY StreamTypes, FrameIs
<1>2. got \o bytes = Bytes(frames[s])
  <2>1. bytes \o <<>> = bytes
    BY <1>1, ConcatEmptySeq
  <2> QED  BY <2>1 DEF StreamInv, Sends
<1>3. got \o (bytes \o next) = Bytes(frames[s] + 1)
  <2>1. got \o (bytes \o next) = (got \o bytes) \o next
    BY <1>1, Associative
  <2> QED  BY <1>1, <1>2, <2>1, NextFrame
<1>4. StreamInv(s)'
  BY <1>3 DEF StreamInv, Sends, WireSame, ReaderSame
<1>5. Promise!IsStrictPrefix(Bytes(frames[s]), Bytes(frames[s] + 1))
  <2>1. next # <<>>
    <3>1. Len(next) = FrameLen /\ FrameLen # 0
      BY <1>1, FrameIs, LengthAssumption
    <3> QED  BY <3>1, EmptySeq
  <2>2. Bytes(frames[s]) \in Seq(Nat) /\ Bytes(frames[s]) \o next = Bytes(frames[s] + 1)
    BY <1>1, BytesAre, NextFrame
  <2> HIDE DEF next
  <2> QED  BY <1>1, <2>1, <2>2, PrefixOfConcat
<1>6. Sent(s) = Bytes(frames[s]) /\ Sent(s)' = Bytes(frames[s] + 1)
  BY DEF Sends, WireSame, Sent, Unfinished
<1>7. Promise!Send(s)
  BY <1>5, <1>6 DEF Promise!Send, Promise!ReceivedSame, Sends, WireSame, ReaderSame
<1> QED  BY <1>4, <1>7 DEF Promise!Step

LEMMA WritesKeeps ==
    ASSUME StreamsOK, NEW s \in Streams, StreamInv(s), Writes(s)
    PROVE  StreamInv(s)' /\ Promise!Step(s)
<1> DEFINE got == recv[s].got
           bytes == quic[s].bytes
           writing == send[s].writing
<1>1. PICK k \in 0 .. Len(writing) :
           /\ quic'[s].bytes = bytes \o SubSeq(writing, 1, k)
           /\ send'[s].writing = SubSeq(writing, k + 1, Len(writing))
  BY DEF Writes
<1>2. got \in Seq(Nat) /\ bytes \in Seq(Nat) /\ writing \in Seq(Nat)
  BY StreamTypes
<1> DEFINE first == SubSeq(writing, 1, k)
           rest == SubSeq(writing, k + 1, Len(writing))
<1>3. first \in Seq(Nat) /\ rest \in Seq(Nat) /\ first \o rest = writing
  BY <1>2, Splits
<1>4. quic'[s].bytes \o send'[s].writing = bytes \o writing
  <2>1. quic'[s].bytes = bytes \o first /\ send'[s].writing = rest
    BY <1>1
  <2> HIDE DEF first, rest
  <2>2. (bytes \o first) \o rest = bytes \o (first \o rest)
    BY <1>2, <1>3, Associative
  <2> QED  BY <1>3, <2>1, <2>2
<1>5. StreamInv(s)'
  BY <1>4 DEF StreamInv, Writes, ReaderSame
<1>6. Sent(s)' = Sent(s)
  BY DEF Sent, Unfinished, Writes
<1>7. Promise!SentSame(s) /\ Promise!ReceivedSame(s)
  BY <1>6 DEF Promise!SentSame, Promise!ReceivedSame, Writes, ReaderSame
<1> QED  BY <1>5, <1>7 DEF Promise!Step

LEMMA LeavesKeeps ==
    ASSUME StreamsOK, NEW s \in Streams, StreamInv(s), Leaves(s)
    PROVE  StreamInv(s)' /\ Promise!Step(s)
<1> DEFINE got == recv[s].got
           bytes == quic[s].bytes
           writing == send[s].writing
<1>1. /\ got \in Seq(Nat) /\ bytes \in Seq(Nat) /\ writing \in Seq(Nat)
      /\ got \o bytes \in Seq(Nat)
  BY StreamTypes
<1>2. StreamInv(s)'
  BY DEF StreamInv, Leaves
<1>3. Sent(s)' = got \o bytes
  BY DEF Sent, Unfinished, Leaves, ReaderSame
<1>4. Sent(s) = (got \o bytes) \o writing
  <2>1. Sent(s) = got \o (bytes \o writing)
    BY DEF Sent, Unfinished, Leaves, StreamInv
  <2> QED  BY <1>1, <2>1, Associative
<1>5. Promise!CutOff(s)
  BY <1>1, <1>3, <1>4, PrefixOfConcat
     DEF Promise!CutOff, Promise!ReceivedSame, Leaves, ReaderSame
<1> QED  BY <1>2, <1>5 DEF Promise!Step, Promise!Drop, Promise!Reset, Leaves

LEMMA ReadsKeeps ==
    ASSUME StreamsOK, NEW s \in Streams, StreamInv(s), Reads(s)
    PROVE  StreamInv(s)' /\ Promise!Step(s)
<1> DEFINE got == recv[s].got
           bytes == quic[s].bytes
           writing == send[s].writing
<1>1. PICK k \in 1 .. Len(bytes) :
           /\ recv'[s].got = got \o SubSeq(bytes, 1, k)
           /\ quic'[s].bytes = SubSeq(bytes, k + 1, Len(bytes))
  BY DEF Reads
<1>2. /\ got \in Seq(Nat) /\ bytes \in Seq(Nat) /\ writing \in Seq(Nat) /\ Len(bytes) \in Nat
      /\ got \o bytes \in Seq(Nat)
  BY StreamTypes
<1> DEFINE first == SubSeq(bytes, 1, k)
           rest == SubSeq(bytes, k + 1, Len(bytes))
<1>3. first \in Seq(Nat) /\ rest \in Seq(Nat) /\ first \o rest = bytes /\ first # <<>>
  <2>1. k \in 0 .. Len(bytes) /\ k > 0
    BY <1>2
  <2> QED  BY <1>2, <2>1, Splits
<1>4. recv'[s].got = got \o first /\ quic'[s].bytes = rest
  BY <1>1
<1> HIDE DEF first, rest
<1>5. (got \o first) \o rest = got \o bytes /\ got \o first \in Seq(Nat)
  <2>1. (got \o first) \o rest = got \o (first \o rest)
    BY <1>2, <1>3, Associative
  <2>2. got \o first \in Seq(Nat)
    BY <1>2, <1>3, ConcatProperties
  <2> QED  BY <1>3, <2>1, <2>2
<1>6. (got \o first) \o (rest \o writing) = got \o (bytes \o writing)
  <2>1. (got \o first) \o (rest \o writing) = ((got \o first) \o rest) \o writing
    BY <1>2, <1>3, <1>5, Associative
  <2>2. (got \o bytes) \o writing = got \o (bytes \o writing)
    BY <1>2, Associative
  <2> QED  BY <1>5, <2>1, <2>2
<1>7. StreamInv(s)'
  <2>1. Len(got) \in Nat /\ Len(first) \in Nat /\ Len(rest) \in Nat
    BY <1>2, <1>3, LenProperties
  <2>2. Len(bytes) = Len(first) + Len(rest)
    BY <1>3, ConcatProperties
  <2>3. Len(rest) <= Window
    BY <1>2, <2>1, <2>2, LengthAssumption DEF StreamInv
  <2> QED  BY <1>4, <1>6, <2>3 DEF StreamInv, Reads, SenderSame
<1>8. Sent(s)' = Sent(s)
  BY <1>4, <1>5 DEF Sent, Unfinished, Reads, SenderSame
<1>9. Promise!IsPrefix(got \o first, Sent(s))
  <2>1. CASE Unfinished(s)
    <3>1. Sent(s) = (got \o first) \o rest
      BY <1>5, <2>1 DEF Sent
    <3> QED  BY <1>3, <1>5, <3>1, PrefixOfConcat
  <2>2. CASE ~Unfinished(s)
    <3>1. quic[s].fin \in {"open", "finished"}
      BY <2>2 DEF Unfinished, StreamsOK
    <3>2. Sent(s) = (got \o first) \o (rest \o writing)
      BY <1>6, <2>2, <3>1 DEF Sent, StreamInv
    <3>3. rest \o writing \in Seq(Nat)
      BY <1>2, <1>3, ConcatProperties
    <3> QED  BY <1>5, <3>2, <3>3, PrefixOfConcat
  <2> QED  BY <2>1, <2>2
<1>10. Promise!Receive(s)
  <2>1. Promise!IsStrictPrefix(got, got \o first)
    BY <1>2, <1>3, PrefixOfConcat
  <2> QED  BY <1>4, <1>8, <1>9, <2>1
           DEF Promise!Receive, Promise!SentSame, Reads
<1> QED  BY <1>7, <1>10 DEF Promise!Step

LEMMA EndsKeeps ==
    ASSUME StreamsOK, NEW s \in Streams, StreamInv(s), Ends(s)
    PROVE  StreamInv(s)' /\ Promise!Step(s)
<1>1. StreamInv(s)' /\ Sent(s)' = Sent(s) /\ Promise!SentSame(s)
  BY DEF StreamInv, Sent, Unfinished, Ends, SenderSame, WireSame, Promise!SentSame
<1>2. CASE recv'[s].end = "failed"
  BY <1>1, <1>2 DEF Ends, Promise!Fail, Promise!Step
<1>3. CASE recv'[s].end = "end" /\ AllRead(s)
  <2>1. recv[s].got \in Seq(Nat) /\ recv[s].got \o <<>> = recv[s].got /\ <<>> \o <<>> = <<>>
    BY StreamTypes, ConcatEmptySeq, EmptySeq
  <2>2. Sent(s) = recv[s].got
    BY <1>3, <2>1 DEF AllRead, Sent, Unfinished, StreamInv
  <2> QED  BY <1>1, <1>3, <2>2 DEF Ends, AllRead, Promise!End, Promise!Step
<1> QED  BY <1>2, <1>3 DEF Ends

(* Every such step keeps the promise. *)
LEMMA StepsKeep ==
    ASSUME StreamsOK, NEW s \in Streams, StreamInv(s), StreamStep(s)
    PROVE  StreamInv(s)' /\ Promise!Step(s)
<1>1. CASE Still(s)
  BY <1>1 DEF Still, StreamInv, SenderSame, WireSame, ReaderSame, Sent, Unfinished,
              Promise!Step, Promise!SentSame, Promise!ReceivedSame
<1>2. CASE Finishes(s)
  BY <1>2 DEF Finishes, StreamInv, SenderSame, ReaderSame, Sent, Unfinished,
              Promise!Step, Promise!Finish, Promise!ReceivedSame
<1> QED  BY <1>1, <1>2, SendsKeeps, WritesKeeps, LeavesKeeps, ReadsKeeps, EndsKeeps
         DEF StreamStep
----------------------------------------------------------------------------
(* The invariant *)

RequestInv(r) ==
    LET s == RequestStream(r)
    IN /\ client[r] \in {"idle", "send", "flush"} => quic[s].fin = "open"
       /\ client[r] \in {"idle", "send"} => send[s] = [stream |-> "here", writing |-> <<>>]
       /\ client[r] = "recv" => lost \/ quic[s].fin = "finished"
       /\ quic[s].fin = "finished" => frames[s] = RequestFrames[r]
       /\ quic[s].fin \in {"dropped", "reset"} => client[r] \in {"gone", "failed"}
       /\ server[r] \in {"none", "recv"} => recv[s].end = "open"
       /\ server[r] \in {"send", "flush"} => recv[s].stream = "here"

ResponseInv(r) ==
    LET s == ResponseStream(r)
    IN /\ server[r] \in {"none", "recv", "send", "flush"} => quic[s].fin = "open"
       /\ server[r] \in {"none", "recv", "send"} => send[s] = [stream |-> "here", writing |-> <<>>]
       /\ server[r] \in {"none", "recv", "refused"} => recv[s].got = <<>> /\ quic[s].bytes = <<>>
       /\ quic[s].fin = "finished" => server[r] = "done"
       /\ quic[s].fin = "dropped" => server[r] = "refused"
       /\ quic[s].stopped => client[r] \in {"done", "failed", "gone"}
       /\ client[r] \in {"idle", "send", "flush", "recv"} => recv[s].end = "open"

BodyInv(r) == ServiceCalled(r) => body[r] = WholeBody(r) \/ lost \/ client[r] \in {"gone", "failed"}

DoneInv(r) ==
    client[r] = "done" =>
        /\ server[r] = "done"
        /\ recv[ResponseStream(r)].got = Bytes(frames[ResponseStream(r)])
        /\ body[r] = WholeBody(r)

CallInv(r) == RequestInv(r) /\ ResponseInv(r) /\ BodyInv(r) /\ DoneInv(r)

(* Requests are opened once, and what was not accepted has no handler. *)
OrderInv ==
    /\ \A i, j \in 1 .. Len(opened) : opened[i] = opened[j] => i = j
    /\ \A i \in 1 .. Len(opened) : client[opened[i]] # "idle"
    /\ \A i \in accepted + 1 .. Len(opened) :
         server[opened[i]] = "none" /\ acceptor # opened[i]
    /\ \A r \in Requests :
         /\ acceptor = r => server[r] = "none"
         /\ client[r] = "idle" => server[r] = "none" /\ acceptor # r

IInv ==
    /\ TypeOK
    /\ \A s \in Streams : StreamInv(s)
    /\ \A r \in Requests : CallInv(r)
    /\ OrderInv

----------------------------------------------------------------------------
(* What the calls do to the streams *)

Kept(s) ==
    /\ frames'[s] = frames[s] /\ send'[s] = send[s]
    /\ quic'[s] = quic[s] /\ recv'[s] = recv[s]

OnlyStream(s) == \A t \in Streams : t # s => Kept(t)

LEMMA StreamNames ==
    /\ \A r \in Requests : RequestStream(r) \in Streams /\ ResponseStream(r) \in Streams
    /\ \A s \in Streams : \E r \in Requests : s = RequestStream(r) \/ s = ResponseStream(r)
    /\ \A r, q \in Requests :
         /\ RequestStream(r) # ResponseStream(q)
         /\ RequestStream(r) = RequestStream(q) => r = q
         /\ ResponseStream(r) = ResponseStream(q) => r = q
BY DEF RequestStream, ResponseStream, Streams

LEMMA SendDataDoes ==
    ASSUME StreamsOK, NEW s \in Streams, SendData(s)
    PROVE  /\ StreamsOK'
           /\ frames'[s] = frames[s] + 1
           /\ send'[s] = [stream |-> send[s].stream, writing |-> Frame(frames[s] + 1)]
           /\ quic' = quic /\ recv' = recv /\ lost' = lost
           /\ OnlyStream(s)
<1>1. frames[s] \in Nat /\ Frame(frames[s] + 1) \in Seq(Nat)
  BY StreamTypes, FrameIs
<1> QED  BY <1>1 DEF StreamsOK, SendData, OnlyStream, Kept

LEMMA WriteTypes ==
    ASSUME StreamsOK, NEW s \in Streams, NEW k \in 0 .. Len(send[s].writing)
    PROVE  /\ quic[s].bytes \o SubSeq(send[s].writing, 1, k) \in Seq(Nat)
           /\ SubSeq(send[s].writing, k + 1, Len(send[s].writing)) \in Seq(Nat)
<1>1. send[s].writing \in Seq(Nat) /\ quic[s].bytes \in Seq(Nat)
  BY StreamTypes
<1>2. /\ SubSeq(send[s].writing, 1, k) \in Seq(Nat)
      /\ SubSeq(send[s].writing, k + 1, Len(send[s].writing)) \in Seq(Nat)
  BY <1>1, Splits
<1> QED  BY <1>1, <1>2, ConcatProperties

LEMMA PollReadyDoes ==
    ASSUME StreamsOK, NEW s \in Streams, StreamInv(s), quic[s].fin = "open",
           PollReadyPending(s) \/ PollReadyOk(s)
    PROVE  /\ StreamsOK' /\ Writes(s)
           /\ PollReadyOk(s) => send'[s] = [stream |-> "here", writing |-> <<>>]
           /\ quic'[s].fin = "open" /\ quic'[s].stopped = quic[s].stopped
           /\ frames' = frames /\ recv' = recv /\ lost' = lost
           /\ OnlyStream(s)
<1> DEFINE bytes == quic[s].bytes
           writing == send[s].writing
           k == IF PollReadyOk(s) THEN Len(writing) ELSE Room(s)
           first == SubSeq(writing, 1, k)
           rest == SubSeq(writing, k + 1, Len(writing))
<1>1. /\ Room(s) \in Nat /\ Len(bytes) \in Nat /\ Len(writing) \in Nat
      /\ Room(s) = Window - Len(bytes)
  BY StreamTypes, LengthAssumption DEF Room, StreamInv
<1>2. k \in 0 .. Len(writing) /\ k <= Room(s)
  BY <1>1 DEF PollReadyPending, PollReadyOk
<1>3. bytes \o first \in Seq(Nat) /\ rest \in Seq(Nat)
  BY <1>2, WriteTypes
<1>4. Len(bytes \o first) <= Window
  <2>1. bytes \in Seq(Nat) /\ writing \in Seq(Nat)
    BY StreamTypes
  <2> HIDE DEF k, bytes, writing
  <2>2. first \in Seq(Nat) /\ Len(first) = k
    BY <1>2, <2>1, Splits
  <2>3. Len(bytes \o first) = Len(bytes) + k
    BY <2>1, <2>2, ConcatProperties
  <2> QED  BY <1>1, <1>2, <2>3, LengthAssumption
<1>5. PollReadyOk(s) => rest = <<>>
  BY <1>1, SubSeqEmpty
<1>6. /\ quic' = [quic EXCEPT ![s].bytes = bytes \o first]
      /\ send' = [send EXCEPT ![s] =
            [stream |-> IF PollReadyOk(s) THEN "here" ELSE "future", writing |-> rest]]
      /\ frames' = frames /\ recv' = recv /\ lost' = lost
  BY <1>5 DEF PollReadyPending, PollReadyOk, Write
<1> HIDE DEF first, rest, bytes
<1>7. /\ quic'[s].bytes = bytes \o first /\ quic'[s].fin = quic[s].fin
      /\ quic'[s].stopped = quic[s].stopped
      /\ send'[s] = [stream |-> IF PollReadyOk(s) THEN "here" ELSE "future", writing |-> rest]
  BY <1>6 DEF StreamsOK
<1>8. StreamsOK'
  BY <1>3, <1>6 DEF StreamsOK
<1>9. Writes(s)
  <2>1. send'[s].writing = rest
    BY <1>7
  <2> QED  BY <1>2, <1>4, <1>6, <1>7, <2>1 DEF Writes, ReaderSame, first, rest, bytes
<1>10. OnlyStream(s)
  BY <1>6 DEF OnlyStream, Kept, StreamsOK
<1>11. PollReadyOk(s) => send'[s] = [stream |-> "here", writing |-> <<>>]
  BY <1>5, <1>7
<1> QED  BY <1>6, <1>7, <1>8, <1>9, <1>10, <1>11
(* A read takes what is there, or waits. *)
LEMMA ReadDoes ==
    ASSUME StreamsOK, NEW s \in Streams, recv[s].end = "open",
           PollDataPending(s) \/ PollData(s)
    PROVE  /\ Still(s) \/ Reads(s)
           /\ StreamsOK'
           /\ quic[s].bytes = <<>> => quic'[s].bytes = <<>> /\ recv'[s].got = recv[s].got
           /\ Len(recv'[s].got) >= Len(recv[s].got)
           /\ recv'[s].end = "open"
           /\ quic'[s].fin = quic[s].fin /\ quic'[s].stopped = quic[s].stopped
           /\ frames' = frames /\ send' = send /\ lost' = lost
           /\ OnlyStream(s)
<1> DEFINE bytes == quic[s].bytes
           got == recv[s].got
<1>1. bytes \in Seq(Nat) /\ got \in Seq(Nat) /\ Len(bytes) \in Nat /\ Len(got) \in Nat
  BY StreamTypes
<1>2. CASE PollDataPending(s)
  <2>1. /\ recv' = [recv EXCEPT ![s].stream = "future"]
        /\ frames' = frames /\ send' = send /\ quic' = quic /\ lost' = lost
    BY <1>2 DEF PollDataPending
  <2>2. StreamsOK' /\ recv'[s].got = got /\ recv'[s].end = recv[s].end
    BY <2>1 DEF StreamsOK
  <2>3. Still(s)
    BY <2>1, <2>2 DEF Still, SenderSame, WireSame, ReaderSame
  <2>4. OnlyStream(s)
    BY <2>1 DEF OnlyStream, Kept, StreamsOK
  <2> QED  BY <1>1, <2>1, <2>2, <2>3, <2>4
<1>3. CASE PollData(s)
  <2>1. PICK k \in 1 .. Len(bytes) :
          /\ recv' = [recv EXCEPT ![s] =
                        [stream |-> "here", end |-> @.end, got |-> @.got \o SubSeq(bytes, 1, k)]]
          /\ quic' = [quic EXCEPT ![s].bytes = SubSeq(@, k + 1, Len(@))]
          /\ frames' = frames /\ send' = send /\ lost' = lost
    BY <1>3 DEF PollData
  <2> DEFINE first == SubSeq(bytes, 1, k)
             rest == SubSeq(bytes, k + 1, Len(bytes))
  <2>2. first \in Seq(Nat) /\ rest \in Seq(Nat)
    <3>1. k \in 0 .. Len(bytes)
      BY <1>1
    <3> QED  BY <1>1, <3>1, Splits
  <2>3. got \o first \in Seq(Nat) /\ Len(got \o first) >= Len(got)
    <3>1. got \o first \in Seq(Nat) /\ Len(got \o first) = Len(got) + Len(first)
      BY <1>1, <2>2, ConcatProperties
    <3>2. Len(first) \in Nat
      BY <2>2, LenProperties
    <3> QED  BY <1>1, <3>1, <3>2
  <2>4. /\ recv' = [recv EXCEPT ![s] = 
                        [stream |-> "here", end |-> recv[s].end, got |-> got \o first]]
        /\ quic' = [quic EXCEPT ![s].bytes = rest]
    BY <2>1
  <2>5. bytes # <<>>
    BY <1>1, EmptySeq
  <2> HIDE DEF first, rest
  <2>6. StreamsOK'
    <3> DEFINE R == [stream : {"here", "future"}, got : Seq(Nat), end : {"open", "end", "failed"}]
               read == got \o first
    <3>1. recv \in [Streams -> R] /\ read \in Seq(Nat)
      BY <2>3 DEF StreamsOK
    <3> HIDE DEF read
    <3>2. recv' = [recv EXCEPT ![s] = [stream |-> "here", end |-> recv[s].end, got |-> read]]
      BY <2>4 DEF read
    <3>4. recv' \in [Streams -> R]
      BY <3>1, <3>2
    <3>5. quic' \in [Streams -> [bytes : Seq(Nat), stopped : BOOLEAN,
                                 fin : {"open", "finished", "dropped", "reset"}]]
      BY <2>2, <2>4 DEF StreamsOK
    <3> QED  BY <2>1, <3>4, <3>5 DEF StreamsOK
  <2>7. /\ recv'[s].got = got \o first /\ recv'[s].end = recv[s].end
        /\ quic'[s].bytes = rest
        /\ quic'[s].fin = quic[s].fin /\ quic'[s].stopped = quic[s].stopped
    BY <2>4 DEF StreamsOK
  <2>8. Reads(s)
    BY <2>1, <2>7 DEF Reads, SenderSame, first, rest
  <2>9. OnlyStream(s)
    BY <2>1, <2>4 DEF OnlyStream, Kept, StreamsOK
  <2> QED  BY <2>1, <2>3, <2>5, <2>6, <2>7, <2>8, <2>9
<1> QED  BY <1>2, <1>3

LEMMA EndDoes ==
    ASSUME StreamsOK, NEW s \in Streams, recv[s].end = "open",
           PollDataEnd(s) \/ PollDataFails(s)
    PROVE  /\ recv' \in [Streams -> [stream : {"here", "future"}, got : Seq(Nat),
                                     end : {"open", "end", "failed"}]]
           /\ recv'[s].stream = "here" /\ recv'[s].got = recv[s].got
           /\ recv'[s].end = "failed" \/ (recv'[s].end = "end" /\ AllRead(s))
           /\ PollDataFails(s) => recv'[s].end = "failed"
           /\ \A t \in Streams : t # s => recv'[t] = recv[t]
           /\ frames' = frames /\ send' = send /\ lost' = lost
<1> DEFINE R == [stream : {"here", "future"}, got : Seq(Nat), end : {"open", "end", "failed"}]
           kept(end) == [stream |-> "here", got |-> recv[s].got, end |-> end]
<1>0. recv \in [Streams -> R] /\ recv[s].got \in Seq(Nat)
  BY DEF StreamsOK
<1>1. CASE PollDataEnd(s)
  <2>1. recv' = [recv EXCEPT ![s].stream = "here", ![s].end = "end"] /\ AllRead(s)
    BY <1>1 DEF PollDataEnd
  <2>3. recv' = [recv EXCEPT ![s] = kept("end")]
    BY <1>0, <2>1
  <2>4. recv' \in [Streams -> R] /\ recv'[s] = kept("end")
        /\ \A t \in Streams : t # s => recv'[t] = recv[t]
    BY <1>0, <2>3
  <2>2. ~PollDataFails(s)
    BY <1>1, <2>1 DEF PollDataEnd, PollDataFails, AllRead
  <2> QED  BY <1>1, <2>1, <2>2, <2>4 DEF PollDataEnd
<1>2. CASE PollDataFails(s)
  <2>1. recv' = [recv EXCEPT ![s].stream = "here", ![s].end = "failed"]
    BY <1>2 DEF PollDataFails
  <2>2. recv' = [recv EXCEPT ![s] = kept("failed")]
    BY <1>0, <2>1
  <2>3. recv' \in [Streams -> R] /\ recv'[s] = kept("failed")
        /\ \A t \in Streams : t # s => recv'[t] = recv[t]
    BY <1>0, <2>2
  <2> QED  BY <1>2, <2>3 DEF PollDataFails
<1> QED  BY <1>1, <1>2

LEMMA DroppedDoes ==
    ASSUME StreamsOK, NEW out \in Streams, NEW in \in Streams, out # in,
           quic' = Dropped(out, in)
    PROVE  /\ quic' \in [Streams -> [bytes : Seq(Nat), stopped : BOOLEAN,
                                     fin : {"open", "finished", "dropped", "reset"}]]
           /\ quic'[out].bytes = quic[out].bytes /\ quic'[out].stopped = quic[out].stopped
           /\ IF lost \/ quic[out].fin # "open" THEN quic'[out].fin = quic[out].fin
              ELSE quic'[out].fin = IF quic[out].stopped THEN "reset" ELSE "dropped"
           /\ quic'[in].bytes = quic[in].bytes /\ quic'[in].fin = quic[in].fin
           /\ quic'[in].stopped => quic[in].stopped \/ recv'[in].end = "open"
           /\ \A t \in Streams : t # out /\ t # in => quic'[t] = quic[t]
<1>1. CASE lost
  BY <1>1 DEF Dropped, StreamsOK
<1>2. CASE ~lost
  <2> DEFINE fin == IF quic[out].fin # "open" THEN quic[out].fin
                    ELSE IF quic[out].stopped THEN "reset" ELSE "dropped"
             stopped == quic[in].stopped \/ recv'[in].end = "open"
  <2>1. quic' = [quic EXCEPT ![out].fin = fin, ![in].stopped = stopped]
    BY <1>2 DEF Dropped
  <2>2. fin \in {"open", "finished", "dropped", "reset"} /\ stopped \in BOOLEAN
    BY DEF StreamsOK
  <2>3. /\ fin = quic[out].fin \/ quic[out].fin = "open"
        /\ quic[out].fin = "open" => fin = IF quic[out].stopped THEN "reset" ELSE "dropped"
        /\ stopped => quic[in].stopped \/ recv'[in].end = "open"
    OBVIOUS
  <2> HIDE DEF fin, stopped
  <2> DEFINE Q == [bytes : Seq(Nat), stopped : BOOLEAN,
                    fin : {"open", "finished", "dropped", "reset"}]
             newOut == [bytes |-> quic[out].bytes, stopped |-> quic[out].stopped, fin |-> fin]
             newIn == [bytes |-> quic[in].bytes, stopped |-> stopped, fin |-> quic[in].fin]
  <2>6. quic \in [Streams -> Q]
    BY DEF StreamsOK
  <2>7. quic' = [quic EXCEPT ![out] = newOut, ![in] = newIn]
    <3>1. /\ [quic[out] EXCEPT !.fin = fin] = newOut
          /\ [quic[in] EXCEPT !.stopped = stopped] = newIn
      BY <2>6
    <3>2. quic' = [quic EXCEPT ![out] = [quic[out] EXCEPT !.fin = fin],
                               ![in] = [quic[in] EXCEPT !.stopped = stopped]]
      <4> HIDE DEF Q, newOut, newIn
      <4> QED  BY <2>1, <2>6
    <3> HIDE DEF newOut, newIn, Q
    <3> QED  BY <3>1, <3>2
  <2>8. newOut \in Q /\ newIn \in Q
    BY <2>2, <2>6
  <2>9. /\ quic' \in [Streams -> Q] /\ quic'[out] = newOut /\ quic'[in] = newIn
        /\ \A t \in Streams : t # out /\ t # in => quic'[t] = quic[t]
    <3> HIDE DEF newOut, newIn, Q
    <3> QED  BY <2>6, <2>7, <2>8
  <2> QED  BY <1>2, <2>3, <2>9
<1> QED  BY <1>1, <1>2
LEMMA PollReadyErrDoes ==
    ASSUME StreamsOK, NEW s \in Streams, PollReadyErr(s)
    PROVE  /\ send' \in [Streams -> [stream : {"here", "future"}, writing : Seq(Nat)]]
           /\ send'[s].writing = send[s].writing
           /\ \A t \in Streams : t # s => send'[t] = send[t]
           /\ frames' = frames /\ recv' = recv /\ lost' = lost
           /\ lost \/ quic[s].stopped
<1>1. /\ send' = [send EXCEPT ![s].stream = "here"]
      /\ frames' = frames /\ recv' = recv /\ lost' = lost
  BY DEF PollReadyErr
<1>2. lost \/ quic[s].stopped
  BY DEF PollReadyErr, WriteFails
<1>3. send \in [Streams -> [stream : {"here", "future"}, writing : Seq(Nat)]]
  BY DEF StreamsOK
<1>4. send' \in [Streams -> [stream : {"here", "future"}, writing : Seq(Nat)]]
  BY <1>1, <1>3
<1>5. send'[s].writing = send[s].writing /\ \A t \in Streams : t # s => send'[t] = send[t]
  BY <1>1, <1>3
<1> QED  BY <1>1, <1>2, <1>4, <1>5

LEMMA FinishDoes ==
    ASSUME StreamsOK, NEW s \in Streams, frames' = frames, send' = send, recv' = recv, lost' = lost,
           quic' = IF lost THEN quic ELSE [quic EXCEPT ![s].fin = "finished"]
    PROVE  /\ StreamsOK' /\ OnlyStream(s)
           /\ lost => quic'[s] = quic[s]
           /\ ~lost => quic'[s].fin = "finished"
           /\ quic'[s].bytes = quic[s].bytes /\ quic'[s].stopped = quic[s].stopped
<1>1. CASE lost
  BY <1>1 DEF StreamsOK, OnlyStream, Kept
<1>2. CASE ~lost
  <2>1. /\ quic' \in [Streams -> [bytes : Seq(Nat), stopped : BOOLEAN,
                                  fin : {"open", "finished", "dropped", "reset"}]]
        /\ quic'[s].fin = "finished"
        /\ quic'[s].bytes = quic[s].bytes /\ quic'[s].stopped = quic[s].stopped
        /\ \A t \in Streams : t # s => quic'[t] = quic[t]
    BY <1>2 DEF StreamsOK
  <2> QED  BY <1>2, <2>1 DEF StreamsOK, OnlyStream, Kept
<1> QED  BY <1>1, <1>2

LEMMA ResetAndStopDoes ==
    ASSUME StreamsOK, NEW out \in Streams, NEW in \in Streams, out # in,
           ResetAndStop(out, in)
    PROVE  /\ StreamsOK'
           /\ quic'[out].bytes = quic[out].bytes /\ quic'[out].fin = "reset"
           /\ quic'[in].bytes = quic[in].bytes /\ quic'[in].fin = quic[in].fin
           /\ \A t \in Streams : t # out /\ t # in => quic'[t] = quic[t]
<1> DEFINE Q == [bytes : Seq(Nat), stopped : BOOLEAN,
                 fin : {"open", "finished", "dropped", "reset"}]
           newOut == [bytes |-> quic[out].bytes, stopped |-> quic[out].stopped, fin |-> "reset"]
           stop == TRUE
           newIn == [bytes |-> quic[in].bytes, stopped |-> stop, fin |-> quic[in].fin]
<1>1. quic \in [Streams -> Q]
  BY DEF StreamsOK
<1>2. /\ [quic[out] EXCEPT !.fin = "reset"] = newOut
      /\ [quic[in] EXCEPT !.stopped = stop] = newIn
      /\ newOut \in Q /\ newIn \in Q
  <2>1. [quic[out] EXCEPT !.fin = "reset"] = newOut
    BY <1>1
  <2>2. [quic[in] EXCEPT !.stopped = stop] = newIn
    <3> HIDE DEF stop
    <3> QED  BY <1>1
  <2>3. newOut \in Q
    BY <1>1
  <2>4. newIn \in Q
    BY <1>1
  <2> QED  BY <2>1, <2>2, <2>3, <2>4
<1>3. quic' = [quic EXCEPT ![out] = [quic[out] EXCEPT !.fin = "reset"],
                          ![in] = [quic[in] EXCEPT !.stopped = stop]]
  <2> HIDE DEF Q, newOut, newIn
  <2> QED  BY <1>1 DEF ResetAndStop
<1>4. /\ quic' \in [Streams -> Q] /\ quic'[out] = newOut /\ quic'[in] = newIn
      /\ \A t \in Streams : t # out /\ t # in => quic'[t] = quic[t]
  <2> HIDE DEF Q, newOut, newIn
  <2> QED  BY <1>1, <1>2, <1>3
<1>5. StreamsOK'
  BY <1>4 DEF ResetAndStop, StreamsOK
<1> QED  BY <1>4, <1>5

----------------------------------------------------------------------------
(* Steps of one request *)

Untouched(q) ==
    /\ Kept(RequestStream(q)) /\ Kept(ResponseStream(q))
    /\ client'[q] = client[q] /\ server'[q] = server[q] /\ body'[q] = body[q]

(* What has to be shown of a step for the invariant and the promise. *)
Moves(r) ==
    /\ TypeOK' /\ OrderInv'
    /\ \A q \in Requests : q # r => Untouched(q)
    /\ lost => lost'
    /\ StreamStep(RequestStream(r)) /\ StreamStep(ResponseStream(r))
    /\ CallInv(r)'

LEMMA KeptIsStill ==
    ASSUME NEW s, Kept(s)
    PROVE  StreamStep(s)
BY DEF Kept, StreamStep, Still, SenderSame, WireSame, ReaderSame

LEMMA UntouchedKeeps ==
    ASSUME NEW q \in Requests, Untouched(q), CallInv(q), lost => lost'
    PROVE  CallInv(q)'
<1>1. RequestInv(q)'
  BY DEF Untouched, Kept, CallInv, RequestInv
<1>2. ResponseInv(q)'
  BY DEF Untouched, Kept, CallInv, ResponseInv
<1>3. BodyInv(q)' /\ DoneInv(q)'
  BY DEF Untouched, Kept, CallInv, BodyInv, DoneInv, ServiceCalled, WholeBody
<1> QED  BY <1>1, <1>2, <1>3 DEF CallInv

LEMMA MovesKeep ==
    ASSUME IInv, NEW r \in Requests, Moves(r)
    PROVE  IInv' /\ Promise!Next
<1>1. \A s \in Streams : StreamStep(s)
  <2>1. ASSUME NEW s \in Streams PROVE StreamStep(s)
    <3>1. PICK q \in Requests : s = RequestStream(q) \/ s = ResponseStream(q)
      BY StreamNames
    <3>2. CASE q = r
      BY <3>1, <3>2 DEF Moves
    <3>3. CASE q # r
      BY <3>1, <3>3, KeptIsStill DEF Moves, Untouched
    <3> QED  BY <3>2, <3>3
  <2> QED  BY <2>1
<1>2. \A s \in Streams : StreamInv(s)' /\ Promise!Step(s)
  BY <1>1, StepsKeep DEF IInv, TypeOK
<1>3. \A q \in Requests : CallInv(q)'
  BY UntouchedKeeps DEF IInv, Moves
<1> QED  BY <1>2, <1>3 DEF IInv, Moves, Promise!Next

(* Steps that change one stream, or the two of a request, leave others. *)
LEMMA OthersUntouched ==
    ASSUME NEW r \in Requests,
           \A t \in Streams : t # RequestStream(r) /\ t # ResponseStream(r) => Kept(t),
           \A q \in Requests : q # r =>
               client'[q] = client[q] /\ server'[q] = server[q] /\ body'[q] = body[q]
    PROVE  \A q \in Requests : q # r => Untouched(q)
BY StreamNames DEF Untouched

(* Clients that have begun and handlers that go on do not change the order. *)
LEMMA OrderKept ==
    ASSUME TypeOK, OrderInv,
           opened' = opened, accepted' = accepted, acceptor' = acceptor,
           \A q \in Requests : client'[q] = "idle" => client[q] = "idle",
           \A q \in Requests : server[q] = "none" => server'[q] = "none"
    PROVE  OrderInv'
<1>1. \A i \in 1 .. Len(opened) : opened[i] \in Requests
  BY ElementOfSeq DEF TypeOK
<1>2. \A i \in accepted + 1 .. Len(opened) : i \in 1 .. Len(opened)
  BY LenProperties DEF TypeOK
<1> QED  BY <1>1, <1>2 DEF OrderInv

ClientPlaces == {"send", "flush", "recv", "idle", "done", "failed", "gone"}
ServerPlaces == {"recv", "send", "flush", "none", "refused", "done", "failed", "panicked"}

LEMMA ClientOnly ==
    ASSUME IInv, NEW r \in Requests, client[r] # "idle",
           NEW pc \in ClientPlaces \ {"idle"}, ClientBecomes(r, pc) \/ UNCHANGED client,
           UNCHANGED <<opened, accepted, acceptor, server, body>>,
           StreamsOK'
    PROVE  /\ TypeOK' /\ OrderInv'
           /\ server' = server /\ body' = body
           /\ client'[r] = pc \/ client'[r] = client[r]
           /\ ClientBecomes(r, pc) => client'[r] = pc
           /\ \A q \in Requests : q # r =>
                client'[q] = client[q] /\ server'[q] = server[q] /\ body'[q] = body[q]
<1>1. /\ client' \in [Requests -> ClientPlaces]
      /\ client'[r] = pc \/ client'[r] = client[r]
      /\ ClientBecomes(r, pc) => client'[r] = pc
      /\ \A q \in Requests : q # r => client'[q] = client[q]
  BY DEF IInv, TypeOK, ClientBecomes, ClientPlaces, ClientBusy
<1>2. TypeOK'
  BY <1>1 DEF IInv, TypeOK, ClientPlaces, ClientBusy
<1>3. OrderInv'
  BY <1>1, OrderKept DEF IInv
<1> QED  BY <1>1, <1>2, <1>3

LEMMA ClientSendsMoves ==
    ASSUME IInv, NEW r \in Requests, ClientSends(r)
    PROVE  Moves(r)
<1> DEFINE s == RequestStream(r)
           t == ResponseStream(r)
<1>1. s \in Streams /\ t \in Streams /\ s # t /\ StreamsOK /\ CallInv(r)
  BY StreamNames DEF IInv, TypeOK
<1>2. /\ client[r] = "send" /\ SendData(s) /\ ClientBecomes(r, "flush")
      /\ UNCHANGED <<opened, accepted, acceptor, server, body>>
  BY DEF ClientSends
<1>3. quic[s].fin = "open" /\ send[s] = [stream |-> "here", writing |-> <<>>]
  BY <1>1, <1>2 DEF CallInv, RequestInv
<1> HIDE DEF s, t
<1>4. /\ StreamsOK' /\ frames'[s] = frames[s] + 1
      /\ send'[s] = [stream |-> send[s].stream, writing |-> Frame(frames[s] + 1)]
      /\ quic' = quic /\ recv' = recv /\ lost' = lost /\ OnlyStream(s)
  BY <1>1, <1>2, SendDataDoes
<1>5. Sends(s)
  BY <1>3, <1>4 DEF Sends, WireSame, ReaderSame
<1>6. Kept(t)
  BY <1>1, <1>4 DEF OnlyStream
<1>7. /\ TypeOK' /\ OrderInv' /\ server' = server /\ body' = body /\ client'[r] = "flush"
      /\ \A q \in Requests : q # r =>
           client'[q] = client[q] /\ server'[q] = server[q] /\ body'[q] = body[q]
  BY <1>2, <1>4, ClientOnly DEF ClientPlaces
<1>8. \A q \in Requests : q # r => Untouched(q)
  BY <1>4, <1>7, OthersUntouched DEF OnlyStream, s
<1>9. RequestInv(r)'
  BY <1>1, <1>2, <1>3, <1>4, <1>7 DEF CallInv, RequestInv, s
<1>10. ResponseInv(r)'
  BY <1>1, <1>2, <1>4, <1>6, <1>7 DEF CallInv, ResponseInv, Kept, t
<1>11. BodyInv(r)' /\ DoneInv(r)'
  BY <1>1, <1>2, <1>4, <1>7 DEF CallInv, BodyInv, DoneInv, ServiceCalled, WholeBody
<1> QED  BY <1>4, <1>5, <1>6, <1>7, <1>8, <1>9, <1>10, <1>11, KeptIsStill
         DEF Moves, CallInv, StreamStep, s, t
(* A client whose call failed, or that drops its request, drops both streams. *)
ClientLeavesStreams(r) ==
    LET s == RequestStream(r)
    IN /\ frames' = frames /\ recv' = recv /\ lost' = lost
       /\ send' \in [Streams -> [stream : {"here", "future"}, writing : Seq(Nat)]]
       /\ send'[s].writing = send[s].writing
       /\ \A u \in Streams : u # s => send'[u] = send[u]
       /\ quic' = Dropped(s, ResponseStream(r))
       /\ UNCHANGED <<opened, accepted, acceptor, server, body>>

LEMMA ClientLeavesMoves ==
    ASSUME IInv, NEW r \in Requests, client[r] \in ClientBusy,
           NEW pc \in {"failed", "gone"}, ClientBecomes(r, pc), ClientLeavesStreams(r)
    PROVE  Moves(r)
<1> DEFINE s == RequestStream(r)
           t == ResponseStream(r)
<1>1. s \in Streams /\ t \in Streams /\ s # t /\ StreamsOK /\ CallInv(r)
  BY StreamNames DEF IInv, TypeOK
<1>2. /\ frames' = frames /\ recv' = recv /\ lost' = lost
      /\ send' \in [Streams -> [stream : {"here", "future"}, writing : Seq(Nat)]]
      /\ send'[s].writing = send[s].writing
      /\ \A u \in Streams : u # s => send'[u] = send[u]
      /\ quic' = Dropped(s, t)
      /\ UNCHANGED <<opened, accepted, acceptor, server, body>>
  BY DEF ClientLeavesStreams
<1> HIDE DEF s, t
<1>3. /\ quic' \in [Streams -> [bytes : Seq(Nat), stopped : BOOLEAN,
                                fin : {"open", "finished", "dropped", "reset"}]]
      /\ quic'[s].bytes = quic[s].bytes
      /\ IF lost \/ quic[s].fin # "open" THEN quic'[s].fin = quic[s].fin
         ELSE quic'[s].fin = IF quic[s].stopped THEN "reset" ELSE "dropped"
      /\ quic'[t].bytes = quic[t].bytes /\ quic'[t].fin = quic[t].fin
      /\ \A u \in Streams : u # s /\ u # t => quic'[u] = quic[u]
  BY <1>1, <1>2, DroppedDoes
<1>4. StreamsOK'
  BY <1>1, <1>2, <1>3 DEF StreamsOK
<1>5. /\ TypeOK' /\ OrderInv' /\ server' = server /\ body' = body /\ client'[r] = pc
      /\ \A q \in Requests : q # r =>
           client'[q] = client[q] /\ server'[q] = server[q] /\ body'[q] = body[q]
  BY <1>2, <1>4, ClientOnly DEF ClientPlaces, ClientBusy
<1>6. StreamStep(s) /\ Still(t)
  BY <1>1, <1>2, <1>3 DEF StreamStep, Still, Leaves, SenderSame, WireSame, ReaderSame
<1>7. \A q \in Requests : q # r => Untouched(q)
  <2>1. \A u \in Streams : u # s /\ u # t => Kept(u)
    BY <1>2, <1>3 DEF Kept
  <2> QED  BY <1>5, <2>1, OthersUntouched DEF s, t
<1>8. RequestInv(r)'
  BY <1>1, <1>2, <1>3, <1>5 DEF CallInv, RequestInv, s
<1>9. ResponseInv(r)'
  BY <1>1, <1>2, <1>3, <1>5 DEF CallInv, ResponseInv, t
<1>10. BodyInv(r)' /\ DoneInv(r)'
  BY <1>1, <1>2, <1>5 DEF CallInv, BodyInv, DoneInv, ServiceCalled, WholeBody
<1> QED  BY <1>2, <1>5, <1>6, <1>7, <1>8, <1>9, <1>10 DEF Moves, CallInv, StreamStep, s, t

LEMMA ClientDropsMoves ==
    ASSUME IInv, NEW r \in Requests, ClientDrops(r)
    PROVE  Moves(r)
<1>1. ClientLeavesStreams(r)
  BY StreamNames DEF ClientDrops, ClientLeavesStreams, ClientStreamsDropped, IInv, TypeOK, StreamsOK
<1> QED  BY <1>1, ClientLeavesMoves DEF ClientDrops

LEMMA ClientFlushesMoves ==
    ASSUME IInv, NEW r \in Requests, ClientFlushes(r)
    PROVE  Moves(r)
<1> DEFINE s == RequestStream(r)
           t == ResponseStream(r)
<1>1. s \in Streams /\ t \in Streams /\ s # t /\ StreamsOK /\ CallInv(r)
  BY StreamNames DEF IInv, TypeOK
<1>2. /\ client[r] = "flush" /\ quic[s].fin = "open" /\ StreamInv(s)
      /\ UNCHANGED <<opened, accepted, acceptor, server, body>>
  BY <1>1 DEF ClientFlushes, CallInv, RequestInv, IInv
<1>3. CASE \/ PollReadyPending(s) /\ UNCHANGED client
           \/ PollReadyOk(s) /\ ClientBecomes(r, "send")
  <2> HIDE DEF s, t
  <2>1. /\ StreamsOK' /\ Writes(s)
        /\ PollReadyOk(s) => send'[s] = [stream |-> "here", writing |-> <<>>]
        /\ quic'[s].fin = "open" /\ frames' = frames /\ recv' = recv /\ lost' = lost
        /\ OnlyStream(s)
    BY <1>1, <1>2, <1>3, PollReadyDoes
  <2>2. /\ TypeOK' /\ OrderInv' /\ server' = server /\ body' = body
        /\ \/ PollReadyPending(s) /\ client'[r] = "flush"
           \/ PollReadyOk(s) /\ client'[r] = "send"
        /\ \A q \in Requests : q # r =>
             client'[q] = client[q] /\ server'[q] = server[q] /\ body'[q] = body[q]
    BY <1>2, <1>3, <2>1, ClientOnly DEF ClientPlaces
  <2>3. Kept(t)
    BY <1>1, <2>1 DEF OnlyStream
  <2>4. \A q \in Requests : q # r => Untouched(q)
    BY <2>1, <2>2, OthersUntouched DEF OnlyStream, s
  <2>5. RequestInv(r)'
    BY <1>1, <1>2, <2>1, <2>2 DEF CallInv, RequestInv, s
  <2>6. ResponseInv(r)'
    BY <1>1, <1>2, <2>1, <2>2, <2>3 DEF CallInv, ResponseInv, Kept, t
  <2>7. BodyInv(r)' /\ DoneInv(r)'
    BY <1>1, <1>2, <2>1, <2>2 DEF CallInv, BodyInv, DoneInv, ServiceCalled, WholeBody
  <2> QED  BY <2>1, <2>2, <2>3, <2>4, <2>5, <2>6, <2>7, KeptIsStill
           DEF Moves, CallInv, StreamStep, s, t
<1>4. CASE PollReadyErr(s) /\ ClientBecomes(r, "failed") /\ ClientStreamsDropped(r)
  <2>1. quic' = Dropped(s, t)
    BY <1>4 DEF ClientStreamsDropped
  <2> HIDE DEF s, t
  <2>2. /\ send' \in [Streams -> [stream : {"here", "future"}, writing : Seq(Nat)]]
        /\ send'[s].writing = send[s].writing /\ \A u \in Streams : u # s => send'[u] = send[u]
        /\ frames' = frames /\ recv' = recv /\ lost' = lost
    BY <1>1, <1>4, PollReadyErrDoes
  <2>3. ClientLeavesStreams(r)
    BY <1>1, <1>2, <2>1, <2>2 DEF ClientLeavesStreams, s, t
  <2> QED  BY <1>2, <1>4, <2>3, ClientLeavesMoves DEF ClientBusy
<1> QED  BY <1>3, <1>4 DEF ClientFlushes

LEMMA ClientFinishesMoves ==
    ASSUME IInv, NEW r \in Requests, ClientFinishes(r)
    PROVE  Moves(r)
<1> DEFINE s == RequestStream(r)
           t == ResponseStream(r)
<1>1. s \in Streams /\ t \in Streams /\ s # t /\ StreamsOK /\ CallInv(r)
  BY StreamNames DEF IInv, TypeOK
<1>2. /\ client[r] = "send" /\ quic[s].fin = "open" /\ frames[s] = RequestFrames[r]
      /\ send[s] = [stream |-> "here", writing |-> <<>>]
      /\ UNCHANGED <<opened, accepted, acceptor, server, body>>
  BY <1>1 DEF ClientFinishes, CallInv, RequestInv
<1> DEFINE pc == IF client' = [client EXCEPT ![r] = "recv"] THEN "recv" ELSE "failed"
<1>3. /\ ClientBecomes(r, pc)
      /\ frames' = frames /\ send' = send /\ recv' = recv /\ lost' = lost
      /\ pc \in {"recv", "failed"}
      /\ quic' = IF lost THEN quic ELSE [quic EXCEPT ![s].fin = "finished"]
      /\ ~lost => pc = "recv"
  BY DEF ClientFinishes, PollFinish, PollFinishErr, ClientBecomes, streams
<1> HIDE DEF s, t, pc
<1>4. /\ StreamsOK' /\ OnlyStream(s)
      /\ \/ lost /\ quic'[s] = quic[s]
         \/ ~lost /\ pc = "recv" /\ quic'[s].fin = "finished" /\ quic'[s].bytes = quic[s].bytes
  BY <1>1, <1>3, FinishDoes
<1>5. OnlyStream(s) /\ Kept(t)
  BY <1>1, <1>4 DEF OnlyStream
<1>6. /\ TypeOK' /\ OrderInv' /\ server' = server /\ body' = body /\ client'[r] = pc
      /\ \A q \in Requests : q # r =>
           client'[q] = client[q] /\ server'[q] = server[q] /\ body'[q] = body[q]
  BY <1>2, <1>3, <1>4, ClientOnly DEF ClientPlaces
<1>7. StreamStep(s)
  BY <1>2, <1>3, <1>4 DEF StreamStep, Still, Finishes, SenderSame, WireSame, ReaderSame
<1>8. \A q \in Requests : q # r => Untouched(q)
  BY <1>5, <1>6, OthersUntouched DEF OnlyStream, s
<1>9. RequestInv(r)'
  BY <1>1, <1>2, <1>3, <1>4, <1>6 DEF CallInv, RequestInv, s
<1>10. ResponseInv(r)'
  BY <1>1, <1>2, <1>3, <1>5, <1>6 DEF CallInv, ResponseInv, Kept, t
<1>11. BodyInv(r)' /\ DoneInv(r)'
  BY <1>1, <1>2, <1>3, <1>6 DEF CallInv, BodyInv, DoneInv, ServiceCalled, WholeBody
<1> QED  BY <1>3, <1>5, <1>6, <1>7, <1>8, <1>9, <1>10, <1>11, KeptIsStill
         DEF Moves, CallInv, s, t

LEMMA AbandonMoves ==
    ASSUME IInv, NEW r \in Requests, Abandon(r)
    PROVE  Moves(r)
<1> DEFINE s == RequestStream(r)
           t == ResponseStream(r)
<1>1. s \in Streams /\ t \in Streams /\ s # t /\ StreamsOK /\ CallInv(r)
  BY StreamNames DEF IInv, TypeOK
<1>2. /\ client[r] \in {"send", "recv"} /\ ~lost
      /\ ResetAndStop(s, t)
      /\ ClientBecomes(r, "gone")
      /\ UNCHANGED <<frames, send, recv, lost, opened, accepted, acceptor, server, body>>
  BY DEF Abandon, ResetAndStop
<1>3. quic[s].fin \in {"open", "finished"}
  BY <1>1, <1>2 DEF CallInv, RequestInv
<1> HIDE DEF s, t
<1>4. /\ quic'[s].bytes = quic[s].bytes /\ quic'[s].fin = "reset"
      /\ quic'[t].bytes = quic[t].bytes /\ quic'[t].fin = quic[t].fin
      /\ \A u \in Streams : u # s /\ u # t => quic'[u] = quic[u]
  BY <1>1, <1>2, ResetAndStopDoes
<1>5. StreamsOK'
  BY <1>1, <1>2, ResetAndStopDoes
<1>6. /\ TypeOK' /\ OrderInv' /\ server' = server /\ body' = body /\ client'[r] = "gone"
      /\ \A q \in Requests : q # r =>
           client'[q] = client[q] /\ server'[q] = server[q] /\ body'[q] = body[q]
  BY <1>2, <1>5, ClientOnly DEF ClientPlaces
<1>7. Leaves(s) /\ Still(t)
  BY <1>2, <1>3, <1>4 DEF Leaves, Still, SenderSame, WireSame, ReaderSame
<1>8. \A q \in Requests : q # r => Untouched(q)
  <2>1. \A u \in Streams : u # s /\ u # t => Kept(u)
    BY <1>2, <1>4 DEF Kept
  <2> QED  BY <1>6, <2>1, OthersUntouched DEF s, t
<1>9. RequestInv(r)'
  BY <1>1, <1>2, <1>4, <1>6 DEF CallInv, RequestInv, s
<1>10. ResponseInv(r)'
  BY <1>1, <1>2, <1>4, <1>6 DEF CallInv, ResponseInv, t
<1>11. BodyInv(r)' /\ DoneInv(r)'
  BY <1>1, <1>2, <1>6 DEF CallInv, BodyInv, DoneInv, ServiceCalled, WholeBody
<1> QED  BY <1>2, <1>6, <1>7, <1>8, <1>9, <1>10, <1>11 DEF Moves, CallInv, StreamStep, s, t
(* A stream that ends after whole frames, and not because its sender went  *)
(* away, has delivered all that was sent.                                  *)
LEMMA EndOfFinished ==
    ASSUME StreamsOK, NEW s \in Streams, StreamInv(s), quic[s].fin = "finished", AllRead(s)
    PROVE  recv[s].got = Bytes(frames[s])
<1>1. recv[s].got \in Seq(Nat) /\ recv[s].got \o <<>> = recv[s].got /\ <<>> \o <<>> = <<>>
  BY StreamTypes, ConcatEmptySeq, EmptySeq
<1> QED  BY <1>1 DEF AllRead, StreamInv

LEMMA ResponseEnds ==
    ASSUME IInv, NEW r \in Requests, client[r] = "recv", PollDataEnd(ResponseStream(r))
    PROVE  /\ server[r] = "done" /\ body[r] = WholeBody(r) /\ ~lost
           /\ recv[ResponseStream(r)].got = Bytes(frames[ResponseStream(r)])
<1> DEFINE s == RequestStream(r)
           t == ResponseStream(r)
<1>1. s \in Streams /\ t \in Streams /\ s # t /\ StreamsOK /\ CallInv(r)
  BY StreamNames DEF IInv, TypeOK
<1>2. ~lost /\ AllRead(t) /\ WholeFrames(t)
  BY DEF PollDataEnd
<1>3. recv[t].got # <<>>
  <2>1. \A i \in 1 .. Len(<<>>) : FALSE
    BY EmptySeq
  <2> QED  BY <1>2, <2>1 DEF WholeFrames
<1>4. quic[t].fin = "finished" /\ server[r] = "done"
  BY <1>1, <1>2, <1>3 DEF AllRead, CallInv, ResponseInv
<1>5. recv[t].got = Bytes(frames[t])
  BY <1>1, <1>2, <1>4, EndOfFinished DEF IInv
<1>6. body[r] = WholeBody(r)
  BY <1>1, <1>2, <1>4 DEF CallInv, BodyInv, ServiceCalled
<1> QED  BY <1>2, <1>4, <1>5, <1>6

LEMMA ClientReceivesMoves ==
    ASSUME IInv, NEW r \in Requests, ClientReceives(r)
    PROVE  Moves(r)
<1> DEFINE s == RequestStream(r)
           t == ResponseStream(r)
<1>1. s \in Streams /\ t \in Streams /\ s # t /\ StreamsOK /\ CallInv(r)
  BY StreamNames DEF IInv, TypeOK
<1>2. /\ client[r] = "recv" /\ recv[t].end = "open"
      /\ lost \/ quic[s].fin = "finished"
      /\ UNCHANGED <<opened, accepted, acceptor, server, body>>
  BY <1>1 DEF ClientReceives, CallInv, RequestInv, ResponseInv
<1>3. CASE (PollDataPending(t) \/ PollData(t)) /\ UNCHANGED client
  <2> HIDE DEF s, t
  <2>1. /\ StreamsOK' /\ (Still(t) \/ Reads(t))
        /\ quic[t].bytes = <<>> => quic'[t].bytes = <<>> /\ recv'[t].got = recv[t].got
        /\ recv'[t].end = "open"
        /\ quic'[t].fin = quic[t].fin /\ quic'[t].stopped = quic[t].stopped
        /\ frames' = frames /\ send' = send /\ lost' = lost
        /\ OnlyStream(t)
    BY <1>1, <1>2, <1>3, ReadDoes
  <2>2. /\ TypeOK' /\ OrderInv' /\ server' = server /\ body' = body /\ client'[r] = "recv"
        /\ \A q \in Requests : q # r =>
             client'[q] = client[q] /\ server'[q] = server[q] /\ body'[q] = body[q]
    BY <1>2, <1>3, <2>1, ClientOnly DEF ClientPlaces
  <2>3. Kept(s)
    BY <1>1, <2>1 DEF OnlyStream
  <2>4. \A q \in Requests : q # r => Untouched(q)
    BY <2>1, <2>2, OthersUntouched DEF OnlyStream, t
  <2>5. RequestInv(r)'
    BY <1>1, <1>2, <2>1, <2>2, <2>3 DEF CallInv, RequestInv, Kept, s
  <2>6. ResponseInv(r)'
    BY <1>1, <1>2, <2>1, <2>2 DEF CallInv, ResponseInv, t
  <2>7. BodyInv(r)' /\ DoneInv(r)'
    BY <1>1, <1>2, <2>1, <2>2 DEF CallInv, BodyInv, DoneInv, ServiceCalled, WholeBody
  <2> QED  BY <2>1, <2>2, <2>3, <2>4, <2>5, <2>6, <2>7, KeptIsStill
           DEF Moves, CallInv, StreamStep, s, t
<1>4. CASE \/ PollDataEnd(t) /\ ClientBecomes(r, "done") /\ ClientStreamsDropped(r)
           \/ PollDataFails(t) /\ ClientBecomes(r, "failed") /\ ClientStreamsDropped(r)
  <2>1. quic' = Dropped(s, t)
    BY <1>4 DEF ClientStreamsDropped
  <2>2. PollDataEnd(t) =>
          /\ server[r] = "done" /\ body[r] = WholeBody(r) /\ ~lost
          /\ recv[t].got = Bytes(frames[t])
    BY <1>2, ResponseEnds
  <2> HIDE DEF s, t
  <2>3. /\ recv' \in [Streams -> [stream : {"here", "future"}, got : Seq(Nat),
                                  end : {"open", "end", "failed"}]]
        /\ recv'[t].got = recv[t].got
        /\ recv'[t].end = "failed" \/ (recv'[t].end = "end" /\ AllRead(t))
        /\ \A u \in Streams : u # t => recv'[u] = recv[u]
        /\ frames' = frames /\ send' = send /\ lost' = lost
    BY <1>1, <1>2, <1>4, EndDoes
  <2>4. /\ quic' \in [Streams -> [bytes : Seq(Nat), stopped : BOOLEAN,
                                  fin : {"open", "finished", "dropped", "reset"}]]
        /\ quic'[s].bytes = quic[s].bytes /\ quic'[s].fin = quic[s].fin
        /\ quic'[t].bytes = quic[t].bytes /\ quic'[t].fin = quic[t].fin
        /\ \A u \in Streams : u # s /\ u # t => quic'[u] = quic[u]
    BY <1>1, <1>2, <2>1, DroppedDoes
  <2>5. StreamsOK'
    BY <1>1, <2>3, <2>4 DEF StreamsOK
  <2>6. /\ TypeOK' /\ OrderInv' /\ server' = server /\ body' = body
        /\ \/ PollDataEnd(t) /\ client'[r] = "done"
           \/ client'[r] = "failed"
        /\ \A q \in Requests : q # r =>
             client'[q] = client[q] /\ server'[q] = server[q] /\ body'[q] = body[q]
    BY <1>2, <1>4, <2>5, ClientOnly DEF ClientPlaces
  <2>7. Still(s) /\ Ends(t)
    BY <1>1, <1>2, <2>3, <2>4 DEF Still, Ends, SenderSame, WireSame, ReaderSame
  <2>8. \A q \in Requests : q # r => Untouched(q)
    <3>1. \A u \in Streams : u # s /\ u # t => Kept(u)
      BY <2>3, <2>4 DEF Kept
    <3> QED  BY <2>6, <3>1, OthersUntouched DEF s, t
  <2>9. RequestInv(r)'
    BY <1>1, <1>2, <2>2, <2>3, <2>4, <2>6 DEF CallInv, RequestInv, s
  <2>10. ResponseInv(r)'
    BY <1>1, <1>2, <2>3, <2>4, <2>6 DEF CallInv, ResponseInv, t
  <2>11. BodyInv(r)' /\ DoneInv(r)'
    BY <1>1, <1>2, <2>2, <2>3, <2>6 DEF CallInv, BodyInv, DoneInv, ServiceCalled, WholeBody, t
  <2> QED  BY <2>3, <2>6, <2>7, <2>8, <2>9, <2>10, <2>11 DEF Moves, CallInv, StreamStep, s, t
<1> QED  BY <1>3, <1>4 DEF ClientReceives

----------------------------------------------------------------------------
(* Steps that touch no stream *)

NoStream == frames' = frames /\ send' = send /\ quic' = quic /\ recv' = recv

LEMMA OpenMoves ==
    ASSUME IInv, NEW r \in Requests, Open(r)
    PROVE  Moves(r)
<1> DEFINE s == RequestStream(r)
           t == ResponseStream(r)
<1>1. s \in Streams /\ t \in Streams /\ s # t /\ StreamsOK /\ CallInv(r)
  BY StreamNames DEF IInv, TypeOK
<1>2. /\ client[r] = "idle" /\ opened' = Append(opened, r) /\ ClientBecomes(r, "send")
      /\ NoStream /\ UNCHANGED <<lost, accepted, acceptor, server, body>>
  BY DEF Open, NoStream, streams
<1> HIDE DEF s, t
<1>3. /\ client' \in [Requests -> ClientPlaces] /\ client'[r] = "send"
      /\ \A q \in Requests : q # r => client'[q] = client[q]
  BY <1>2 DEF ClientBecomes, ClientPlaces, ClientBusy, IInv, TypeOK
<1>4. opened \in Seq(Requests) /\ Len(opened) \in Nat /\ accepted \in 0 .. Len(opened)
  BY LenProperties DEF IInv, TypeOK
<1>5. /\ opened' \in Seq(Requests) /\ Len(opened') = Len(opened) + 1
      /\ \A i \in 1 .. Len(opened) : opened'[i] = opened[i] /\ opened[i] \in Requests
      /\ opened'[Len(opened) + 1] = r
  BY <1>2, <1>4, AppendProperties, ElementOfSeq
<1>6. TypeOK'
  <2>1. StreamsOK'
    BY <1>1, <1>2 DEF NoStream, StreamsOK
  <2>2. accepted' \in 0 .. Len(opened')
    BY <1>2, <1>4, <1>5
  <2> QED  BY <1>2, <1>3, <1>5, <2>1, <2>2 DEF IInv, TypeOK, ClientPlaces, ClientBusy
<1>7. OrderInv'
  <2>1. \A i \in 1 .. Len(opened) : opened[i] # r /\ client[opened[i]] # "idle"
    BY <1>2 DEF IInv, OrderInv
  <2>2. \A i \in 1 .. Len(opened') : i \in 1 .. Len(opened) \/ i = Len(opened) + 1
    BY <1>4, <1>5
  <2>3. \A i, j \in 1 .. Len(opened') : opened'[i] = opened'[j] => i = j
    BY <1>5, <2>1, <2>2 DEF IInv, OrderInv
  <2>4. \A i \in 1 .. Len(opened') : client'[opened'[i]] # "idle"
    BY <1>3, <1>5, <2>1, <2>2
  <2>5. \A i \in accepted' + 1 .. Len(opened') :
          server'[opened'[i]] = "none" /\ acceptor' # opened'[i]
    <3>1. ASSUME NEW i \in accepted' + 1 .. Len(opened')
          PROVE  server'[opened'[i]] = "none" /\ acceptor' # opened'[i]
      <4>1. CASE i = Len(opened) + 1
        BY <1>2, <1>5, <4>1 DEF IInv, OrderInv
      <4>2. CASE i # Len(opened) + 1
        <5>1. i \in accepted + 1 .. Len(opened) /\ i \in 1 .. Len(opened)
          BY <1>2, <1>4, <1>5, <4>2
        <5> QED  BY <1>2, <1>5, <5>1 DEF IInv, OrderInv
      <4> QED  BY <4>1, <4>2
    <3> QED  BY <3>1
  <2>6. \A q \in Requests :
          /\ acceptor' = q => server'[q] = "none"
          /\ client'[q] = "idle" => server'[q] = "none" /\ acceptor' # q
    BY <1>2, <1>3 DEF IInv, OrderInv
  <2> QED  BY <2>3, <2>4, <2>5, <2>6 DEF OrderInv
<1>8. Kept(s) /\ Kept(t) /\ \A q \in Requests : q # r => Untouched(q)
  BY <1>2, <1>3 DEF NoStream, Kept, Untouched
<1>9. RequestInv(r)'
  BY <1>1, <1>2, <1>3 DEF NoStream, CallInv, RequestInv, s
<1>10. ResponseInv(r)'
  BY <1>1, <1>2, <1>3 DEF NoStream, CallInv, ResponseInv, t
<1>11. BodyInv(r)' /\ DoneInv(r)'
  BY <1>1, <1>2, <1>3 DEF CallInv, BodyInv, DoneInv, ServiceCalled, WholeBody
<1> QED  BY <1>2, <1>6, <1>7, <1>8, <1>9, <1>10, <1>11, KeptIsStill DEF Moves, CallInv, s, t

(* Steps of the accept loop, and the loss of the connection. *)
LEMMA LoopKeeps ==
    ASSUME IInv, NoStream, UNCHANGED <<opened, client, server, body>>,
           lost' \in BOOLEAN, lost => lost',
           accepted' \in 0 .. Len(opened),
           acceptor' \in Requests \cup {Accepting, "ended"},
           OrderInv'
    PROVE  IInv' /\ Promise!Next
<1>1. TypeOK'
  BY DEF IInv, TypeOK, StreamsOK, NoStream
<1>2. \A q \in Requests : Untouched(q)
  BY DEF Untouched, Kept, NoStream
<1>3. \A q \in Requests : CallInv(q)'
  BY <1>2, UntouchedKeeps DEF IInv
<1>4. \A s \in Streams : StreamInv(s)' /\ Promise!Step(s)
  <2>1. \A s \in Streams : Kept(s)
    BY DEF Kept, NoStream
  <2> QED  BY <2>1, KeptIsStill, StepsKeep DEF IInv, TypeOK
<1> QED  BY <1>1, <1>3, <1>4 DEF IInv, Promise!Next

LEMMA AcceptKeeps ==
    ASSUME IInv, Accept
    PROVE  IInv' /\ Promise!Next
<1>1. opened \in Seq(Requests) /\ Len(opened) \in Nat /\ accepted \in 0 .. Len(opened)
  BY LenProperties DEF IInv, TypeOK
<1>2. /\ accepted + 1 \in 1 .. Len(opened) /\ opened[accepted + 1] \in Requests
      /\ accepted' = accepted + 1 /\ acceptor' = opened[accepted + 1]
      /\ NoStream /\ UNCHANGED <<lost, opened, client, server, body>>
  <2>1. accepted + 1 \in 1 .. Len(opened)
    BY <1>1 DEF Accept
  <2> QED  BY <1>1, <2>1, ElementOfSeq DEF Accept, NoStream, streams
<1>3. OrderInv'
  <2>1. server[opened[accepted + 1]] = "none" /\ client[opened[accepted + 1]] # "idle"
    BY <1>1, <1>2 DEF IInv, OrderInv
  <2>2. ASSUME NEW i \in accepted' + 1 .. Len(opened)
        PROVE  server[opened[i]] = "none" /\ opened[accepted + 1] # opened[i]
    <3>1. i \in accepted + 1 .. Len(opened) /\ i \in 1 .. Len(opened) /\ i # accepted + 1
      BY <1>1, <1>2
    <3> QED  BY <1>2, <3>1 DEF IInv, OrderInv
  <2> QED  BY <1>2, <2>1, <2>2 DEF IInv, OrderInv
<1>4. accepted' \in 0 .. Len(opened)
  BY <1>1, <1>2
<1> QED  BY <1>2, <1>3, <1>4, LoopKeeps DEF IInv, TypeOK, StreamsOK

LEMMA StopAcceptingKeeps ==
    ASSUME IInv, StopAccepting
    PROVE  IInv' /\ Promise!Next
<1>1. /\ acceptor' = "ended" /\ "ended" \notin Requests
      /\ NoStream /\ UNCHANGED <<lost, opened, accepted, client, server, body>>
  BY FramesAssumption DEF StopAccepting, NoStream, streams
<1>2. OrderInv'
  <2>1. \A i \in accepted + 1 .. Len(opened) : opened[i] \in Requests
    BY ElementOfSeq, LenProperties DEF IInv, TypeOK
  <2> QED  BY <1>1, <2>1 DEF IInv, OrderInv
<1> QED  BY <1>1, <1>2, LoopKeeps DEF IInv, TypeOK, StreamsOK

LEMMA LoseConnectionKeeps ==
    ASSUME IInv, LoseConnection, UNCHANGED control
    PROVE  IInv' /\ Promise!Next
<1>1. /\ lost' = TRUE /\ NoStream
      /\ UNCHANGED <<opened, accepted, acceptor, client, server, body>>
  BY DEF LoseConnection, NoStream, control
<1>2. OrderInv'
  BY <1>1 DEF IInv, OrderInv
<1> QED  BY <1>1, <1>2, LoopKeeps DEF IInv, TypeOK
----------------------------------------------------------------------------
(* Steps of the server *)

LEMMA ServerOnly ==
    ASSUME IInv, NEW r \in Requests, server[r] # "none",
           NEW pc \in ServerPlaces \ {"none"}, ServerBecomes(r, pc) \/ UNCHANGED server,
           UNCHANGED <<opened, accepted, acceptor, client>>,
           body' \in [Requests -> Seq(Nat)], \A q \in Requests : q # r => body'[q] = body[q],
           StreamsOK'
    PROVE  /\ TypeOK' /\ OrderInv' /\ client' = client
           /\ server'[r] = pc \/ server'[r] = server[r]
           /\ ServerBecomes(r, pc) => server'[r] = pc
           /\ \A q \in Requests : q # r =>
                client'[q] = client[q] /\ server'[q] = server[q] /\ body'[q] = body[q]
<1>1. /\ server' \in [Requests -> ServerPlaces]
      /\ server'[r] = pc \/ server'[r] = server[r]
      /\ ServerBecomes(r, pc) => server'[r] = pc
      /\ \A q \in Requests : q # r => server'[q] = server[q]
  BY DEF IInv, TypeOK, ServerBecomes, ServerPlaces, ServerBusy
<1>2. TypeOK'
  BY <1>1 DEF IInv, TypeOK, ServerPlaces, ServerBusy
<1>3. OrderInv'
  BY <1>1, OrderKept DEF IInv
<1> QED  BY <1>1, <1>2, <1>3

LEMMA ResolveMoves ==
    ASSUME IInv, NEW r \in Requests, Resolve(r)
    PROVE  Moves(r)
<1> DEFINE s == RequestStream(r)
           t == ResponseStream(r)
<1>1. s \in Streams /\ t \in Streams /\ s # t /\ StreamsOK /\ CallInv(r)
  BY StreamNames DEF IInv, TypeOK
<1>2. /\ acceptor = r /\ server[r] = "none" /\ client[r] # "idle"
      /\ recv[s].end = "open" /\ quic[t].fin = "open" /\ client[r] # "done"
      /\ \A i \in accepted + 1 .. Len(opened) : opened[i] # r /\ opened[i] \in Requests
      /\ UNCHANGED <<opened, accepted, client, body>>
  <2>1. \A i \in accepted + 1 .. Len(opened) : opened[i] \in Requests
    BY ElementOfSeq, LenProperties DEF IInv, TypeOK
  <2> QED  BY <1>1, <2>1 DEF Resolve, IInv, OrderInv, CallInv, RequestInv, ResponseInv, DoneInv
<1>3. ASSUME StreamsOK', NEW pc \in {"none", "recv", "refused"},
             \/ pc = "none" /\ UNCHANGED <<server, acceptor>>
             \/ pc # "none" /\ ServerBecomes(r, pc) /\ acceptor' = Accepting
      PROVE  /\ TypeOK' /\ OrderInv' /\ server'[r] = pc
             /\ \A q \in Requests : q # r =>
                  client'[q] = client[q] /\ server'[q] = server[q] /\ body'[q] = body[q]
  <2>1. CASE pc = "none" /\ UNCHANGED <<server, acceptor>>
    <3>1. TypeOK'
      BY <1>2, <1>3, <2>1 DEF IInv, TypeOK
    <3>2. OrderInv'
      BY <1>2, <2>1, OrderKept DEF IInv
    <3> QED  BY <1>2, <2>1, <3>1, <3>2
  <2>2. CASE pc # "none" /\ ServerBecomes(r, pc) /\ acceptor' = Accepting
    <3>1. /\ server' \in [Requests -> ServerPlaces] /\ server'[r] = pc
          /\ \A q \in Requests : q # r => server'[q] = server[q]
      BY <2>2 DEF IInv, TypeOK, ServerBecomes, ServerPlaces, ServerBusy
    <3>2. TypeOK'
      BY <1>2, <1>3, <2>2, <3>1 DEF IInv, TypeOK, ServerPlaces, ServerBusy
    <3>3. OrderInv'
      <4>1. Accepting \notin Requests
        BY FramesAssumption
      <4> QED  BY <1>2, <2>2, <3>1, <4>1 DEF IInv, OrderInv
    <3> QED  BY <1>2, <3>1, <3>2, <3>3
  <2> QED  BY <1>3, <2>1, <2>2
<1>4. CASE /\ PollDataPending(s) \/ PollData(s)
           /\ IF Len(recv'[s].got) >= FrameLen
              THEN ServerBecomes(r, "recv") /\ acceptor' = Accepting
              ELSE UNCHANGED <<server, acceptor>>
  <2> DEFINE pc == IF Len(recv'[s].got) >= FrameLen THEN "recv" ELSE "none"
  <2>1. /\ StreamsOK' /\ (Still(s) \/ Reads(s))
        /\ recv'[s].end = "open"
        /\ quic'[s].fin = quic[s].fin
        /\ frames' = frames /\ send' = send /\ lost' = lost
        /\ OnlyStream(s)
    BY <1>1, <1>2, <1>4, ReadDoes
  <2>2. /\ TypeOK' /\ OrderInv' /\ server'[r] = pc
        /\ \A q \in Requests : q # r =>
             client'[q] = client[q] /\ server'[q] = server[q] /\ body'[q] = body[q]
    BY <1>3, <1>4, <2>1
  <2>3. pc \in {"none", "recv"}
    OBVIOUS
  <2> HIDE DEF s, t, pc
  <2>4. Kept(t)
    BY <1>1, <2>1 DEF OnlyStream
  <2>5. \A q \in Requests : q # r => Untouched(q)
    BY <2>1, <2>2, OthersUntouched DEF OnlyStream, s
  <2>6. RequestInv(r)'
    BY <1>1, <1>2, <2>1, <2>2, <2>3 DEF CallInv, RequestInv, s
  <2>7. ResponseInv(r)'
    BY <1>1, <1>2, <2>1, <2>2, <2>3, <2>4 DEF CallInv, ResponseInv, Kept, t
  <2>8. BodyInv(r)' /\ DoneInv(r)'
    BY <1>2, <2>2, <2>3 DEF BodyInv, DoneInv, ServiceCalled
  <2> QED  BY <2>1, <2>2, <2>4, <2>5, <2>6, <2>7, <2>8, KeptIsStill
           DEF Moves, CallInv, StreamStep, s, t
<1>5. CASE /\ PollDataFails(s) /\ ServerBecomes(r, "refused") /\ ServerStreamsDropped(r)
           /\ acceptor' = Accepting
  <2>1. quic' = Dropped(t, s)
    BY <1>5 DEF ServerStreamsDropped
  <2> HIDE DEF s, t
  <2>2. /\ recv' \in [Streams -> [stream : {"here", "future"}, got : Seq(Nat),
                                  end : {"open", "end", "failed"}]]
        /\ recv'[s].got = recv[s].got /\ recv'[s].end = "failed"
        /\ \A u \in Streams : u # s => recv'[u] = recv[u]
        /\ frames' = frames /\ send' = send /\ lost' = lost
    BY <1>1, <1>2, <1>5, EndDoes
  <2>3. /\ quic' \in [Streams -> [bytes : Seq(Nat), stopped : BOOLEAN,
                                  fin : {"open", "finished", "dropped", "reset"}]]
        /\ quic'[t].bytes = quic[t].bytes /\ quic'[t].stopped = quic[t].stopped
        /\ quic'[t].fin \in {"open", "dropped", "reset"}
        /\ quic'[s].bytes = quic[s].bytes /\ quic'[s].fin = quic[s].fin
        /\ \A u \in Streams : u # s /\ u # t => quic'[u] = quic[u]
    <3>1. /\ IF lost \/ quic[t].fin # "open" THEN quic'[t].fin = quic[t].fin
             ELSE quic'[t].fin = IF quic[t].stopped THEN "reset" ELSE "dropped"
          /\ quic'[t].bytes = quic[t].bytes /\ quic'[t].stopped = quic[t].stopped
          /\ quic'[s].bytes = quic[s].bytes /\ quic'[s].fin = quic[s].fin
          /\ \A u \in Streams : u # t /\ u # s => quic'[u] = quic[u]
      BY <1>1, <2>1, DroppedDoes
    <3>2. quic' \in [Streams -> [bytes : Seq(Nat), stopped : BOOLEAN,
                                 fin : {"open", "finished", "dropped", "reset"}]]
      BY <1>1, <2>1, DroppedDoes
    <3>3. quic'[t].fin \in {"open", "dropped", "reset"}
      BY <1>2, <3>1
    <3> QED  BY <3>1, <3>2, <3>3
  <2>4. StreamsOK'
    BY <1>1, <2>2, <2>3 DEF StreamsOK
  <2>5. /\ TypeOK' /\ OrderInv' /\ server'[r] = "refused"
        /\ \A q \in Requests : q # r =>
             client'[q] = client[q] /\ server'[q] = server[q] /\ body'[q] = body[q]
    BY <1>3, <1>5, <2>4
  <2>6. Ends(s) /\ (Still(t) \/ Leaves(t))
    BY <1>1, <1>2, <2>2, <2>3 DEF Still, Ends, Leaves, SenderSame, WireSame, ReaderSame
  <2>7. \A q \in Requests : q # r => Untouched(q)
    <3>1. \A u \in Streams : u # s /\ u # t => Kept(u)
      BY <2>2, <2>3 DEF Kept
    <3> QED  BY <2>5, <3>1, OthersUntouched DEF s, t
  <2>8. RequestInv(r)'
    BY <1>1, <1>2, <2>2, <2>3, <2>5 DEF CallInv, RequestInv, s
  <2>9. ResponseInv(r)'
    BY <1>1, <1>2, <2>2, <2>3, <2>5 DEF CallInv, ResponseInv, t
  <2>10. BodyInv(r)' /\ DoneInv(r)'
    BY <1>2, <2>5 DEF BodyInv, DoneInv, ServiceCalled
  <2> QED  BY <2>2, <2>5, <2>6, <2>7, <2>8, <2>9, <2>10 DEF Moves, CallInv, StreamStep, s, t
<1> QED  BY <1>4, <1>5 DEF Resolve

(* What a service is called with, unless the client or the connection is   *)
(* gone.                                                                   *)
LEMMA RequestEnds ==
    ASSUME IInv, NEW r \in Requests, server[r] = "recv",
           PollDataEnd(RequestStream(r)) \/ PollDataFails(RequestStream(r))
    PROVE  \/ lost \/ client[r] \in {"gone", "failed"}
           \/ recv[RequestStream(r)].got = Bytes(RequestFrames[r])
<1> DEFINE s == RequestStream(r)
           t == ResponseStream(r)
<1>1. s \in Streams /\ t \in Streams /\ s # t /\ StreamsOK /\ CallInv(r)
  BY StreamNames DEF IInv, TypeOK
<1> SUFFICES ASSUME ~lost, client[r] \notin {"gone", "failed"}
             PROVE  recv[s].got = Bytes(RequestFrames[r])
  OBVIOUS
<1>2. quic[s].fin \in {"open", "finished"}
  BY <1>1 DEF CallInv, RequestInv, StreamsOK
<1>3. AllRead(s) /\ quic[s].fin = "finished" /\ frames[s] = RequestFrames[r]
  BY <1>1, <1>2 DEF PollDataEnd, PollDataFails, AllRead, CallInv, RequestInv
<1> QED  BY <1>1, <1>3, EndOfFinished DEF IInv

LEMMA ServerReceivesMoves ==
    ASSUME IInv, NEW r \in Requests, ServerReceives(r)
    PROVE  Moves(r)
<1> DEFINE s == RequestStream(r)
           t == ResponseStream(r)
<1>1. s \in Streams /\ t \in Streams /\ s # t /\ StreamsOK /\ CallInv(r)
  BY StreamNames DEF IInv, TypeOK
<1>2. /\ server[r] = "recv" /\ recv[s].end = "open" /\ client[r] # "done"
      /\ UNCHANGED <<opened, accepted, acceptor, client>>
  BY <1>1 DEF ServerReceives, CallInv, RequestInv, DoneInv
<1>3. CASE (PollDataPending(s) \/ PollData(s)) /\ UNCHANGED <<server, body>>
  <2> HIDE DEF s, t
  <2>1. /\ StreamsOK' /\ (Still(s) \/ Reads(s))
        /\ recv'[s].end = "open"
        /\ quic'[s].fin = quic[s].fin
        /\ frames' = frames /\ send' = send /\ lost' = lost
        /\ OnlyStream(s)
    BY <1>1, <1>2, <1>3, ReadDoes
  <2>2. /\ TypeOK' /\ OrderInv' /\ client' = client /\ server'[r] = "recv"
        /\ \A q \in Requests : q # r =>
             client'[q] = client[q] /\ server'[q] = server[q] /\ body'[q] = body[q]
    BY <1>2, <1>3, <2>1, ServerOnly DEF ServerPlaces, IInv, TypeOK
  <2>3. Kept(t)
    BY <1>1, <2>1 DEF OnlyStream
  <2>4. \A q \in Requests : q # r => Untouched(q)
    BY <2>1, <2>2, OthersUntouched DEF OnlyStream, s
  <2>5. RequestInv(r)'
    BY <1>1, <1>2, <2>1, <2>2 DEF CallInv, RequestInv, s
  <2>6. ResponseInv(r)'
    BY <1>1, <1>2, <2>1, <2>2, <2>3 DEF CallInv, ResponseInv, Kept, t
  <2>7. BodyInv(r)' /\ DoneInv(r)'
    BY <1>2, <2>2 DEF BodyInv, DoneInv, ServiceCalled
  <2> QED  BY <2>1, <2>2, <2>3, <2>4, <2>5, <2>6, <2>7, KeptIsStill
           DEF Moves, CallInv, StreamStep, s, t
<1>4. CASE (PollDataEnd(s) \/ PollDataFails(s)) /\ CallService(r) /\ UNCHANGED quic
  <2> DEFINE read == SubSeq(recv[s].got, FrameLen + 1, Len(recv[s].got))
  <2>1. /\ ServerBecomes(r, "send") /\ body' = [body EXCEPT ![r] = read]
    BY <1>4 DEF CallService
  <2>2. read \in Seq(Nat)
    <3>1. recv[s].got \in Seq(Nat) /\ Len(recv[s].got) \in Nat /\ FrameLen \in Nat
      BY <1>1, StreamTypes, LengthAssumption
    <3>2. \A i \in FrameLen + 1 .. Len(recv[s].got) : recv[s].got[i] \in Nat
      BY <3>1, ElementOfSeq
    <3> QED  BY <3>1, <3>2, SubSeqProperties
  <2>3. lost \/ client[r] \in {"gone", "failed"} \/ read = WholeBody(r)
    BY <1>2, <1>4, RequestEnds, BodyOfBytes
  <2> HIDE DEF s, t, read
  <2>4. /\ recv' \in [Streams -> [stream : {"here", "future"}, got : Seq(Nat),
                                  end : {"open", "end", "failed"}]]
        /\ recv'[s].stream = "here" /\ recv'[s].got = recv[s].got
        /\ recv'[s].end = "failed" \/ (recv'[s].end = "end" /\ AllRead(s))
        /\ \A u \in Streams : u # s => recv'[u] = recv[u]
        /\ frames' = frames /\ send' = send /\ lost' = lost
    BY <1>1, <1>2, <1>4, EndDoes
  <2>5. StreamsOK' /\ OnlyStream(s) /\ Kept(t)
    BY <1>1, <1>4, <2>4 DEF StreamsOK, OnlyStream, Kept
  <2>6. /\ body' \in [Requests -> Seq(Nat)] /\ body'[r] = read
        /\ \A q \in Requests : q # r => body'[q] = body[q]
    BY <2>1, <2>2 DEF IInv, TypeOK
  <2>7. /\ TypeOK' /\ OrderInv' /\ client' = client /\ server'[r] = "send"
        /\ \A q \in Requests : q # r =>
             client'[q] = client[q] /\ server'[q] = server[q] /\ body'[q] = body[q]
    BY <1>2, <2>1, <2>5, <2>6, ServerOnly DEF ServerPlaces
  <2>8. Ends(s)
    BY <1>2, <1>4, <2>4 DEF Ends, SenderSame, WireSame
  <2>9. \A q \in Requests : q # r => Untouched(q)
    BY <2>5, <2>7, OthersUntouched DEF OnlyStream, s
  <2>10. RequestInv(r)'
    BY <1>1, <1>2, <1>4, <2>4, <2>7 DEF CallInv, RequestInv, s
  <2>11. ResponseInv(r)'
    BY <1>1, <1>2, <2>5, <2>7 DEF CallInv, ResponseInv, Kept, t
  <2>12. BodyInv(r)' /\ DoneInv(r)'
    BY <1>2, <2>3, <2>4, <2>6, <2>7 DEF BodyInv, DoneInv, WholeBody
  <2> QED  BY <2>4, <2>5, <2>7, <2>8, <2>9, <2>10, <2>11, <2>12, KeptIsStill
           DEF Moves, CallInv, StreamStep, s, t
<1> QED  BY <1>3, <1>4 DEF ServerReceives
LEMMA ServerSendsMoves ==
    ASSUME IInv, NEW r \in Requests, ServerSends(r)
    PROVE  Moves(r)
<1> DEFINE s == RequestStream(r)
           t == ResponseStream(r)
<1>1. s \in Streams /\ t \in Streams /\ s # t /\ StreamsOK /\ CallInv(r)
  BY StreamNames DEF IInv, TypeOK
<1>2. /\ server[r] = "send" /\ SendData(t) /\ ServerBecomes(r, "flush")
      /\ UNCHANGED <<opened, accepted, acceptor, client, body>>
  BY DEF ServerSends
<1>3. /\ quic[t].fin = "open" /\ send[t] = [stream |-> "here", writing |-> <<>>]
      /\ client[r] # "done"
  BY <1>1, <1>2 DEF CallInv, ResponseInv, DoneInv
<1> HIDE DEF s, t
<1>4. /\ StreamsOK' /\ frames'[t] = frames[t] + 1
      /\ send'[t] = [stream |-> send[t].stream, writing |-> Frame(frames[t] + 1)]
      /\ quic' = quic /\ recv' = recv /\ lost' = lost /\ OnlyStream(t)
  BY <1>1, <1>2, SendDataDoes
<1>5. Sends(t)
  BY <1>3, <1>4 DEF Sends, WireSame, ReaderSame
<1>6. Kept(s)
  BY <1>1, <1>4 DEF OnlyStream
<1>7. /\ TypeOK' /\ OrderInv' /\ client' = client /\ server'[r] = "flush"
      /\ \A q \in Requests : q # r =>
           client'[q] = client[q] /\ server'[q] = server[q] /\ body'[q] = body[q]
  BY <1>2, <1>4, ServerOnly DEF ServerPlaces, IInv, TypeOK
<1>8. \A q \in Requests : q # r => Untouched(q)
  BY <1>4, <1>7, OthersUntouched DEF OnlyStream, t
<1>9. RequestInv(r)'
  BY <1>1, <1>2, <1>4, <1>6, <1>7 DEF CallInv, RequestInv, Kept, s
<1>10. ResponseInv(r)'
  BY <1>1, <1>2, <1>3, <1>4, <1>7 DEF CallInv, ResponseInv, t
<1>11. BodyInv(r)' /\ DoneInv(r)'
  BY <1>1, <1>2, <1>3, <1>4, <1>7 DEF CallInv, BodyInv, DoneInv, ServiceCalled, WholeBody
<1> QED  BY <1>4, <1>5, <1>6, <1>7, <1>8, <1>9, <1>10, <1>11, KeptIsStill
         DEF Moves, CallInv, StreamStep, s, t

LEMMA ServerFlushesMoves ==
    ASSUME IInv, NEW r \in Requests, ServerFlushes(r)
    PROVE  Moves(r)
<1> DEFINE s == RequestStream(r)
           t == ResponseStream(r)
<1>1. s \in Streams /\ t \in Streams /\ s # t /\ StreamsOK /\ CallInv(r)
  BY StreamNames DEF IInv, TypeOK
<1>2. /\ server[r] = "flush" /\ quic[t].fin = "open" /\ StreamInv(t) /\ client[r] # "done"
      /\ UNCHANGED <<opened, accepted, acceptor, client, body>>
  BY <1>1 DEF ServerFlushes, CallInv, ResponseInv, DoneInv, IInv
<1>3. CASE \/ PollReadyPending(t) /\ UNCHANGED server
           \/ PollReadyOk(t) /\ ServerBecomes(r, "send")
  <2> HIDE DEF s, t
  <2>1. /\ StreamsOK' /\ Writes(t)
        /\ PollReadyOk(t) => send'[t] = [stream |-> "here", writing |-> <<>>]
        /\ quic'[t].fin = "open" /\ quic'[t].stopped = quic[t].stopped
        /\ frames' = frames /\ recv' = recv /\ lost' = lost
        /\ OnlyStream(t)
    BY <1>1, <1>2, <1>3, PollReadyDoes
  <2>2. /\ TypeOK' /\ OrderInv' /\ client' = client
        /\ \/ PollReadyPending(t) /\ server'[r] = "flush"
           \/ PollReadyOk(t) /\ server'[r] = "send"
        /\ \A q \in Requests : q # r =>
             client'[q] = client[q] /\ server'[q] = server[q] /\ body'[q] = body[q]
    BY <1>2, <1>3, <2>1, ServerOnly DEF ServerPlaces, IInv, TypeOK
  <2>3. Kept(s)
    BY <1>1, <2>1 DEF OnlyStream
  <2>4. \A q \in Requests : q # r => Untouched(q)
    BY <2>1, <2>2, OthersUntouched DEF OnlyStream, t
  <2>5. RequestInv(r)'
    BY <1>1, <1>2, <2>1, <2>2, <2>3 DEF CallInv, RequestInv, Kept, s
  <2>6. ResponseInv(r)'
    BY <1>1, <1>2, <2>1, <2>2 DEF CallInv, ResponseInv, t
  <2>7. BodyInv(r)' /\ DoneInv(r)'
    BY <1>1, <1>2, <2>1, <2>2 DEF CallInv, BodyInv, DoneInv, ServiceCalled, WholeBody
  <2> QED  BY <2>1, <2>2, <2>3, <2>4, <2>5, <2>6, <2>7, KeptIsStill
           DEF Moves, CallInv, StreamStep, s, t
<1>4. CASE PollReadyErr(t) /\ ServerBecomes(r, "panicked") /\ ServerStreamsDropped(r)
  <2>1. quic' = Dropped(t, s)
    BY <1>4 DEF ServerStreamsDropped
  <2> HIDE DEF s, t
  <2>2. /\ send' \in [Streams -> [stream : {"here", "future"}, writing : Seq(Nat)]]
        /\ send'[t].writing = send[t].writing /\ \A u \in Streams : u # t => send'[u] = send[u]
        /\ frames' = frames /\ recv' = recv /\ lost' = lost
        /\ lost \/ quic[t].stopped
    BY <1>1, <1>4, PollReadyErrDoes
  <2>3. /\ quic' \in [Streams -> [bytes : Seq(Nat), stopped : BOOLEAN,
                                  fin : {"open", "finished", "dropped", "reset"}]]
        /\ IF lost \/ quic[t].fin # "open" THEN quic'[t].fin = quic[t].fin
           ELSE quic'[t].fin = IF quic[t].stopped THEN "reset" ELSE "dropped"
        /\ quic'[t].bytes = quic[t].bytes /\ quic'[t].stopped = quic[t].stopped
        /\ quic'[s].bytes = quic[s].bytes /\ quic'[s].fin = quic[s].fin
        /\ \A u \in Streams : u # t /\ u # s => quic'[u] = quic[u]
    BY <1>1, <2>1, <2>2, DroppedDoes
  <2>4. quic'[t].fin \in {"open", "reset"}
    BY <1>2, <2>2, <2>3
  <2>5. StreamsOK'
    BY <1>1, <2>1, <2>2, <2>3 DEF StreamsOK
  <2>6. /\ TypeOK' /\ OrderInv' /\ client' = client /\ server'[r] = "panicked"
        /\ \A q \in Requests : q # r =>
             client'[q] = client[q] /\ server'[q] = server[q] /\ body'[q] = body[q]
    BY <1>2, <1>4, <2>5, ServerOnly DEF ServerPlaces, IInv, TypeOK
  <2>7. Still(s) /\ (Still(t) \/ Leaves(t))
    BY <1>1, <1>2, <2>1, <2>2, <2>3, <2>4 DEF Still, Leaves, SenderSame, WireSame, ReaderSame
  <2>8. \A q \in Requests : q # r => Untouched(q)
    <3>1. \A u \in Streams : u # s /\ u # t => Kept(u)
      BY <2>1, <2>2, <2>3 DEF Kept
    <3> QED  BY <2>6, <3>1, OthersUntouched DEF s, t
  <2>9. RequestInv(r)'
    BY <1>1, <1>2, <2>1, <2>2, <2>3, <2>6 DEF CallInv, RequestInv, s
  <2>10. ResponseInv(r)'
    BY <1>1, <1>2, <2>2, <2>3, <2>4, <2>6 DEF CallInv, ResponseInv, t
  <2>11. BodyInv(r)' /\ DoneInv(r)'
    BY <1>1, <1>2, <2>2, <2>6 DEF CallInv, BodyInv, DoneInv, ServiceCalled, WholeBody
  <2> QED  BY <2>2, <2>6, <2>7, <2>8, <2>9, <2>10, <2>11 DEF Moves, CallInv, StreamStep, s, t
<1> QED  BY <1>3, <1>4 DEF ServerFlushes

LEMMA ServerFinishesMoves ==
    ASSUME IInv, NEW r \in Requests, ServerFinishes(r)
    PROVE  Moves(r)
<1> DEFINE s == RequestStream(r)
           t == ResponseStream(r)
<1>1. s \in Streams /\ t \in Streams /\ s # t /\ StreamsOK /\ CallInv(r)
  BY StreamNames DEF IInv, TypeOK
<1>2. /\ server[r] = "send" /\ quic[t].fin = "open" /\ client[r] # "done"
      /\ send[t] = [stream |-> "here", writing |-> <<>>]
      /\ UNCHANGED <<opened, accepted, acceptor, client, body>>
  BY <1>1 DEF ServerFinishes, CallInv, ResponseInv, DoneInv
<1> DEFINE pc == IF server' = [server EXCEPT ![r] = "done"] THEN "done" ELSE "failed"
<1>3. /\ ServerBecomes(r, pc)
      /\ frames' = frames /\ send' = send /\ recv' = recv /\ lost' = lost
      /\ pc \in {"done", "failed"}
      /\ quic' = IF lost THEN quic ELSE [quic EXCEPT ![t].fin = "finished"]
      /\ ~lost => pc = "done"
  BY DEF ServerFinishes, PollFinish, PollFinishErr, ServerBecomes, streams
<1> HIDE DEF s, t, pc
<1>4. /\ StreamsOK' /\ OnlyStream(t)
      /\ \/ lost /\ quic'[t] = quic[t]
         \/ ~lost /\ pc = "done" /\ quic'[t].fin = "finished"
      /\ quic'[t].bytes = quic[t].bytes /\ quic'[t].stopped = quic[t].stopped
  BY <1>1, <1>3, FinishDoes
<1>5. Kept(s)
  BY <1>1, <1>4 DEF OnlyStream
<1>6. /\ TypeOK' /\ OrderInv' /\ client' = client /\ server'[r] = pc
      /\ \A q \in Requests : q # r =>
           client'[q] = client[q] /\ server'[q] = server[q] /\ body'[q] = body[q]
  BY <1>2, <1>3, <1>4, ServerOnly DEF ServerPlaces, IInv, TypeOK
<1>7. Still(t) \/ Finishes(t)
  BY <1>2, <1>3, <1>4 DEF Still, Finishes, SenderSame, WireSame, ReaderSame
<1>8. \A q \in Requests : q # r => Untouched(q)
  BY <1>4, <1>6, OthersUntouched DEF OnlyStream, t
<1>9. RequestInv(r)'
  BY <1>1, <1>2, <1>3, <1>5, <1>6 DEF CallInv, RequestInv, Kept, s
<1>10. ResponseInv(r)'
  BY <1>1, <1>2, <1>3, <1>4, <1>6 DEF CallInv, ResponseInv, t
<1>11. BodyInv(r)' /\ DoneInv(r)'
  BY <1>1, <1>2, <1>3, <1>6 DEF CallInv, BodyInv, DoneInv, ServiceCalled, WholeBody
<1> QED  BY <1>3, <1>5, <1>6, <1>7, <1>8, <1>9, <1>10, <1>11, KeptIsStill
         DEF Moves, CallInv, StreamStep, s, t

----------------------------------------------------------------------------
(* The theorems *)

LEMMA InitInv == Init => IInv /\ Promise!Init
<1> SUFFICES ASSUME Init PROVE IInv /\ Promise!Init
  OBVIOUS
<1>1. /\ <<>> \in Seq(Nat) /\ <<>> \in Seq(Requests) /\ Len(<<>>) = 0 /\ <<>> \o <<>> = <<>>
  BY EmptySeq, ConcatEmptySeq
<1>2. Bytes(0) = <<>>
  <2>1. 0 * FrameLen = 0
    BY LengthAssumption
  <2>2. Bytes(0) \in Seq(Nat) /\ Len(Bytes(0)) = 0
    BY <2>1, BytesAre
  <2> QED  BY <2>2, EmptySeq
<1>3. TypeOK
  <2>1. StreamsOK
    BY <1>1 DEF Init, StreamsInit, StreamsOK
  <2>2. opened \in Seq(Requests) /\ accepted \in 0 .. Len(opened)
    BY <1>1 DEF Init
  <2> QED  BY <1>1, <2>1, <2>2 DEF Init, TypeOK
<1>4. ASSUME NEW s \in Streams
      PROVE  /\ StreamInv(s) /\ Sent(s) = <<>>
             /\ quic[s].fin = "open" /\ recv[s].got = <<>> /\ recv[s].end = "open"
  <2>1. /\ frames[s] = 0 /\ send[s].writing = <<>> /\ quic[s].bytes = <<>>
        /\ quic[s].fin = "open" /\ recv[s].got = <<>> /\ recv[s].end = "open"
    BY DEF Init, StreamsInit
  <2>2. Len(quic[s].bytes) <= Window
    BY <1>1, <2>1, LengthAssumption
  <2>3. StreamInv(s)
    BY <1>1, <1>2, <2>1, <2>2 DEF StreamInv
  <2>4. Sent(s) = <<>>
    BY <1>2, <2>1 DEF Sent, Unfinished
  <2> QED  BY <2>1, <2>3, <2>4
<1>5. \A r \in Requests : CallInv(r)
  BY StreamNames
     DEF Init, StreamsInit, CallInv, RequestInv, ResponseInv, BodyInv, DoneInv, ServiceCalled
<1>6. OrderInv
  <2>1. /\ \A i \in 1 .. Len(opened) : FALSE
        /\ \A i \in accepted + 1 .. Len(opened) : FALSE
    BY <1>1 DEF Init
  <2>2. \A r \in Requests : server[r] = "none" /\ acceptor # r
    BY FramesAssumption DEF Init
  <2> QED  BY <2>1, <2>2 DEF OrderInv
<1>7. Promise!Init
  BY <1>4 DEF Promise!Init
<1> QED  BY <1>3, <1>4, <1>5, <1>6, <1>7 DEF IInv

LEMMA StepKeeps ==
    ASSUME IInv, Next
    PROVE  IInv' /\ Promise!Next
<1>1. ASSUME NEW r \in Requests, Open(r) PROVE IInv' /\ Promise!Next
  BY <1>1, OpenMoves, MovesKeep
<1>2. ASSUME NEW r \in Requests, ClientStep(r) PROVE IInv' /\ Promise!Next
  BY <1>2, ClientSendsMoves, ClientFlushesMoves, ClientFinishesMoves, ClientReceivesMoves,
     MovesKeep DEF ClientStep
<1>3. ASSUME NEW r \in Requests, Abandon(r) \/ ClientDrops(r) PROVE IInv' /\ Promise!Next
  BY <1>3, AbandonMoves, ClientDropsMoves, MovesKeep
<1>4. ASSUME NEW r \in Requests, ServerStep(r) PROVE IInv' /\ Promise!Next
  BY <1>4, ResolveMoves, ServerReceivesMoves, ServerSendsMoves, ServerFlushesMoves,
     ServerFinishesMoves, MovesKeep DEF ServerStep
<1> QED  BY <1>1, <1>2, <1>3, <1>4, AcceptKeeps, StopAcceptingKeeps, LoseConnectionKeeps
         DEF Next

LEMMA StutterKeeps ==
    ASSUME IInv, UNCHANGED vars
    PROVE  IInv' /\ UNCHANGED Promise!vars
<1>1. UNCHANGED Promise!vars
  BY DEF vars, streams, Promise!vars, Sent, Unfinished
<1>2. NoStream /\ OrderInv'
  BY DEF vars, streams, NoStream, IInv, OrderInv
<1>3. accepted' \in 0 .. Len(opened) /\ acceptor' \in Requests \cup {Accepting, "ended"}
  BY DEF vars, IInv, TypeOK
<1>4. lost' \in BOOLEAN /\ (lost => lost')
  BY DEF vars, streams, IInv, TypeOK, StreamsOK
<1>5. UNCHANGED <<opened, client, server, body>>
  BY DEF vars
<1> QED  BY <1>1, <1>2, <1>3, <1>4, <1>5, LoopKeeps

LEMMA IInvAlways == Spec => []IInv
<1>1. IInv /\ [Next]_vars => IInv'
  BY StepKeeps, StutterKeeps
<1> QED  BY <1>1, InitInv, PTL DEF Spec

(* Variables of streams, the accept loop, clients and handlers always have *)
(* their types; of the streams of h3-iroh and the loops of its server.     *)
THEOREM H3TypeCorrect == Spec => []TypeOK
<1>1. IInv => TypeOK
  BY DEF IInv
<1> QED  BY <1>1, IInvAlways, PTL

(* Whenever a call of a stream has returned its stream is back and its     *)
(* buffer empty, so that finish, reset and send_data find what they unwrap *)
(* or rely on.                                                             *)
THEOREM NoCallFindsItsStreamGone == Spec => []CallsFindTheirStream
<1>1. IInv => CallsFindTheirStream
  BY DEF IInv, CallInv, RequestInv, ResponseInv, CallsFindTheirStream
<1> QED  BY <1>1, IInvAlways, PTL

(* A request whose client stays and whose connection lives is served with  *)
(* its whole body, however its frames were cut.                            *)
THEOREM WholeRequestsAreServed == Spec => []CompleteRequestsServedWhole
<1>1. IInv => CompleteRequestsServedWhole
  BY DEF IInv, CallInv, BodyInv, CompleteRequestsServedWhole
<1> QED  BY <1>1, IInvAlways, PTL

(* A client that has read a response to its end has all that the service   *)
(* sent, to the whole request.                                             *)
THEOREM ResponsesAreWhole == Spec => []FinishedResponsesAreWhole
<1>1. IInv => FinishedResponsesAreWhole
  BY DEF IInv, CallInv, DoneInv, FinishedResponsesAreWhole
<1> QED  BY <1>1, IInvAlways, PTL

(* The streams of h3-iroh, with writes and reads in flight, implement the  *)
(* abstract streams of ByteStreams.                                        *)
THEOREM StreamsImplementPromise == Spec => StreamsKeepPromise
<1>1. Init => Promise!Init
  BY InitInv
<1>2. IInv /\ [Next]_vars => [Promise!Next]_(Promise!vars)
  BY StepKeeps, StutterKeeps
<1> QED  BY <1>1, <1>2, IInvAlways, PTL DEF Spec, StreamsKeepPromise, Promise!Spec
=============================================================================
