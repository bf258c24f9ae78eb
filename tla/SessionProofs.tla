---------------------------- MODULE SessionProofs ----------------------------
(***************************************************************************)
(* What a session guarantees for any width of the reference, any kinds of  *)
(* request and any number of requests and of frames sent unasked: what a   *)
(* request ends with is the gateway's answer to it, and that answer is     *)
(* never lost on the way.  At most the answers to two requests are under   *)
(* way together, the older ones first, and their references differ.        *)
(***************************************************************************)
EXTENDS Session, SequenceTheorems, TLAPS

\* The pieces under way and in the buffer, in the order of their arrival.
Line == buffer \o stream

Noise(f) == f.type = Notification /\ f.of = 0
Current(f) == f.type # Notification /\ f.of = serial /\ f.ref = ref
Stale(f) == f.type # Notification /\ f.of # serial /\ f.ref # ref

\* Frames are whole.
ShapeInv ==
  /\ Len(Line) % 2 = 0
  /\ \A i \in 1..Len(Line) : Line[i].part = (IF i % 2 = 1 THEN "head" ELSE "tail")
  /\ \A i \in 1..Len(Line) :
       i % 2 = 1 => i + 1 \in 1..Len(Line) /\ Line[i + 1].frame = Line[i].frame

\* Answers to an earlier request come before those to the present one.
OrderInv ==
  /\ \A i \in 1..Len(Line) :
       LET f == Line[i].frame
       IN  Noise(f) \/ Current(f) \/ (pc = "waiting" /\ Stale(f))
  /\ \A i, k \in 1..Len(Line) :
       i < k /\ Current(Line[i].frame) => ~Stale(Line[k].frame)

\* The gateway has the request that is waited for, or has answered it.
AnswerInv ==
  /\ pc = "idle" => pending = <<>> /\ (latest # <<>> => Current(latest[1]))
  /\ pc = "waiting" =>
       /\ want \in Requests /\ want.serial = serial /\ want.ref = ref
       /\ \/ /\ pending = <<want>>
             /\ latest # <<>> => Stale(latest[1])
             /\ \A i \in 1..Len(Line) : ~Current(Line[i].frame)
          \/ /\ pending = <<>> /\ latest # <<>> /\ Current(latest[1])
             /\ \E i \in 1..Len(Line) : Current(Line[i].frame)

\* What a request returns or raises is the gateway's answer to that request,
\* though answers are repeated, others come unasked and references start over
\* (session.py:50, 73-74).
Correlated == result.kind \in {"response", "refused"} => result.of = result.serial

Inv == TypeOK /\ ShapeInv /\ OrderInv /\ AnswerInv /\ Correlated

------------------------------------------------------------------------------
(* The pieces under way                                                    *)

LEMMA LineFacts ==
  ASSUME TypeOK
  PROVE  /\ Line \in Seq(Pieces) /\ Len(Line) = Len(buffer) + Len(stream)
         /\ Len(Line) \in Nat /\ Len(buffer) \in Nat /\ Len(stream) \in Nat
         /\ \A i \in 1..Len(buffer) : Line[i] = buffer[i]
         /\ \A i \in 1..Len(Line) : Line[i] \in Pieces
<1>1. buffer \in Seq(Pieces) /\ stream \in Seq(Pieces)
  BY DEF TypeOK
<1>2. /\ Line \in Seq(Pieces) /\ Len(Line) = Len(buffer) + Len(stream)
      /\ \A i \in 1..Len(buffer) + Len(stream) :
           Line[i] = IF i <= Len(buffer) THEN buffer[i] ELSE stream[i - Len(buffer)]
  BY <1>1, ConcatProperties DEF Line
<1>3. Len(buffer) \in Nat /\ Len(stream) \in Nat /\ Len(Line) \in Nat
  BY <1>1, <1>2, LenProperties
<1>4. \A i \in 1..Len(Line) : Line[i] \in Pieces
  BY <1>2, ElementOfSeq
<1>. QED
  BY <1>2, <1>3, <1>4

LEMMA Associative ==
  ASSUME NEW a \in Seq(Pieces), NEW b \in Seq(Pieces), NEW c \in Seq(Pieces)
  PROVE  (a \o b) \o c = a \o (b \o c)
BY ConcatAssociative

\* A read moves pieces from the stream to the buffer.
LEMMA ReadLine ==
  ASSUME TypeOK, Read
  PROVE  Line' = Line /\ buffer' \in Seq(Pieces) /\ stream' \in Seq(Pieces)
<1>1. PICK n \in 1..Len(stream) :
        /\ buffer' = buffer \o SubSeq(stream, 1, n)
        /\ stream' = SubSeq(stream, n + 1, Len(stream))
  BY DEF Read
<1>2. buffer \in Seq(Pieces) /\ stream \in Seq(Pieces) /\ Len(stream) \in Nat
  BY LineFacts DEF TypeOK
<1>3. \A i \in 1..Len(stream) : stream[i] \in Pieces
  BY <1>2, ElementOfSeq
<1>4. SubSeq(stream, 1, n) \in Seq(Pieces)
  BY <1>2, <1>3, SubSeqProperties
<1>5. SubSeq(stream, n + 1, Len(stream)) \in Seq(Pieces)
  BY <1>2, <1>3, SubSeqProperties
<1>6. SubSeq(stream, 1, n) \o SubSeq(stream, n + 1, Len(stream)) = stream
  <2>1. /\ 1 \in 1..Len(stream) + 1 /\ n \in 1 - 1..Len(stream)
        /\ Len(stream) \in n..Len(stream)
    BY <1>2
  <2>2. SubSeq(stream, 1, n) \o SubSeq(stream, n + 1, Len(stream)) = SubSeq(stream, 1, Len(stream))
    BY <1>2, <2>1, ConcatAdjacentSubSeq
  <2>. QED
    BY <1>2, <2>2, SubSeqFull
<1>7. buffer' \in Seq(Pieces)
  BY <1>1, <1>2, <1>4, ConcatProperties
<1>8. Line' = Line
  <2>. DEFINE first == SubSeq(stream, 1, n)
              others == SubSeq(stream, n + 1, Len(stream))
  <2>1. Line' = (buffer \o first) \o others
    BY <1>1 DEF Line
  <2>2. first \in Seq(Pieces) /\ others \in Seq(Pieces) /\ first \o others = stream
    BY <1>4, <1>5, <1>6
  <2>. HIDE DEF first, others
  <2>3. (buffer \o first) \o others = buffer \o (first \o others)
    <3>1. buffer \in Seq(Pieces) /\ first \in Seq(Pieces) /\ others \in Seq(Pieces)
      BY <1>2, <2>2
    <3>. QED
      BY <3>1, Associative, Zenon
  <2>. QED
    BY <2>1, <2>2, <2>3 DEF Line
<1>. QED
  BY <1>1, <1>5, <1>7, <1>8

\* A frame that has been looked at leaves the buffer.
LEMMA DroppedLine ==
  ASSUME TypeOK, Complete, buffer' = Rest, stream' = stream
  PROVE  /\ buffer' \in Seq(Pieces) /\ Len(buffer') = Len(buffer) - 2
         /\ Len(Line) >= 2 /\ Line[1] = buffer[1]
         /\ Len(Line') = Len(Line) - 2
         /\ \A i \in 1..Len(Line') : i + 2 \in 1..Len(Line) /\ Line'[i] = Line[i + 2]
<1>1. buffer \in Seq(Pieces) /\ stream \in Seq(Pieces)
  BY DEF TypeOK
<1>2. Len(buffer) \in Nat /\ Len(buffer) >= 2 /\ Len(stream) \in Nat
  BY LineFacts DEF Complete
<1>3. /\ buffer' \in Seq(Pieces) /\ Len(buffer') = Len(buffer) - 2
      /\ \A i \in 1..Len(buffer) - 2 : buffer'[i] = buffer[i + 2]
  <2>. DEFINE rest == SubSeq(buffer, 3, Len(buffer))
  <2>1. \A i \in 3..Len(buffer) : buffer[i] \in Pieces
    BY <1>1, <1>2, ElementOfSeq
  <2>2. /\ rest \in Seq(Pieces)
        /\ Len(rest) = IF 3 <= Len(buffer) THEN Len(buffer) - 3 + 1 ELSE 0
        /\ \A i \in 1..Len(buffer) - 3 + 1 : rest[i] = buffer[3 + i - 1]
    BY <1>2, <2>1, SubSeqProperties
  <2>3. buffer' = rest
    BY DEF Rest
  <2>. HIDE DEF rest
  <2>4. Len(buffer) - 3 + 1 = Len(buffer) - 2 /\ \A i \in Int : 3 + i - 1 = i + 2
    BY <1>2
  <2>5. ASSUME NEW i \in 1..Len(buffer) - 2 PROVE rest[i] = buffer[i + 2]
    <3>1. i \in 1..Len(buffer) - 3 + 1 /\ 3 + i - 1 = i + 2
      BY <1>2, <2>4
    <3>2. rest[i] = buffer[3 + i - 1]
      BY <2>2, <3>1
    <3>. QED
      BY <3>1, <3>2
  <2>. QED
    BY <1>2, <2>2, <2>3, <2>5
<1>4. /\ Len(Line') = Len(buffer') + Len(stream)
      /\ \A i \in 1..Len(buffer') + Len(stream) :
           Line'[i] = IF i <= Len(buffer') THEN buffer'[i] ELSE stream[i - Len(buffer')]
  <2>1. Line' = buffer' \o stream
    BY DEF Line
  <2>2. buffer' \in Seq(Pieces) /\ stream \in Seq(Pieces)
    BY <1>1, <1>3
  <2>3. /\ Len(buffer' \o stream) = Len(buffer') + Len(stream)
        /\ \A i \in 1..Len(buffer') + Len(stream) :
             (buffer' \o stream)[i] =
               IF i <= Len(buffer') THEN buffer'[i] ELSE stream[i - Len(buffer')]
    BY <2>2, ConcatProperties
  <2>. QED
    BY <2>1, <2>3, Zenon
<1>5. /\ Len(Line) = Len(buffer) + Len(stream)
      /\ \A i \in 1..Len(buffer) + Len(stream) :
           Line[i] = IF i <= Len(buffer) THEN buffer[i] ELSE stream[i - Len(buffer)]
  BY <1>1, ConcatProperties DEF Line
<1>. QED
  BY <1>2, <1>3, <1>4, <1>5

\* A frame that is sent comes after everything under way.
LEMMA SentLine ==
  ASSUME TypeOK, NEW f \in Frames, Send(f), buffer' = buffer
  PROVE  /\ stream' \in Seq(Pieces) /\ Len(Line') = Len(Line) + 2
         /\ \A i \in 1..Len(Line) : Line'[i] = Line[i]
         /\ Line'[Len(Line) + 1] = [part |-> "head", frame |-> f]
         /\ Line'[Len(Line) + 2] = [part |-> "tail", frame |-> f]
<1>. DEFINE new == <<[part |-> "head", frame |-> f], [part |-> "tail", frame |-> f]>>
<1>1. buffer \in Seq(Pieces) /\ stream \in Seq(Pieces) /\ Line \in Seq(Pieces)
  BY LineFacts DEF TypeOK
<1>2. /\ new \in Seq(Pieces) /\ Len(new) = 2
      /\ new[1] = [part |-> "head", frame |-> f] /\ new[2] = [part |-> "tail", frame |-> f]
  BY DEF Pieces
<1>3. stream' = stream \o new
  BY DEF Send
<1>. HIDE DEF new
<1>4. stream' \in Seq(Pieces) /\ Line' = Line \o new
  <2>1. stream \o new \in Seq(Pieces)
    BY <1>1, <1>2, ConcatProperties
  <2>2. (buffer \o stream) \o new = buffer \o (stream \o new)
    <3>1. buffer \in Seq(Pieces) /\ stream \in Seq(Pieces) /\ new \in Seq(Pieces)
      BY <1>1, <1>2
    <3>. QED
      BY <3>1, Associative, Zenon
  <2>3. Line' = buffer \o (stream \o new)
    BY <1>3 DEF Line
  <2>. QED
    BY <1>3, <2>1, <2>2, <2>3 DEF Line
<1>5. /\ Len(Line') = Len(Line) + 2
      /\ \A i \in 1..Len(Line) + 2 :
           Line'[i] = IF i <= Len(Line) THEN Line[i] ELSE new[i - Len(Line)]
  <2>1. /\ Len(Line \o new) = Len(Line) + Len(new)
        /\ \A i \in 1..Len(Line) + Len(new) :
             (Line \o new)[i] = IF i <= Len(Line) THEN Line[i] ELSE new[i - Len(Line)]
    BY <1>1, <1>2, ConcatProperties
  <2>. QED
    BY <1>2, <1>4, <2>1
<1>6. Len(Line) \in Nat
  BY LineFacts
<1>. QED
  BY <1>2, <1>4, <1>5, <1>6

------------------------------------------------------------------------------
(* The invariant                                                           *)

LEMMA EmptyLine ==
  ASSUME buffer = <<>>, stream = <<>>
  PROVE  Line = <<>> /\ Len(Line) = 0 /\ ShapeInv /\ OrderInv
<1>1. Line = <<>> /\ Len(Line) = 0
  BY DEF Line
<1>. QED
  BY <1>1 DEF ShapeInv, OrderInv

LEMMA InitInv == Init => Inv
<1>. SUFFICES ASSUME Init PROVE Inv
  OBVIOUS
<1>1. TypeOK
  <2>1. <<>> \in Seq(Requests) /\ <<>> \in Seq(Pieces) /\ <<>> \in Seq(Frames) /\ Len(<<>>) <= 1
    BY EmptySeq
  <2>2. result \in [kind : {"none", "response", "refused", "failed"},
                    serial : 0..MaxRequests, of : 0..MaxRequests]
    BY BoundsAssumption DEF Init
  <2>3. ref \in 0..MaxRef /\ serial \in 0..MaxRequests /\ extra \in 0..MaxExtra
    BY RefAssumption, BoundsAssumption DEF Init
  <2>. QED
    BY <2>1, <2>2, <2>3 DEF Init, TypeOK
<1>2. ShapeInv /\ OrderInv
  BY EmptyLine DEF Init
<1>3. AnswerInv /\ Correlated
  BY DEF Init, AnswerInv, Correlated
<1>. QED
  BY <1>1, <1>2, <1>3 DEF Inv

\* Another reference than the latest follows.
LEMMA ReferenceAdvances ==
  ASSUME ref \in 0..MaxRef
  PROVE  NextReference \in 1..MaxRef /\ NextReference # ref
<1>1. CASE ref = MaxRef
  <2>1. MaxRef % MaxRef = 0
    BY RefAssumption
  <2>. QED
    BY <1>1, <2>1, RefAssumption DEF NextReference
<1>2. CASE ref < MaxRef
  <2>1. ref % MaxRef = ref
    BY <1>2, RefAssumption
  <2>. QED
    BY <1>2, <2>1, RefAssumption DEF NextReference
<1>. QED
  BY <1>1, <1>2, RefAssumption

\* A request turns the answers of the session into older ones.
LEMMA RequestInv ==
  ASSUME Inv, NEW t \in Types, Request(t)
  PROVE  Inv'
<1>1. /\ pc = "idle" /\ pc' = "waiting" /\ serial' = serial + 1 /\ ref' = NextReference
      /\ want' = [ref |-> NextReference, type |-> t, serial |-> serial + 1]
      /\ pending' = Append(pending, want') /\ open' = TRUE
      /\ UNCHANGED <<stream, buffer, latest, extra, result>>
  BY DEF Request
<1>2. ref' \in 1..MaxRef /\ ref' # ref
  BY <1>1, ReferenceAdvances DEF Inv, TypeOK
<1>3. want' \in Requests /\ serial' \in 0..MaxRequests /\ serial' # serial
  BY <1>1, <1>2, BoundsAssumption DEF Request, Requests, Inv, TypeOK
<1>4. pending' = <<want'>> /\ pending' \in Seq(Requests)
  BY <1>1, <1>3 DEF Inv, AnswerInv
<1>5. TypeOK'
  BY <1>1, <1>2, <1>3, <1>4, RefAssumption DEF Inv, TypeOK
<1>6. Line' = Line
  BY <1>1 DEF Line
<1>7. \A f : Current(f) => Stale(f)' /\ ~Current(f)'
  BY <1>2, <1>3 DEF Current, Stale
<1>8. \A f : Noise(f) => ~Current(f)' /\ ~Stale(f)'
  BY DEF Noise, Current, Stale
<1>9. \A i \in 1..Len(Line) : Noise(Line[i].frame) \/ Current(Line[i].frame)
  BY <1>1 DEF Inv, OrderInv
<1>10. ShapeInv'
  BY <1>6 DEF Inv, ShapeInv
<1>11. OrderInv'
  BY <1>1, <1>6, <1>7, <1>8, <1>9 DEF OrderInv, Noise
<1>12. AnswerInv'
  <2>1. \A i \in 1..Len(Line) : ~Current(Line[i].frame)'
    BY <1>2, <1>3, <1>6, <1>9 DEF Current, Noise
  <2>2. latest' # <<>> => Stale(latest[1])'
    BY <1>1, <1>7 DEF Inv, AnswerInv
  <2>3. want'.serial = serial' /\ want'.ref = ref'
    BY <1>1
  <2>. QED
    BY <1>1, <1>3, <1>4, <1>6, <2>1, <2>2, <2>3 DEF AnswerInv
<1>13. Correlated'
  BY <1>1 DEF Inv, Correlated
<1>. QED
  BY <1>5, <1>10, <1>11, <1>12, <1>13 DEF Inv

\* A frame is sent.
LEMMA SentInv ==
  ASSUME Inv, NEW f \in Frames, Send(f), UNCHANGED <<ref, pc, serial, buffer>>,
         Noise(f) \/ Current(f) \/ (pc = "waiting" /\ Stale(f)),
         Stale(f) => \A i \in 1..Len(Line) : ~Current(Line[i].frame)
  PROVE  /\ ShapeInv' /\ OrderInv' /\ stream' \in Seq(Pieces)
         /\ Len(Line) + 1 \in 1..Len(Line') /\ Line'[Len(Line) + 1].frame = f
         /\ \A i \in 1..Len(Line) : i \in 1..Len(Line') /\ Line'[i] = Line[i]
         /\ \A i \in 1..Len(Line') : Line'[i].frame = f
              \/ (i \in 1..Len(Line) /\ Line'[i].frame = Line[i].frame)
<1>1. TypeOK
  BY DEF Inv
<1>2. /\ stream' \in Seq(Pieces) /\ Len(Line') = Len(Line) + 2
      /\ \A i \in 1..Len(Line) : Line'[i] = Line[i]
      /\ Line'[Len(Line) + 1] = [part |-> "head", frame |-> f]
      /\ Line'[Len(Line) + 2] = [part |-> "tail", frame |-> f]
  BY <1>1, SentLine
<1>3. Len(Line) \in Nat /\ Len(Line) % 2 = 0
  BY <1>1, LineFacts DEF Inv, ShapeInv
<1>4. \A i \in 1..Len(Line') : i \in 1..Len(Line) \/ i = Len(Line) + 1 \/ i = Len(Line) + 2
  BY <1>2, <1>3
<1>5. \A i \in 1..Len(Line) : i \in 1..Len(Line')
  <2>1. Len(Line') = Len(Line) + 2 /\ Len(Line) \in Nat
    BY <1>2, <1>3
  <2>. QED
    BY <2>1
<1>6. /\ Len(Line) + 1 \in 1..Len(Line') /\ Len(Line) + 2 \in 1..Len(Line')
      /\ (Len(Line) + 1) % 2 = 1 /\ (Len(Line) + 2) % 2 = 0
  BY <1>2, <1>3
<1>7. ShapeInv'
  <2>1. Len(Line') % 2 = 0
    BY <1>2, <1>6
  <2>2. ASSUME NEW i \in 1..Len(Line')
        PROVE  Line'[i].part = (IF i % 2 = 1 THEN "head" ELSE "tail")
    BY <1>2, <1>4, <1>6 DEF Inv, ShapeInv
  <2>3. ASSUME NEW i \in 1..Len(Line'), i % 2 = 1
        PROVE  i + 1 \in 1..Len(Line') /\ Line'[i + 1].frame = Line'[i].frame
    <3>1. CASE i \in 1..Len(Line)
      BY <1>2, <1>5, <2>3, <3>1 DEF Inv, ShapeInv
    <3>2. CASE i = Len(Line) + 1
      BY <1>2, <1>3, <3>2
    <3>3. i # Len(Line) + 2
      BY <1>6, <2>3
    <3>. QED
      BY <1>4, <3>1, <3>2, <3>3
  <2>. QED
    BY <2>1, <2>2, <2>3 DEF ShapeInv
<1>8. \A i \in 1..Len(Line') :
        (i > Len(Line) /\ Line'[i].frame = f)
          \/ (i \in 1..Len(Line) /\ Line'[i].frame = Line[i].frame)
  BY <1>2, <1>3, <1>4
<1>9. OrderInv'
  <2>1. \A g : (Noise(g)' <=> Noise(g)) /\ (Current(g)' <=> Current(g)) /\ (Stale(g)' <=> Stale(g))
    BY DEF Noise, Current, Stale
  <2>2. ASSUME NEW i \in 1..Len(Line')
        PROVE  LET g == Line'[i].frame IN Noise(g) \/ Current(g) \/ (pc = "waiting" /\ Stale(g))
    BY <1>8 DEF Inv, OrderInv
  <2>3. ASSUME NEW i \in 1..Len(Line'), NEW k \in 1..Len(Line'), i < k,
               Current(Line'[i].frame)
        PROVE  ~Stale(Line'[k].frame)
    <3>1. CASE k \in 1..Len(Line)
      <4>1. i \in 1..Len(Line)
        BY <1>3, <2>3, <3>1
      <4>. QED
        BY <1>2, <2>3, <3>1, <4>1 DEF Inv, OrderInv
    <3>2. CASE k \notin 1..Len(Line)
      <4>1. Line'[k].frame = f
        BY <1>8, <3>2
      <4>2. CASE Line'[i].frame = f
        BY <2>3, <4>1, <4>2 DEF Current, Stale
      <4>3. CASE i \in 1..Len(Line) /\ Line'[i].frame = Line[i].frame
        BY <2>3, <4>1, <4>3
      <4>. QED
        BY <1>8, <4>2, <4>3
    <3>. QED
      BY <3>1, <3>2
  <2>. QED
    BY <2>1, <2>2, <2>3 DEF OrderInv
<1>. QED
  BY <1>2, <1>5, <1>6, <1>7, <1>8, <1>9

\* The gateway answers, repeats its answer, or sends something unasked.
LEMMA GatewayInv ==
  ASSUME Inv, Answer \/ Repeat \/ Notify
  PROVE  Inv'
<1>1. /\ UNCHANGED <<open, ref, pc, want, serial, buffer, result>>
  BY DEF Answer, Repeat, Notify
<1>2. Correlated'
  BY <1>1 DEF Inv, Correlated
<1>3. CASE Answer
  <2>1. PICK ok \in BOOLEAN :
          LET r == Head(pending)
              f == [ours |-> TRUE, ref |-> r.ref, type |-> r.type, ok |-> ok, of |-> r.serial]
          IN  Send(f) /\ latest' = <<f>>
    BY <1>3 DEF Answer
  <2>. DEFINE f == [ours |-> TRUE, ref |-> want.ref, type |-> want.type, ok |-> ok,
                    of |-> want.serial]
  <2>2. /\ pc = "waiting" /\ pending = <<want>> /\ want \in Requests
        /\ want.serial = serial /\ want.ref = ref
        /\ \A i \in 1..Len(Line) : ~Current(Line[i].frame)
    BY <1>3 DEF Answer, Inv, TypeOK, AnswerInv
  <2>3. Head(pending) = want /\ Tail(pending) = <<>>
    BY <2>2
  <2>4. Send(f) /\ latest' = <<f>> /\ pending' = <<>> /\ extra' = extra
    BY <1>3, <2>1, <2>3 DEF Answer
  <2>5. f \in Frames /\ Current(f)
    BY <2>2, TypesAssumption DEF Frames, Requests, Current
  <2>. HIDE DEF f
  <2>6. ~Stale(f)
    BY <2>5 DEF Current, Stale
  <2>7. /\ ShapeInv' /\ OrderInv' /\ stream' \in Seq(Pieces)
        /\ Len(Line) + 1 \in 1..Len(Line') /\ Line'[Len(Line) + 1].frame = f
    BY <1>1, <2>4, <2>5, <2>6, SentInv
  <2>8. latest' \in Seq(Frames) /\ Len(latest') = 1 /\ latest' # <<>> /\ latest'[1] = f
    BY <2>4, <2>5
  <2>9. TypeOK'
    <3>1. pending' \in Seq(Requests)
      BY <2>4
    <3>. QED
      BY <1>1, <2>4, <2>7, <2>8, <3>1 DEF Inv, TypeOK
  <2>10. Current(latest[1])'
    BY <1>1, <2>5, <2>8 DEF Current
  <2>11. AnswerInv'
    <3>1. \E i \in 1..Len(Line') : Current(Line[i].frame)'
      BY <1>1, <2>5, <2>7 DEF Current
    <3>. QED
      BY <1>1, <2>2, <2>4, <2>8, <2>10, <3>1 DEF AnswerInv
  <2>. QED
    BY <1>2, <2>7, <2>9, <2>11 DEF Inv
<1>4. CASE Repeat \/ Notify
  <2>1. /\ pending' = pending /\ latest' = latest /\ extra' \in 0..MaxExtra
    BY <1>4, BoundsAssumption DEF Repeat, Notify, Inv, TypeOK
  <2>2. \E f \in Frames :
          /\ Send(f)
          /\ \/ Noise(f)
             \/ Current(f) /\ latest # <<>> /\ Current(latest[1])
             \/ /\ Stale(f) /\ pc = "waiting"
                /\ \A i \in 1..Len(Line) : ~Current(Line[i].frame)
    <3>1. CASE Repeat
      <4>1. latest # <<>> /\ Send(latest[1])
        BY <3>1 DEF Repeat
      <4>2. latest[1] \in Frames
        BY <4>1, EmptySeq, ElementOfSeq DEF Inv, TypeOK
      <4>3. \/ Current(latest[1])
            \/ /\ Stale(latest[1]) /\ pc = "waiting"
               /\ \A i \in 1..Len(Line) : ~Current(Line[i].frame)
        BY <4>1 DEF Inv, TypeOK, AnswerInv
      <4>. QED
        BY <4>1, <4>2, <4>3
    <3>2. CASE Notify
      <4>1. PICK r \in 0..MaxRef, ours \in BOOLEAN :
              Send([ours |-> ours, ref |-> r, type |-> Notification, ok |-> TRUE, of |-> 0])
        BY <3>2 DEF Notify
      <4>2. [ours |-> ours, ref |-> r, type |-> Notification, ok |-> TRUE, of |-> 0] \in Frames
        BY BoundsAssumption DEF Frames
      <4>3. Noise([ours |-> ours, ref |-> r, type |-> Notification, ok |-> TRUE, of |-> 0])
        BY DEF Noise
      <4>. QED
        BY <4>1, <4>2, <4>3
    <3>. QED
      BY <1>4, <3>1, <3>2
  <2>3. PICK f \in Frames :
          /\ Send(f)
          /\ \/ Noise(f)
             \/ Current(f) /\ latest # <<>> /\ Current(latest[1])
             \/ /\ Stale(f) /\ pc = "waiting"
                /\ \A i \in 1..Len(Line) : ~Current(Line[i].frame)
    BY <2>2
  <2>4. Stale(f) => \A i \in 1..Len(Line) : ~Current(Line[i].frame)
    BY <2>3 DEF Noise, Current, Stale
  <2>5. /\ ShapeInv' /\ OrderInv' /\ stream' \in Seq(Pieces)
        /\ \A i \in 1..Len(Line) : i \in 1..Len(Line') /\ Line'[i] = Line[i]
        /\ \A i \in 1..Len(Line') : Line'[i].frame = f
             \/ (i \in 1..Len(Line) /\ Line'[i].frame = Line[i].frame)
    BY <1>1, <2>3, <2>4, SentInv
  <2>6. TypeOK'
    BY <1>1, <2>1, <2>5 DEF Inv, TypeOK
  <2>7. ASSUME pc = "idle"
        PROVE  pending' = <<>> /\ (latest' # <<>> => Current(latest[1])')
    BY <1>1, <2>1, <2>7 DEF Inv, AnswerInv, Current
  <2>8. ASSUME pc = "waiting", pending = <<want>>, latest # <<>> => Stale(latest[1]),
               \A i \in 1..Len(Line) : ~Current(Line[i].frame)
        PROVE  /\ latest' # <<>> => Stale(latest[1])'
               /\ \A i \in 1..Len(Line') : ~Current(Line[i].frame)'
    <3>1. ~Current(f)
      BY <2>3, <2>8 DEF Noise, Current, Stale
    <3>. QED
      BY <1>1, <2>1, <2>5, <2>8, <3>1 DEF Current, Stale
  <2>9. ASSUME latest # <<>>, Current(latest[1]), \E i \in 1..Len(Line) : Current(Line[i].frame)
        PROVE  /\ latest' # <<>> /\ Current(latest[1])'
               /\ \E i \in 1..Len(Line') : Current(Line[i].frame)'
    BY <1>1, <2>1, <2>5, <2>9 DEF Current
  <2>10. AnswerInv'
    BY <1>1, <2>1, <2>7, <2>8, <2>9 DEF Inv, AnswerInv
  <2>. QED
    BY <1>2, <2>5, <2>6, <2>10 DEF Inv
<1>. QED
  BY <1>3, <1>4

\* The session is closed while no request is waited for, or as one fails.
LEMMA CloseInv ==
  ASSUME Inv, Close, pc' = "idle", serial' = serial, want' \in Requests \cup {NoRequest},
         \/ result' = result
         \/ /\ result'.kind = "failed" \/ result'.of = result'.serial
            /\ result' \in [kind : {"refused", "failed"}, serial : 0..MaxRequests,
                            of : 0..MaxRequests]
  PROVE  Inv'
<1>1. /\ ref' = 0 /\ open' = FALSE /\ extra' = extra
      /\ pending' = <<>> /\ stream' = <<>> /\ buffer' = <<>> /\ latest' = <<>>
  BY DEF Close
<1>2. ShapeInv' /\ OrderInv'
  <2>1. Line' = <<>> /\ Len(Line') = 0
    BY <1>1 DEF Line
  <2>. QED
    BY <2>1 DEF ShapeInv, OrderInv
<1>3. TypeOK'
  <2>1. <<>> \in Seq(Requests) /\ <<>> \in Seq(Pieces) /\ <<>> \in Seq(Frames) /\ Len(<<>>) <= 1
    BY EmptySeq
  <2>2. result' \in [kind : {"none", "response", "refused", "failed"},
                     serial : 0..MaxRequests, of : 0..MaxRequests]
    BY DEF Inv, TypeOK
  <2>3. ref' \in 0..MaxRef /\ serial' \in 0..MaxRequests /\ extra' \in 0..MaxExtra
    BY <1>1, RefAssumption DEF Inv, TypeOK
  <2>4. open' \in BOOLEAN
    BY <1>1
  <2>. QED
    BY <1>1, <2>1, <2>2, <2>3, <2>4 DEF TypeOK
<1>4. AnswerInv' /\ Correlated'
  BY <1>1 DEF Inv, AnswerInv, Correlated
<1>. QED
  BY <1>2, <1>3, <1>4 DEF Inv

\* The frame at the front has been looked at; a request ends with its answer only.
LEMMA DroppedInv ==
  ASSUME Inv, Complete, buffer' = Rest, UNCHANGED <<stream, ref, serial>>,
         pc' = pc \/ (pc' = "idle" /\ Current(buffer[1].frame))
  PROVE  /\ ShapeInv' /\ OrderInv' /\ buffer' \in Seq(Pieces)
         /\ 1 \in 1..Len(Line) /\ 2 \in 1..Len(Line)
         /\ Line[1] = buffer[1] /\ Line[2].frame = buffer[1].frame
         /\ \A i \in 3..Len(Line) : i - 2 \in 1..Len(Line') /\ Line'[i - 2] = Line[i]
         /\ \A i \in 1..Len(Line') : i + 2 \in 1..Len(Line) /\ Line'[i] = Line[i + 2]
<1>1. TypeOK
  BY DEF Inv
<1>2. /\ buffer' \in Seq(Pieces) /\ Len(Line) >= 2 /\ Line[1] = buffer[1]
      /\ Len(Line') = Len(Line) - 2
      /\ \A i \in 1..Len(Line') : i + 2 \in 1..Len(Line) /\ Line'[i] = Line[i + 2]
  BY <1>1, DroppedLine
<1>3. Len(Line) \in Nat /\ Len(Line) % 2 = 0
  BY <1>1, LineFacts DEF Inv, ShapeInv
<1>4. 1 \in 1..Len(Line) /\ 2 \in 1..Len(Line)
  BY <1>2, <1>3
<1>5. Line[2].frame = Line[1].frame
  <2>1. 1 % 2 = 1 => Line[1 + 1].frame = Line[1].frame
    BY <1>4 DEF Inv, ShapeInv
  <2>. QED
    BY <2>1
<1>6. \A i \in 3..Len(Line) : i - 2 \in 1..Len(Line') /\ Line'[i - 2] = Line[i]
  <2>1. ASSUME NEW i \in 3..Len(Line) PROVE i - 2 \in 1..Len(Line') /\ Line'[i - 2] = Line[i]
    <3>1. i - 2 \in 1..Len(Line') /\ (i - 2) + 2 = i
      BY <1>2, <1>3
    <3>. QED
      BY <1>2, <3>1
  <2>. QED
    BY <2>1
<1>7. ShapeInv'
  <2>1. Len(Line') % 2 = 0
    BY <1>2, <1>3
  <2>2. ASSUME NEW i \in 1..Len(Line')
        PROVE  Line'[i].part = (IF i % 2 = 1 THEN "head" ELSE "tail")
    <3>1. (i + 2) % 2 = i % 2 /\ i + 2 \in 1..Len(Line)
      BY <1>2, <1>3
    <3>. QED
      BY <1>2, <3>1 DEF Inv, ShapeInv
  <2>3. ASSUME NEW i \in 1..Len(Line'), i % 2 = 1
        PROVE  i + 1 \in 1..Len(Line') /\ Line'[i + 1].frame = Line'[i].frame
    <3>1. (i + 2) % 2 = 1 /\ i + 2 \in 1..Len(Line)
      BY <1>2, <1>3, <2>3
    <3>2. (i + 2) + 1 \in 1..Len(Line) /\ Line[(i + 2) + 1].frame = Line[i + 2].frame
      BY <3>1 DEF Inv, ShapeInv
    <3>3. i + 1 \in 1..Len(Line') /\ (i + 1) + 2 = (i + 2) + 1
      BY <1>2, <1>3, <3>2
    <3>. QED
      BY <1>2, <3>2, <3>3
  <2>. QED
    BY <2>1, <2>2, <2>3 DEF ShapeInv
<1>8. OrderInv'
  <2>1. \A g : (Noise(g)' <=> Noise(g)) /\ (Current(g)' <=> Current(g)) /\ (Stale(g)' <=> Stale(g))
    BY DEF Noise, Current, Stale
  <2>2. ASSUME NEW i \in 1..Len(Line')
        PROVE  LET g == Line'[i].frame
               IN  Noise(g) \/ Current(g) \/ (pc' = "waiting" /\ Stale(g))
    <3>1. i + 2 \in 1..Len(Line) /\ Line'[i] = Line[i + 2] /\ 1 < i + 2
      BY <1>2
    <3>2. CASE pc' = pc
      BY <3>1, <3>2 DEF Inv, OrderInv
    <3>3. CASE Current(buffer[1].frame)
      BY <1>2, <1>4, <3>1, <3>3 DEF Inv, OrderInv
    <3>. QED
      BY <3>2, <3>3
  <2>3. ASSUME NEW i \in 1..Len(Line'), NEW k \in 1..Len(Line'), i < k,
               Current(Line'[i].frame)
        PROVE  ~Stale(Line'[k].frame)
    <3>1. i + 2 < k + 2
      BY <1>3, <2>3
    <3>. QED
      BY <1>2, <2>3, <3>1 DEF Inv, OrderInv
  <2>. QED
    BY <2>1, <2>2, <2>3 DEF OrderInv
<1>. QED
  BY <1>2, <1>4, <1>5, <1>6, <1>7, <1>8

\* A frame with another reference is passed over; it is not the answer.
LEMMA SkipInv ==
  ASSUME Inv, pc = "waiting", Complete, Skip(buffer[1].frame)
  PROVE  Inv'
<1>1. /\ buffer' = Rest
      /\ UNCHANGED <<open, ref, pc, want, serial, pending, stream, latest, extra, result>>
  BY DEF Skip, wireVars
<1>2. /\ ShapeInv' /\ OrderInv' /\ buffer' \in Seq(Pieces)
      /\ Line[1] = buffer[1] /\ Line[2].frame = buffer[1].frame
      /\ \A i \in 3..Len(Line) : i - 2 \in 1..Len(Line') /\ Line'[i - 2] = Line[i]
      /\ \A i \in 1..Len(Line') : i + 2 \in 1..Len(Line) /\ Line'[i] = Line[i + 2]
  BY <1>1, DroppedInv
<1>3. TypeOK'
  BY <1>1, <1>2 DEF Inv, TypeOK
<1>4. ~Current(buffer[1].frame)
  BY DEF Skip, IsAnswer, Inv, AnswerInv, Current
<1>5. AnswerInv'
  <2>1. ASSUME \A i \in 1..Len(Line) : ~Current(Line[i].frame)
        PROVE  \A i \in 1..Len(Line') : ~Current(Line[i].frame)'
    BY <1>1, <1>2, <2>1 DEF Current
  <2>2. ASSUME \E i \in 1..Len(Line) : Current(Line[i].frame)
        PROVE  \E i \in 1..Len(Line') : Current(Line[i].frame)'
    <3>1. PICK i \in 1..Len(Line) : Current(Line[i].frame)
      BY <2>2
    <3>2. i \in 3..Len(Line)
      BY <1>2, <1>4, <3>1
    <3>3. i - 2 \in 1..Len(Line') /\ Line'[i - 2] = Line[i]
      BY <1>2, <3>2
    <3>. QED
      BY <1>1, <3>1, <3>3 DEF Current
  <2>3. latest # <<>> => (Stale(latest[1]) => Stale(latest[1])')
                           /\ (Current(latest[1]) => Current(latest[1])')
    BY <1>1 DEF Current, Stale
  <2>. QED
    BY <1>1, <2>1, <2>2, <2>3 DEF Inv, AnswerInv
<1>6. Correlated'
  BY <1>1 DEF Inv, Correlated
<1>. QED
  BY <1>2, <1>3, <1>5, <1>6 DEF Inv

\* A frame with the reference and the kind that are waited for is the answer.
LEMMA TheAnswer ==
  ASSUME Inv, pc = "waiting", Complete, NEW f, f = buffer[1].frame,
         IsAnswer(f), f.type = want.type
  PROVE  /\ Current(f) /\ f.of = want.serial /\ f.of \in 0..MaxRequests
         /\ pending = <<>> /\ latest # <<>> /\ Current(latest[1])
<1>1. TypeOK
  BY DEF Inv
<1>2. 1 \in 1..Len(buffer) /\ 1 \in 1..Len(Line) /\ Line[1] = buffer[1]
  BY <1>1, LineFacts DEF Complete
<1>3. f \in Frames
  BY <1>1, <1>2, LineFacts DEF Pieces
<1>4. want \in Requests /\ want.serial = serial /\ want.ref = ref
  BY DEF Inv, AnswerInv
<1>5. f.type # Notification
  BY <1>4, TypesAssumption DEF Requests
<1>6. Noise(f) \/ Current(f) \/ Stale(f)
  BY <1>2 DEF Inv, OrderInv
<1>7. Current(f)
  BY <1>4, <1>5, <1>6 DEF IsAnswer, Noise, Stale
<1>8. Current(Line[1].frame)
  BY <1>2, <1>7
<1>9. pending = <<>> /\ latest # <<>> /\ Current(latest[1])
  BY <1>2, <1>8 DEF Inv, AnswerInv
<1>10. f.of = want.serial /\ f.of \in 0..MaxRequests
  BY <1>3, <1>4, <1>7 DEF Current, Frames
<1>. QED
  BY <1>7, <1>9, <1>10

\* A request ends with the gateway's answer to it.
LEMMA AnsweredInv ==
  ASSUME Inv, pc = "waiting", Complete, NEW f, f = buffer[1].frame,
         Confirm(f) \/ Refuse(f)
  PROVE  Inv'
<1>1. /\ Current(f) /\ f.of = want.serial /\ f.of \in 0..MaxRequests
      /\ pending = <<>> /\ latest # <<>> /\ Current(latest[1])
  BY TheAnswer DEF Confirm, Refuse
<1>2. /\ pc' = "idle" /\ want' = NoRequest /\ serial' = serial
      /\ \/ result' = [kind |-> "response", serial |-> want.serial, of |-> f.of]
         \/ result' = [kind |-> "refused", serial |-> want.serial, of |-> f.of]
  BY DEF Confirm, Refuse, End
<1>3. /\ result' \in [kind : {"response", "refused"}, serial : 0..MaxRequests,
                      of : 0..MaxRequests]
      /\ result'.of = result'.serial
  BY <1>1, <1>2
<1>4. CASE Refuse(f) /\ Close
  <2>1. result' = [kind |-> "refused", serial |-> want.serial, of |-> f.of]
    BY <1>4 DEF Refuse, End
  <2>2. result' \in [kind : {"refused", "failed"}, serial : 0..MaxRequests, of : 0..MaxRequests]
    BY <1>1, <2>1
  <2>. QED
    BY <1>2, <1>3, <1>4, <2>2, CloseInv
<1>5. CASE buffer' = Rest /\ UNCHANGED <<open, ref, wireVars>>
  <2>1. UNCHANGED <<open, ref, serial, pending, stream, latest, extra>>
    BY <1>2, <1>5 DEF wireVars
  <2>2. ShapeInv' /\ OrderInv' /\ buffer' \in Seq(Pieces)
    BY <1>1, <1>2, <1>5, <2>1, DroppedInv
  <2>3. TypeOK'
    BY <1>2, <1>3, <2>1, <2>2 DEF Inv, TypeOK
  <2>4. Current(latest[1])'
    BY <1>1, <2>1 DEF Current
  <2>5. AnswerInv' /\ Correlated'
    BY <1>1, <1>2, <1>3, <2>1, <2>4 DEF AnswerInv, Correlated
  <2>. QED
    BY <2>2, <2>3, <2>5 DEF Inv
<1>. QED
  BY <1>4, <1>5 DEF Confirm, Refuse

\* A request fails, and the session is closed.
LEMMA FailInv ==
  ASSUME Inv, FailAndClose, serial' = serial
  PROVE  Inv'
<1>1. want.serial \in 0..MaxRequests
  BY BoundsAssumption DEF Inv, TypeOK, Requests, NoRequest
<1>2. /\ result' = [kind |-> "failed", serial |-> want.serial, of |-> 0]
      /\ pc' = "idle" /\ want' = NoRequest /\ Close
  BY DEF FailAndClose, End
<1>3. result' \in [kind : {"refused", "failed"}, serial : 0..MaxRequests, of : 0..MaxRequests]
  BY <1>1, <1>2, BoundsAssumption
<1>. QED
  BY <1>2, <1>3, CloseInv

\* Every step keeps the invariant.
LEMMA NextInv ==
  ASSUME Inv, [Next]_vars
  PROVE  Inv'
<1>1. CASE CloseIdle
  BY <1>1, CloseInv DEF CloseIdle, Inv, TypeOK
<1>2. CASE Read
  <2>1. /\ Line' = Line /\ buffer' \in Seq(Pieces) /\ stream' \in Seq(Pieces)
        /\ UNCHANGED <<open, ref, pc, want, serial, pending, latest, extra, result>>
    BY <1>2, ReadLine DEF Inv, Read
  <2>2. TypeOK'
    BY <2>1 DEF Inv, TypeOK
  <2>3. ShapeInv' /\ Correlated'
    BY <2>1 DEF Inv, ShapeInv, Correlated
  <2>4. OrderInv' /\ AnswerInv'
    BY <2>1 DEF Inv, OrderInv, AnswerInv, Noise, Current, Stale
  <2>. QED
    BY <2>2, <2>3, <2>4 DEF Inv
<1>3. CASE ReadFails
  BY <1>3, FailInv DEF ReadFails
<1>4. CASE Handle
  <2>1. CASE Reject(buffer[1].frame)
    BY <2>1, FailInv DEF Reject
  <2>. QED
    BY <1>4, <2>1, SkipInv, AnsweredInv DEF Handle
<1>5. CASE UNCHANGED vars
  <2>1. /\ Line' = Line
        /\ UNCHANGED <<open, ref, pc, want, serial, pending, stream, buffer, latest, extra,
                       result>>
    BY <1>5 DEF vars, Line
  <2>2. TypeOK'
    BY <2>1 DEF Inv, TypeOK
  <2>3. ShapeInv' /\ Correlated'
    BY <2>1 DEF Inv, ShapeInv, Correlated
  <2>4. OrderInv' /\ AnswerInv'
    BY <2>1 DEF Inv, OrderInv, AnswerInv, Noise, Current, Stale
  <2>. QED
    BY <2>2, <2>3, <2>4 DEF Inv
<1>. QED
  BY <1>1, <1>2, <1>3, <1>4, <1>5, RequestInv, GatewayInv DEF Next

LEMMA Invariant == Spec => []Inv
<1>1. Inv /\ [Next]_vars => Inv'
  BY NextInv
<1>. QED
  BY InitInv, <1>1, PTL DEF Spec

------------------------------------------------------------------------------
(* Theorems                                                                *)

\* Type correctness: references stay within the width of their field.
THEOREM TypeCorrect == Spec => []TypeOK
<1>1. Inv => TypeOK
  BY DEF Inv
<1>. QED
  BY <1>1, Invariant, PTL

\* What a request returns or raises is the gateway's answer to that request.
THEOREM CorrelatedHolds == Spec => []Correlated
<1>1. Inv => Correlated
  BY DEF Inv
<1>. QED
  BY <1>1, Invariant, PTL

\* The answer that is waited for is still to be given, under way or in the buffer.
THEOREM AnswerAheadHolds == Spec => []AnswerAhead
<1>1. Inv => AnswerAhead
  <2>. SUFFICES ASSUME Inv PROVE AnswerAhead
    OBVIOUS
  <2>1. ASSUME pc = "waiting", pending = <<want>>
        PROVE  \E i \in 1..Len(pending) : pending[i].serial = want.serial
    <3>1. Len(pending) = 1 /\ pending[1] = want
      BY <2>1
    <3>. QED
      BY <3>1
  <2>2. ASSUME pc = "waiting", pending # <<want>>
        PROVE  \E i \in 1..Len(Line) : Line[i].frame.of = want.serial
    <3>1. want.serial = serial
      BY <2>2 DEF Inv, AnswerInv
    <3>2. PICK i \in 1..Len(Line) : Current(Line[i].frame)
      BY <2>2 DEF Inv, AnswerInv
    <3>. QED
      BY <3>1, <3>2 DEF Current
  <2>3. ShapeInv
    BY DEF Inv
  <2>. QED
    BY <2>1, <2>2, <2>3 DEF AnswerAhead, ShapeInv, Line
<1>. QED
  BY <1>1, Invariant, PTL
------------------------------------------------------------------------------
(* The session implements the exchange                                     *)

\* Every answer to the present request, sent once or repeated, is the same one.
OneAnswer ==
  \A i \in 1..Len(Line) :
    Current(Line[i].frame) => latest # <<>> /\ Line[i].frame = latest[1]

\* What is sent after the answer is no other answer.
LEMMA SentOneAnswer ==
  ASSUME Inv, NEW f \in Frames, Send(f), UNCHANGED <<serial, ref, buffer>>,
         \A i \in 1..Len(Line) :
           Current(Line[i].frame) => latest' # <<>> /\ Line[i].frame = latest'[1],
         Current(f) => latest' # <<>> /\ f = latest'[1]
  PROVE  OneAnswer'
<1>1. /\ Len(Line') = Len(Line) + 2 /\ Len(Line) \in Nat
      /\ \A i \in 1..Len(Line) : Line'[i] = Line[i]
      /\ Line'[Len(Line) + 1] = [part |-> "head", frame |-> f]
      /\ Line'[Len(Line) + 2] = [part |-> "tail", frame |-> f]
  BY SentLine, LineFacts DEF Inv
<1>2. ASSUME NEW i \in 1..Len(Line'), Current(Line'[i].frame)
      PROVE  latest' # <<>> /\ Line'[i].frame = latest'[1]
  <2>1. CASE i \in 1..Len(Line)
    BY <1>1, <1>2, <2>1
  <2>2. CASE i \notin 1..Len(Line)
    <3>1. i = Len(Line) + 1 \/ i = Len(Line) + 2
      BY <1>1, <2>2
    <3>2. Line'[i].frame = f
      BY <1>1, <3>1
    <3>. QED
      BY <1>2, <3>2
  <2>. QED
    BY <2>1, <2>2
<1>3. \A g : Current(g)' <=> Current(g)
  BY DEF Current
<1>. QED
  BY <1>2, <1>3 DEF OneAnswer

\* A frame has been taken from the front.
LEMMA DroppedOneAnswer ==
  ASSUME Inv, OneAnswer, Complete, buffer' = Rest,
         UNCHANGED <<stream, ref, serial, latest>>
  PROVE  OneAnswer'
<1>1. \A i \in 1..Len(Line') : i + 2 \in 1..Len(Line) /\ Line'[i] = Line[i + 2]
  BY DroppedLine DEF Inv
<1>2. \A g : Current(g)' <=> Current(g)
  BY DEF Current
<1>. QED
  BY <1>1, <1>2 DEF OneAnswer

\* Every step keeps the answer one.
LEMMA NextOneAnswer ==
  ASSUME Inv, OneAnswer, [Next]_vars
  PROVE  OneAnswer'
<1>1. ASSUME Close PROVE OneAnswer'
  <2>1. Line' = <<>>
    BY <1>1 DEF Close, Line
  <2>. QED
    BY <2>1 DEF OneAnswer
<1>2. ASSUME Line' = Line, UNCHANGED <<serial, ref, latest>> PROVE OneAnswer'
  BY <1>2 DEF OneAnswer, Current
<1>3. ASSUME NEW t \in Types, Request(t) PROVE OneAnswer'
  <2>1. AnswerInv' /\ pc' = "waiting" /\ pending' # <<>>
    BY <1>3, RequestInv DEF Request, Inv, TypeOK
  <2>2. \A i \in 1..Len(Line') : ~Current(Line[i].frame)'
    BY <2>1 DEF AnswerInv
  <2>. QED
    BY <2>2 DEF OneAnswer
<1>4. CASE CloseIdle
  BY <1>1, <1>4 DEF CloseIdle
<1>5. CASE Read
  BY <1>2, <1>5, ReadLine DEF Read, Inv
<1>6. CASE ReadFails
  BY <1>1, <1>6 DEF ReadFails, FailAndClose
<1>7. CASE Handle
  <2>. DEFINE f == buffer[1].frame
  <2>1. Complete /\ (Skip(f) \/ Reject(f) \/ Confirm(f) \/ Refuse(f))
    BY <1>7 DEF Handle
  <2>. HIDE DEF f
  <2>2. CASE Close
    BY <1>1, <2>2
  <2>3. CASE buffer' = Rest /\ UNCHANGED <<stream, ref, serial, latest>>
    BY <2>1, <2>3, DroppedOneAnswer
  <2>. QED
    BY <2>1, <2>2, <2>3 DEF Skip, Reject, Confirm, Refuse, FailAndClose, wireVars
<1>8. CASE Answer
  <2>1. PICK ok \in BOOLEAN :
          LET r == Head(pending)
              f == [ours |-> TRUE, ref |-> r.ref, type |-> r.type, ok |-> ok, of |-> r.serial]
          IN  Send(f) /\ latest' = <<f>>
    BY <1>8 DEF Answer
  <2>. DEFINE f == [ours |-> TRUE, ref |-> want.ref, type |-> want.type, ok |-> ok,
                    of |-> want.serial]
  <2>2. /\ pending = <<want>> /\ want \in Requests
        /\ \A i \in 1..Len(Line) : ~Current(Line[i].frame)
    BY <1>8 DEF Answer, Inv, TypeOK, AnswerInv
  <2>3. Head(pending) = want
    BY <2>2
  <2>4. Send(f) /\ latest' = <<f>>
    BY <2>1, <2>3
  <2>5. f \in Frames
    BY <2>2 DEF Frames, Requests
  <2>. HIDE DEF f
  <2>6. latest' # <<>> /\ f = latest'[1] /\ UNCHANGED <<serial, ref, buffer>>
    BY <1>8, <2>4 DEF Answer
  <2>. QED
    BY <2>2, <2>4, <2>5, <2>6, SentOneAnswer
<1>9. CASE Repeat
  <2>1. latest # <<>> /\ Send(latest[1]) /\ UNCHANGED <<serial, ref, buffer, latest>>
    BY <1>9 DEF Repeat
  <2>2. latest[1] \in Frames
    BY <2>1, EmptySeq, ElementOfSeq DEF Inv, TypeOK
  <2>. QED
    BY <2>1, <2>2, SentOneAnswer DEF OneAnswer
<1>10. CASE Notify
  <2>1. PICK r \in 0..MaxRef, ours \in BOOLEAN :
          Send([ours |-> ours, ref |-> r, type |-> Notification, ok |-> TRUE, of |-> 0])
    BY <1>10 DEF Notify
  <2>. DEFINE f == [ours |-> ours, ref |-> r, type |-> Notification, ok |-> TRUE, of |-> 0]
  <2>2. f \in Frames /\ ~Current(f) /\ Send(f)
    BY <2>1, BoundsAssumption DEF Frames, Current
  <2>. HIDE DEF f
  <2>. QED
    BY <1>10, <2>2, SentOneAnswer DEF Notify, OneAnswer
<1>11. CASE UNCHANGED vars
  BY <1>2, <1>11 DEF vars, Line
<1>. QED
  BY <1>3, <1>4, <1>5, <1>6, <1>7, <1>8, <1>9, <1>10, <1>11 DEF Next

\* The answer that ends a request is the decision of the gateway on it.
LEMMA TheDecision ==
  ASSUME Inv, OneAnswer, pc = "waiting", Complete, NEW f, f = buffer[1].frame,
         IsAnswer(f), f.type = want.type
  PROVE  pending = <<>> /\ latest[1] = f /\ want.serial = serial
<1>1. pending = <<>> /\ Current(f)
  BY TheAnswer
<1>2. 1 \in 1..Len(Line) /\ Line[1] = buffer[1]
  BY LineFacts DEF Inv, Complete
<1>. QED
  BY <1>1, <1>2 DEF OneAnswer, Inv, AnswerInv

\* A step of the exchange, or none.
PromiseStep == [Promise!Next]_(Promise!vars)

\* The exchange begins as the session does.
LEMMA InitPromise == Init => Promise!Init /\ OneAnswer
<1>. SUFFICES ASSUME Init PROVE Promise!Init /\ OneAnswer
  OBVIOUS
<1>1. Promise!Init
  BY DEF Init, Promise!Init
<1>2. Line = <<>>
  BY DEF Init, Line
<1>. QED
  BY <1>1, <1>2 DEF OneAnswer

\* A request that fails, decided or not, fails in the exchange.
LEMMA FailPromise ==
  ASSUME Inv, pc = "waiting", FailAndClose, serial' = serial
  PROVE  PromiseStep
<1>1. pc' = "idle" /\ result' = [kind |-> "failed", serial |-> serial, of |-> 0]
  BY DEF FailAndClose, End, Inv, AnswerInv
<1>2. Promise!Fail
  BY <1>1 DEF Promise!Fail, Promise!End
<1>. QED
  BY <1>2 DEF PromiseStep, Promise!Next

\* Nothing the exchange speaks of has changed.
LEMMA SamePromise ==
  ASSUME UNCHANGED <<serial, result, pc, pending, latest>>
  PROVE  PromiseStep
  BY DEF PromiseStep, Promise!vars

\* Every step of the session is a step of the exchange, or none.
LEMMA NextPromise ==
  ASSUME Inv, OneAnswer, [Next]_vars
  PROVE  PromiseStep
<1>1. pc \in {"idle", "waiting"}
  BY DEF Inv, TypeOK
<1>2. ASSUME NEW t \in Types, Request(t) PROVE PromiseStep
  <2>1. AnswerInv' /\ pc = "idle" /\ pc' = "waiting" /\ serial' = serial + 1 /\ result' = result
        /\ pending' # <<>>
    BY <1>2, RequestInv DEF Request, Inv, TypeOK
  <2>2. Promise!Ask
    BY <2>1 DEF Promise!Ask
  <2>. QED
    BY <2>2 DEF PromiseStep, Promise!Next
<1>3. CASE CloseIdle
  BY <1>3 DEF CloseIdle, PromiseStep, Promise!vars
<1>4. CASE Read
  BY <1>4, SamePromise DEF Read
<1>5. CASE ReadFails
  BY <1>5, FailPromise DEF ReadFails
<1>6. CASE Handle
  <2>. DEFINE f == buffer[1].frame
  <2>1. pc = "waiting" /\ Complete /\ (Skip(f) \/ Reject(f) \/ Confirm(f) \/ Refuse(f))
    BY <1>6 DEF Handle
  <2>2. CASE Skip(f)
    BY <2>2, SamePromise DEF Skip, wireVars
  <2>3. CASE Reject(f)
    BY <2>1, <2>3, FailPromise DEF Reject
  <2>4. CASE Confirm(f)
    <3>1. pending = <<>> /\ latest[1].ok /\ want.serial = serial
      BY <2>1, <2>4, TheDecision DEF Confirm
    <3>2. /\ pc' = "idle" /\ serial' = serial
          /\ result' = [kind |-> "response", serial |-> want.serial, of |-> f.of]
      BY <2>4 DEF Confirm, End
    <3>3. Promise!Respond
      BY <2>1, <3>1, <3>2 DEF Promise!Respond, Promise!End
    <3>. QED
      BY <3>3 DEF PromiseStep, Promise!Next
  <2>5. CASE Refuse(f)
    <3>1. pending = <<>> /\ ~latest[1].ok /\ want.serial = serial
      BY <2>1, <2>5, TheDecision DEF Refuse
    <3>2. /\ pc' = "idle" /\ serial' = serial
          /\ result' = [kind |-> "refused", serial |-> want.serial, of |-> f.of]
      BY <2>5 DEF Refuse, End
    <3>3. Promise!Refuse
      BY <2>1, <3>1, <3>2 DEF Promise!Refuse, Promise!End
    <3>. QED
      BY <3>3 DEF PromiseStep, Promise!Next
  <2>. QED
    BY <2>1, <2>2, <2>3, <2>4, <2>5
<1>7. CASE Answer
  <2>1. pc = "waiting" /\ pending = <<want>>
    BY <1>7 DEF Answer, Inv, TypeOK, AnswerInv
  <2>2. pending' = <<>> /\ UNCHANGED <<pc, serial, result>>
    BY <1>7, <2>1 DEF Answer
  <2>3. Promise!Decide
    BY <2>1, <2>2 DEF Promise!Decide
  <2>. QED
    BY <2>3 DEF PromiseStep, Promise!Next
<1>8. CASE Repeat \/ Notify
  BY <1>8, SamePromise DEF Repeat, Notify
<1>9. CASE UNCHANGED vars
  BY <1>9, SamePromise DEF vars
<1>. QED
  BY <1>2, <1>3, <1>4, <1>5, <1>6, <1>7, <1>8, <1>9 DEF Next

\* The session implements the exchange for any width of the reference, any kinds of
\* request and any number of requests and unasked frames: a request ends with the
\* gateway's decision on itself, or fails.
THEOREM SessionImplementsExchange == Spec => ImplementsExchange
<1>1. Inv /\ OneAnswer /\ [Next]_vars => OneAnswer' /\ [Promise!Next]_(Promise!vars)
  BY NextOneAnswer, NextPromise DEF PromiseStep
<1>. QED
  BY <1>1, InitPromise, Invariant, PTL DEF Spec, ImplementsExchange, Promise!Spec

------------------------------------------------------------------------------
(* The end of a request                                                    *)

\* What is still to be given, to arrive and to be looked at; a frame that is
\* given counts for more than its pieces under way, and these for more than the
\* same pieces in the buffer.
Ahead == Len(buffer) + 2 * Len(stream) + 5 * (Len(pending) + (MaxExtra - extra))

AheadFalls == Ahead' \in Nat /\ Ahead' < Ahead

\* What is ahead is counted.
LEMMA AheadCounts ==
  ASSUME TypeOK
  PROVE  /\ Len(buffer) \in Nat /\ Len(stream) \in Nat /\ Len(pending) \in Nat
         /\ extra \in Nat /\ MaxExtra - extra \in Nat /\ Ahead \in Nat
<1>1. Len(buffer) \in Nat /\ Len(stream) \in Nat
  BY LineFacts
<1>2. Len(pending) \in Nat
  BY LenProperties DEF TypeOK
<1>3. extra \in Nat /\ MaxExtra - extra \in Nat
  BY BoundsAssumption DEF TypeOK
<1>. QED
  BY <1>1, <1>2, <1>3 DEF Ahead

\* It falls when n pieces are read, a frame is passed over, an answer given, and
\* a frame sent that nobody asked for.
LEMMA Weights ==
  ASSUME NEW b \in Nat, NEW s \in Nat, NEW p \in Nat, NEW x \in Nat
  PROVE  /\ \A n \in 1..s : /\ (b + n) + 2 * (s - n) + 5 * (p + x) \in Nat
                            /\ (b + n) + 2 * (s - n) + 5 * (p + x) < b + 2 * s + 5 * (p + x)
         /\ b >= 2 => /\ (b - 2) + 2 * s + 5 * (p + x) \in Nat
                      /\ (b - 2) + 2 * s + 5 * (p + x) < b + 2 * s + 5 * (p + x)
         /\ p >= 1 => /\ b + 2 * (s + 2) + 5 * ((p - 1) + x) \in Nat
                      /\ b + 2 * (s + 2) + 5 * ((p - 1) + x) < b + 2 * s + 5 * (p + x)
         /\ x >= 1 => /\ b + 2 * (s + 2) + 5 * (p + (x - 1)) \in Nat
                      /\ b + 2 * (s + 2) + 5 * (p + (x - 1)) < b + 2 * s + 5 * (p + x)
OBVIOUS

\* A chunk that is read moves pieces into the buffer.
LEMMA ReadFalls ==
  ASSUME TypeOK, Read
  PROVE  AheadFalls
<1>1. PICK n \in 1..Len(stream) :
        /\ buffer' = buffer \o SubSeq(stream, 1, n)
        /\ stream' = SubSeq(stream, n + 1, Len(stream))
        /\ UNCHANGED <<pending, extra>>
  BY DEF Read
<1>2. /\ buffer \in Seq(Pieces) /\ stream \in Seq(Pieces) /\ Len(stream) \in Nat
      /\ Len(buffer) \in Nat /\ Len(pending) \in Nat /\ MaxExtra - extra \in Nat
  BY AheadCounts DEF TypeOK
<1>3. \A i \in 1..Len(stream) : stream[i] \in Pieces
  BY <1>2, ElementOfSeq
<1>4. SubSeq(stream, 1, n) \in Seq(Pieces) /\ Len(SubSeq(stream, 1, n)) = n
  BY <1>2, <1>3, SubSeqProperties
<1>5. Len(stream') = Len(stream) - n
  <2>1. Len(SubSeq(stream, n + 1, Len(stream)))
          = IF n + 1 <= Len(stream) THEN Len(stream) - (n + 1) + 1 ELSE 0
    BY <1>2, <1>3, SubSeqProperties
  <2>. QED
    BY <1>1, <1>2, <2>1
<1>6. Len(buffer') = Len(buffer) + n
  <2>1. Len(buffer \o SubSeq(stream, 1, n)) = Len(buffer) + Len(SubSeq(stream, 1, n))
    BY <1>2, <1>4, ConcatProperties
  <2>. QED
    BY <1>1, <1>4, <2>1
<1>7. Len(pending') = Len(pending) /\ MaxExtra - extra' = MaxExtra - extra
  BY <1>1
<1>. DEFINE x == MaxExtra - extra
<1>8. /\ Ahead = Len(buffer) + 2 * Len(stream) + 5 * (Len(pending) + x)
      /\ Ahead' = (Len(buffer) + n) + 2 * (Len(stream) - n) + 5 * (Len(pending) + x)
  BY <1>5, <1>6, <1>7 DEF Ahead
<1>9. x \in Nat
  BY <1>2
<1>. HIDE DEF x
<1>. QED
  BY <1>2, <1>8, <1>9, Weights DEF AheadFalls

\* A frame that is passed over leaves the buffer.
LEMMA SkipFalls ==
  ASSUME TypeOK, Complete, NEW f, Skip(f)
  PROVE  AheadFalls
<1>1. buffer' = Rest /\ UNCHANGED <<pending, stream, extra>>
  BY DEF Skip, wireVars
<1>2. Len(buffer) >= 2 /\ Len(buffer') = Len(buffer) - 2
  BY <1>1, DroppedLine DEF Complete
<1>3. Len(stream') = Len(stream) /\ Len(pending') = Len(pending) /\ extra' = extra
  BY <1>1
<1>. DEFINE x == MaxExtra - extra
<1>4. /\ Ahead = Len(buffer) + 2 * Len(stream) + 5 * (Len(pending) + x)
      /\ Ahead' = (Len(buffer) - 2) + 2 * Len(stream) + 5 * (Len(pending) + x)
  BY <1>2, <1>3 DEF Ahead
<1>5. x \in Nat /\ Len(buffer) \in Nat /\ Len(stream) \in Nat /\ Len(pending) \in Nat
  BY AheadCounts
<1>. HIDE DEF x
<1>. QED
  BY <1>2, <1>4, <1>5, Weights DEF AheadFalls

\* An answer uses up its request, and a frame nobody asked for one of those the
\* gateway may send.
LEMMA SentFalls ==
  ASSUME TypeOK, Answer \/ Repeat \/ Notify
  PROVE  AheadFalls
<1>1. /\ stream \in Seq(Pieces) /\ pending \in Seq(Requests) /\ buffer' = buffer
  BY DEF TypeOK, Answer, Repeat, Notify
<1>2. \E f : Send(f)
  BY DEF Answer, Repeat, Notify
<1>3. Len(stream') = Len(stream) + 2
  BY <1>1, <1>2 DEF Send
<1>4. CASE Answer
  <2>1. pending # <<>> /\ pending' = Tail(pending) /\ extra' = extra
    BY <1>4 DEF Answer
  <2>2. Len(pending') = Len(pending) - 1 /\ Len(pending) >= 1
    BY <1>1, <2>1, HeadTailProperties, EmptySeq, AheadCounts
  <2>. DEFINE x == MaxExtra - extra
  <2>3. /\ Ahead = Len(buffer) + 2 * Len(stream) + 5 * (Len(pending) + x)
        /\ Ahead' = Len(buffer) + 2 * (Len(stream) + 2) + 5 * ((Len(pending) - 1) + x)
    BY <1>1, <1>3, <2>1, <2>2 DEF Ahead
  <2>4. x \in Nat /\ Len(buffer) \in Nat /\ Len(stream) \in Nat /\ Len(pending) \in Nat
    BY AheadCounts
  <2>. HIDE DEF x
  <2>. QED
    BY <2>2, <2>3, <2>4, Weights DEF AheadFalls
<1>5. CASE Repeat \/ Notify
  <2>1. pending' = pending /\ extra' = extra + 1 /\ extra < MaxExtra
    BY <1>5 DEF Repeat, Notify
  <2>2. Len(pending') = Len(pending)
    BY <2>1
  <2>3. MaxExtra - extra' = (MaxExtra - extra) - 1 /\ MaxExtra - extra >= 1
    BY <2>1, AheadCounts, BoundsAssumption
  <2>4. Ahead' = Len(buffer) + 2 * (Len(stream) + 2)
                   + 5 * (Len(pending) + ((MaxExtra - extra) - 1))
    BY <1>1, <1>3, <2>2, <2>3 DEF Ahead
  <2>. DEFINE x == MaxExtra - extra
  <2>5. /\ x \in Nat /\ x >= 1
        /\ Len(buffer) \in Nat /\ Len(stream) \in Nat /\ Len(pending) \in Nat
    BY <2>3, AheadCounts
  <2>6. /\ Ahead = Len(buffer) + 2 * Len(stream) + 5 * (Len(pending) + x)
        /\ Ahead' = Len(buffer) + 2 * (Len(stream) + 2) + 5 * (Len(pending) + (x - 1))
    BY <2>4 DEF Ahead
  <2>. HIDE DEF x
  <2>. QED
    BY <2>5, <2>6, Weights DEF AheadFalls
<1>. QED
  BY <1>4, <1>5

\* A request that is not ended by a step has less ahead of it than before,
\* whatever the gateway sends and however it is cut: it is not the loop over
\* frames with other references that keeps a request from ending
\* (session.py:62-80, 82-96).
RequestBounded == [][pc = "waiting" /\ pc' = "waiting" => AheadFalls]_vars

\* With the fairness of FairSpec, which this leaves to TLC, it ends.
THEOREM RequestBoundedHolds == Spec => RequestBounded
<1>. DEFINE A == pc = "waiting" /\ pc' = "waiting" => AheadFalls
<1>1. ASSUME Inv, [Next]_vars PROVE [A]_vars
  <2>. SUFFICES ASSUME pc = "waiting", pc' = "waiting", ~UNCHANGED vars PROVE AheadFalls
    OBVIOUS
  <2>1. TypeOK
    BY <1>1 DEF Inv
  <2>2. \A t \in Types : ~Request(t)
    BY DEF Request
  <2>3. ~CloseIdle /\ ~ReadFails
    BY DEF CloseIdle, ReadFails, FailAndClose, End
  <2>4. CASE Handle
    <3>1. PICK f : Skip(f) /\ Complete
      BY <2>4 DEF Handle, Reject, Confirm, Refuse, FailAndClose, End
    <3>. QED
      BY <2>1, <3>1, SkipFalls
  <2>. QED
    BY <1>1, <2>1, <2>2, <2>3, <2>4, ReadFalls, SentFalls DEF Next
<1>. QED
  BY <1>1, Invariant, PTL DEF Spec, RequestBounded
=============================================================================
