------------------------------- MODULE Session -------------------------------
(***************************************************************************)
(* ConnectBoxSession: requests to the gateway, one at a time, and the      *)
(* frames that come back over one connection.  A frame arrives in pieces   *)
(* that transport.read returns in chunks of any size; two pieces stand for *)
(* its bytes, and the length at its start tells when it is complete.       *)
(* Besides its answers the gateway may send an answer twice, frames nobody *)
(* asked for, and frames that bear another address.  Whoever uses the      *)
(* session closes it after most failures, and the next request opens       *)
(* another.                                                                *)
(***************************************************************************)
EXTENDS Naturals, Sequences

CONSTANTS
  MaxRef,       \* largest reference (2^32 - 1)
  Types,        \* kinds of request, with a confirmation each
  MaxRequests,  \* bound on the requests made
  MaxExtra      \* bound on the frames the gateway sends unasked

\* Two references tell an answer from the repetition of the one before.
ASSUME RefAssumption == MaxRef \in Nat /\ MaxRef >= 2
ASSUME BoundsAssumption == MaxRequests \in Nat /\ MaxExtra \in Nat

VARIABLES
  open,     \* the client holds a session
  ref,      \* _reference
  pc,       \* "idle", or "waiting" for an answer
  want,     \* the request that is waited for
  serial,   \* history: number of requests made, in all sessions
  pending,  \* requests the gateway has not answered yet
  stream,   \* pieces under way from the gateway
  buffer,   \* _buffer, in pieces
  latest,   \* answers sent in this session: the latest, if any
  extra,    \* number of frames sent unasked
  result    \* how the latest request ended, and which request was answered

vars == <<open, ref, pc, want, serial, pending, stream, buffer, latest, extra, result>>
wireVars == <<pending, stream, latest, extra>>

Notification == "notification"
ASSUME TypesAssumption == Notification \notin Types

Requests == [ref : 1..MaxRef, type : Types, serial : 1..MaxRequests]
NoRequest == [ref |-> 0, type |-> Notification, serial |-> 0]
\* of: history, the request that the frame answers; 0 if none.
Frames == [ours : BOOLEAN, ref : 0..MaxRef, type : Types \cup {Notification},
           ok : BOOLEAN, of : 0..MaxRequests]
Pieces == [part : {"head", "tail"}, frame : Frames]

Init ==
  /\ open = FALSE /\ ref = 0 /\ pc = "idle" /\ want = NoRequest /\ serial = 0
  /\ pending = <<>> /\ stream = <<>> /\ buffer = <<>> /\ latest = <<>> /\ extra = 0
  /\ result = [kind |-> "none", serial |-> 0, of |-> 0]

------------------------------------------------------------------------------
(* The client                                                              *)

\* Mutant of NextReference: the reference does not start over.
ReferenceUnbounded == ref + 1

NextReference == (ref % MaxRef) + 1

\* close drops the connection with all that is under way in it, and the session
\* with what it has buffered.
Close ==
  /\ open' = FALSE /\ ref' = 0
  /\ pending' = <<>> /\ stream' = <<>> /\ buffer' = <<>> /\ latest' = <<>>
  /\ UNCHANGED extra

End(kind, of) ==
  /\ pc' = "idle"
  /\ want' = NoRequest
  /\ result' = [kind |-> kind, serial |-> want.serial, of |-> of]

FailAndClose == End("failed", 0) /\ Close

\* request: a session is opened if there is none, and the frame written.
Request(t) ==
  /\ pc = "idle" /\ serial < MaxRequests
  /\ open' = TRUE
  /\ pc' = "waiting"
  /\ ref' = NextReference
  /\ serial' = serial + 1
  /\ want' = [ref |-> NextReference, type |-> t, serial |-> serial + 1]
  /\ pending' = Append(pending, want')
  /\ UNCHANGED <<stream, buffer, latest, extra, result>>

\* The session's user closes it between requests, or writing a request fails.
CloseIdle ==
  /\ pc = "idle" /\ open
  /\ Close
  /\ UNCHANGED <<pc, want, serial, result>>

\* Frame.decode finds a whole frame.
Complete == Len(buffer) >= 2

\* Mutant of Rest: what follows the frame in the buffer is lost.
RestDropped == <<>>

\* Mutant of Rest: the frame stays in the buffer.
RestAll == buffer

\* The bytes after the first frame.
Rest == SubSeq(buffer, 3, Len(buffer))

\* transport.read returns a chunk.
Read ==
  /\ pc = "waiting" /\ ~Complete
  /\ \E n \in 1..Len(stream) :
       /\ buffer' = buffer \o SubSeq(stream, 1, n)
       /\ stream' = SubSeq(stream, n + 1, Len(stream))
  /\ UNCHANGED <<open, ref, pc, want, serial, pending, latest, extra, result>>

\* It times out, or the connection is gone.
ReadFails ==
  /\ pc = "waiting" /\ ~Complete
  /\ FailAndClose
  /\ UNCHANGED serial

\* Mutant of IsAnswer: whatever comes next is taken for the answer.
AnyAnswer(f) == TRUE

IsAnswer(f) == f.ref = want.ref

\* A whole frame is looked at.  One with another reference is passed over.
Skip(f) ==
  /\ f.ours /\ ~IsAnswer(f)
  /\ buffer' = Rest
  /\ UNCHANGED <<open, ref, pc, want, serial, wireVars, result>>

\* A foreign address or another confirmation than the expected one is an error.
Reject(f) ==
  /\ ~f.ours \/ (IsAnswer(f) /\ f.type # want.type)
  /\ FailAndClose
  /\ UNCHANGED serial

\* The request is confirmed.
Confirm(f) ==
  /\ f.ours /\ IsAnswer(f) /\ f.type = want.type /\ f.ok
  /\ End("response", f.of)
  /\ buffer' = Rest
  /\ UNCHANGED <<open, ref, serial, wireVars>>

\* The request is refused: for the summer settings the session stays in use, for
\* any other request it is closed.
Refuse(f) ==
  /\ f.ours /\ IsAnswer(f) /\ f.type = want.type /\ ~f.ok
  /\ End("refused", f.of)
  /\ \/ Close
     \/ buffer' = Rest /\ UNCHANGED <<open, ref, wireVars>>
  /\ UNCHANGED serial

Handle ==
  /\ pc = "waiting" /\ Complete
  /\ LET f == buffer[1].frame IN Skip(f) \/ Reject(f) \/ Confirm(f) \/ Refuse(f)

------------------------------------------------------------------------------
(* The gateway                                                             *)

Send(f) == stream' = stream \o <<[part |-> "head", frame |-> f], [part |-> "tail", frame |-> f]>>

\* A request is answered, in order.
Answer ==
  /\ pending # <<>>
  /\ \E ok \in BOOLEAN :
       LET r == Head(pending)
           f == [ours |-> TRUE, ref |-> r.ref, type |-> r.type, ok |-> ok, of |-> r.serial]
       IN  Send(f) /\ latest' = <<f>>
  /\ pending' = Tail(pending)
  /\ UNCHANGED <<open, ref, pc, want, serial, buffer, extra, result>>

\* The latest answer is sent once more.
Repeat ==
  /\ latest # <<>> /\ extra < MaxExtra
  /\ Send(latest[1])
  /\ extra' = extra + 1
  /\ UNCHANGED <<open, ref, pc, want, serial, pending, buffer, latest, result>>

\* Something nobody asked for; it may bear any reference.
Notify ==
  /\ open /\ extra < MaxExtra
  /\ \E r \in 0..MaxRef : \E ours \in BOOLEAN :
       Send([ours |-> ours, ref |-> r, type |-> Notification, ok |-> TRUE, of |-> 0])
  /\ extra' = extra + 1
  /\ UNCHANGED <<open, ref, pc, want, serial, pending, buffer, latest, result>>

Next ==
  \/ \E t \in Types : Request(t)
  \/ CloseIdle \/ Read \/ ReadFails \/ Handle
  \/ Answer \/ Repeat \/ Notify

Spec == Init /\ [][Next]_vars

\* The thread goes on with what it has, and a read that brings nothing times
\* out; the gateway need not answer.
FairSpec == Spec /\ WF_vars(Read \/ ReadFails) /\ WF_vars(Handle)

------------------------------------------------------------------------------
(* Properties                                                              *)

\* References stay within the width of the field (session.py:50), and a request
\* ends with a response, a refusal or a failure, never otherwise.
TypeOK ==
  /\ open \in BOOLEAN /\ ref \in 0..MaxRef
  /\ pc \in {"idle", "waiting"}
  /\ want \in Requests \cup {NoRequest}
  /\ serial \in 0..MaxRequests
  /\ pending \in Seq(Requests)
  /\ stream \in Seq(Pieces) /\ buffer \in Seq(Pieces)
  /\ latest \in Seq(Frames) /\ Len(latest) <= 1
  /\ extra \in 0..MaxExtra
  /\ result \in [kind : {"none", "response", "refused", "failed"},
                 serial : 0..MaxRequests, of : 0..MaxRequests]

\* The session as an exchange of requests and decisions: the gateway has decided a
\* request when it is no longer pending, as its latest answer says.
Promise == INSTANCE Exchange WITH
  made <- serial,
  decision <- IF pc = "idle" THEN "none"
              ELSE IF pending # <<>> THEN "open"
              ELSE IF latest[1].ok THEN "accepted" ELSE "refused",
  outcome <- [kind |-> result.kind, serial |-> result.serial]

\* However answers are cut into pieces, repeated, mixed with others and lost with
\* their connection, and though references start over, a request that returns has
\* been accepted by the gateway and one that is refused has been refused, once and
\* itself, not the request before it (session.py:50-80).
ImplementsExchange == Promise!Spec

\* The gateway's answer to the request that is waited for is never lost on the
\* way: it is still to be given, under way or in the buffer, in whole frames
\* (session.py:82-96).
AnswerAhead ==
  LET pieces == buffer \o stream
  IN  /\ Len(pieces) % 2 = 0
      /\ \A i \in 1..Len(pieces) :
           pieces[i].part = (IF i % 2 = 1 THEN "head" ELSE "tail")
      /\ pc = "waiting" =>
           \/ \E i \in 1..Len(pending) : pending[i].serial = want.serial
           \/ \E i \in 1..Len(pieces) : pieces[i].frame.of = want.serial

\* A request ends, as long as the gateway does not send unasked frames for ever.
RequestEnds == pc = "waiting" ~> pc = "idle"
=============================================================================
