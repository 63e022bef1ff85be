------------------------- MODULE StreamClient_proofs -------------------------
(***************************************************************************)
(* Proofs about the client of module StreamClient, for any number of       *)
(* threads, messages and connections: one frame is on the way at a time,   *)
(* and what goes out is what send() was given, in that order (FifoLink).   *)
(*                                                                         *)
(* OneFrameAtATime needs to know that nothing waits in an idle queue       *)
(* (IdleIsEmpty).  The refinement needs the numbers of the messages that   *)
(* are on their way: they are the last ones accepted (Numbered).           *)
(***************************************************************************)
EXTENDS StreamClient, SequenceTheorems, TLAPS

TypeOK ==
    /\ alive \in BOOLEAN /\ open \in BOOLEAN /\ connected \in BOOLEAN /\ active \in BOOLEAN
    /\ conn \in {"none", "resolve", "connect"}
    /\ read \in {"none", "header", "message"}
    /\ failing \in SUBSET {"connect", "read", "write"}
    /\ writes \in Seq(Nat) /\ queue \in Seq(Nat) /\ wire \in Seq(Nat)
    /\ accepted \in Nat /\ connects \in Nat /\ since \in Nat
    /\ checked \in SUBSET Senders

\* outbound_active_ is lowered only by a handler that finds the queue empty.
IdleIsEmpty == ~active => writes = <<>> /\ queue = <<>>

\* The messages in outbound_queue_ are the last ones accepted, and the one
\* that is being written came just before them.
Numbered ==
    /\ Len(writes) + Len(queue) <= accepted
    /\ \A i \in 1 .. Len(queue) : queue[i] = accepted - Len(queue) + i
    /\ writes # <<>> => writes[1] = accepted - Len(queue)

IInv == TypeOK /\ OneFrameAtATime /\ IdleIsEmpty /\ Numbered

-----------------------------------------------------------------------------
(* The inductive invariant. *)

\* The handlers and calls that leave what goes out alone.
Elsewhere ==
    \/ AsyncConnect \/ Disconnect \/ Destroy \/ \E t \in Senders : SendCheck(t)
    \/ HandleResolve \/ HandleConnect \/ HandleReadHeader \/ HandleReadMessage
    \/ HandleReadError \/ UNCHANGED vars

\* A step goes on elsewhere, or it is one of the three that work on the queue.
LEMMA Steps ==
    ASSUME [Next]_vars
    PROVE  Elsewhere \/ (\E t \in Senders : SendEnqueue(t)) \/ HandleWrite \/ HandleWriteError
  BY DEF Next, Handler, Application, Elsewhere

\* Sequences of no and of one message.
LEMMA Short ==
    /\ <<>> \in Seq(Nat) /\ Len(<<>>) = 0
    /\ \A n \in Nat : <<n>> \in Seq(Nat) /\ Len(<<n>>) = 1 /\ <<n>>[1] = n
<1>1. \A n \in Nat : <<n>> = Append(<<>>, n)
  OBVIOUS
<1>. QED  BY <1>1, EmptySeq, AppendProperties

\* A client that is not used yet satisfies the inductive invariant.
LEMMA InitIInv == Init => IInv
<1>. SUFFICES ASSUME Init PROVE IInv
  OBVIOUS
<1>1. TypeOK
  BY Short DEF Init, TypeOK
<1>2. OneFrameAtATime /\ IdleIsEmpty /\ Numbered
  BY Short DEF Init, OneFrameAtATime, IdleIsEmpty, Numbered
<1>. QED  BY <1>1, <1>2 DEF IInv

\* disconnect_nosig() closes the socket and fails what is in flight.
LEMMA DisconnectType ==
    ASSUME NEW cn, NEW rd, NEW wr, disconnect_nosig(cn, rd, wr)
    PROVE  /\ open' \in BOOLEAN /\ connected' \in BOOLEAN
           /\ failing' \in SUBSET {"connect", "read", "write"}
  BY DEF disconnect_nosig

LEMMA ElsewhereIInv == ASSUME IInv, Elsewhere PROVE IInv' /\ UNCHANGED outbound
<1>0. TypeOK /\ OneFrameAtATime /\ IdleIsEmpty /\ Numbered
  BY DEF IInv
<1>1. UNCHANGED outbound
  BY DEF Elsewhere, AsyncConnect, Disconnect, Destroy, SendCheck, HandleResolve, HandleConnect,
         HandleReadHeader, HandleReadMessage, HandleReadError, vars
<1>2. UNCHANGED <<writes, active, queue, accepted, wire>>
  BY <1>1 DEF outbound
<1>3. OneFrameAtATime' /\ IdleIsEmpty' /\ Numbered'
  BY <1>0, <1>2 DEF OneFrameAtATime, IdleIsEmpty, Numbered
<1>4. TypeOK'
  <2>. USE <1>0, <1>2 DEF TypeOK
  <2>1. CASE AsyncConnect
    BY <2>1 DEF AsyncConnect
  <2>2. CASE Disconnect
    BY <2>2, DisconnectType DEF Disconnect
  <2>3. CASE Destroy
    BY <2>3, DisconnectType DEF Destroy
  <2>4. CASE \E t \in Senders : SendCheck(t)
    BY <2>4 DEF SendCheck, socket
  <2>5. CASE HandleResolve
    BY <2>5, DisconnectType DEF HandleResolve
  <2>6. CASE HandleConnect
    BY <2>6, DisconnectType DEF HandleConnect
  <2>7. CASE HandleReadHeader
    BY <2>7, DisconnectType DEF HandleReadHeader
  <2>8. CASE HandleReadMessage
    BY <2>8 DEF HandleReadMessage
  <2>9. CASE HandleReadError
    BY <2>9, DisconnectType DEF HandleReadError
  <2>10. CASE UNCHANGED vars
    BY <2>10 DEF vars, socket
  <2>. QED
    BY <2>1, <2>2, <2>3, <2>4, <2>5, <2>6, <2>7, <2>8, <2>9, <2>10 DEF Elsewhere
<1>. QED  BY <1>1, <1>3, <1>4 DEF IInv

\* send() queues its message behind those that wait, or begins to write it when
\* none does.
LEMMA SendIInv == ASSUME IInv, NEW t \in Senders, SendEnqueue(t) PROVE IInv'
<1>0. TypeOK /\ OneFrameAtATime /\ IdleIsEmpty /\ Numbered
  BY DEF IInv
<1>1. accepted' = accepted + 1 /\ active' = TRUE /\ checked' = checked \ {t}
  BY DEF SendEnqueue
<1>2. CASE active
  <2>1. queue' = Append(queue, accepted + 1) /\ writes' = writes
    BY <1>2 DEF SendEnqueue
  <2>2. /\ queue' \in Seq(Nat) /\ Len(queue') = Len(queue) + 1
        /\ \A i \in 1 .. Len(queue) : queue'[i] = queue[i]
        /\ queue'[Len(queue) + 1] = accepted + 1
    BY <1>0, <2>1 DEF TypeOK
  <2>3. TypeOK'
    <3>1. failing' = failing
      BY <1>2 DEF SendEnqueue
    <3>. QED  BY <1>0, <1>1, <2>1, <2>2, <3>1 DEF TypeOK, SendEnqueue
  <2>4. Numbered'
    <3>1. Len(queue) \in Nat /\ Len(writes) \in Nat /\ accepted \in Nat
      BY <1>0, LenProperties DEF TypeOK
    <3>2. \A i \in 1 .. Len(queue) : queue'[i] = accepted' - Len(queue') + i
      BY <1>0, <1>1, <2>2, <3>1 DEF Numbered
    <3>3. queue'[Len(queue')] = accepted' - Len(queue') + Len(queue')
      BY <1>1, <2>2, <3>1
    <3>4. \A i \in 1 .. Len(queue') : queue'[i] = accepted' - Len(queue') + i
      BY <2>2, <3>1, <3>2, <3>3
    <3>. QED  BY <1>0, <1>1, <2>1, <2>2, <3>1, <3>4 DEF Numbered
  <2>. QED  BY <1>0, <1>1, <2>1, <2>3, <2>4 DEF IInv, OneFrameAtATime, IdleIsEmpty
<1>3. CASE ~active
  <2>1. writes = <<>> /\ queue = <<>> /\ queue' = queue
    BY <1>0, <1>3 DEF IdleIsEmpty, SendEnqueue
  <2>2. writes' = <<accepted + 1>>
    BY <1>3, <2>1 DEF SendEnqueue
  <2>3. failing' \in SUBSET {"connect", "read", "write"}
    BY <1>0, <1>3 DEF SendEnqueue, TypeOK
  <2>4. TypeOK'
    BY <1>0, <1>1, <2>1, <2>2, <2>3 DEF TypeOK, SendEnqueue
  <2>5. Numbered'
    BY <1>0, <1>1, <2>1, <2>2 DEF TypeOK, Numbered
  <2>. QED  BY <1>1, <2>2, <2>4, <2>5 DEF IInv, OneFrameAtATime, IdleIsEmpty
<1>. QED  BY <1>2, <1>3

\* A sequence of at most one message that is not empty.
LEMMA OneLong ==
    ASSUME NEW s \in Seq(Nat), s # <<>>, Len(s) <= 1
    PROVE  Len(s) = 1 /\ Tail(s) = <<>> /\ Head(s) = s[1]
<1>. DEFINE n == Len(s)
<1>1. n \in Nat /\ n # 0 /\ n <= 1
  BY EmptySeq
<1>. HIDE DEF n
<1>2. n = 1
  BY <1>1
<1>. USE DEF n
<1>3. Tail(s) \in Seq(Nat) /\ Len(Tail(s)) = 0
  BY <1>2, HeadTailProperties
<1>4. Tail(s) = <<>>
  BY <1>3, EmptySeq
<1>. QED  BY <1>2, <1>4

\* The one frame in flight is over: the queue moves up.
LEMMA OneOver == ASSUME IInv, writes # <<>>
                 PROVE  Len(writes) = 1 /\ Tail(writes) = <<>> /\ Head(writes) = accepted - Len(queue)
<1>1. writes \in Seq(Nat) /\ Len(writes) <= 1
  BY DEF IInv, TypeOK, OneFrameAtATime
<1>2. writes[1] = accepted - Len(queue)
  BY DEF IInv, Numbered
<1>. QED  BY <1>1, <1>2, OneLong

LEMMA WriteIInv == ASSUME IInv, HandleWrite PROVE IInv'
<1>0. TypeOK /\ OneFrameAtATime /\ IdleIsEmpty /\ Numbered
  BY DEF IInv
<1>1. writes # <<>> /\ wire' = Append(wire, Head(writes)) /\ accepted' = accepted
  BY DEF HandleWrite
<1>2. Tail(writes) = <<>> /\ Len(writes) = 1 /\ Head(writes) \in Nat
  BY <1>0, <1>1, OneOver DEF TypeOK
<1>3. wire' \in Seq(Nat)
  BY <1>0, <1>1, <1>2 DEF TypeOK
<1>4. CASE queue # <<>>
  <2>1. writes' = <<Head(queue)>> /\ queue' = Tail(queue) /\ active' = active
    BY <1>2, <1>4 DEF HandleWrite
  <2>2. /\ queue' \in Seq(Nat) /\ Len(queue') = Len(queue) - 1 /\ Len(queue) # 0
        /\ \A i \in 1 .. Len(queue') : queue'[i] = queue[i + 1]
        /\ Head(queue) = queue[1] /\ Head(queue) \in Nat
    BY <1>0, <1>4, <2>1 DEF TypeOK
  <2>3. TypeOK'
    BY <1>0, <1>1, <1>3, <2>1, <2>2 DEF TypeOK, HandleWrite, socket
  <2>4. Numbered'
    BY <1>0, <1>1, <1>2, <2>1, <2>2 DEF TypeOK, Numbered
  <2>. QED  BY <1>0, <1>1, <2>1, <2>3, <2>4 DEF IInv, OneFrameAtATime, IdleIsEmpty
<1>5. CASE queue = <<>>
  <2>1. writes' = <<>> /\ queue' = queue /\ active' = FALSE
    BY <1>2, <1>5 DEF HandleWrite
  <2>2. TypeOK'
    BY <1>0, <1>1, <1>3, <2>1, Short DEF TypeOK, HandleWrite, socket
  <2>3. Numbered'
    BY <1>0, <1>1, <1>5, <2>1 DEF TypeOK, Numbered
  <2>. QED  BY <1>5, <2>1, <2>2, <2>3 DEF IInv, OneFrameAtATime, IdleIsEmpty
<1>. QED  BY <1>4, <1>5

LEMMA WriteErrorIInv == ASSUME IInv, HandleWriteError PROVE IInv'
<1>0. TypeOK /\ OneFrameAtATime /\ IdleIsEmpty /\ Numbered
  BY DEF IInv
<1>1. /\ writes # <<>> /\ writes' = Tail(writes)
      /\ UNCHANGED <<alive, conn, read, active, queue, accepted, wire, checked, connects, since>>
  BY DEF HandleWriteError
<1>2. writes' = <<>> /\ Len(writes) = 1
  BY <1>1, OneOver
<1>3. TypeOK'
  BY <1>0, <1>1, <1>2, DisconnectType DEF TypeOK, HandleWriteError
<1>4. Numbered'
  <2>1. queue \in Seq(Nat) /\ Len(queue) \in Nat /\ accepted \in Nat
    BY <1>0, LenProperties DEF TypeOK
  <2>2. Len(writes') = 0 /\ 1 + Len(queue) <= accepted
    BY <1>0, <1>2, Short DEF Numbered
  <2>3. writes' \in Seq(Nat) /\ queue' = queue /\ accepted' = accepted
    BY <1>1, <1>2, Short
  <2>4. Len(writes') + Len(queue') <= accepted'
    BY <2>1, <2>2, <2>3
  <2>. QED  BY <1>0, <1>1, <1>2, <2>4 DEF Numbered
<1>5. OneFrameAtATime' /\ IdleIsEmpty'
  BY <1>0, <1>1, <1>2 DEF OneFrameAtATime, IdleIsEmpty
<1>. QED  BY <1>3, <1>4, <1>5 DEF IInv

\* The inductive step.
LEMMA StepIInv == ASSUME IInv, [Next]_vars PROVE IInv'
  BY Steps, ElsewhereIInv, SendIInv, WriteIInv, WriteErrorIInv

-----------------------------------------------------------------------------
(* What is proved of the client. *)

\* Every state of the client satisfies the inductive invariant.
THEOREM Invariance == Spec => []IInv
  BY InitIInv, StepIInv, PTL DEF Spec

\* The variables of the client keep their types.
THEOREM TypeCorrect == Spec => []TypeOK
<1>1. IInv => TypeOK
  BY DEF IInv
<1>. QED  BY <1>1, Invariance, PTL

\* Whatever threads send and however connections fail, two frames are never in
\* flight at once.
THEOREM OneFrame == Spec => []OneFrameAtATime
<1>1. IInv => OneFrameAtATime
  BY DEF IInv
<1>. QED  BY <1>1, Invariance, PTL

\* A new client is an empty link.
LEMMA InitRefines == Init => Abstract!Init
<1>. SUFFICES ASSUME Init PROVE Abstract!Init
  OBVIOUS
<1>1. Len(writes) = 0 /\ Len(queue) = 0 /\ accepted = 0
  BY Short DEF Init
<1>2. accepted - Len(writes) - Len(queue) = 0
  BY <1>1
<1>. QED  BY <1>1, <1>2 DEF Init, Abstract!Init

\* send() is the link's Accept, a completed write its GoOut, a failed one its
\* Lose; nothing else is visible on the link.
LEMMA StepRefines == ASSUME IInv, IInv', [Next]_vars PROVE [Abstract!Next]_(Abstract!vars)
<1>. DEFINE settled == accepted - Len(writes) - Len(queue)
<1>0. TypeOK /\ Numbered /\ TypeOK' /\ OneFrameAtATime' /\ IdleIsEmpty
  BY DEF IInv
<1>n. Len(writes) \in Nat /\ Len(queue) \in Nat /\ accepted \in Nat
  BY <1>0, LenProperties DEF TypeOK
<1>1. CASE Elsewhere
  BY <1>1, ElsewhereIInv DEF Abstract!vars, outbound
<1>2. ASSUME NEW t \in Senders, SendEnqueue(t) PROVE Abstract!Accept
  <2>1. accepted' = accepted + 1 /\ wire' = wire
    BY <1>2 DEF SendEnqueue
  <2>2. settled' = settled
    <3>1. CASE active
      <4>1. writes' = writes /\ Len(queue') = Len(queue) + 1
        BY <1>0, <1>2, <3>1 DEF SendEnqueue, TypeOK
      <4>. QED  BY <1>n, <2>1, <4>1, Short
    <3>2. CASE ~active
      <4>1. queue' = queue /\ writes = <<>> /\ writes' = <<accepted + 1>>
        BY <1>0, <1>2, <3>2 DEF SendEnqueue, IdleIsEmpty
      <4>. QED  BY <1>n, <2>1, <4>1, Short
    <3>. QED  BY <3>1, <3>2
  <2>. QED  BY <2>1, <2>2 DEF Abstract!Accept
<1>3. ASSUME writes # <<>> PROVE settled < accepted /\ Head(writes) = settled + 1
  <2>1. Len(writes) = 1 /\ Head(writes) = accepted - Len(queue)
    BY <1>3, OneOver
  <2>. QED  BY <1>n, <2>1
<1>4. CASE HandleWrite
  <2>1. writes # <<>> /\ accepted' = accepted /\ wire' = Append(wire, settled + 1)
    BY <1>3, <1>4 DEF HandleWrite
  <2>2. settled' = settled + 1
    <3>1. CASE queue # <<>>
      <4>1. Len(writes') = 1 /\ Len(queue') = Len(queue) - 1
        BY <1>0, <1>4, <2>1, <3>1, OneOver DEF HandleWrite, TypeOK
      <4>. QED  BY <1>n, <2>1, <4>1, OneOver, Short
    <3>2. CASE queue = <<>>
      <4>1. writes' = <<>> /\ queue' = queue
        BY <1>4, <2>1, <3>2, OneOver DEF HandleWrite
      <4>. QED  BY <1>n, <2>1, <4>1, OneOver, Short
    <3>. QED  BY <3>1, <3>2
  <2>. QED  BY <1>3, <2>1, <2>2 DEF Abstract!Next, Abstract!GoOut
<1>5. CASE HandleWriteError
  <2>1. writes # <<>> /\ UNCHANGED <<accepted, wire, queue>> /\ writes' = <<>>
    BY <1>5, OneOver DEF HandleWriteError
  <2>2. settled' = settled + 1
    <3>1. Len(writes) = 1 /\ Len(writes') = 0
      BY <2>1, OneOver, Short
    <3>. QED  BY <1>n, <2>1, <3>1
  <2>. QED  BY <1>3, <2>1, <2>2 DEF Abstract!Next, Abstract!Lose
<1>. QED  BY <1>1, <1>2, <1>4, <1>5, Steps DEF Abstract!Next

\* The client's queue, its writes in flight, failed writes and reconnections
\* implement a link that neither reorders nor duplicates.
THEOREM IsAFifoLink == Spec => ImplementsFifoLink
<1>1. Init => Abstract!Init
  BY InitRefines
<1>2. IInv /\ IInv' /\ [Next]_vars => [Abstract!Next]_(Abstract!vars)
  BY StepRefines
<1>. QED  BY <1>1, <1>2, Invariance, PTL DEF Spec, ImplementsFifoLink, Abstract!Spec

=============================================================================
