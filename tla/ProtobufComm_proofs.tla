------------------------- MODULE ProtobufComm_proofs -------------------------
(***************************************************************************)
(* Proofs about the communication library and the bridge to the referee    *)
(* box (module ProtobufComm), for any number of clients and messages.  A   *)
(* behaviour is about one part; of each part there is an inductive         *)
(* invariant, and the steps of the others cannot happen in it.             *)
(***************************************************************************)
EXTENDS ProtobufComm, Integers, SequenceTheorems, TLAPS

\* A behaviour stays with the part it began with.
LEMMA KindKept == [Next]_vars => kind' = kind
  BY DEF Next, ServerNext, PeerNext, FramesNext, RegisterNext, BridgeNext, vars

\* Appending to the messages 1 .. n the message n + 1 gives 1 .. n + 1.
LEMMA AppendCounts ==
    ASSUME NEW s \in Seq(Nat), s = [n \in 1 .. Len(s) |-> n]
    PROVE  Append(s, Len(s) + 1) = [n \in 1 .. Len(Append(s, Len(s) + 1)) |-> n]
<1>. DEFINE t == Append(s, Len(s) + 1)
<1>1. t \in Seq(Nat) /\ Len(t) = Len(s) + 1 /\ Len(s) \in Nat
  BY AppendProperties, LenProperties
<1>2. \A n \in 1 .. Len(t) : t[n] = n
  BY <1>1, AppendProperties
<1>. QED  BY <1>1, <1>2, LenProperties

-----------------------------------------------------------------------------
(* The stream server: what goes out. *)

Ids == Server!Ids

OutTypeOK ==
    /\ writing \in [Ids -> Nat] /\ accepted \in [Ids -> Nat]
    /\ outboundActive \in [Ids -> BOOLEAN]
    /\ outboundQueue \in [Ids -> Seq(Nat)] /\ wire \in [Ids -> Seq(Nat)]

\* An idle session has written all it was given.
IdleIsDone ==
    \A i \in Ids : ~outboundActive[i] =>
        writing[i] = 0 /\ outboundQueue[i] = <<>> /\ accepted[i] = Len(wire[i])

\* The message being written follows those on the wire, and is followed by
\* those in the queue.  After a failed write nothing is being written any more,
\* and the queue no longer matters.
Numbered ==
    \A i \in Ids : writing[i] # 0 =>
        /\ writing[i] = Len(wire[i]) + 1
        /\ accepted[i] = writing[i] + Len(outboundQueue[i])
        /\ \A k \in 1 .. Len(outboundQueue[i]) : outboundQueue[i][k] = writing[i] + k

OutIInv == OutTypeOK /\ IdleIsDone /\ Numbered /\ Server!FramesInOrder

\* At first nothing was given to any session.
LEMMA OutInit == Server!Init => OutIInv
<1>. SUFFICES ASSUME Server!Init PROVE OutIInv
  OBVIOUS
<1>1. <<>> \in Seq(Nat) /\ Len(<<>>) = 0
  OBVIOUS
<1>2. OutTypeOK /\ IdleIsDone /\ Numbered
  BY <1>1 DEF Server!Init, OutTypeOK, IdleIsDone, Numbered, Ids, Server!Ids
<1>3. \A i \in Ids : wire[i] = [n \in 1 .. Len(wire[i]) |-> n]
  <2>1. \A i \in Ids : wire[i] = <<>>
    BY DEF Server!Init, Ids
  <2>2. <<>> = [n \in 1 .. Len(<<>>) |-> n]
    BY <1>1
  <2>. QED  BY <2>1, <2>2
<1>. QED  BY <1>2, <1>3 DEF OutIInv, Server!FramesInOrder, Ids

\* A session is given the next message.
LEMMA SendOut ==
    ASSUME OutIInv, NEW i \in Ids, Server!SessionSend(i)
    PROVE  OutIInv'
<1>0. OutTypeOK /\ IdleIsDone /\ Numbered /\ Server!FramesInOrder
  BY DEF OutIInv
<1>1. wire' = wire /\ accepted' = [accepted EXCEPT ![i] = accepted[i] + 1]
  BY DEF Server!SessionSend
<1>2. CASE outboundActive[i]
  <2>1. /\ outboundQueue' = [outboundQueue EXCEPT ![i] = Append(outboundQueue[i], accepted[i] + 1)]
        /\ outboundActive' = outboundActive /\ writing' = writing
    BY <1>2 DEF Server!SessionSend
  <2>2. outboundQueue[i] \in Seq(Nat) /\ accepted[i] \in Nat /\ writing[i] \in Nat
    BY <1>0 DEF OutTypeOK
  <2>3. /\ outboundQueue'[i] \in Seq(Nat) /\ Len(outboundQueue'[i]) = Len(outboundQueue[i]) + 1
        /\ Len(outboundQueue[i]) \in Nat
        /\ \A k \in 1 .. Len(outboundQueue[i]) : outboundQueue'[i][k] = outboundQueue[i][k]
        /\ outboundQueue'[i][Len(outboundQueue[i]) + 1] = accepted[i] + 1
    BY <1>0, <2>1, <2>2, AppendProperties, LenProperties DEF OutTypeOK
  <2>4. OutTypeOK'
    BY <1>0, <1>1, <2>1, <2>2, <2>3 DEF OutTypeOK, Ids, Server!Ids
  <2>5. IdleIsDone'
    BY <1>0, <1>1, <1>2, <2>1 DEF IdleIsDone, OutTypeOK, Ids, Server!Ids
  <2>6. Numbered'
    <3>1. accepted'[i] = accepted[i] + 1
      BY <1>0, <1>1 DEF OutTypeOK
    <3>2. \A j \in Ids \ {i} : accepted'[j] = accepted[j] /\ outboundQueue'[j] = outboundQueue[j]
      BY <1>0, <1>1, <2>1 DEF OutTypeOK
    <3>3. writing[i] # 0 =>
            \A k \in 1 .. Len(outboundQueue'[i]) : outboundQueue'[i][k] = writing[i] + k
      <4>. SUFFICES ASSUME writing[i] # 0, NEW k \in 1 .. Len(outboundQueue'[i])
                    PROVE  outboundQueue'[i][k] = writing[i] + k
        OBVIOUS
      <4>1. CASE k \in 1 .. Len(outboundQueue[i])
        BY <1>0, <2>3, <4>1 DEF Numbered
      <4>2. CASE k = Len(outboundQueue[i]) + 1
        <5>1. accepted[i] = writing[i] + Len(outboundQueue[i])
          BY <1>0 DEF Numbered
        <5>2. accepted[i] + 1 = writing[i] + k
          BY <2>2, <2>3, <4>2, <5>1
        <5>. QED  BY <2>3, <4>2, <5>2
      <4>. QED  BY <2>3, <4>1, <4>2
    <3>4. ASSUME writing[i] # 0
          PROVE  /\ writing[i] = Len(wire[i]) + 1
                 /\ accepted'[i] = writing[i] + Len(outboundQueue'[i])
      <4>0. writing[i] = Len(wire[i]) + 1
        BY <1>0, <3>4 DEF Numbered
      <4>1. accepted[i] = writing[i] + Len(outboundQueue[i])
        BY <1>0, <3>4 DEF Numbered
      <4>2. Len(outboundQueue'[i]) = Len(outboundQueue[i]) + 1 /\ Len(outboundQueue[i]) \in Nat
        BY <2>3
      <4>3. writing[i] + (Len(outboundQueue[i]) + 1) = accepted[i] + 1
        BY <2>2, <4>1, <4>2
      <4>4. accepted'[i] = writing[i] + Len(outboundQueue'[i])
        BY <3>1, <4>2, <4>3
      <4>. QED  BY <4>0, <4>4
    <3>. QED  BY <1>0, <1>1, <2>1, <3>2, <3>3, <3>4 DEF Numbered, Ids, Server!Ids
  <2>. QED
    BY <1>0, <1>1, <2>4, <2>5, <2>6 DEF OutIInv, Server!FramesInOrder
<1>3. CASE ~outboundActive[i]
  <2>1. /\ outboundQueue' = outboundQueue
        /\ outboundActive' = [outboundActive EXCEPT ![i] = TRUE]
        /\ writing' = [writing EXCEPT ![i] = accepted[i] + 1]
    BY <1>3 DEF Server!SessionSend
  <2>2. outboundQueue[i] = <<>> /\ accepted[i] = Len(wire[i]) /\ accepted[i] \in Nat
    BY <1>0, <1>3 DEF IdleIsDone, OutTypeOK
  <2>3. OutTypeOK'
    BY <1>0, <1>1, <2>1, <2>2 DEF OutTypeOK, Ids, Server!Ids
  <2>4. IdleIsDone'
    BY <1>0, <1>1, <2>1 DEF IdleIsDone, OutTypeOK, Ids, Server!Ids
  <2>5. Numbered'
    BY <1>0, <1>1, <2>1, <2>2 DEF Numbered, OutTypeOK, Ids, Server!Ids
  <2>. QED
    BY <1>0, <1>1, <2>3, <2>4, <2>5 DEF OutIInv, Server!FramesInOrder
<1>. QED  BY <1>2, <1>3

\* A write ends, and the next one begins if a message waits.
LEMMA WriteOut ==
    ASSUME OutIInv, NEW i \in Ids, Server!HandleWrite(i)
    PROVE  OutIInv'
<1>0. OutTypeOK /\ IdleIsDone /\ Numbered /\ Server!FramesInOrder
  BY DEF OutIInv
<1>1. /\ writing[i] # 0 /\ wire' = [wire EXCEPT ![i] = Append(wire[i], writing[i])]
      /\ accepted' = accepted
  BY DEF Server!HandleWrite
<1>2. /\ wire[i] \in Seq(Nat) /\ Len(wire[i]) \in Nat /\ writing[i] = Len(wire[i]) + 1
      /\ wire[i] = [n \in 1 .. Len(wire[i]) |-> n]
  BY <1>0, <1>1, LenProperties DEF OutTypeOK, Numbered, Server!FramesInOrder, Ids
<1>3. /\ wire'[i] = Append(wire[i], Len(wire[i]) + 1)
      /\ wire'[i] \in Seq(Nat) /\ Len(wire'[i]) = Len(wire[i]) + 1
      /\ \A j \in Ids \ {i} : wire'[j] = wire[j]
  BY <1>0, <1>1, <1>2, AppendProperties DEF OutTypeOK
<1>4. wire' \in [Ids -> Seq(Nat)]
  BY <1>0, <1>1, <1>3 DEF OutTypeOK
<1>5. Server!FramesInOrder'
  <2>1. wire'[i] = [n \in 1 .. Len(wire'[i]) |-> n]
    BY <1>2, <1>3, AppendCounts
  <2>. QED  BY <1>0, <1>3, <2>1 DEF Server!FramesInOrder, Ids
<1>6. outboundActive[i]
  BY <1>0, <1>1 DEF IdleIsDone
<1>7. accepted[i] = writing[i] + Len(outboundQueue[i]) /\ outboundQueue[i] \in Seq(Nat)
  BY <1>0, <1>1 DEF Numbered, OutTypeOK
<1>8. CASE outboundQueue[i] # <<>>
  <2>1. /\ writing' = [writing EXCEPT ![i] = Head(outboundQueue[i])]
        /\ outboundQueue' = [outboundQueue EXCEPT ![i] = Tail(outboundQueue[i])]
        /\ outboundActive' = outboundActive
    BY <1>8 DEF Server!HandleWrite
  <2>2. /\ Len(outboundQueue[i]) \in Nat /\ Len(outboundQueue[i]) > 0
        /\ Head(outboundQueue[i]) = outboundQueue[i][1]
        /\ Tail(outboundQueue[i]) \in Seq(Nat)
        /\ Len(Tail(outboundQueue[i])) = Len(outboundQueue[i]) - 1
        /\ \A k \in 1 .. Len(outboundQueue[i]) - 1 :
              Tail(outboundQueue[i])[k] = outboundQueue[i][k + 1]
    BY <1>7, <1>8, HeadTailProperties, EmptySeq, LenProperties
  <2>3. \A k \in 1 .. Len(outboundQueue[i]) : outboundQueue[i][k] = writing[i] + k
    BY <1>0, <1>1 DEF Numbered
  <2>4. Head(outboundQueue[i]) = writing[i] + 1 /\ writing[i] \in Nat
    BY <1>0, <2>2, <2>3 DEF OutTypeOK
  <2>5. /\ writing'[i] = writing[i] + 1 /\ outboundQueue'[i] = Tail(outboundQueue[i])
        /\ \A j \in Ids \ {i} : writing'[j] = writing[j] /\ outboundQueue'[j] = outboundQueue[j]
    BY <1>0, <2>1, <2>4 DEF OutTypeOK
  <2>6. OutTypeOK'
    BY <1>0, <1>1, <1>4, <2>1, <2>2, <2>4 DEF OutTypeOK, Ids, Server!Ids
  <2>7. IdleIsDone'
    BY <1>0, <1>1, <1>3, <1>6, <2>1, <2>5 DEF IdleIsDone, Ids, Server!Ids
  <2>8. Numbered'
    <3>1. /\ writing'[i] = Len(wire'[i]) + 1
          /\ accepted[i] = writing'[i] + Len(outboundQueue'[i])
      <4>1. Len(outboundQueue'[i]) = Len(outboundQueue[i]) - 1
        BY <2>2, <2>5
      <4>2. writing'[i] = writing[i] + 1
        BY <2>5
      <4>3. writing'[i] = Len(wire'[i]) + 1
        BY <1>2, <1>3, <4>2
      <4>4. accepted[i] = writing'[i] + Len(outboundQueue'[i])
        BY <1>7, <2>2, <2>4, <4>1, <4>2
      <4>. QED  BY <4>3, <4>4
    <3>2. \A k \in 1 .. Len(outboundQueue'[i]) : outboundQueue'[i][k] = writing'[i] + k
      <4>. SUFFICES ASSUME NEW k \in 1 .. Len(outboundQueue[i]) - 1
                    PROVE  Tail(outboundQueue[i])[k] = writing[i] + 1 + k
        BY <2>2, <2>5
      <4>1. k + 1 \in 1 .. Len(outboundQueue[i])
        BY <2>2
      <4>2. outboundQueue[i][k + 1] = writing[i] + (k + 1)
        BY <2>3, <4>1
      <4>. QED  BY <2>2, <2>4, <4>2
    <3>3. \A j \in Ids \ {i} : writing'[j] # 0 =>
            /\ writing'[j] = Len(wire'[j]) + 1
            /\ accepted[j] = writing'[j] + Len(outboundQueue'[j])
            /\ \A k \in 1 .. Len(outboundQueue'[j]) : outboundQueue'[j][k] = writing'[j] + k
      BY <1>0, <1>3, <2>5 DEF Numbered
    <3>. QED  BY <1>1, <3>1, <3>2, <3>3 DEF Numbered, Ids, Server!Ids
  <2>. QED  BY <1>5, <2>6, <2>7, <2>8 DEF OutIInv
<1>9. CASE outboundQueue[i] = <<>>
  <2>1. /\ writing' = [writing EXCEPT ![i] = 0] /\ outboundQueue' = outboundQueue
        /\ outboundActive' = [outboundActive EXCEPT ![i] = FALSE]
    BY <1>9 DEF Server!HandleWrite
  <2>2. accepted[i] = Len(wire'[i])
    BY <1>2, <1>3, <1>7, <1>9
  <2>3. OutTypeOK'
    BY <1>0, <1>1, <1>4, <2>1 DEF OutTypeOK, Ids, Server!Ids
  <2>4. IdleIsDone'
    BY <1>0, <1>1, <1>3, <1>9, <2>1, <2>2 DEF IdleIsDone, OutTypeOK, Ids, Server!Ids
  <2>5. Numbered'
    BY <1>0, <1>1, <1>3, <2>1 DEF Numbered, OutTypeOK, Ids, Server!Ids
  <2>. QED  BY <1>5, <2>3, <2>4, <2>5 DEF OutIInv
<1>. QED  BY <1>8, <1>9

\* A write fails: what the session was given stays in its queue.
LEMMA WriteErrorOut ==
    ASSUME OutIInv, NEW i \in Ids, Server!HandleWriteError(i)
    PROVE  OutIInv'
<1>0. OutTypeOK /\ IdleIsDone /\ Numbered /\ Server!FramesInOrder
  BY DEF OutIInv
<1>1. /\ writing' = [writing EXCEPT ![i] = 0]
      /\ UNCHANGED <<outboundActive, outboundQueue, accepted, wire>>
  BY DEF Server!HandleWriteError
<1>. QED
  BY <1>0, <1>1
     DEF OutIInv, OutTypeOK, IdleIsDone, Numbered, Server!FramesInOrder, Ids, Server!Ids

\* The other steps of the server leave what goes out alone.
LEMMA OutSteps ==
    ASSUME [Server!Next]_(Server!vars)
    PROVE  \/ \E i \in sessions : Server!SessionSend(i)
           \/ \E i \in Ids : Server!HandleWrite(i) \/ Server!HandleWriteError(i)
           \/ UNCHANGED Server!outVars
  BY DEF Server!Next, Server!vars, Server!outVars, Server!HandleAccept, Server!User, Server!Find,
         Server!UseGone, Server!UseSend, Server!UseDisconnect, Server!SendToAll,
         Server!SendToAllFind, Server!Asio, Server!HandleReadHeader, Server!HandleReadMessage,
         Server!HandleReadError, Server!PeerLeaves, Ids

\* The invariant of what goes out.
LEMMA OutStep == ASSUME OutIInv, [Server!Next]_(Server!vars), sessions \subseteq Ids PROVE OutIInv'
<1>1. CASE \E i \in sessions : Server!SessionSend(i)
  BY <1>1, SendOut
<1>2. CASE \E i \in Ids : Server!HandleWrite(i) \/ Server!HandleWriteError(i)
  BY <1>2, WriteOut, WriteErrorOut
<1>3. CASE UNCHANGED Server!outVars
  BY <1>3 DEF OutIInv, OutTypeOK, IdleIsDone, Numbered, Server!FramesInOrder, Server!outVars,
              Ids, Server!Ids
<1>. QED  BY <1>1, <1>2, <1>3, OutSteps

-----------------------------------------------------------------------------
(* The stream server: who is announced. *)

SessionTypeOK ==
    /\ nextCid \in Nat /\ sessions \in SUBSET Ids
    /\ reading \in [Ids -> {"none", "header", "message"}]
    /\ connected \in [Ids -> Nat] /\ gone \in [Ids -> Nat]

\* Nobody has heard of the session that waits in async_accept, nor of later ones.
NotYetAnnounced == \A i \in Ids : i + 1 >= nextCid => connected[i] = 0

\* A read or a write is in progress only for a client that was announced:
\* their errors are what reports it gone.
BusyIsAnnounced == \A i \in Ids : reading[i] # "none" \/ writing[i] # 0 => connected[i] = 1

SessionIInv == SessionTypeOK /\ NotYetAnnounced /\ BusyIsAnnounced /\ Server!SessionsAnnounced

\* The server begins without a session.
LEMMA SessionInit == Server!Init => SessionIInv
<1>. SUFFICES ASSUME Server!Init PROVE SessionIInv
  OBVIOUS
<1>. QED
  BY DEF Server!Init, SessionIInv, SessionTypeOK, NotYetAnnounced, BusyIsAnnounced,
         Server!SessionsAnnounced, Ids, Server!Ids

\* The count of signals stops at 2.
LEMMA CountsToTwo == \A n \in Nat : Server!Min({n + 1, 2}) \in Nat
<1>. SUFFICES ASSUME NEW n \in Nat PROVE Server!Min({n + 1, 2}) \in Nat
  OBVIOUS
<1>. DEFINE S == {n + 1, 2}
<1>1. \E x \in S : \A y \in S : x =< y
  <2>1. CASE n + 1 <= 2
    BY <2>1
  <2>2. CASE 2 <= n + 1
    BY <2>2
  <2>. QED  BY <2>1, <2>2
<1>2. Server!Min(S) \in S
  BY <1>1 DEF Server!Min
<1>. QED  BY <1>2

\* sig_disconnected_ for an announced client: its session is forgotten.
LEMMA DisconnectedSession ==
    ASSUME SessionIInv, NEW i \in Ids, connected[i] = 1, Server!disconnected(i)
    PROVE  /\ sessions' \in SUBSET Ids /\ i \notin sessions' /\ gone' \in [Ids -> Nat]
           /\ \A j \in Ids \ {i} : gone'[j] = gone[j] /\ (j \in sessions' <=> j \in sessions)
<1>1. gone' = [gone EXCEPT ![i] = Server!Min({gone[i] + 1, 2})] /\ sessions' = sessions \ {i}
  BY DEF Server!disconnected
<1>2. gone \in [Ids -> Nat] /\ sessions \in SUBSET Ids
  BY DEF SessionIInv, SessionTypeOK
<1>. QED  BY <1>1, <1>2, CountsToTwo

\* handle_accept() announces the session that has waited, and no other.
LEMMA AcceptSession == ASSUME SessionIInv, OutIInv, Server!HandleAccept PROVE SessionIInv'
<1>. DEFINE c == Server!Current
<1>0. SessionTypeOK /\ NotYetAnnounced /\ BusyIsAnnounced /\ Server!SessionsAnnounced
  BY DEF SessionIInv
<1>1. c \in Ids /\ gone' = gone /\ writing' = writing /\ Ids \subseteq Nat /\ c = nextCid - 1
  BY DEF Server!HandleAccept, Server!outVars, Server!Current, Ids, Server!Ids
<1>2. connected[c] = 0 /\ gone[c] = 0 /\ nextCid \in Nat
  <2>1. c \in Nat /\ c + 1 >= nextCid
    BY <1>0, <1>1 DEF SessionTypeOK
  <2>2. connected[c] = 0
    BY <1>0, <1>1, <2>1 DEF NotYetAnnounced
  <2>3. ~(gone[c] > 0) /\ gone[c] \in Nat /\ nextCid \in Nat
    BY <1>0, <1>1, <2>2 DEF SessionTypeOK, Server!SessionsAnnounced, Ids
  <2>. QED  BY <2>2, <2>3
<1>3. CASE UNCHANGED <<sessions, connected, reading>> /\ nextCid' \in {nextCid, nextCid + 1}
  <2>1. SessionTypeOK'
    BY <1>0, <1>1, <1>2, <1>3 DEF SessionTypeOK, Ids, Server!Ids
  <2>2. NotYetAnnounced'
    BY <1>0, <1>1, <1>2, <1>3 DEF NotYetAnnounced, Ids, Server!Ids
  <2>3. BusyIsAnnounced' /\ Server!SessionsAnnounced'
    BY <1>0, <1>1, <1>3 DEF BusyIsAnnounced, Server!SessionsAnnounced, Ids, Server!Ids
  <2>. QED  BY <2>1, <2>2, <2>3 DEF SessionIInv
<1>4. CASE /\ sessions' = sessions \cup {c} /\ nextCid' = nextCid + 1
           /\ connected' = [connected EXCEPT ![c] = connected[c] + 1]
           /\ reading' = [reading EXCEPT ![c] = "header"]
  <2>1. /\ connected'[c] = 1
        /\ \A j \in Ids \ {c} : connected'[j] = connected[j] /\ reading'[j] = reading[j]
    BY <1>0, <1>1, <1>2, <1>4 DEF SessionTypeOK
  <2>2. SessionTypeOK'
    BY <1>0, <1>1, <1>2, <1>4 DEF SessionTypeOK, Ids, Server!Ids
  <2>3. NotYetAnnounced'
    BY <1>0, <1>1, <1>2, <1>4, <2>1 DEF NotYetAnnounced, Ids, Server!Ids
  <2>4. BusyIsAnnounced'
    BY <1>0, <1>1, <2>1 DEF BusyIsAnnounced, Ids, Server!Ids
  <2>5. Server!SessionsAnnounced'
    BY <1>0, <1>1, <1>2, <1>4, <2>1 DEF Server!SessionsAnnounced, Ids, Server!Ids
  <2>. QED  BY <2>2, <2>3, <2>4, <2>5 DEF SessionIInv
<1>. QED  BY <1>3, <1>4 DEF Server!HandleAccept, Server!start_accept, Server!netVars

\* The steps of the sessions.
LEMMA SessionStep == ASSUME SessionIInv, OutIInv, [Server!Next]_(Server!vars) PROVE SessionIInv'
<1>0. SessionTypeOK /\ NotYetAnnounced /\ BusyIsAnnounced /\ Server!SessionsAnnounced
  BY DEF SessionIInv
<1>. DEFINE Same == nextCid' = nextCid /\ connected' = connected
            BusyBefore == \A j \in Ids : reading'[j] # "none" \/ writing'[j] # 0 => connected[j] = 1
\* A step that reports at most one client gone, an announced one.
<1>1. ASSUME Same, BusyBefore, reading' \in [Ids -> {"none", "header", "message"}],
             \/ UNCHANGED <<sessions, gone>>
             \/ \E i \in Ids : connected[i] = 1 /\ Server!disconnected(i)
      PROVE  SessionIInv'
  <2>1. NotYetAnnounced'
    BY <1>0, <1>1 DEF NotYetAnnounced, Ids, Server!Ids
  <2>2. BusyIsAnnounced'
    BY <1>1 DEF BusyIsAnnounced, Ids, Server!Ids
  <2>3. CASE UNCHANGED <<sessions, gone>>
    BY <1>0, <1>1, <2>1, <2>2, <2>3
       DEF SessionIInv, SessionTypeOK, Server!SessionsAnnounced, Ids, Server!Ids
  <2>4. CASE \E i \in Ids : connected[i] = 1 /\ Server!disconnected(i)
    <3>1. PICK i \in Ids : connected[i] = 1 /\ Server!disconnected(i)
      BY <2>4
    <3>2. /\ sessions' \in SUBSET Ids /\ i \notin sessions' /\ gone' \in [Ids -> Nat]
          /\ \A j \in Ids \ {i} : gone'[j] = gone[j] /\ (j \in sessions' <=> j \in sessions)
      BY <3>1, DisconnectedSession
    <3>3. SessionTypeOK'
      BY <1>0, <1>1, <3>2 DEF SessionTypeOK, Ids, Server!Ids
    <3>4. Server!SessionsAnnounced'
      BY <1>0, <1>1, <3>1, <3>2 DEF Server!SessionsAnnounced, Ids, Server!Ids
    <3>. QED  BY <2>1, <2>2, <3>3, <3>4 DEF SessionIInv
  <2>. QED  BY <1>1, <2>3, <2>4
<1>2. CASE Server!HandleAccept
  BY <1>2, AcceptSession
<1>3. ASSUME NEW i \in Ids, Server!HandleReadHeader(i) PROVE SessionIInv'
  BY <1>0, <1>1, <1>3
     DEF Server!HandleReadHeader, Server!outVars, SessionTypeOK, BusyIsAnnounced
<1>4. ASSUME NEW i \in Ids, Server!HandleReadMessage(i) PROVE SessionIInv'
  BY <1>0, <1>1, <1>4
     DEF Server!HandleReadMessage, Server!outVars, SessionTypeOK, BusyIsAnnounced
<1>5. ASSUME NEW i \in Ids, Server!HandleReadError(i) PROVE SessionIInv'
  BY <1>0, <1>1, <1>5
     DEF Server!HandleReadError, Server!outVars, SessionTypeOK, BusyIsAnnounced
<1>6. ASSUME NEW i \in Ids, Server!HandleWrite(i) PROVE SessionIInv'
  <2>1. \A j \in Ids \ {i} : writing'[j] = writing[j]
    BY <1>6 DEF Server!HandleWrite, OutIInv, OutTypeOK
  <2>2. writing[i] # 0
    BY <1>6 DEF Server!HandleWrite
  <2>3. UNCHANGED <<nextCid, connected, reading, sessions, gone>>
    BY <1>6 DEF Server!HandleWrite, Server!netVars
  <2>4. BusyBefore
    BY <1>0, <2>1, <2>2, <2>3 DEF BusyIsAnnounced
  <2>. QED  BY <1>0, <1>1, <2>3, <2>4 DEF SessionTypeOK
<1>7. ASSUME NEW i \in Ids, Server!HandleWriteError(i) PROVE SessionIInv'
  <2>1. /\ writing[i] # 0 /\ writing'[i] = 0 /\ \A j \in Ids \ {i} : writing'[j] = writing[j]
    BY <1>7 DEF Server!HandleWriteError, OutIInv, OutTypeOK
  <2>2. UNCHANGED <<nextCid, connected, reading>> /\ Server!disconnected(i)
    BY <1>7 DEF Server!HandleWriteError, Server!netVars
  <2>3. BusyBefore /\ connected[i] = 1
    BY <1>0, <2>1, <2>2 DEF BusyIsAnnounced
  <2>. QED  BY <1>0, <1>1, <2>2, <2>3 DEF SessionTypeOK
<1>8. CASE Server!UseSend
  <2>1. UNCHANGED <<nextCid, connected, reading, sessions, gone>>
    BY <1>8 DEF Server!UseSend, Server!netVars
  <2>2. caller.id \in sessions /\ Server!SessionSend(caller.id) /\ caller.id \in Ids
    BY <1>0, <1>8 DEF Server!UseSend, SessionTypeOK
  <2>3. \A j \in Ids \ {caller.id} : writing'[j] = writing[j]
    BY <2>2 DEF Server!SessionSend, OutIInv, OutTypeOK
  <2>4. connected[caller.id] = 1
    BY <1>0, <2>2 DEF Server!SessionsAnnounced, Ids
  <2>5. BusyBefore
    BY <1>0, <2>1, <2>3, <2>4 DEF BusyIsAnnounced
  <2>. QED  BY <1>0, <1>1, <2>1, <2>5 DEF SessionTypeOK
<1>9. CASE UNCHANGED <<nextCid, connected, reading, sessions, gone, writing>>
  BY <1>0, <1>1, <1>9 DEF SessionTypeOK, BusyIsAnnounced
<1>10. CASE Server!User
  BY <1>8, <1>9, <1>10
     DEF Server!User, Server!Find, Server!UseGone, Server!UseDisconnect, Server!SendToAll,
         Server!SendToAllFind, Server!outVars, Server!netVars
<1>11. ASSUME NEW i \in Ids, Server!PeerLeaves(i) PROVE SessionIInv'
  BY <1>9, <1>11 DEF Server!PeerLeaves, Server!outVars
<1>12. CASE UNCHANGED Server!vars
  BY <1>9, <1>12 DEF Server!vars
<1>. QED
  BY <1>2, <1>3, <1>4, <1>5, <1>6, <1>7, <1>10, <1>11, <1>12
     DEF Server!Next, Server!Asio, Ids

-----------------------------------------------------------------------------
(* The broadcast peer. *)

PeerTypeOK ==
    /\ resolved \in {"pending", "ok", "failed"} /\ outboundActive \in BOOLEAN
    /\ outboundQueue \in Seq(Nat) /\ wire \in Seq(Nat)
    /\ sending \in Nat /\ queued \in Nat
    /\ recvBuf \in {"in", "enc"}

\* outbound_active_ is set until the address is known, and lowered afterwards
\* only when nothing is being sent.
IdleSendsNothing == ~outboundActive => resolved = "ok" /\ sending = 0

\* What waits are the last messages given to send(); those on the wire and the
\* one being sent came before.
Waiting ==
    /\ Len(outboundQueue) <= queued
    /\ \A k \in 1 .. Len(outboundQueue) : outboundQueue[k] = queued - Len(outboundQueue) + k
    /\ sending <= queued - Len(outboundQueue)
    /\ \A n \in 1 .. Len(wire) : wire[n] <= queued - Len(outboundQueue)

PeerIInv == PeerTypeOK /\ IdleSendsNothing /\ Waiting /\ Peer!DatagramsInOrder

\* At first the peer has nothing to send.
LEMMA PeerInit == Peer!Init => PeerIInv
<1>. SUFFICES ASSUME Peer!Init PROVE PeerIInv
  OBVIOUS
<1>1. <<>> \in Seq(Nat) /\ Len(<<>>) = 0
  OBVIOUS
<1>. QED
  BY <1>1 DEF Peer!Init, PeerIInv, PeerTypeOK, IdleSendsNothing, Waiting, Peer!DatagramsInOrder

\* send() appends a message with the next number.
LEMMA SendPeer == ASSUME PeerIInv, Peer!send PROVE PeerIInv'
<1>0. PeerTypeOK /\ IdleSendsNothing /\ Waiting /\ Peer!DatagramsInOrder
  BY DEF PeerIInv
<1>1. /\ queued' = queued + 1 /\ outboundQueue' = Append(outboundQueue, queued + 1)
      /\ UNCHANGED <<resolved, outboundActive, sending, wire, recvBuf>>
  BY DEF Peer!send, Peer!inVars
<1>. DEFINE l == Len(outboundQueue)
<1>2. l \in Nat /\ queued \in Nat /\ queued + 1 \in Nat
  BY <1>0, LenProperties DEF PeerTypeOK
<1>3. /\ outboundQueue' \in Seq(Nat) /\ Len(outboundQueue') = l + 1
      /\ \A k \in 1 .. l : outboundQueue'[k] = outboundQueue[k]
      /\ outboundQueue'[l + 1] = queued + 1
  BY <1>0, <1>1, <1>2, AppendProperties DEF PeerTypeOK
<1>4. queued' - Len(outboundQueue') = queued - l
  BY <1>1, <1>2, <1>3
<1>5. \A k \in 1 .. Len(outboundQueue') : outboundQueue'[k] = queued - l + k
  <2>. SUFFICES ASSUME NEW k \in 1 .. l + 1 PROVE outboundQueue'[k] = queued - l + k
    BY <1>3
  <2>1. CASE k \in 1 .. l
    BY <1>0, <1>3, <2>1 DEF Waiting
  <2>2. CASE k = l + 1
    BY <1>2, <1>3, <2>2
  <2>. QED  BY <1>2, <2>1, <2>2
<1>6. Waiting'
  BY <1>0, <1>1, <1>2, <1>3, <1>4, <1>5 DEF Waiting
<1>. QED
  BY <1>0, <1>1, <1>3, <1>6 DEF PeerIInv, PeerTypeOK, IdleSendsNothing, Peer!DatagramsInOrder

\* start_send() takes the message that has waited longest, if nothing is being
\* sent, whichever thread calls it.
LEMMA StartSendPeer == ASSUME PeerIInv, NEW t, Peer!start_send(t) PROVE PeerIInv'
<1>0. PeerTypeOK /\ IdleSendsNothing /\ Waiting /\ Peer!DatagramsInOrder
  BY DEF PeerIInv
<1>1. UNCHANGED <<resolved, queued, wire, recvBuf>>
  BY DEF Peer!start_send, Peer!inVars
<1>2. CASE outboundQueue = <<>> \/ outboundActive
  BY <1>0, <1>1, <1>2
     DEF Peer!start_send, PeerIInv, PeerTypeOK, IdleSendsNothing, Waiting, Peer!DatagramsInOrder
<1>3. CASE outboundQueue # <<>> /\ ~outboundActive
  <2>. DEFINE l == Len(outboundQueue)
  <2>1. /\ outboundActive' = TRUE /\ outboundQueue' = Tail(outboundQueue)
        /\ sending' = Head(outboundQueue)
    BY <1>3 DEF Peer!start_send
  <2>2. /\ l \in Nat /\ l > 0 /\ queued \in Nat
        /\ Head(outboundQueue) = outboundQueue[1] /\ Tail(outboundQueue) \in Seq(Nat)
        /\ Len(Tail(outboundQueue)) = l - 1
        /\ \A k \in 1 .. l - 1 : Tail(outboundQueue)[k] = outboundQueue[k + 1]
    BY <1>0, <1>3, HeadTailProperties, EmptySeq, LenProperties DEF PeerTypeOK
  <2>3. l <= queued /\ \A k \in 1 .. l : outboundQueue[k] = queued - l + k
    BY <1>0 DEF Waiting
  <2>4. sending' = queued - l + 1
    BY <2>1, <2>2, <2>3
  <2>5. Len(outboundQueue') = l - 1
    BY <2>1, <2>2
  <2>6. \A k \in 1 .. l - 1 : outboundQueue'[k] = queued - (l - 1) + k
    <3>. SUFFICES ASSUME NEW k \in 1 .. l - 1 PROVE Tail(outboundQueue)[k] = queued - (l - 1) + k
      BY <2>1
    <3>1. k + 1 \in 1 .. l
      BY <2>2
    <3>2. outboundQueue[k + 1] = queued - l + (k + 1)
      BY <2>3, <3>1
    <3>. QED  BY <2>2, <3>2
  <2>7. \A n \in 1 .. Len(wire) : wire[n] <= queued - l /\ wire[n] \in Nat
    BY <1>0, ElementOfSeq DEF Waiting, PeerTypeOK
  <2>8. \A n \in 1 .. Len(wire) : wire[n] <= queued - (l - 1) /\ wire[n] < sending'
    BY <2>2, <2>4, <2>7
  <2>9. Waiting'
    <3>1. sending' <= queued - (l - 1) /\ l - 1 <= queued
      BY <2>2, <2>3, <2>4
    <3>. QED  BY <1>1, <2>5, <2>6, <2>8, <3>1 DEF Waiting
  <2>10. PeerTypeOK'
    BY <1>0, <1>1, <2>1, <2>2, <2>3, <2>4 DEF PeerTypeOK
  <2>11. Peer!DatagramsInOrder'
    BY <1>0, <1>1, <1>3, <2>1, <2>8 DEF Peer!DatagramsInOrder, IdleSendsNothing
  <2>. QED  BY <2>1, <2>9, <2>10, <2>11 DEF PeerIInv, IdleSendsNothing
<1>. QED  BY <1>2, <1>3

\* handle_sent(): the datagram is on the wire, or lost.
LEMMA SentPeer == ASSUME PeerIInv, Peer!HandleSent PROVE PeerIInv'
<1>0. PeerTypeOK /\ IdleSendsNothing /\ Waiting /\ Peer!DatagramsInOrder
  BY DEF PeerIInv
<1>1. /\ sending # 0 /\ sending' = 0 /\ outboundActive' = FALSE
      /\ UNCHANGED <<resolved, outboundQueue, queued, recvBuf>>
      /\ wire' = Append(wire, sending) \/ wire' = wire
  BY DEF Peer!HandleSent, Peer!inVars
<1>2. resolved = "ok" /\ \A n \in 1 .. Len(wire) : wire[n] < sending
  BY <1>0, <1>1 DEF Peer!DatagramsInOrder
<1>3. sending' <= queued - Len(outboundQueue)
  BY <1>0, <1>1, LenProperties DEF Waiting, PeerTypeOK
<1>4. CASE wire' = wire
  BY <1>0, <1>1, <1>2, <1>3, <1>4
     DEF PeerIInv, PeerTypeOK, IdleSendsNothing, Waiting, Peer!DatagramsInOrder
<1>5. CASE wire' = Append(wire, sending)
  <2>1. /\ wire' \in Seq(Nat) /\ Len(wire') = Len(wire) + 1 /\ Len(wire) \in Nat
        /\ \A n \in 1 .. Len(wire) : wire'[n] = wire[n]
        /\ wire'[Len(wire) + 1] = sending
    BY <1>0, <1>5, AppendProperties, LenProperties DEF PeerTypeOK
  <2>2. \A n \in 1 .. Len(wire') : n \in 1 .. Len(wire) \/ n = Len(wire) + 1
    BY <2>1
  <2>3. \A n \in 1 .. Len(wire') : wire'[n] <= queued - Len(outboundQueue)
    BY <1>0, <2>1, <2>2 DEF Waiting
  <2>4. \A m, n \in 1 .. Len(wire') : m < n => wire'[m] < wire'[n]
    <3>. SUFFICES ASSUME NEW m \in 1 .. Len(wire'), NEW n \in 1 .. Len(wire'), m < n
                  PROVE  wire'[m] < wire'[n]
      OBVIOUS
    <3>1. m \in 1 .. Len(wire)
      BY <2>1
    <3>2. CASE n \in 1 .. Len(wire)
      BY <1>0, <2>1, <3>1, <3>2 DEF Peer!DatagramsInOrder
    <3>3. CASE n = Len(wire) + 1
      BY <1>2, <2>1, <3>1, <3>3
    <3>. QED  BY <2>2, <3>2, <3>3
  <2>5. Waiting'
    BY <1>0, <1>1, <1>3, <2>3 DEF Waiting
  <2>6. Peer!DatagramsInOrder'
    BY <1>1, <2>4 DEF Peer!DatagramsInOrder
  <2>. QED
    BY <1>0, <1>1, <1>2, <2>1, <2>5, <2>6 DEF PeerIInv, PeerTypeOK, IdleSendsNothing
<1>. QED  BY <1>1, <1>4, <1>5

\* The steps of the peer.
LEMMA PeerStep == ASSUME PeerIInv, [Peer!Next]_(Peer!vars) PROVE PeerIInv'
<1>0. PeerTypeOK /\ IdleSendsNothing /\ Waiting /\ Peer!DatagramsInOrder
  BY DEF PeerIInv
<1>1. ASSUME UNCHANGED Peer!outVars, recvBuf' \in {"in", "enc"} PROVE PeerIInv'
  BY <1>0, <1>1 DEF Peer!outVars, PeerIInv, PeerTypeOK, IdleSendsNothing, Waiting,
                    Peer!DatagramsInOrder
<1>2. CASE Peer!HandleResolve
  <2>1. /\ resolved = "pending" /\ UNCHANGED <<outboundQueue, sending, queued, wire, recvBuf>>
        /\ \/ resolved' = "ok" /\ outboundActive' = FALSE
           \/ resolved' = "failed" /\ outboundActive' = outboundActive
    BY <1>2 DEF Peer!HandleResolve, Peer!inVars
  <2>2. sending = 0
    BY <1>0, <2>1 DEF Peer!DatagramsInOrder
  <2>3. outboundActive
    BY <1>0, <2>1 DEF IdleSendsNothing
  <2>. QED
    BY <1>0, <2>1, <2>2, <2>3
       DEF PeerIInv, PeerTypeOK, IdleSendsNothing, Waiting, Peer!DatagramsInOrder
<1>3. CASE Peer!SetupCrypto \/ Peer!SetupCryptoEnds
  BY <1>0, <1>1, <1>3 DEF Peer!SetupCrypto, Peer!SetupCryptoEnds, Peer!inVars, PeerTypeOK
<1>4. CASE Peer!Receive \/ Peer!ReceiveError
  BY <1>0, <1>1, <1>4 DEF Peer!Receive, Peer!ReceiveError, PeerTypeOK
<1>5. CASE UNCHANGED Peer!vars
  BY <1>0, <1>1, <1>5 DEF Peer!vars, Peer!outVars, PeerTypeOK
<1>. QED
  BY <1>2, <1>3, <1>4, <1>5, SendPeer, SentPeer, StartSendPeer DEF Peer!Next

\* A message is decrypted only if it was received into the buffer for that.
BufferMode ==
    /\ crypto \in BOOLEAN /\ cryptoBuf \in BOOLEAN /\ recvBuf \in {"in", "enc"}
    /\ cryptoBuf => recvBuf = "enc"

\* The receive is started with the buffer that crypto_buf_ says.
LEMMA ModeInit == Peer!Init => BufferMode
  BY DEF Peer!Init, BufferMode
LEMMA ModeStep == ASSUME BufferMode, [Peer!Next]_(Peer!vars) PROVE BufferMode'
<1>1. CASE UNCHANGED <<crypto, cryptoBuf, recvBuf>>
  BY <1>1 DEF BufferMode
<1>2. CASE Peer!Receive \/ Peer!ReceiveError
  <2>1. crypto' = crypto /\ cryptoBuf' = crypto /\ recvBuf' = IF crypto THEN "enc" ELSE "in"
    BY <1>2 DEF Peer!Receive, Peer!ReceiveError
  <2>. QED  BY <2>1 DEF BufferMode
<1>3. CASE Peer!SetupCrypto \/ Peer!SetupCryptoEnds
  <2>1. crypto' \in BOOLEAN /\ cryptoBuf' = FALSE /\ recvBuf' = recvBuf
    BY <1>3 DEF Peer!SetupCrypto, Peer!SetupCryptoEnds, Peer!inVars
  <2>. QED  BY <2>1 DEF BufferMode
<1>. QED
  BY <1>1, <1>2, <1>3
     DEF Peer!Next, Peer!vars, Peer!inVars, Peer!cryptoVars, Peer!HandleResolve, Peer!send,
         Peer!HandleSent, Peer!start_send

\* What is delivered is what has just been received, or what was readable in
\* in_data_ before.
LEMMA ReceiveStep == ASSUME BufferMode, [Peer!Next]_(Peer!vars) PROVE Peer!ReceiveDelivers
<1>1. CASE Peer!Receive
  <2>1. PICK d \in Peer!Datagrams, decrypts \in BOOLEAN :
            /\ received' = d
            /\ Peer!HandleRecv(IF recvBuf = "in" THEN Peer!Raw(d) ELSE inData,
                               IF recvBuf = "enc" THEN Peer!Raw(d) ELSE encInData, d, decrypts)
    BY <1>1 DEF Peer!Receive
  <2>. DEFINE raw == [enc |-> d.enc, sealed |-> d.enc, body |-> d.body]
  <2>2. d.enc \in BOOLEAN /\ Peer!Raw(d) = raw
    BY DEF Peer!Datagrams, Peer!Raw
  <2>. SUFFICES ASSUME delivered' # None
                PROVE IF cryptoBuf = (recvBuf = "enc")
                      THEN IF d.enc = cryptoBuf
                           THEN delivered' = d.body /\ ~failed'
                           ELSE delivered' = inData.body /\ ~inData.sealed /\ failed'
                      ELSE delivered' = inData.body /\ ~inData.sealed
    BY <2>1 DEF Peer!ReceiveDelivers
  <2>3. CASE recvBuf = "enc" /\ cryptoBuf = TRUE
    <3>1. Peer!HandleRecv(inData, raw, d, decrypts)
      BY <2>1, <2>2, <2>3
    <3>2. CASE d.enc /\ decrypts
      BY <2>3, <3>1, <3>2 DEF Peer!HandleRecv
    <3>3. CASE d.enc /\ ~decrypts
      BY <2>3, <3>1, <3>3 DEF Peer!HandleRecv
    <3>4. CASE ~d.enc
      BY <2>3, <3>1, <3>4 DEF Peer!HandleRecv
    <3>. QED  BY <2>2, <3>2, <3>3, <3>4
  <2>4. CASE recvBuf = "enc" /\ cryptoBuf = FALSE
    <3>1. Peer!HandleRecv(inData, raw, d, decrypts)
      BY <2>1, <2>2, <2>4
    <3>. QED  BY <2>4, <3>1 DEF Peer!HandleRecv
  <2>5. CASE recvBuf = "in" /\ cryptoBuf = FALSE
    <3>1. Peer!HandleRecv(raw, encInData, d, decrypts)
      BY <2>1, <2>2, <2>5
    <3>2. CASE d.enc
      BY <2>5, <3>1, <3>2 DEF Peer!HandleRecv
    <3>3. CASE ~d.enc
      BY <2>2, <2>5, <3>1, <3>3 DEF Peer!HandleRecv
    <3>. QED  BY <2>2, <3>2, <3>3
  <2>. QED  BY <2>3, <2>4, <2>5 DEF BufferMode
<1>2. CASE Peer!ReceiveError
  BY <1>2 DEF Peer!ReceiveError, Peer!ReceiveDelivers
<1>3. CASE UNCHANGED Peer!inVars
  BY <1>3 DEF Peer!ReceiveDelivers
<1>. QED
  BY <1>1, <1>2, <1>3
     DEF Peer!Next, Peer!vars, Peer!inVars, Peer!HandleResolve, Peer!send, Peer!HandleSent,
         Peer!start_send, Peer!SetupCrypto, Peer!SetupCryptoEnds

-----------------------------------------------------------------------------
(* Frames. *)

FrameTypeOK ==
    /\ version \in {1, 2} /\ cipher \in Frames!Ciphers \cup {None}
    /\ length \in Nat

\* A datagram on its way was made with the version and the cipher of now.
FrameOfNow == frame # None => frame = Frames!MakeFrame(length)

\* Whatever ciphers came before, a key in keys_ is the one of its cipher.
KeysRight ==
    \A id \in DOMAIN keys : keys[id] = Frames!BytesToKey(Frames!cipher_by_id(id))

FrameIInv == FrameTypeOK /\ FrameOfNow /\ KeysRight /\ Frames!RoundTrip

\* The number in a frame header stands for the cipher it was made with.
LEMMA CipherIds ==
    ASSUME NEW c \in Frames!Ciphers
    PROVE  /\ Frames!cipher_by_id(Frames!cipher_name_to_id(c)) = c
           /\ Frames!cipher_name_to_id(c) \in 1 .. 4
  BY DEF Frames!Ciphers, Frames!cipher_by_id, Frames!cipher_name_to_id

\* The size computed for the buffer is the size of what is put into it.
LEMMA BufferFits ==
    ASSUME NEW c, NEW n \in Nat
    PROVE  /\ Frames!encrypt(c, n).size = Frames!encrypted_buffer_size(c, n)
           /\ Frames!encrypt(c, n).size \in Nat
<1>1. Frames!IvLength(c) \in Nat /\ (n \div 16 + 1) * 16 \in Nat
  BY DEF Frames!IvLength
<1>. QED
  BY <1>1 DEF Frames!encrypt, Frames!encrypted_buffer_size, Frames!BlockSize

\* The least of two numbers is one of them.
LEMMA MinOfTwo ==
    ASSUME NEW a \in Nat, NEW b \in Nat, a <= b PROVE Frames!Min({a, b}) = a
<1>1. \E x \in {a, b} : \A y \in {a, b} : x =< y
  OBVIOUS
<1>2. /\ Frames!Min({a, b}) \in {a, b}
      /\ \A y \in {a, b} : Frames!Min({a, b}) =< y
  BY <1>1 DEF Frames!Min
<1>. QED  BY <1>2

\* At first there is neither a datagram nor a key.
LEMMA FrameInit == Frames!Init => FrameIInv
<1>. SUFFICES ASSUME Frames!Init PROVE FrameIInv
  OBVIOUS
<1>1. FrameTypeOK /\ FrameOfNow /\ KeysRight
  BY DEF Frames!Init, FrameTypeOK, FrameOfNow, KeysRight
<1>2. got = None /\ length = 0
  BY DEF Frames!Init
<1>3. Frames!encrypt(cipher, length).size <= Frames!encrypted_buffer_size(cipher, length)
  BY <1>2, BufferFits
<1>. QED  BY <1>1, <1>2, <1>3 DEF FrameIInv, Frames!RoundTrip

\* handle_recv() accepts a version 2 message that fits, and finds its length.
LEMMA ReceiveFrame ==
    ASSUME FrameIInv, Frames!Receive
    PROVE  /\ KeysRight'
           /\ version = 2 /\ Frames!Fits(length) => got' = [ok |-> TRUE, length |-> length]
<1>0. FrameTypeOK /\ frame = Frames!MakeFrame(length) /\ KeysRight
  BY DEF FrameIInv, FrameOfNow, Frames!Receive
<1>. DEFINE id == frame.cipher
            bytes == Frames!Min({frame.bytes, 1024})
            total == IF id # 0 THEN 8 + (4 + length) ELSE bytes
            payload == IF id # 0 THEN 4 + length ELSE frame.payload
\* generate_key() gives every cipher its own key.
<1>1. \A i \in DOMAIN Frames!generate_key(id) :
          Frames!generate_key(id)[i] = Frames!BytesToKey(Frames!cipher_by_id(i))
  BY <1>0 DEF KeysRight, Frames!generate_key
<1>2. KeysRight'
  <2>1. keys' = IF id # 0 THEN Frames!generate_key(id) ELSE keys
    BY DEF Frames!Receive
  <2>. QED  BY <1>0, <1>1, <2>1 DEF KeysRight
<1>3. ASSUME version = 2, Frames!Fits(length)
      PROVE  got' = [ok |-> TRUE, length |-> length]
  <2>1. got' = IF /\ bytes >= 12
                  /\ id # 0 => Frames!decrypts(bytes)
                  /\ total = 8 + payload
               THEN [ok |-> TRUE, length |-> payload - 4]
               ELSE [ok |-> FALSE, length |-> 0]
    BY <1>3 DEF Frames!Receive, Frames!MaxPacketLength, Frames!FrameHeader,
                Frames!FrameHeaderV1, Frames!MessageHeader
  <2>2. length \in Nat
    BY <1>0 DEF FrameTypeOK
  <2>3. CASE cipher = None
    <3>1. frame = [bytes |-> 12 + length, payload |-> 4 + length, cipher |-> 0, key |-> None]
      BY <1>0, <1>3, <2>2, <2>3
         DEF Frames!MakeFrame, Frames!serialize, Frames!FrameHeader, Frames!MessageHeader
    <3>2. 12 + length <= 1024
      BY <1>3, <2>2, <2>3
         DEF Frames!Fits, Frames!FrameHeader, Frames!MessageHeader, Frames!MaxPacketLength
    <3>3. bytes = 12 + length
      BY <2>2, <3>1, <3>2, MinOfTwo
    <3>. QED  BY <2>1, <2>2, <3>1, <3>3
  <2>4. CASE cipher # None
    <3>. DEFINE enc == Frames!encrypt(cipher, 4 + length)
    <3>1. cipher \in Frames!Ciphers
      BY <1>0, <2>4 DEF FrameTypeOK
    <3>2. frame = [bytes |-> 8 + enc.size, payload |-> enc.size,
                   cipher |-> Frames!cipher_name_to_id(cipher), key |-> enc.key]
      BY <1>0, <1>3, <2>4 DEF Frames!MakeFrame, Frames!FrameHeader, Frames!MessageHeader
    <3>3. /\ enc.size \in Nat /\ enc.size = Frames!encrypted_buffer_size(cipher, 4 + length)
          /\ enc.key = Frames!BytesToKey(cipher)
      BY <2>2, BufferFits DEF Frames!encrypt, Frames!cipher_by_name
    <3>4. 8 + enc.size <= 1024
      BY <1>3, <2>4, <3>3
         DEF Frames!Fits, Frames!FrameHeader, Frames!MessageHeader, Frames!MaxPacketLength
    <3>5. bytes = frame.bytes /\ frame.bytes = 8 + enc.size
      BY <3>2, <3>3, <3>4, MinOfTwo
    <3>6. enc.size >= 16
      <4>1. Frames!IvLength(cipher) \in Nat
        BY DEF Frames!IvLength
      <4>2. enc.size = (((4 + length) \div 16) + 1) * 16 + Frames!IvLength(cipher)
        BY <3>3 DEF Frames!encrypted_buffer_size, Frames!BlockSize
      <4>3. ((4 + length) \div 16) \in Nat
        BY <2>2
      <4>. QED  BY <4>1, <4>2, <4>3
    <3>7. id = Frames!cipher_name_to_id(cipher) /\ id # 0 /\ Frames!cipher_by_id(id) = cipher
      BY <3>1, <3>2, CipherIds
    <3>8. Frames!generate_key(id)[id] = frame.key
      <4>1. id \in DOMAIN Frames!generate_key(id)
        BY DEF Frames!generate_key
      <4>. QED  BY <1>1, <3>2, <3>3, <3>7, <4>1
    <3>9. Frames!decrypts(bytes)
      BY <3>5, <3>8 DEF Frames!decrypts
    <3>10. bytes >= 12
      BY <3>3, <3>5, <3>6
    <3>11. total = 8 + payload /\ payload - 4 = length
      BY <2>2, <3>7
    <3>. QED  BY <2>1, <3>7, <3>9, <3>10, <3>11
  <2>. QED  BY <2>3, <2>4
<1>. QED  BY <1>2, <1>3

\* The steps of the two peers.
LEMMA FrameStep == ASSUME FrameIInv, [Frames!Next]_(Frames!vars) PROVE FrameIInv'
<1>0. FrameTypeOK /\ FrameOfNow /\ KeysRight /\ Frames!RoundTrip
  BY DEF FrameIInv
<1>. DEFINE Arrived(g) == version = 2 /\ g # None /\ Frames!Fits(length)
                            => g = [ok |-> TRUE, length |-> length]
\* The buffer is large enough at any time.
<1>1. ASSUME FrameTypeOK' PROVE
          Frames!encrypt(cipher, length)'.size <= Frames!encrypted_buffer_size(cipher, length)'
  <2>1. Frames!encrypt(cipher', length').size = Frames!encrypted_buffer_size(cipher', length')
        /\ Frames!encrypt(cipher', length').size \in Nat
    BY <1>1, BufferFits DEF FrameTypeOK
  <2>. QED  BY <2>1 DEF Frames!encrypt, Frames!encrypted_buffer_size
<1>2. ASSUME NEW n \in Sizes, Frames!Send(n) PROVE FrameIInv'
  <2>1. /\ frame' = Frames!MakeFrame(n) /\ length' = n /\ got' = None
        /\ UNCHANGED <<version, cipher, keys>>
    BY <1>2 DEF Frames!Send
  <2>2. FrameTypeOK'
    BY <1>0, <2>1, CommAssumption DEF FrameTypeOK
  <2>3. FrameOfNow'
    BY <2>1 DEF FrameOfNow, Frames!MakeFrame
  <2>4. KeysRight'
    BY <1>0, <2>1 DEF KeysRight
  <2>. QED  BY <1>1, <2>1, <2>2, <2>3, <2>4 DEF FrameIInv, Frames!RoundTrip
<1>3. ASSUME NEW c \in Frames!Ciphers, Frames!SetupCrypto(c) PROVE FrameIInv'
  <2>1. /\ frame = None /\ cipher' = c /\ got' = None
        /\ UNCHANGED <<version, frame, length, keys>>
    BY <1>3 DEF Frames!SetupCrypto
  <2>2. FrameTypeOK' /\ FrameOfNow' /\ KeysRight'
    BY <1>0, <2>1 DEF FrameTypeOK, FrameOfNow, KeysRight
  <2>. QED  BY <1>1, <2>1, <2>2 DEF FrameIInv, Frames!RoundTrip
<1>4. ASSUME frame' = None \/ frame' = frame, UNCHANGED <<version, cipher, length>>,
             KeysRight', Arrived(got')
      PROVE  FrameIInv'
  <2>1. FrameTypeOK' /\ FrameOfNow'
    BY <1>0, <1>4 DEF FrameTypeOK, FrameOfNow, Frames!MakeFrame
  <2>2. Frames!Fits(length)' <=> Frames!Fits(length)
    BY <1>4 DEF Frames!Fits, Frames!encrypted_buffer_size
  <2>. QED  BY <1>1, <1>4, <2>1, <2>2 DEF FrameIInv, Frames!RoundTrip
<1>5. CASE Frames!Receive
  BY <1>4, <1>5, ReceiveFrame DEF Frames!Receive
<1>6. CASE Frames!Lose \/ UNCHANGED Frames!vars
  <2>1. /\ frame' = None \/ frame' = frame
        /\ UNCHANGED <<version, cipher, length, keys, got>>
    BY <1>6 DEF Frames!Lose, Frames!vars
  <2>2. KeysRight' /\ Arrived(got')
    BY <1>0, <2>1 DEF KeysRight, Frames!RoundTrip
  <2>. QED  BY <1>4, <2>1, <2>2
<1>. QED  BY <1>2, <1>3, <1>5, <1>6 DEF Frames!Next

-----------------------------------------------------------------------------
(* The message register and the bridge. *)

\* What the template form is about to insert.
Registration == [key : {1, 2}, type : {"A", "B", "C"}]
RegisterTypeOK == adding \in [{"u1", "u2"} -> {None} \cup Registration]

\* The register keeps its types.
LEMMA RegisterInit == Register!Init => RegisterTypeOK
  BY DEF Register!Init, RegisterTypeOK
LEMMA RegisterTypes ==
    ASSUME RegisterTypeOK, [Register!Next]_(Register!registerVars) PROVE RegisterTypeOK'
  BY DEF RegisterTypeOK, Registration, Register!Next, Register!registerVars, Register!AddByName,
         Register!AddTemplateFind, Register!AddTemplateInsert, Register!remove_message_type,
         Register!new_message_for

\* A type that is added does not take the place of another, but for the
\* insertion of a template call, between whose two halves others may add.
LEMMA RegisterStep ==
    ASSUME RegisterTypeOK, [Register!Next]_(Register!registerVars) PROVE Register!KeysKept
<1>. SUFFICES ASSUME NEW k \in DOMAIN byComp \cap DOMAIN byComp',
                     byComp'[k] # byComp[k]
              PROVE  \E u \in {"u1", "u2"} :
                        adding[u] = [key |-> k, type |-> byComp'[k]] /\ adding'[u] = None
  BY DEF Register!KeysKept
<1>1. ASSUME NEW t \in {"A", "B", "C"}, Register!AddByName(t) PROVE FALSE
  BY <1>1 DEF Register!AddByName, Register!Insert
<1>2. ASSUME NEW u \in {"u1", "u2"}, Register!AddTemplateInsert(u)
      PROVE  adding[u] = [key |-> k, type |-> byComp'[k]] /\ adding'[u] = None
  <2>1. PICK key \in {1, 2}, type \in {"A", "B", "C"} : adding[u] = [key |-> key, type |-> type]
    BY <1>2 DEF Register!AddTemplateInsert, RegisterTypeOK, Registration
  <2>2. byComp' = Register!Insert(key, type) /\ adding' = [adding EXCEPT ![u] = None]
    BY <1>2, <2>1 DEF Register!AddTemplateInsert
  <2>3. k = key /\ byComp'[k] = type
    BY <2>2 DEF Register!Insert
  <2>4. adding'[u] = None
    BY <1>2, <2>2 DEF RegisterTypeOK
  <2>. QED  BY <2>1, <2>3, <2>4
<1>3. ASSUME NEW j \in {1, 2}, Register!remove_message_type(j) PROVE FALSE
  BY <1>3 DEF Register!remove_message_type, Register!Restrict
<1>. QED
  BY <1>1, <1>2, <1>3
     DEF Register!Next, Register!AddTemplateFind, Register!new_message_for,
         Register!registerVars

\* What is known of one client of the bridge.
ClientStates == [link : {"connecting", "up", "down"},
                 signal : {"none", "connected", "disconnected"}, again : BOOLEAN]

BridgeTypeOK ==
    /\ tries \in Nat /\ connected \in BOOLEAN /\ forwarding \in BOOLEAN
    /\ client \in [Bridge!Clients -> ClientStates]

\* A client signals what its own flag already says.
SignalsFollow ==
    \A c \in Bridge!Clients :
        /\ client[c].signal = "connected" => client[c].link = "up"
        /\ client[c].signal = "disconnected" => client[c].link = "down"

\* A handler that found connected_ set with one client found one that connected.
FoundConnected == (tries = 0 /\ forwarding) => client[1].link # "connecting"

BridgeIInv ==
    /\ BridgeTypeOK /\ SignalsFollow /\ FoundConnected
    /\ Bridge!ConnectedMeansLink /\ Bridge!FirstClientForwards

\* The first client connects.
LEMMA BridgeInit == Bridge!Init => BridgeIInv
<1>. SUFFICES ASSUME Bridge!Init PROVE BridgeIInv
  OBVIOUS
<1>1. tries = 0 /\ Bridge!Clients = 1 .. 1
  BY DEF Bridge!Init, Bridge!Clients
<1>2. Bridge!Connecting \in ClientStates /\ client = [c \in 1 .. 1 |-> Bridge!Connecting]
  BY DEF Bridge!Init, Bridge!Connecting, ClientStates
<1>3. BridgeTypeOK
  <2>1. client \in [1 .. 1 -> ClientStates]
    BY <1>2
  <2>2. connected \in BOOLEAN /\ tries \in Nat /\ forwarding \in BOOLEAN
    BY DEF Bridge!Init
  <2>. QED  BY <1>1, <2>1, <2>2 DEF BridgeTypeOK
<1>4. SignalsFollow
  BY <1>1, <1>2 DEF SignalsFollow, Bridge!Connecting
<1>5. FoundConnected /\ Bridge!ConnectedMeansLink /\ Bridge!FirstClientForwards
  BY DEF Bridge!Init, FoundConnected, Bridge!ConnectedMeansLink, Bridge!FirstClientForwards
<1>. QED  BY <1>3, <1>4, <1>5 DEF BridgeIInv

\* A client changes in a way that takes no connection back without a signal to
\* come; the bridge does not notice.
LEMMA ClientStep ==
    ASSUME BridgeIInv, NEW c \in Bridge!Clients, NEW state \in ClientStates,
           client' = [client EXCEPT ![c] = state], UNCHANGED Bridge!bridge,
           state.link = "up" \/ state.signal = "disconnected",
           state.signal = "connected" => state.link = "up",
           state.signal = "disconnected" => state.link = "down",
           client[c].link = "down" => state.link = "down"
    PROVE  BridgeIInv'
<1>0. BridgeTypeOK /\ SignalsFollow /\ FoundConnected
      /\ Bridge!ConnectedMeansLink /\ Bridge!FirstClientForwards
  BY DEF BridgeIInv
<1>1. UNCHANGED <<connected, tries, due, forwarding, thrown>> /\ Bridge!Clients' = Bridge!Clients
  BY DEF Bridge!bridge, Bridge!Clients
<1>2. /\ client' \in [Bridge!Clients -> ClientStates]
      /\ \A d \in Bridge!Clients : client'[d] = IF d = c THEN state ELSE client[d]
  BY <1>0 DEF BridgeTypeOK
<1>3. BridgeTypeOK'
  BY <1>0, <1>1, <1>2 DEF BridgeTypeOK
<1>4. SignalsFollow'
  BY <1>0, <1>1, <1>2 DEF SignalsFollow
<1>5. 1 \in Bridge!Clients
  BY <1>0 DEF Bridge!Clients, BridgeTypeOK
<1>6. state.link # "connecting"
  BY DEF ClientStates
<1>7. FoundConnected' /\ Bridge!FirstClientForwards'
  BY <1>0, <1>1, <1>2, <1>5, <1>6 DEF FoundConnected, Bridge!FirstClientForwards
<1>8. Bridge!ConnectedMeansLink'
  BY <1>0, <1>1, <1>2 DEF Bridge!ConnectedMeansLink
<1>. QED  BY <1>3, <1>4, <1>7, <1>8 DEF BridgeIInv

\* A client has signalled, and the bridge believes it.
LEMMA SignalStep ==
    ASSUME BridgeIInv, NEW c \in Bridge!Clients, client' = [client EXCEPT ![c].signal = "none"],
           UNCHANGED <<tries, due, forwarding, thrown>>,
           connected' \in BOOLEAN, connected' => client[c].link = "up"
    PROVE  BridgeIInv'
<1>0. BridgeTypeOK /\ SignalsFollow /\ FoundConnected /\ Bridge!FirstClientForwards
  BY DEF BridgeIInv
<1>1. Bridge!Clients' = Bridge!Clients /\ client[c] \in ClientStates
  BY <1>0 DEF Bridge!Clients, BridgeTypeOK
<1>2. /\ client' \in [Bridge!Clients -> ClientStates]
      /\ \A d \in Bridge!Clients :
            /\ client'[d].link = client[d].link
            /\ client'[d].signal = IF d = c THEN "none" ELSE client[d].signal
  <2>1. [client[c] EXCEPT !.signal = "none"] \in ClientStates
    BY <1>1 DEF ClientStates
  <2>2. \A d \in Bridge!Clients : client[d] \in ClientStates
    BY <1>0 DEF BridgeTypeOK
  <2>3. client' \in [Bridge!Clients -> ClientStates]
    BY <1>0, <2>1 DEF BridgeTypeOK
  <2>4. \A d \in Bridge!Clients :
            client'[d] = IF d = c THEN [client[c] EXCEPT !.signal = "none"] ELSE client[d]
    BY <1>0 DEF BridgeTypeOK
  <2>. QED  BY <1>1, <2>3, <2>4 DEF ClientStates
<1>3. BridgeTypeOK'
  BY <1>0, <1>1, <1>2 DEF BridgeTypeOK
<1>4. SignalsFollow'
  BY <1>0, <1>1, <1>2 DEF SignalsFollow
<1>5. 1 \in Bridge!Clients
  BY <1>0 DEF Bridge!Clients, BridgeTypeOK
<1>6. FoundConnected' /\ Bridge!FirstClientForwards'
  BY <1>0, <1>2, <1>5 DEF FoundConnected, Bridge!FirstClientForwards
<1>7. Bridge!ConnectedMeansLink'
  BY <1>1, <1>2 DEF Bridge!ConnectedMeansLink
<1>. QED  BY <1>3, <1>4, <1>6, <1>7 DEF BridgeIInv

\* The steps of the bridge.
LEMMA BridgeStep == ASSUME BridgeIInv, [Bridge!Next]_(Bridge!vars) PROVE BridgeIInv'
<1>0. BridgeTypeOK /\ SignalsFollow /\ FoundConnected
      /\ Bridge!ConnectedMeansLink /\ Bridge!FirstClientForwards
  BY DEF BridgeIInv
<1>1. ASSUME UNCHANGED <<client, connected, tries>>, forwarding' \in BOOLEAN,
             forwarding' => forwarding \/ connected,
             tries = 0 /\ "forward" \in thrown' => "forward" \in thrown \/ client[1].link = "down"
      PROVE  BridgeIInv'
  <2>1. Bridge!Clients' = Bridge!Clients /\ 1 \in Bridge!Clients
    BY <1>0, <1>1 DEF Bridge!Clients, BridgeTypeOK
  <2>2. connected /\ tries = 0 => client[1].link # "connecting"
    BY <1>0 DEF Bridge!ConnectedMeansLink, SignalsFollow, Bridge!Clients
  <2>3. BridgeTypeOK' /\ SignalsFollow' /\ Bridge!ConnectedMeansLink'
    BY <1>0, <1>1, <2>1 DEF BridgeTypeOK, SignalsFollow, Bridge!ConnectedMeansLink
  <2>4. FoundConnected'
    BY <1>0, <1>1, <2>2 DEF FoundConnected
  <2>5. Bridge!FirstClientForwards'
    BY <1>0, <1>1 DEF Bridge!FirstClientForwards
  <2>. QED  BY <2>3, <2>4, <2>5 DEF BridgeIInv
<1>2. CASE Bridge!Update
  <2>1. ~connected /\ connected' = connected /\ tries' = tries + 1 /\ tries' # 0
        /\ UNCHANGED <<forwarding, thrown>>
    BY <1>0, <1>2 DEF Bridge!Update, BridgeTypeOK
  <2>2. client' = [c \in Bridge!Clients' |->
                      IF c \in Bridge!Clients THEN client[c] ELSE Bridge!Connecting]
    BY <1>2 DEF Bridge!Update, Bridge!CreateClient, Bridge!Clients
  <2>3. Bridge!Connecting \in ClientStates /\ Bridge!Connecting.signal = "none"
    BY DEF Bridge!Connecting, ClientStates
  <2>4. BridgeTypeOK'
    BY <1>0, <2>1, <2>2, <2>3 DEF BridgeTypeOK
  <2>5. SignalsFollow'
    BY <1>0, <2>2, <2>3 DEF SignalsFollow
  <2>6. FoundConnected' /\ Bridge!ConnectedMeansLink' /\ Bridge!FirstClientForwards'
    BY <2>1 DEF FoundConnected, Bridge!ConnectedMeansLink, Bridge!FirstClientForwards
  <2>. QED  BY <2>4, <2>5, <2>6 DEF BridgeIInv
<1>3. CASE Bridge!Elapse \/ UNCHANGED Bridge!vars
  BY <1>0, <1>1, <1>3 DEF Bridge!Elapse, Bridge!vars, BridgeTypeOK
<1>4. CASE Bridge!ForwardTest
  BY <1>1, <1>4 DEF Bridge!ForwardTest
\* While there is one client only, the handler found it connected.
<1>5. CASE Bridge!Forward
  <2>1. /\ forwarding /\ forwarding' = FALSE /\ UNCHANGED <<client, connected, tries>>
        /\ thrown' = IF client[Bridge!Current].link = "up" THEN thrown ELSE thrown \cup {"forward"}
    BY <1>5 DEF Bridge!Forward, Bridge!Send
  <2>2. tries = 0 => Bridge!Current = 1 /\ client[1].link \in {"up", "down"}
    <3>1. tries = 0 => client[1] \in ClientStates
      BY <1>0 DEF BridgeTypeOK, Bridge!Clients
    <3>. QED  BY <1>0, <2>1, <3>1 DEF FoundConnected, Bridge!Current, ClientStates
  <2>. QED  BY <1>1, <2>1, <2>2
<1>6. CASE Bridge!on_machine_reply_msg
  BY <1>0, <1>1, <1>6 DEF Bridge!on_machine_reply_msg, Bridge!Send, BridgeTypeOK
<1>7. ASSUME NEW c \in Bridge!Clients, Bridge!HandleConnect(c) PROVE BridgeIInv'
  <2>. DEFINE up == [link |-> "up", signal |-> "connected", again |-> FALSE]
  <2>1. up \in ClientStates
    BY DEF ClientStates
  <2>2. client[c].link = "connecting" /\ client' = [client EXCEPT ![c] = up] /\ UNCHANGED Bridge!bridge
    BY <1>7 DEF Bridge!HandleConnect, Bridge!Connecting
  <2>. QED  BY <2>1, <2>2, ClientStep
<1>8. ASSUME NEW c \in Bridge!Clients, Bridge!HandleError(c) PROVE BridgeIInv'
  <2>1. PICK more \in BOOLEAN :
            client' = [client EXCEPT ![c] =
                          [link |-> "down", signal |-> "disconnected", again |-> more]]
    BY <1>8 DEF Bridge!HandleError
  <2>. DEFINE down == [link |-> "down", signal |-> "disconnected", again |-> more]
  <2>2. down \in ClientStates
    BY DEF ClientStates
  <2>3. client' = [client EXCEPT ![c] = down] /\ UNCHANGED Bridge!bridge
    BY <1>8, <2>1 DEF Bridge!HandleError
  <2>. QED  BY <2>2, <2>3, ClientStep
<1>9. ASSUME NEW c \in Bridge!Clients, Bridge!client_connected(c) PROVE BridgeIInv'
  BY <1>0, <1>9, SignalStep DEF Bridge!client_connected, SignalsFollow
<1>10. ASSUME NEW c \in Bridge!Clients, Bridge!client_disconnected(c) PROVE BridgeIInv'
  BY <1>10, SignalStep DEF Bridge!client_disconnected
<1>. QED
  BY <1>2, <1>3, <1>4, <1>5, <1>6, <1>7, <1>8, <1>9, <1>10 DEF Bridge!Next

-----------------------------------------------------------------------------
(* The library and the bridge together. *)

\* The inductive invariant: that of the part a behaviour is about.
IInv ==
    /\ kind = "server" => OutIInv /\ SessionIInv
    /\ kind = "peer" => PeerIInv /\ BufferMode
    /\ kind = "frames" => FrameIInv
    /\ kind = "register" => RegisterTypeOK
    /\ kind = "bridge" => BridgeIInv

\* A step is one of the part the behaviour is about, or leaves it alone.
LEMMA StepOfKind ==
    ASSUME [Next]_vars
    PROVE  /\ kind = "server" => [Server!Next]_(Server!vars)
           /\ kind = "peer" => [Peer!Next]_(Peer!vars)
           /\ kind = "frames" => [Frames!Next]_(Frames!vars)
           /\ kind = "register" => [Register!Next]_(Register!registerVars)
           /\ kind = "bridge" => [Bridge!Next]_(Bridge!vars)
  BY DEF Next, ServerNext, PeerNext, FramesNext, RegisterNext, BridgeNext, vars, serverOnly,
         queueVars, peerOnly, frameVars, registerVars, bridgeOnly, Server!vars, Peer!vars,
         Frames!vars, Register!registerVars, Bridge!vars

\* All parts begin in their invariants.
LEMMA InitIInv == Init => IInv
  BY OutInit, SessionInit, PeerInit, ModeInit, FrameInit, RegisterInit, BridgeInit DEF Init, IInv

\* And keep them.
LEMMA StepIInv == IInv /\ [Next]_vars => IInv'
<1>. SUFFICES ASSUME IInv, [Next]_vars PROVE IInv'
  OBVIOUS
<1>1. kind = "server" => OutIInv' /\ SessionIInv'
  BY StepOfKind, OutStep, SessionStep DEF IInv, SessionIInv, SessionTypeOK
<1>2. kind = "peer" => PeerIInv' /\ BufferMode'
  BY StepOfKind, PeerStep, ModeStep DEF IInv
<1>3. kind = "frames" => FrameIInv'
  BY StepOfKind, FrameStep DEF IInv
<1>4. kind = "bridge" => BridgeIInv'
  BY StepOfKind, BridgeStep DEF IInv
<1>5. kind = "register" => RegisterTypeOK'
  BY StepOfKind, RegisterTypes DEF IInv
<1>. QED  BY <1>1, <1>2, <1>3, <1>4, <1>5, KindKept DEF IInv

THEOREM Invariance == Spec => []IInv
  BY InitIInv, StepIInv, PTL DEF Spec

\* For any number of clients and messages: what the server and the peer send
\* goes out in the order of the calls of send(), one at a time, none repeated,
\* and sessions_ holds only clients that were announced and not reported gone.
THEOREM TrafficIsInOrder == Spec => []TrafficInOrder
<1>1. IInv => TrafficInOrder
  BY DEF IInv, OutIInv, SessionIInv, PeerIInv, TrafficInOrder
<1>. QED  BY <1>1, Invariance, PTL

\* For messages of any length: a version 2 message that fits arrives with its
\* length, whatever ciphers came before.
THEOREM FramesRoundTrip == Spec => []RoundTrip
<1>1. IInv => RoundTrip
  BY DEF IInv, FrameIInv, RoundTrip
<1>. QED  BY <1>1, Invariance, PTL

\* For any number of attempts: connected_ is set only while a client of the
\* bridge has a connection or is about to signal its loss, and as long as there
\* is one client, the handlers that test connected_ throw only once it has lost
\* its connection.
THEOREM BridgeIsLinked == Spec => []BridgeLinked
<1>1. IInv => BridgeLinked
  BY DEF IInv, BridgeIInv, BridgeLinked
<1>. QED  BY <1>1, Invariance, PTL

\* What handle_recv() delivers for a datagram in the mode it expects is that
\* datagram's message, and for any other at worst the one an earlier datagram
\* left readable; a key of the register keeps its type until it is removed, or
\* a registration that takes no lock overwrites it.
THEOREM MessagesAreNotMixedUp == Spec => MessagesNotMixedUp
<1>. DEFINE Kept == /\ kind = "peer" => Peer!ReceiveDelivers
                    /\ kind = "register" => Register!KeysKept
<1>1. IInv /\ [Next]_vars => [Kept]_vars
  BY StepOfKind, ReceiveStep, RegisterStep DEF IInv
<1>. QED  BY <1>1, Invariance, PTL DEF Spec, MessagesNotMixedUp

=============================================================================
