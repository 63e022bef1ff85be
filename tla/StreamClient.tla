---------------------------- MODULE StreamClient ----------------------------
(***************************************************************************)
(* ProtobufStreamClient (libs/protobuf_comm/client.cpp): a TCP client with *)
(* a queue of outbound messages.  The application's threads call           *)
(* async_connect, send and disconnect; one asio thread runs the completion *)
(* handlers of the operations in flight, in the order of their completion. *)
(* Closing the socket makes the reads and writes in flight complete with   *)
(* an error; their handlers run before those of any later operation.       *)
(***************************************************************************)
EXTENDS Naturals, Sequences

CONSTANTS Senders,      \* the application's threads
          MaxSends,     \* bound: messages sent
          MaxConnects   \* bound: calls of async_connect

ASSUME ClientAssumption == MaxSends \in Nat /\ MaxConnects \in Nat

VARIABLES
    alive,          \* the destructor has not been called
    conn,           \* the connect in flight: "none", "resolve", "connect"
    open,           \* socket_.is_open()
    connected,      \* connected_
    read,           \* the read in flight: "none", "header", "message"
    writes,         \* the writes in flight
    active,         \* outbound_active_
    queue,          \* outbound_queue_
    failing,        \* the operations in flight that complete with an error
    checked,        \* the threads in send() past the test of connected_
    accepted,       \* history: how many messages send() has taken
    wire,           \* history: the messages written to the network, in order
    connects,       \* history: calls of async_connect
    since           \* history: accepted when the connection was established

socket == <<conn, open, connected, read, failing>>
outbound == <<writes, active, queue, accepted, wire>>
vars == <<alive, socket, outbound, checked, connects, since>>

Init ==
    /\ alive = TRUE
    /\ conn = "none" /\ open = FALSE /\ connected = FALSE /\ read = "none"
    /\ writes = <<>> /\ active = FALSE /\ queue = <<>>
    /\ failing = {} /\ checked = {}
    /\ accepted = 0 /\ wire = <<>> /\ connects = 0 /\ since = 0

-----------------------------------------------------------------------------
\* disconnect_nosig, with cn, rd and wr the connect, the read and the writes
\* that are in flight after it.  Every caller but the destructor goes on to
\* raise sig_disconnected_.
disconnect_nosig(cn, rd, wr) ==
    /\ open' = FALSE
    /\ connected' = FALSE
    /\ failing' = (IF cn = "connect" THEN {"connect"} ELSE {})
                    \cup (IF rd # "none" THEN {"read"} ELSE {})
                    \cup (IF wr # <<>> THEN {"write"} ELSE {})

\* A handler of an operation that still can succeed.
MaySucceed(op) == open /\ op \notin failing

-----------------------------------------------------------------------------
(* The application. *)

\* async_connect, called on a client that is not connected or connecting.
AsyncConnect ==
    /\ alive /\ ~connected /\ conn = "none"
    /\ connects < MaxConnects
    /\ conn' = "resolve"
    /\ connects' = connects + 1
    /\ UNCHANGED <<alive, open, connected, read, failing, outbound, checked, since>>

\* send(): the test of connected_, before the message is serialized ...
SendCheck(t) ==
    /\ alive /\ connected
    /\ t \notin checked
    /\ accepted < MaxSends
    /\ checked' = checked \cup {t}
    /\ UNCHANGED <<alive, socket, outbound, connects, since>>

\* Mutant: the message is written at once, whatever is being written.
SendAtOnce(t) ==
    /\ alive /\ t \in checked
    /\ checked' = checked \ {t}
    /\ accepted' = accepted + 1
    /\ active' = TRUE
    /\ writes' = Append(writes, accepted + 1)
    /\ failing' = IF open THEN failing ELSE failing \cup {"write"}
    /\ UNCHANGED <<alive, conn, open, connected, read, queue, wire, connects, since>>

\* ... and the part under outbound_mutex_.  A write on a closed socket fails.
SendEnqueue(t) ==
    /\ alive /\ t \in checked
    /\ checked' = checked \ {t}
    /\ accepted' = accepted + 1
    /\ active' = TRUE
    /\ IF active
       THEN queue' = Append(queue, accepted + 1) /\ UNCHANGED <<writes, failing>>
       ELSE /\ writes' = Append(writes, accepted + 1)
            /\ failing' = IF open THEN failing ELSE failing \cup {"write"}
            /\ UNCHANGED queue
    /\ UNCHANGED <<alive, conn, open, connected, read, wire, connects, since>>

\* disconnect(): a resolution in flight goes on all the same.
Disconnect ==
    /\ alive /\ (open \/ conn # "none")
    /\ disconnect_nosig(conn, read, writes)
    /\ UNCHANGED <<alive, conn, read, outbound, checked, connects, since>>

\* ~ProtobufStreamClient: no handler runs after the asio thread is joined.
Destroy ==
    /\ alive /\ checked = {}
    /\ alive' = FALSE
    /\ disconnect_nosig(conn, read, writes)
    /\ UNCHANGED <<conn, read, outbound, checked, connects, since>>

-----------------------------------------------------------------------------
(* The asio thread: one action per handler and outcome. *)

HandleResolve ==
    /\ alive /\ conn = "resolve" /\ failing = {}
    /\ \/ conn' = "connect" /\ open' = TRUE /\ UNCHANGED <<connected, failing>>
       \/ conn' = "none" /\ disconnect_nosig("none", read, writes)
    /\ UNCHANGED <<alive, read, outbound, checked, connects, since>>

HandleConnect ==
    /\ alive /\ conn = "connect"
    /\ conn' = "none"
    /\ \/ /\ MaySucceed("connect")
          /\ connected' = TRUE
          /\ read' = "header"
          /\ since' = accepted
          /\ UNCHANGED <<open, failing>>
       \/ disconnect_nosig("none", read, writes) /\ UNCHANGED <<read, since>>
    /\ UNCHANGED <<alive, outbound, checked, connects>>

\* The size of the payload arrives; its buffer may have to grow, and without
\* memory the read is set up all the same, on a closed socket.
HandleReadHeader ==
    /\ alive /\ read = "header" /\ MaySucceed("read")
    /\ read' = "message"
    /\ \/ UNCHANGED <<open, connected, failing>>
       \/ disconnect_nosig(conn, "message", writes)
    /\ UNCHANGED <<alive, conn, outbound, checked, connects, since>>

\* sig_rcvd_ or sig_recv_failed_, then start_recv.
HandleReadMessage ==
    /\ alive /\ read = "message" /\ MaySucceed("read")
    /\ read' = "header"
    /\ UNCHANGED <<alive, conn, open, connected, failing, outbound, checked, connects, since>>

HandleReadError ==
    /\ alive /\ read # "none"
    /\ read' = "none"
    /\ disconnect_nosig(conn, "none", writes)
    /\ UNCHANGED <<alive, conn, outbound, checked, connects, since>>

\* Mutant: the queue is left to the next send().
HandleWriteIdle ==
    /\ alive /\ writes # <<>> /\ MaySucceed("write")
    /\ wire' = Append(wire, Head(writes))
    /\ writes' = Tail(writes) /\ active' = FALSE
    /\ UNCHANGED <<alive, socket, queue, checked, accepted, connects, since>>

\* The oldest write is done: the next one starts, or the queue goes idle.
HandleWrite ==
    /\ alive /\ writes # <<>> /\ MaySucceed("write")
    /\ wire' = Append(wire, Head(writes))
    /\ IF queue # <<>>
       THEN /\ writes' = Append(Tail(writes), Head(queue))
            /\ queue' = Tail(queue)
            /\ UNCHANGED active
       ELSE writes' = Tail(writes) /\ active' = FALSE /\ UNCHANGED queue
    /\ UNCHANGED <<alive, socket, checked, accepted, connects, since>>

\* Mutant: a message that could not be written is queued again.
HandleWriteRetry ==
    /\ alive /\ writes # <<>>
    /\ writes' = Tail(writes)
    /\ queue' = Append(queue, Head(writes))
    /\ active' = FALSE
    /\ disconnect_nosig(conn, read, Tail(writes))
    /\ UNCHANGED <<alive, conn, read, accepted, wire, checked, connects, since>>

\* The oldest write has failed: outbound_active_ and the queue stay as they are.
HandleWriteError ==
    /\ alive /\ writes # <<>>
    /\ writes' = Tail(writes)
    /\ disconnect_nosig(conn, read, Tail(writes))
    /\ UNCHANGED <<alive, conn, read, active, queue, accepted, wire, checked, connects, since>>

Handler ==
    \/ HandleResolve \/ HandleConnect
    \/ HandleReadHeader \/ HandleReadMessage \/ HandleReadError
    \/ HandleWrite \/ HandleWriteError

Application ==
    \/ AsyncConnect \/ Disconnect \/ Destroy
    \/ \E t \in Senders : SendCheck(t) \/ SendEnqueue(t)

Next == Handler \/ Application

Spec == Init /\ [][Next]_vars

\* The asio thread runs the handlers and send() returns.
FairSpec ==
    /\ Spec
    /\ WF_vars(HandleResolve \/ HandleConnect)
    /\ WF_vars(HandleWrite \/ HandleWriteError)
    /\ WF_vars(failing # {} /\ HandleReadError)
    /\ \A t \in Senders : WF_vars(SendEnqueue(t))

-----------------------------------------------------------------------------
(* Properties. *)

\* Whatever threads send and however connections fail, two frames are never
\* in flight at once: their bytes cannot be interleaved on the stream.
OneFrameAtATime == Len(writes) <= 1 /\ (writes # <<>> => active)

\* The queue, the writes in flight, failed writes and reconnections implement
\* a link that neither reorders nor duplicates.
Abstract == INSTANCE FifoLink WITH settled <- accepted - Len(writes) - Len(queue)
ImplementsFifoLink == Abstract!Spec

InFlight == {writes[i] : i \in DOMAIN writes} \cup {queue[i] : i \in DOMAIN queue}
OnWire == {wire[i] : i \in DOMAIN wire}

\* A message that send() has taken during a connection goes out unless that
\* connection ends.
GoesOut(m) == (m \in InFlight /\ m > since /\ connected) ~> (m \in OnWire \/ ~connected)

\* On a client that connects once, what threads send at the same time and what
\* is queued while a write is in flight goes out.
FirstConnectionDelivers ==
    \A m \in 1 .. MaxSends : [](connects <= 1) => GoesOut(m)

\* client.cpp:351 "Send a message to the server.": the same holds for every
\* connection, also after an earlier one has failed.
AcceptedGoesOut == \A m \in 1 .. MaxSends : GoesOut(m)

=============================================================================
