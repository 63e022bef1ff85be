---------------------------- MODULE StreamServer ----------------------------
(***************************************************************************)
(* protobuf_comm/server.cpp: the stream server.  Its asio thread runs the  *)
(* handlers one at a time; a user thread calls send(), send_to_all() and   *)
(* disconnect().  sessions_ is shared between the two without a lock: the  *)
(* user thread looks a client up and uses the entry in a second step.      *)
(* The messages given to a session are numbered; the bytes of a frame are  *)
(* left out.                                                               *)
(***************************************************************************)
EXTENDS Naturals, Sequences, FiniteSets, FiniteSetsExt

CONSTANTS MaxClients,  \* bound: client IDs given out
          MaxMessages  \* bound: messages given to all sessions together

Ids == 1 .. MaxClients

VARIABLES nextCid,     \* next_cid_; the session that waits in async_accept has the ID before
          sessions,    \* the keys of sessions_
          socket,      \* "new", "open", "closed" by the server
          peerUp,      \* the client is still there
          reading,     \* the pending read: "none", "header", "message"
          writing,     \* the message in the pending write, or 0
          outboundActive, outboundQueue,
          accepted,    \* how many messages a session was given
          wire,        \* the messages that went out
          connected, gone,   \* how often the two signals were raised for a client;
                             \* bound: gone counts to 2
          caller,      \* the user thread: [op, at, id]
          crashed
vars == <<nextCid, sessions, socket, peerUp, reading, writing, outboundActive, outboundQueue,
          accepted, wire, connected, gone, caller, crashed>>
netVars == <<socket, peerUp, reading>>
outVars == <<writing, outboundActive, outboundQueue, accepted, wire>>

Idle == [op |-> "idle", at |-> "find", id |-> 0]
Current == nextCid - 1

\* The constructors: the first session waits to be accepted.
Init ==
    /\ nextCid = 2 /\ sessions = {}
    /\ socket = [i \in Ids |-> "new"] /\ peerUp = [i \in Ids |-> FALSE]
    /\ reading = [i \in Ids |-> "none"] /\ writing = [i \in Ids |-> 0]
    /\ outboundActive = [i \in Ids |-> FALSE] /\ outboundQueue = [i \in Ids |-> <<>>]
    /\ accepted = [i \in Ids |-> 0] /\ wire = [i \in Ids |-> <<>>]
    /\ connected = [i \in Ids |-> 0] /\ gone = [i \in Ids |-> 0]
    /\ caller = Idle /\ crashed = FALSE

disconnected(i) ==
    /\ sessions' = sessions \ {i}
    /\ gone' = [gone EXCEPT ![i] = Min({@ + 1, 2})]

(* Handlers of the asio thread. *)

start_accept == nextCid' = nextCid + 1

\* handle_accept(): remote_endpoint() throws if the client has left already, and
\* nobody catches it.
HandleAccept ==
    /\ ~crashed /\ Current \in Ids
    /\ \/ /\ socket' = [socket EXCEPT ![Current] = "open"]
          /\ peerUp' = [peerUp EXCEPT ![Current] = TRUE]
          /\ sessions' = sessions \cup {Current}
          /\ connected' = [connected EXCEPT ![Current] = @ + 1]
          /\ reading' = [reading EXCEPT ![Current] = "header"]
          /\ start_accept /\ UNCHANGED crashed
       \/ /\ start_accept      \* error
          /\ UNCHANGED <<netVars, sessions, connected, crashed>>
       \/ /\ crashed' = TRUE
          /\ UNCHANGED <<netVars, sessions, connected, nextCid>>
    /\ UNCHANGED <<outVars, gone, caller>>

MayRead(i) == socket[i] = "open" /\ peerUp[i]

HandleReadHeader(i) ==
    /\ ~crashed /\ reading[i] = "header" /\ MayRead(i)
    /\ reading' = [reading EXCEPT ![i] = "message"]
    /\ \/ UNCHANGED <<sessions, gone>>
       \/ disconnected(i)      \* not enough memory; the message is read all the same
    /\ UNCHANGED <<nextCid, socket, peerUp, outVars, connected, caller, crashed>>

\* Mutant: no new read after a message.
HandleReadMessageOnce(i) ==
    /\ ~crashed /\ reading[i] = "message" /\ MayRead(i)
    /\ reading' = [reading EXCEPT ![i] = "none"]
    /\ UNCHANGED <<nextCid, sessions, socket, peerUp, outVars, connected, gone, caller, crashed>>

\* The message is reported, or that it could not be read; then start_read().
HandleReadMessage(i) ==
    /\ ~crashed /\ reading[i] = "message" /\ MayRead(i)
    /\ reading' = [reading EXCEPT ![i] = "header"]
    /\ UNCHANGED <<nextCid, sessions, socket, peerUp, outVars, connected, gone, caller, crashed>>

\* An error in either read handler: the connection has ended.
Ended(i) == socket[i] = "closed" \/ ~peerUp[i]
HandleReadError(i) ==
    /\ ~crashed /\ reading[i] # "none" /\ Ended(i)
    /\ reading' = [reading EXCEPT ![i] = "none"]
    /\ disconnected(i)
    /\ UNCHANGED <<nextCid, socket, peerUp, outVars, connected, caller, crashed>>

\* Mutant: the entry that is written stays in the queue.
HandleWriteKeeps(i) ==
    /\ ~crashed /\ writing[i] # 0 /\ socket[i] = "open"
    /\ wire' = [wire EXCEPT ![i] = Append(@, writing[i])]
    /\ IF outboundQueue[i] # <<>>
       THEN /\ writing' = [writing EXCEPT ![i] = Head(outboundQueue[i])]
            /\ outboundQueue' = [outboundQueue EXCEPT ![i] = IF Len(@) > 1 THEN Tail(@) ELSE @]
            /\ UNCHANGED outboundActive
       ELSE /\ writing' = [writing EXCEPT ![i] = 0]
            /\ outboundActive' = [outboundActive EXCEPT ![i] = FALSE]
            /\ UNCHANGED outboundQueue
    /\ Len(wire[i]) < MaxMessages + 2
    /\ UNCHANGED <<nextCid, sessions, netVars, accepted, connected, gone, caller, crashed>>

HandleWrite(i) ==
    /\ ~crashed /\ writing[i] # 0 /\ socket[i] = "open"
    /\ wire' = [wire EXCEPT ![i] = Append(@, writing[i])]
    /\ IF outboundQueue[i] # <<>>
       THEN /\ writing' = [writing EXCEPT ![i] = Head(outboundQueue[i])]
            /\ outboundQueue' = [outboundQueue EXCEPT ![i] = Tail(@)]
            /\ UNCHANGED outboundActive
       ELSE /\ writing' = [writing EXCEPT ![i] = 0]
            /\ outboundActive' = [outboundActive EXCEPT ![i] = FALSE]
            /\ UNCHANGED outboundQueue
    /\ UNCHANGED <<nextCid, sessions, netVars, accepted, connected, gone, caller, crashed>>

\* outbound_active_ stays set: nothing more is written.
HandleWriteError(i) ==
    /\ ~crashed /\ writing[i] # 0 /\ Ended(i)
    /\ writing' = [writing EXCEPT ![i] = 0]
    /\ disconnected(i)
    /\ UNCHANGED <<nextCid, netVars, outboundActive, outboundQueue, accepted, wire, connected,
                   caller, crashed>>

\* The client closes its connection.
PeerLeaves(i) ==
    /\ ~crashed /\ peerUp[i]
    /\ peerUp' = [peerUp EXCEPT ![i] = FALSE]
    /\ UNCHANGED <<nextCid, sessions, socket, reading, outVars, connected, gone, caller, crashed>>

(* The user thread. *)

Given == MapThenSumSet(LAMBDA i : accepted[i], Ids)
\* Session::send()
SessionSend(i) ==
    /\ accepted' = [accepted EXCEPT ![i] = @ + 1]
    /\ IF outboundActive[i]
       THEN /\ outboundQueue' = [outboundQueue EXCEPT ![i] = Append(@, accepted[i] + 1)]
            /\ UNCHANGED <<outboundActive, writing>>
       ELSE /\ outboundActive' = [outboundActive EXCEPT ![i] = TRUE]
            /\ writing' = [writing EXCEPT ![i] = accepted[i] + 1]
            /\ UNCHANGED outboundQueue
    /\ UNCHANGED wire

\* send() and disconnect() look the client up; without one, send() throws.
Find(op, i) ==
    /\ ~crashed /\ caller = Idle /\ i \in sessions
    /\ caller' = [op |-> op, at |-> "use", id |-> i]
    /\ UNCHANGED <<nextCid, sessions, netVars, outVars, connected, gone, crashed>>

\* sessions_[client]: if the client is gone by now, a null pointer.
UseGone ==
    /\ ~crashed /\ caller.at = "use" /\ caller.id \notin sessions
    /\ crashed' = TRUE
    /\ UNCHANGED <<nextCid, sessions, netVars, outVars, connected, gone, caller>>

\* The client that follows in sessions_, or the end of send_to_all().
NextOf(i) ==
    LET later == {j \in sessions : j > i}
    IN IF later = {} THEN Idle ELSE [op |-> "all", at |-> "find", id |-> Min(later)]

UseSend ==
    /\ ~crashed /\ caller.op \in {"send", "all"} /\ caller.at = "use"
    /\ caller.id \in sessions /\ Given < MaxMessages
    /\ SessionSend(caller.id)
    /\ caller' = IF caller.op = "all" THEN NextOf(caller.id) ELSE Idle
    /\ UNCHANGED <<nextCid, sessions, netVars, connected, gone, crashed>>

\* Session::disconnect()
UseDisconnect ==
    /\ ~crashed /\ caller.op = "disconnect" /\ caller.id \in sessions
    /\ socket' = [socket EXCEPT ![caller.id] = "closed"]
    /\ caller' = Idle
    /\ UNCHANGED <<nextCid, sessions, peerUp, reading, outVars, connected, gone, crashed>>

\* send_to_all() iterates over the map; an erased entry invalidates the iterator.
SendToAll ==
    /\ ~crashed /\ caller = Idle /\ sessions # {}
    /\ caller' = [op |-> "all", at |-> "find", id |-> Min(sessions)]
    /\ UNCHANGED <<nextCid, sessions, netVars, outVars, connected, gone, crashed>>
SendToAllFind ==
    /\ ~crashed /\ caller.op = "all" /\ caller.at = "find"
    /\ IF caller.id \in sessions
       THEN caller' = [caller EXCEPT !.at = "use"] /\ UNCHANGED crashed
       ELSE crashed' = TRUE /\ UNCHANGED caller
    /\ UNCHANGED <<nextCid, sessions, netVars, outVars, connected, gone>>

User ==
    \/ \E op \in {"send", "disconnect"}, i \in Ids : Find(op, i)
    \/ UseGone \/ UseSend \/ UseDisconnect \/ SendToAll \/ SendToAllFind

Asio(i) ==
    \/ HandleReadHeader(i) \/ HandleReadMessage(i) \/ HandleReadError(i)
    \/ HandleWrite(i) \/ HandleWriteError(i)

Next == HandleAccept \/ User \/ \E i \in Ids : Asio(i) \/ PeerLeaves(i)

-----------------------------------------------------------------------------
(* Properties. *)

\* What goes out on a connection is a prefix of what send() and send_to_all()
\* gave it, in that order, none left out or repeated.
FramesInOrder == \A i \in Ids : wire[i] = [n \in 1 .. Len(wire[i]) |-> n]

\* A session in the map was announced once and not yet given up; an ID never
\* comes back after its client was reported gone.
SessionsAnnounced ==
    \A i \in Ids : /\ i \in sessions => connected[i] = 1 /\ gone[i] = 0
                   /\ gone[i] > 0 => connected[i] = 1

=============================================================================
