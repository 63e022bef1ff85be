---------------------------- MODULE ProtobufComm ----------------------------
(***************************************************************************)
(* The communication library side by side with the bridge that uses it:    *)
(* kind says which part a behaviour is about (the stream server, the       *)
(* broadcast peer, the frames, the message register or the bridge to the   *)
(* referee box); the variables of the others are unused.                   *)
(***************************************************************************)
EXTENDS Naturals

CONSTANTS MaxClients, MaxMessages, MaxSent, MaxSetups, Bodies, Sizes, RECONNECT_ATTEMPTS, None

ASSUME CommAssumption == MaxClients \in Nat /\ Sizes \subseteq Nat

VARIABLES kind,
    nextCid, sessions, socket, peerUp, reading, writing, accepted, gone, caller, crashed,
    outboundActive, outboundQueue, wire,
    resolved, sending, starting, queued, crypto, cryptoBuf, settingUp, setups,
    inData, encInData, recvBuf, filterSelf, received, delivered, failed,
    version, cipher, frame, length, count, keys, got,
    byComp, byName, adding, answer,
    client, tries, due, forwarding, thrown,
    connected

Server == INSTANCE StreamServer
Peer == INSTANCE BroadcastPeer
Frames == INSTANCE ProtobufFrames
\* Types A and B have the same CompType, C has none.
Register == INSTANCE MessageRegister WITH
    Types <- {"A", "B", "C"}, Keys <- {1, 2}, Users <- {"u1", "u2"},
    KeyOf <- [t \in {"A", "B", "C"} |-> IF t = "C" THEN None ELSE 1]
Bridge == INSTANCE RefboxComm

serverOnly == <<nextCid, sessions, socket, peerUp, reading, writing, accepted, gone, caller, crashed>>
queueVars == <<outboundActive, outboundQueue, wire>>
peerOnly == <<resolved, sending, starting, queued, crypto, cryptoBuf, settingUp, setups,
              inData, encInData, recvBuf, filterSelf, received, delivered, failed>>
frameVars == <<version, cipher, frame, length, count, keys, got>>
registerVars == <<byComp, byName, adding, answer>>
bridgeOnly == <<client, tries, due, forwarding, thrown>>
serverVars == <<serverOnly, queueVars, connected>>
peerVars == <<peerOnly, queueVars>>
bridgeVars == <<bridgeOnly, connected>>
vars == <<kind, serverOnly, queueVars, peerOnly, frameVars, registerVars, bridgeOnly, connected>>

Unused == "unused"
NoServer == /\ nextCid = Unused /\ sessions = Unused /\ socket = Unused /\ peerUp = Unused
            /\ reading = Unused /\ writing = Unused /\ accepted = Unused /\ gone = Unused
            /\ caller = Unused /\ crashed = Unused
NoQueue == outboundActive = Unused /\ outboundQueue = Unused /\ wire = Unused
NoPeer == /\ resolved = Unused /\ sending = Unused /\ starting = Unused /\ queued = Unused
          /\ crypto = Unused /\ cryptoBuf = Unused /\ settingUp = Unused /\ setups = Unused
          /\ inData = Unused /\ encInData = Unused /\ recvBuf = Unused /\ filterSelf = Unused
          /\ received = Unused /\ delivered = Unused /\ failed = Unused
NoFrames == /\ version = Unused /\ cipher = Unused /\ frame = Unused /\ length = Unused
            /\ count = Unused /\ keys = Unused /\ got = Unused
NoRegister == byComp = Unused /\ byName = Unused /\ adding = Unused /\ answer = Unused
NoBridge == /\ client = Unused /\ tries = Unused /\ due = Unused
            /\ forwarding = Unused /\ thrown = Unused

Init ==
    \/ /\ kind = "server" /\ Server!Init
       /\ NoPeer /\ NoFrames /\ NoRegister /\ NoBridge
    \/ /\ kind = "peer" /\ Peer!Init
       /\ NoServer /\ NoFrames /\ NoRegister /\ NoBridge /\ connected = Unused
    \/ /\ kind = "frames" /\ Frames!Init
       /\ NoServer /\ NoQueue /\ NoPeer /\ NoRegister /\ NoBridge /\ connected = Unused
    \/ /\ kind = "register" /\ Register!Init
       /\ NoServer /\ NoQueue /\ NoPeer /\ NoFrames /\ NoBridge /\ connected = Unused
    \/ /\ kind = "bridge" /\ Bridge!Init
       /\ NoServer /\ NoQueue /\ NoPeer /\ NoFrames /\ NoRegister

ServerNext ==
    /\ kind = "server" /\ Server!Next
    /\ UNCHANGED <<kind, peerOnly, frameVars, registerVars, bridgeOnly>>
PeerNext ==
    /\ kind = "peer" /\ Peer!Next
    /\ UNCHANGED <<kind, serverOnly, frameVars, registerVars, bridgeOnly, connected>>
FramesNext ==
    /\ kind = "frames" /\ Frames!Next
    /\ UNCHANGED <<kind, serverOnly, queueVars, peerOnly, registerVars, bridgeOnly, connected>>
RegisterNext ==
    /\ kind = "register" /\ Register!Next
    /\ UNCHANGED <<kind, serverOnly, queueVars, peerOnly, frameVars, bridgeOnly, connected>>
BridgeNext ==
    /\ kind = "bridge" /\ Bridge!Next
    /\ UNCHANGED <<kind, serverOnly, queueVars, peerOnly, frameVars, registerVars>>

Next == ServerNext \/ PeerNext \/ FramesNext \/ RegisterNext \/ BridgeNext

\* The asio threads run the handlers of what has happened, and a thread that
\* calls start_send() gets its mutex; the world is updated and time passes.
\* Nobody promises that clients, users or peers do anything.
Fairness ==
    /\ \A i \in 1 .. MaxClients : WF_serverVars(kind = "server" /\ Server!Asio(i))
    /\ WF_peerVars(kind = "peer" /\ Peer!HandleSent)
    /\ \A t \in {"user", "asio"} : WF_peerVars(kind = "peer" /\ Peer!start_send(t))
    /\ WF_bridgeVars(kind = "bridge" /\ Bridge!Update)
    /\ WF_bridgeVars(kind = "bridge" /\ Bridge!Elapse)

Spec == Init /\ [][Next]_vars /\ Fairness

-----------------------------------------------------------------------------
(* Properties: those of the parts. *)

\* What the server and the peer send goes out in the order of the calls of
\* send(), one at a time, none repeated, whichever threads start a write; every
\* session was announced, and none comes back after its end was reported.
TrafficInOrder ==
    /\ kind = "server" => Server!FramesInOrder /\ Server!SessionsAnnounced
    /\ kind = "peer" => Peer!DatagramsInOrder

\* A client that has left is forgotten.
GoneIsForgotten ==
    \A i \in 1 .. MaxClients :
        (kind = "server" /\ i \in sessions /\ ~peerUp[i])
            ~> (kind = "server" /\ (i \notin sessions \/ crashed))

\* Once the peer knows the address, everything in its queue is sent.
QueuedGoesOut ==
    (kind = "peer" /\ resolved = "ok" /\ outboundQueue # <<>>)
        ~> (kind = "peer" /\ outboundQueue = <<>>)

\* What the peer delivers for a datagram in the mode it expects is the message
\* of that datagram, and what it delivers for another is at worst a message
\* received before; a key of the register names one type until it is removed or
\* a registration that takes no lock overwrites it.
MessagesNotMixedUp ==
    [][/\ kind = "peer" => Peer!ReceiveDelivers
       /\ kind = "register" => Register!KeysKept]_vars

\* A version 2 message that fits arrives with its length, whatever the cipher.
RoundTrip == kind = "frames" => Frames!RoundTrip

\* The bridge believes it is connected only while one of its clients is or is
\* about to signal that it no longer is, and as long as there is one client the
\* handlers that test connected_ throw only after its connection is lost.
BridgeLinked ==
    kind = "bridge" => Bridge!ConnectedMeansLink /\ Bridge!FirstClientForwards

\* A bridge without a connection tries again until it has one or has used up
\* its attempts.
Reconnects ==
    (kind = "bridge" /\ ~connected)
        ~> (kind = "bridge" /\ (connected \/ tries = RECONNECT_ATTEMPTS))

=============================================================================
