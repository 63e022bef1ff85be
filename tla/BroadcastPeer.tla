--------------------------- MODULE BroadcastPeer ---------------------------
(***************************************************************************)
(* protobuf_comm/peer.cpp: the UDP broadcast peer.  Users send, and may    *)
(* change the encryption; the asio thread resolves the address, sends one  *)
(* datagram after the other and receives.                                  *)
(*                                                                         *)
(* A datagram is [enc, body, own]: encrypted or not, its message, and      *)
(* whether it comes from this host.  Messages have one length, encryption  *)
(* makes them longer, so that enc stands for the size in the header too.   *)
(* A buffer holds [enc, sealed, body]: the header, whether the rest is     *)
(* still encrypted, and the message.                                       *)
(***************************************************************************)
EXTENDS Naturals, Sequences

CONSTANTS Bodies,      \* the messages that others send
          MaxSent,     \* bound: messages this peer sends
          MaxSetups,   \* bound: calls of setup_crypto()
          None

VARIABLES resolved,    \* "pending", "ok", "failed"
          outboundActive, outboundQueue,
          sending,     \* the message in async_send_to(), or 0
          starting,    \* the threads ("user", "asio") that are about to call start_send()
          queued,      \* how many messages were given to send()
          wire,        \* the messages that went out
          crypto, cryptoBuf,       \* crypto_, crypto_buf_
          settingUp, setups,       \* setup_crypto() is between its two halves
          inData, encInData,       \* the two buffers
          recvBuf,     \* the buffer of the pending receive
          filterSelf,
          received,    \* the last datagram
          delivered,   \* the message given to sig_rcvd_ for it, or None
          failed       \* sig_recv_error_ was raised for it
vars == <<resolved, outboundActive, outboundQueue, sending, starting, queued, wire, crypto,
          cryptoBuf, settingUp, setups, inData, encInData, recvBuf, filterSelf, received, delivered, failed>>
outVars == <<resolved, outboundActive, outboundQueue, sending, starting, queued, wire>>
cryptoVars == <<crypto, cryptoBuf, settingUp, setups>>
inVars == <<inData, encInData, recvBuf, filterSelf, received, delivered, failed>>

Empty == [enc |-> FALSE, sealed |-> TRUE, body |-> None]

\* The constructors and ctor(): outbound_active_ is set until the address is known.
Init ==
    /\ resolved = "pending" /\ outboundActive = TRUE /\ outboundQueue = <<>>
    /\ sending = 0 /\ starting = {} /\ queued = 0 /\ wire = <<>>
    /\ crypto \in BOOLEAN /\ cryptoBuf = crypto /\ settingUp = FALSE /\ setups = 0
    /\ inData = Empty /\ encInData = Empty
    /\ recvBuf = IF crypto THEN "enc" ELSE "in"
    /\ filterSelf \in BOOLEAN
    /\ received = None /\ delivered = None /\ failed = FALSE

(* Sending.  send() and the handlers change the queue or the flag under      *)
(* outbound_mutex_, unlock, and call start_send(), which locks again.       *)

start_send(t) ==
    /\ t \in starting
    /\ starting' = starting \ {t}
    /\ IF outboundQueue = <<>> \/ outboundActive
       THEN UNCHANGED <<outboundActive, outboundQueue, sending>>
       ELSE /\ outboundActive' = TRUE
            /\ outboundQueue' = Tail(outboundQueue) /\ sending' = Head(outboundQueue)
    /\ UNCHANGED <<resolved, queued, wire, cryptoVars, inVars>>

HandleResolve ==
    /\ resolved = "pending"
    /\ \/ resolved' = "ok" /\ outboundActive' = FALSE
       \/ resolved' = "failed" /\ UNCHANGED outboundActive
    /\ starting' = starting \cup {"asio"}
    /\ UNCHANGED <<outboundQueue, sending, queued, wire, cryptoVars, inVars>>

\* send() and send_raw().
send ==
    /\ queued < MaxSent /\ "user" \notin starting
    /\ queued' = queued + 1
    /\ outboundQueue' = Append(outboundQueue, queued + 1)
    /\ starting' = starting \cup {"user"}
    /\ UNCHANGED <<resolved, outboundActive, sending, wire, cryptoVars, inVars>>

\* Mutant: a failed send stops the peer.
HandleSentStops ==
    /\ "asio" \notin starting /\ sending # 0
    /\ sending' = 0
    /\ \/ wire' = Append(wire, sending) /\ outboundActive' = FALSE
       \/ UNCHANGED <<wire, outboundActive>>
    /\ starting' = starting \cup {"asio"}
    /\ UNCHANGED <<resolved, outboundQueue, queued, cryptoVars, inVars>>

\* handle_sent(): an error loses the datagram and changes nothing else.
HandleSent ==
    /\ "asio" \notin starting /\ sending # 0
    /\ sending' = 0 /\ outboundActive' = FALSE
    /\ wire' = Append(wire, sending) \/ UNCHANGED wire
    /\ starting' = starting \cup {"asio"}
    /\ UNCHANGED <<resolved, outboundQueue, queued, cryptoVars, inVars>>

(* setup_crypto(), which no lock protects: encryption is off in between. *)
SetupCrypto ==
    /\ ~settingUp /\ setups < MaxSetups
    /\ settingUp' = TRUE /\ setups' = setups + 1
    /\ crypto' = FALSE /\ cryptoBuf' = FALSE
    /\ UNCHANGED <<outVars, inVars>>
SetupCryptoEnds ==
    /\ settingUp
    /\ settingUp' = FALSE
    /\ crypto' \in BOOLEAN       \* with a key and a cipher, or without
    /\ cryptoBuf' = FALSE
    /\ UNCHANGED <<setups, outVars, inVars>>

(* Receiving. *)

Datagrams == [enc : BOOLEAN, body : Bodies, own : BOOLEAN]
Raw(d) == [enc |-> d.enc, sealed |-> d.enc, body |-> d.body]

\* Mutant: a message that could not be decrypted is handled like the others.
HandleRecvUndecrypted(in, enc, d, decrypts) ==
    LET frame == IF cryptoBuf THEN enc ELSE in
        decrypting == cryptoBuf /\ frame.enc
        data == IF decrypting /\ decrypts
                THEN [enc |-> TRUE, sealed |-> FALSE, body |-> frame.body] ELSE in
        handled == (decrypting \/ d.enc = frame.enc) /\ ~(filterSelf /\ d.own)
    IN /\ inData' = data /\ encInData' = enc
       /\ delivered' = IF handled /\ ~data.sealed THEN data.body ELSE None
       /\ failed' = (frame.enc # cryptoBuf \/ (handled /\ data.sealed))

\* handle_recv() when the buffers hold in and enc: the message it delivers and
\* what in_data_ becomes.  decrypts: the key is the right one.
HandleRecv(in, enc, d, decrypts) ==
    LET frame == IF cryptoBuf THEN enc ELSE in
        wrongMode == frame.enc # cryptoBuf
        decrypting == cryptoBuf /\ frame.enc
        data == IF decrypting
                THEN IF decrypts THEN [enc |-> TRUE, sealed |-> FALSE, body |-> frame.body]
                     ELSE [in EXCEPT !.enc = TRUE]      \* the header is copied first
                ELSE in
        rightSize == IF decrypting THEN decrypts ELSE d.enc = frame.enc
        handled == rightSize /\ ~(filterSelf /\ d.own)
        readable == ~data.sealed
    IN /\ inData' = data
       /\ encInData' = enc
       /\ delivered' = IF handled /\ readable THEN data.body ELSE None
       /\ failed' = (wrongMode \/ ~rightSize \/ (handled /\ ~readable))

\* A datagram arrives in the buffer of the pending receive; afterwards
\* start_recv() chooses the buffer of the next.
Receive ==
    /\ "asio" \notin starting
    /\ \E d \in Datagrams, decrypts \in BOOLEAN :
        /\ received' = d
        /\ HandleRecv(IF recvBuf = "in" THEN Raw(d) ELSE inData,
                      IF recvBuf = "enc" THEN Raw(d) ELSE encInData, d, decrypts)
    /\ cryptoBuf' = crypto
    /\ recvBuf' = IF crypto THEN "enc" ELSE "in"
    /\ UNCHANGED <<outVars, crypto, settingUp, setups, filterSelf>>

\* An error or a truncated datagram.
ReceiveError ==
    /\ "asio" \notin starting
    /\ received' = None /\ delivered' = None /\ failed' = TRUE
    /\ cryptoBuf' = crypto
    /\ recvBuf' = IF crypto THEN "enc" ELSE "in"
    /\ UNCHANGED <<outVars, crypto, settingUp, setups, filterSelf, inData, encInData>>

Next ==
    \/ HandleResolve \/ send \/ HandleSent \/ \E t \in {"user", "asio"} : start_send(t)
    \/ SetupCrypto \/ SetupCryptoEnds
    \/ Receive \/ ReceiveError

-----------------------------------------------------------------------------
(* Properties. *)

\* Whichever threads call start_send() at once, datagrams go out one at a time
\* in the order of send(), none twice, and none before the address is known.
DatagramsInOrder ==
    /\ \A m, n \in 1 .. Len(wire) : m < n => wire[m] < wire[n]
    /\ sending # 0 => resolved = "ok" /\ outboundActive /\ \A n \in 1 .. Len(wire) : wire[n] < sending

\* The message that is delivered for a datagram is its own if it comes in the
\* mode the receive was started for; nothing goes wrong then.  For any other
\* datagram the message that an earlier one left readable in in_data_ may be
\* delivered again: with an error signalled first, or without one if
\* setup_crypto() was called while the receive was pending, which makes
\* handle_recv() read the other buffer.
ReceiveDelivers ==
    inVars' # inVars /\ delivered' # None =>
        IF cryptoBuf = (recvBuf = "enc")
        THEN IF received'.enc = cryptoBuf
             THEN delivered' = received'.body /\ ~failed'
             ELSE delivered' = inData.body /\ ~inData.sealed /\ failed'
        ELSE delivered' = inData.body /\ ~inData.sealed

=============================================================================
