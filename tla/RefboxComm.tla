----------------------------- MODULE RefboxComm -----------------------------
(***************************************************************************)
(* LlsfRefboxCommPlugin (plugins/llsf-refbox-comm): the bridge to the      *)
(* referee box.  Every attempt to connect makes a new stream client; the   *)
(* old one is neither destroyed nor disconnected from the plugin's         *)
(* handlers, and its asio thread goes on raising signals.  The simulator's *)
(* thread runs Update, the transport thread forwards messages, and a       *)
(* client's asio thread changes the client first and signals the bridge    *)
(* afterwards.                                                             *)
(***************************************************************************)
EXTENDS Naturals, FiniteSets

CONSTANT RECONNECT_ATTEMPTS   \* a natural number

VARIABLES
    client,         \* the clients made so far, in order; of each, link says whether
                    \* its own connected_ is set ("up") and has been ("down"),
                    \* signal what its asio thread is about to signal, and again
                    \* that another operation of it has yet to end with an error
    connected,      \* connected_
    tries,          \* connect_tries_
    due,            \* RECONNECT_INTERVAL has passed since last_connect_try_
    forwarding,     \* a handler of a topic has found connected_ set and has yet to send
    thrown          \* history: the handlers that ended in the exception of send()

vars == <<client, connected, tries, due, forwarding, thrown>>
bridge == <<connected, tries, due, forwarding, thrown>>

Clients == 1 .. tries + 1

\* client_
Current == tries + 1

\* async_connect() is under way.
Connecting == [link |-> "connecting", signal |-> "none", again |-> FALSE]

\* Load: the first client connects.
Init ==
    /\ client = [c \in 1 .. 1 |-> Connecting]
    /\ connected = FALSE
    /\ tries = 0
    /\ due = FALSE
    /\ forwarding = FALSE
    /\ thrown = {}

-----------------------------------------------------------------------------
\* create_client, async_connect.
CreateClient == client' = [c \in 1 .. tries' + 1 |-> IF c \in Clients THEN client[c] ELSE Connecting]

\* Mutant: the plugin waits for the last attempt to end.
UpdateAfterFailure ==
    /\ ~connected /\ tries < RECONNECT_ATTEMPTS
    /\ due /\ client[Current].link # "connecting"
    /\ tries' = tries + 1
    /\ due' = FALSE
    /\ CreateClient
    /\ UNCHANGED <<connected, forwarding, thrown>>

Update ==
    /\ ~connected /\ tries < RECONNECT_ATTEMPTS
    /\ due
    /\ tries' = tries + 1
    /\ due' = FALSE
    /\ CreateClient
    /\ UNCHANGED <<connected, forwarding, thrown>>

Elapse == ~due /\ due' = TRUE /\ UNCHANGED <<client, connected, tries, forwarding, thrown>>

\* The client's handle_connect: its own connected_ is set before it signals.
HandleConnect(c) ==
    /\ client[c] = Connecting
    /\ client' = [client EXCEPT ![c] = [link |-> "up", signal |-> "connected", again |-> FALSE]]
    /\ UNCHANGED bridge

\* A handler of the client gets an error: disconnect_nosig, its own connected_
\* falls before it signals.  A connection that is lost may still fail another
\* operation, whose handler does the same once more.
HandleError(c) ==
    /\ client[c].signal = "none"
    /\ client[c].link # "down" \/ client[c].again
    /\ \E more \in BOOLEAN :
        /\ more => client[c].link = "up"
        /\ client' = [client EXCEPT ![c] = [link |-> "down", signal |-> "disconnected", again |-> more]]
    /\ UNCHANGED bridge

\* sig_connected_ of client c.
client_connected(c) ==
    /\ client[c].signal = "connected"
    /\ client' = [client EXCEPT ![c].signal = "none"]
    /\ connected' = TRUE
    /\ UNCHANGED <<tries, due, forwarding, thrown>>

\* Mutant: only the loss of the current client counts.
DisconnectedCurrentOnly(c) ==
    /\ client[c].signal = "disconnected"
    /\ client' = [client EXCEPT ![c].signal = "none"]
    /\ connected' = (connected /\ c # Current)
    /\ UNCHANGED <<tries, due, forwarding, thrown>>

\* sig_disconnected_ of client c.
client_disconnected(c) ==
    /\ client[c].signal = "disconnected"
    /\ client' = [client EXCEPT ![c].signal = "none"]
    /\ connected' = FALSE
    /\ UNCHANGED <<tries, due, forwarding, thrown>>

\* client_->send() throws unless its own client is connected.
Send(handler) ==
    thrown' = IF client[Current].link = "up" THEN thrown ELSE thrown \cup {handler}

\* on_time_sync_msg, on_set_game_state_msg and the other handlers of Gazebo's
\* topics test connected_ ...
ForwardTest ==
    /\ connected /\ ~forwarding
    /\ forwarding' = TRUE
    /\ UNCHANGED <<client, connected, tries, due, thrown>>

\* ... and send through the client there is by then.
Forward ==
    /\ forwarding
    /\ forwarding' = FALSE
    /\ Send("forward")
    /\ UNCHANGED <<client, connected, tries, due>>

on_machine_reply_msg ==
    /\ ~forwarding
    /\ Send("reply")
    /\ UNCHANGED <<client, connected, tries, due, forwarding>>

-----------------------------------------------------------------------------
Next ==
    \/ Update \/ Elapse
    \/ ForwardTest \/ Forward \/ on_machine_reply_msg
    \/ \E c \in Clients :
        \/ HandleConnect(c) \/ HandleError(c)
        \/ client_connected(c) \/ client_disconnected(c)

-----------------------------------------------------------------------------
(* Properties. *)

\* connected_ may refer to a client that is not client_ any more, but while it
\* is set some client has a connection, or has lost it and is about to say so.
ConnectedMeansLink ==
    connected => \E c \in Clients : client[c].link = "up" \/ client[c].signal = "disconnected"

\* The test of connected_ does not keep send() from throwing: the connection may
\* end behind it.  But as long as there is one client no handler that tests
\* throws before that connection has been made and lost.
FirstClientForwards == (tries = 0 /\ "forward" \in thrown) => client[1].link = "down"

=============================================================================
