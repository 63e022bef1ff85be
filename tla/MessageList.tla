---------------------------- MODULE MessageList ----------------------------
(***************************************************************************)
(* core/exception.cpp: the messages of an exception, a linked list with a  *)
(* pointer to its first and its last node.  Threads that catch the same    *)
(* exception append, prepend and copy messages under its mutex.  Node 0 is *)
(* the null pointer; formatting a message is left out.                     *)
(*                                                                         *)
(* A copy locks its target, then its source, and walks the source with the *)
(* member messages_iterator of the target.  job[t] is "idle", "source"     *)
(* (waiting for the second lock) or "copy".                                *)
(***************************************************************************)
EXTENDS Naturals, Sequences, FiniteSets

CONSTANTS Users, Exceptions, Texts,
          MaxNodes,    \* bound: list nodes in use at a time
          Nobody

VARIABLES messages, messagesEnd, messagesIterator,   \* per exception, a node or 0
          next, msg,   \* the two members of a node
          nodes,       \* the nodes in use
          owner,       \* per exception, the owner of messages_mutex
          job, target, source,
          recorded     \* history: the messages an exception was given, in order

Nodes == 1 .. MaxNodes
NewNode == CHOOSE n \in Nodes \ nodes : TRUE

\* Exception(): an exception without messages.
Init ==
    /\ messages = [e \in Exceptions |-> 0] /\ messagesEnd = [e \in Exceptions |-> 0]
    /\ messagesIterator = [e \in Exceptions |-> 0]
    /\ next = [n \in Nodes |-> 0] /\ msg = [n \in Nodes |-> Nobody] /\ nodes = {}
    /\ owner = [e \in Exceptions |-> Nobody]
    /\ job = [t \in Users |-> "idle"]
    /\ target = [t \in Users |-> Nobody] /\ source = [t \in Users |-> Nobody]
    /\ recorded = [e \in Exceptions |-> <<>>]

\* Another thread is not in the middle of a copy that involves the exception.
NotInUse(t, e) == \A u \in Users \ {t} : e \notin {target[u], source[u]}

\* append_nolock() and its variants.
append_nolock(e, text) ==
    /\ nodes # Nodes
    /\ nodes' = nodes \cup {NewNode}
    /\ msg' = [msg EXCEPT ![NewNode] = text]
    /\ next' = [n \in Nodes |-> IF n = NewNode THEN 0
                                ELSE IF n = messagesEnd[e] THEN NewNode ELSE next[n]]
    /\ messages' = [messages EXCEPT ![e] = IF @ = 0 THEN NewNode ELSE @]
    /\ messagesEnd' = [messagesEnd EXCEPT ![e] = NewNode]
    /\ recorded' = [recorded EXCEPT ![e] = Append(@, text)]

prepend_nolock(e, text) ==
    /\ nodes # Nodes
    /\ nodes' = nodes \cup {NewNode}
    /\ msg' = [msg EXCEPT ![NewNode] = text]
    /\ next' = [next EXCEPT ![NewNode] = messages[e]]
    /\ messages' = [messages EXCEPT ![e] = NewNode]
    /\ messagesEnd' = [messagesEnd EXCEPT ![e] = IF messages[e] = 0 THEN NewNode ELSE @]
    /\ recorded' = [recorded EXCEPT ![e] = <<text>> \o @]

append(t, e, text) ==
    /\ job[t] = "idle" /\ owner[e] = Nobody
    /\ append_nolock(e, text)
    /\ UNCHANGED <<messagesIterator, owner, job, target, source>>

prepend(t, e, text) ==
    /\ job[t] = "idle" /\ owner[e] = Nobody
    /\ prepend_nolock(e, text)
    /\ UNCHANGED <<messagesIterator, owner, job, target, source>>

\* append(const Exception &), the copy constructor (a target without messages)
\* and operator=, which keeps the messages of its target and gives it a new
\* mutex; it is called on an exception nobody else uses.
copy_messages(t, e, exc) ==
    /\ job[t] = "idle" /\ owner[e] = Nobody
    /\ owner' = [owner EXCEPT ![e] = t]
    /\ job' = [job EXCEPT ![t] = "source"]
    /\ target' = [target EXCEPT ![t] = e] /\ source' = [source EXCEPT ![t] = exc]
    /\ UNCHANGED <<messages, messagesEnd, messagesIterator, next, msg, nodes, recorded>>

CopySource(t) ==
    /\ job[t] = "source" /\ owner[source[t]] = Nobody
    /\ owner' = [owner EXCEPT ![source[t]] = t]
    /\ messagesIterator' = [messagesIterator EXCEPT ![target[t]] = messages[source[t]]]
    /\ job' = [job EXCEPT ![t] = "copy"]
    /\ UNCHANGED <<messages, messagesEnd, next, msg, nodes, target, source, recorded>>

CopyMessage(t) ==
    /\ job[t] = "copy" /\ messagesIterator[target[t]] # 0
    /\ append_nolock(target[t], msg[messagesIterator[target[t]]])
    /\ messagesIterator' = [messagesIterator EXCEPT ![target[t]] = next[@]]
    /\ UNCHANGED <<owner, job, target, source>>

CopyEnd(t) ==
    /\ job[t] = "copy" /\ messagesIterator[target[t]] = 0
    /\ owner' = [owner EXCEPT ![source[t]] = Nobody, ![target[t]] = Nobody]
    /\ job' = [job EXCEPT ![t] = "idle"]
    /\ target' = [target EXCEPT ![t] = Nobody] /\ source' = [source EXCEPT ![t] = Nobody]
    /\ UNCHANGED <<messages, messagesEnd, messagesIterator, next, msg, nodes, recorded>>

\* The nodes from n on, as the iterator (operator++ until it equals end()) visits
\* them; a list that never ends would be longer than the nodes there are.
Walk(n) ==
    LET visited[k \in 1 .. MaxNodes + 1] ==
            IF k = 1 THEN n
            ELSE IF visited[k-1] = 0 THEN 0 ELSE next[visited[k-1]]
        length == Cardinality({k \in 1 .. MaxNodes + 1 : visited[k] # 0})
    IN [i \in 1 .. length |-> visited[i]]

\* what()
what(e) == IF messages[e] # 0 THEN msg[messages[e]] ELSE "Unknown error"

\* ~Exception(): every node is freed; the exception may be created again.
Destroy(t, e) ==
    /\ job[t] = "idle" /\ owner[e] = Nobody /\ NotInUse(t, e) /\ messages[e] # 0
    /\ nodes' = nodes \ {Walk(messages[e])[i] : i \in 1 .. Len(Walk(messages[e]))}
    /\ messages' = [messages EXCEPT ![e] = 0] /\ messagesEnd' = [messagesEnd EXCEPT ![e] = 0]
    /\ messagesIterator' = [messagesIterator EXCEPT ![e] = 0]
    /\ recorded' = [recorded EXCEPT ![e] = <<>>]
    /\ UNCHANGED <<next, msg, owner, job, target, source>>

Next ==
    \E t \in Users :
        \/ CopySource(t) \/ CopyMessage(t) \/ CopyEnd(t)
        \/ \E e \in Exceptions :
              \/ \E text \in Texts : append(t, e, text) \/ prepend(t, e, text)
              \/ \E exc \in Exceptions : copy_messages(t, e, exc)
              \/ Destroy(t, e)

-----------------------------------------------------------------------------
(* Properties. *)

\* The list read from its first node is what the exception was given, its end
\* is the last node, no node belongs to two exceptions, and what() is the
\* first message.
ListIntact ==
    /\ \A e \in Exceptions :
        LET list == Walk(messages[e])
        IN /\ [i \in 1 .. Len(list) |-> msg[list[i]]] = recorded[e]
           /\ messagesEnd[e] = IF list = <<>> THEN 0 ELSE list[Len(list)]
           /\ recorded[e] # <<>> => what(e) = Head(recorded[e])
    /\ \A e, f \in Exceptions : e # f /\ messagesEnd[e] # 0 => messagesEnd[e] # messagesEnd[f]

=============================================================================
