--------------------------- MODULE LockContainer ---------------------------
(***************************************************************************)
(* core/utils/lock_*.h and rwlock_*.h: standard containers with a mutex or *)
(* a read/write lock.  The classes differ in the kind of lock, in which of *)
(* the changing operations have a locked form and in how they are assigned *)
(* to each other: by an operator= that locks both ("locked"), by the one   *)
(* the compiler makes, which locks nothing and makes the target share the  *)
(* lock of the source ("implicit"), or not at all ("none": operator= of    *)
(* RWLockList does not compile, it calls lock_for_read() of a const list). *)
(* A class is described by these three.  A container is a sequence; the    *)
(* order of the elements of a set or map does not matter.  "assign" among  *)
(* the operations is operator= with a plain container.                     *)
(*                                                                         *)
(* A locked operation is one step that waits for the lock.  A locked       *)
(* assignment takes the lock of its target, then that of its source,       *)
(* clears the target and copies element by element: job[t] is              *)
(*   "idle", "held" (between lock() and unlock()),                         *)
(*   "source" (waiting for the source's lock), "copy",                     *)
(*   "implicit" (copying without locks; what a change of the source at the *)
(*   same time may do beyond spoiling the copy is left out).               *)
(***************************************************************************)
EXTENDS Naturals, Sequences, SequencesExt, FiniteSetsExt

CONSTANTS Users,       \* threads
          Containers,
          Elements,
          MaxElements, \* bound: the length of a container
          Nobody

LockList == [lock |-> "mutex", ops |-> {"assign", "push_back", "push_front", "remove"}, assign |-> "locked"]
LockVector == [lock |-> "mutex", ops |-> {"assign", "push_back", "pop_back", "erase"}, assign |-> "locked"]
LockSet == [lock |-> "mutex", ops |-> {"assign", "insert", "remove"}, assign |-> "locked"]
LockHashSet == [lock |-> "mutex", ops |-> {"insert"}, assign |-> "locked"]
LockMap == [lock |-> "mutex", ops |-> {"assign", "remove"}, assign |-> "locked"]
LockMultiMap == [lock |-> "mutex", ops |-> {"assign", "remove"}, assign |-> "locked"]
LockHashMap == [lock |-> "mutex", ops |-> {}, assign |-> "locked"]
LockQueue == [lock |-> "mutex", ops |-> {"push_back", "pop_front", "clear"}, assign |-> "implicit"]
RWLockList == [lock |-> "rw", ops |-> {"assign", "push_back", "push_front", "remove"}, assign |-> "none"]
RWLockVector == [lock |-> "rw", ops |-> {"assign", "push_back", "pop_back", "erase"}, assign |-> "locked"]
RWLockMap == [lock |-> "rw", ops |-> {"remove"}, assign |-> "implicit"]
RWLockQueue == [lock |-> "rw", ops |-> {"push_back", "pop_front", "clear"}, assign |-> "implicit"]
Classes == {LockList, LockVector, LockSet, LockHashSet, LockMap, LockMultiMap, LockHashMap,
            LockQueue, RWLockList, RWLockVector, RWLockMap, RWLockQueue}

VARIABLES class,       \* the class of the containers
          content,     \* [Containers -> Seq(Elements)]
          lockOf,      \* the container whose lock a container has: its own at first
          writer,      \* the thread that has a container's lock exclusively, or Nobody
          readers,     \* the threads that have it for reading
          job, target, source, copied   \* per thread, of an assignment

Contents == BoundedSeq(Elements, MaxElements)

Init ==
    /\ class \in Classes
    /\ content \in [Containers -> Contents]
    /\ lockOf = [c \in Containers |-> c]
    /\ writer = [c \in Containers |-> Nobody] /\ readers = [c \in Containers |-> {}]
    /\ job = [t \in Users |-> "idle"]
    /\ target = [t \in Users |-> Nobody] /\ source = [t \in Users |-> Nobody]
    /\ copied = [t \in Users |-> 0]

CanWrite(c) == writer[lockOf[c]] = Nobody /\ readers[lockOf[c]] = {}
\* A mutex has no readers.
CanRead(c) == IF class.lock = "rw" THEN writer[lockOf[c]] = Nobody ELSE CanWrite(c)

\* What an operation makes of a container.
Result(name, s, e) ==
    CASE name = "push_back" -> Append(s, e)
      [] name = "push_front" -> <<e>> \o s
      [] name = "insert" -> IF Contains(s, e) THEN s ELSE Append(s, e)
      [] name = "remove" -> SelectSeq(s, LAMBDA x : x # e)
      [] name = "erase" -> IF Contains(s, e) THEN Remove(s, e) ELSE s
      [] name = "pop_back" -> Front(s)
      [] name = "pop_front" -> Tail(s)
      [] name = "clear" -> <<>>
      [] name = "assign" -> <<e>>

LockedOp(t, c) ==
    /\ job[t] = "idle" /\ CanWrite(c)
    /\ \E name \in class.ops, e \in Elements :
          /\ name \in {"pop_back", "pop_front"} => content[c] # <<>>
          /\ Result(name, content[c], e) \in Contents
          /\ content' = [content EXCEPT ![c] = Result(name, @, e)]
    /\ UNCHANGED <<class, lockOf, writer, readers, job, target, source, copied>>

\* lock(), lock_for_write(), or a try_lock() that succeeds.
Lock(t, c) ==
    /\ job[t] = "idle" /\ CanWrite(c)
    /\ writer' = [writer EXCEPT ![lockOf[c]] = t]
    /\ job' = [job EXCEPT ![t] = "held"] /\ target' = [target EXCEPT ![t] = c]
    /\ UNCHANGED <<class, content, lockOf, readers, source, copied>>

\* lock_for_read()
LockForRead(t, c) ==
    /\ class.lock = "rw" /\ job[t] = "idle" /\ CanRead(c)
    /\ readers' = [readers EXCEPT ![lockOf[c]] = @ \cup {t}]
    /\ job' = [job EXCEPT ![t] = "held"] /\ target' = [target EXCEPT ![t] = c]
    /\ UNCHANGED <<class, content, lockOf, writer, source, copied>>

\* unlock() of the lock the container has by now, whoever holds it.
Unlock(t) ==
    /\ job[t] = "held"
    /\ writer' = [writer EXCEPT ![lockOf[target[t]]] = Nobody]
    /\ readers' = [readers EXCEPT ![lockOf[target[t]]] = @ \ {t}]
    /\ job' = [job EXCEPT ![t] = "idle"] /\ target' = [target EXCEPT ![t] = Nobody]
    /\ UNCHANGED <<class, content, lockOf, source, copied>>

\* The operator= of the class: the target is locked first.
AssignBegin(t, to, from) ==
    /\ class.assign = "locked" /\ job[t] = "idle" /\ CanWrite(to)
    /\ writer' = [writer EXCEPT ![to] = t]
    /\ job' = [job EXCEPT ![t] = "source"]
    /\ target' = [target EXCEPT ![t] = to] /\ source' = [source EXCEPT ![t] = from]
    /\ UNCHANGED <<class, content, lockOf, readers, copied>>

\* Mutant: the source is not locked.
AssignSourceUnlocked(t) ==
    /\ job[t] = "source"
    /\ content' = [content EXCEPT ![target[t]] = <<>>]
    /\ job' = [job EXCEPT ![t] = "copy"]
    /\ UNCHANGED <<class, lockOf, writer, readers, target, source, copied>>

AssignSource(t) ==
    /\ job[t] = "source" /\ CanRead(source[t])
    /\ IF class.lock = "rw"
       THEN readers' = [readers EXCEPT ![source[t]] = @ \cup {t}] /\ UNCHANGED writer
       ELSE writer' = [writer EXCEPT ![source[t]] = t] /\ UNCHANGED readers
    /\ content' = [content EXCEPT ![target[t]] = <<>>]
    /\ job' = [job EXCEPT ![t] = "copy"]
    /\ UNCHANGED <<class, lockOf, target, source, copied>>

AssignCopy(t) ==
    /\ job[t] = "copy" /\ copied[t] < Len(content[source[t]])
    /\ content' = [content EXCEPT ![target[t]] = Append(@, content[source[t]][copied[t] + 1])]
    /\ copied' = [copied EXCEPT ![t] = @ + 1]
    /\ UNCHANGED <<class, lockOf, writer, readers, job, target, source>>

AssignEnd(t) ==
    /\ job[t] = "copy" /\ copied[t] >= Len(content[source[t]])
    /\ readers' = [readers EXCEPT ![source[t]] = @ \ {t}]
    /\ writer' = [c \in Containers |-> IF writer[c] = t THEN Nobody ELSE writer[c]]
    /\ job' = [job EXCEPT ![t] = "idle"] /\ copied' = [copied EXCEPT ![t] = 0]
    /\ target' = [target EXCEPT ![t] = Nobody] /\ source' = [source EXCEPT ![t] = Nobody]
    /\ UNCHANGED <<class, content, lockOf>>

\* The operator= that the compiler makes; assigning a container to itself does nothing.
ImplicitBegin(t, to, from) ==
    /\ class.assign = "implicit" /\ job[t] = "idle" /\ to # from
    /\ content' = [content EXCEPT ![to] = <<>>]
    /\ job' = [job EXCEPT ![t] = "implicit"]
    /\ target' = [target EXCEPT ![t] = to] /\ source' = [source EXCEPT ![t] = from]
    /\ UNCHANGED <<class, lockOf, writer, readers, copied>>

ImplicitCopy(t) ==
    /\ job[t] = "implicit" /\ copied[t] < Len(content[source[t]])
    /\ LET longer == Append(content[target[t]], content[source[t]][copied[t] + 1])
       IN longer \in Contents /\ content' = [content EXCEPT ![target[t]] = longer]
    /\ copied' = [copied EXCEPT ![t] = @ + 1]
    /\ UNCHANGED <<class, lockOf, writer, readers, job, target, source>>

\* The last member to be copied is the pointer to the lock.
ImplicitEnd(t) ==
    /\ job[t] = "implicit"
    /\ \/ copied[t] >= Len(content[source[t]])
       \/ Len(content[target[t]]) = MaxElements
    /\ lockOf' = [lockOf EXCEPT ![target[t]] = lockOf[source[t]]]
    /\ job' = [job EXCEPT ![t] = "idle"] /\ copied' = [copied EXCEPT ![t] = 0]
    /\ target' = [target EXCEPT ![t] = Nobody] /\ source' = [source EXCEPT ![t] = Nobody]
    /\ UNCHANGED <<class, content, writer, readers>>

Next ==
    \E t \in Users :
        \/ AssignSource(t) \/ AssignCopy(t) \/ AssignEnd(t) \/ Unlock(t)
        \/ ImplicitCopy(t) \/ ImplicitEnd(t)
        \/ \E c \in Containers :
            \/ LockedOp(t, c) \/ Lock(t, c) \/ LockForRead(t, c)
            \/ \E d \in Containers : AssignBegin(t, c, d) \/ ImplicitBegin(t, c, d)

-----------------------------------------------------------------------------
(* Properties. *)

\* An operator= that locks ends with the two containers equal: what was copied
\* is the content of the source at one moment.  (Nothing of the kind holds for
\* the classes that the compiler's operator= assigns.)
CopyIsSnapshot == \A t \in Users : job[t] = "copy" =>
    /\ copied[t] <= Len(content[source[t]])
    /\ content[target[t]] = SubSeq(content[source[t]], 1, copied[t])

=============================================================================
