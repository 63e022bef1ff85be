------------------------------ MODULE CoreLibs ------------------------------
(***************************************************************************)
(* The classes of libs/core that threads share, and the configuration,     *)
(* side by side: kind says which one a behaviour is about; the variables   *)
(* of the others are unused.                                               *)
(***************************************************************************)
EXTENDS Naturals

CONSTANTS Users,         \* the threads, two of which hold pointers
          Nobody,
          Containers, Elements, MaxElements,
          Exceptions, Texts, MaxNodes,
          NsPerSec, MaxSec,
          Bits, MaxChanges

\* Nobody is no thread, and is not what is used for a pointer, its object or a file.
ASSUME CoreAssumption ==
    /\ Nobody \notin Users \cup {"A", "B", "a1", "a2", "at", "b1", "bt", "x", "y", "host"}
    /\ NsPerSec \in Nat /\ MaxSec \in Nat /\ MaxNodes \in Nat

VARIABLES kind,
    slot, counted, refCount, alive, arg, via, mutexOwner,
    class, content, lockOf, copied,
    messages, messagesEnd, messagesIterator, next, msg, nodes, recorded,
    job, target, source,
    writer, readers,
    kindOfLock, policy, preference, pending, scope,
    own, at, deadline, asked,
    files, phase, queue, hostFile, root, host, writing, iter, stored, changes,
    op, owner, result

ptrOnly == <<slot, counted, refCount, alive, arg, via, mutexOwner>>
containerOnly == <<class, content, lockOf, copied>>
listOnly == <<messages, messagesEnd, messagesIterator, next, msg, nodes, recorded>>
jobVars == <<job, target, source>>
rwVars == <<writer, readers>>
lockOnly == <<kindOfLock, policy, preference, pending, scope>>
condOnly == <<own, at, deadline, asked>>
configVars == <<files, phase, queue, hostFile, root, host, writing, iter, stored, changes>>
lockVars == <<lockOnly, rwVars>>
vars == <<kind, ptrOnly, containerOnly, listOnly, jobVars, rwVars, lockOnly, condOnly, configVars,
          op, owner, result>>

\* Thread "A" has two pointers, "B" one, and each the temporary of its operations.
Ptr == INSTANCE LockPtr WITH
    Threads <- {"A", "B"}, Slots <- {"a1", "a2", "at", "b1", "bt"},
    Owner <- [s \in {"a1", "a2", "at", "b1", "bt"} |-> IF s \in {"b1", "bt"} THEN "B" ELSE "A"],
    Temp <- [t \in {"A", "B"} |-> IF t = "A" THEN "at" ELSE "bt"],
    Objects <- {"x", "y"}, Null <- Nobody
Container == INSTANCE LockContainer
List == INSTANCE MessageList
Lock == INSTANCE Locks
Cond == INSTANCE WaitCondition
Config == INSTANCE YamlConfiguration WITH None <- Nobody

Unused == "unused"
NoPtr == /\ slot = Unused /\ counted = Unused /\ refCount = Unused /\ alive = Unused
         /\ arg = Unused /\ via = Unused /\ mutexOwner = Unused
NoContainer == class = Unused /\ content = Unused /\ lockOf = Unused /\ copied = Unused
NoList == /\ messages = Unused /\ messagesEnd = Unused /\ messagesIterator = Unused
          /\ next = Unused /\ msg = Unused /\ nodes = Unused /\ recorded = Unused
NoJobs == job = Unused /\ target = Unused /\ source = Unused
NoRw == writer = Unused /\ readers = Unused
NoLock == /\ kindOfLock = Unused /\ policy = Unused /\ preference = Unused
          /\ pending = Unused /\ scope = Unused
NoCond == own = Unused /\ at = Unused /\ deadline = Unused /\ asked = Unused
NoConfig == /\ files = Unused /\ phase = Unused /\ queue = Unused /\ hostFile = Unused
            /\ root = Unused /\ host = Unused /\ writing = Unused /\ iter = Unused
            /\ stored = Unused /\ changes = Unused

Init ==
    \/ /\ kind = "ptr" /\ Ptr!Init /\ owner = Unused /\ result = Unused
       /\ NoContainer /\ NoList /\ NoJobs /\ NoRw /\ NoLock /\ NoCond /\ NoConfig
    \/ /\ kind = "container" /\ Container!Init /\ op = Unused /\ owner = Unused /\ result = Unused
       /\ NoPtr /\ NoList /\ NoLock /\ NoCond /\ NoConfig
    \/ /\ kind = "messages" /\ List!Init /\ op = Unused /\ result = Unused
       /\ NoPtr /\ NoContainer /\ NoRw /\ NoLock /\ NoCond /\ NoConfig
    \/ /\ kind = "lock" /\ Lock!Init /\ op = Unused /\ owner = Unused /\ result = Unused
       /\ NoPtr /\ NoContainer /\ NoList /\ NoJobs /\ NoCond /\ NoConfig
    \/ /\ kind = "condition" /\ Cond!Init /\ op = Unused
       /\ NoPtr /\ NoContainer /\ NoList /\ NoJobs /\ NoRw /\ NoLock /\ NoConfig
    \/ /\ kind = "config" /\ Config!Init /\ op = Unused /\ owner = Unused /\ result = Unused
       /\ NoPtr /\ NoContainer /\ NoList /\ NoJobs /\ NoRw /\ NoLock /\ NoCond

PtrNext ==
    /\ kind = "ptr" /\ Ptr!Next
    /\ UNCHANGED <<kind, containerOnly, listOnly, jobVars, rwVars, lockOnly, condOnly, configVars,
                   owner, result>>
ContainerNext ==
    /\ kind = "container" /\ Container!Next
    /\ UNCHANGED <<kind, ptrOnly, listOnly, lockOnly, condOnly, configVars, op, owner, result>>
ListNext ==
    /\ kind = "messages" /\ List!Next
    /\ UNCHANGED <<kind, ptrOnly, containerOnly, rwVars, lockOnly, condOnly, configVars, op, result>>
LockNext ==
    /\ kind = "lock" /\ Lock!Next
    /\ UNCHANGED <<kind, ptrOnly, containerOnly, listOnly, jobVars, condOnly, configVars,
                   op, owner, result>>
CondNext ==
    /\ kind = "condition" /\ Cond!Next
    /\ UNCHANGED <<kind, ptrOnly, containerOnly, listOnly, jobVars, rwVars, lockOnly, configVars, op>>
ConfigNext ==
    /\ kind = "config" /\ Config!Next
    /\ UNCHANGED <<kind, ptrOnly, containerOnly, listOnly, jobVars, rwVars, lockOnly, condOnly,
                   op, owner, result>>

Next == PtrNext \/ ContainerNext \/ ListNext \/ LockNext \/ CondNext \/ ConfigNext

\* A thread holds a lock for a limited time, and a free lock is given to one of
\* those who may have it: POSIX promises no more.
Fairness ==
    /\ \A t \in Users : WF_lockVars(kind = "lock" /\ Lock!Acquire(t))
    /\ \A t \in Users : WF_lockVars(kind = "lock" /\ scope[t].locked
                                      /\ (Lock!unlock(t) \/ Lock!Destruct(t)))

-----------------------------------------------------------------------------
(* Properties: those of the components. *)

\* A pointer's object has as many references as its count says, no pointer leads
\* to a deleted object, and who has locked a LockPtr uses its object alone.
PointersSound == kind = "ptr" => Ptr!PointersSound
\* Assigning one locked container to another copies one state of it where the
\* class has an operator= for that (not LockQueue, RWLockQueue and RWLockMap),
\* and the messages of an exception are the list that was recorded.
CopiesWhole == /\ kind = "container" => Container!CopyIsSnapshot
               /\ kind = "messages" => List!ListIntact
\* A scoped locker is locked exactly while its thread holds the lock, and a wait
\* for a condition gives back the mutex it came with, no earlier than was asked.
LocksBalanced == /\ kind = "lock" => Lock!LockedMeansHeld
                 /\ kind = "condition" => Cond!MutexGivenBack /\ Cond!TimeoutExact
\* Readers do not starve the writers of a lock that prefers writers.
WritersNotStarved ==
    (kind = "lock" /\ policy = "RWLockPolicyPreferWriter" /\ Lock!WriterWaits)
        ~> (kind = "lock" /\ writer # Nobody)
\* Values of the configuration have the type they can be read as, and those of
\* the host-specific file are seen, after every change and restart.
ConfigurationHolds == kind = "config" => Config!ConfigurationHolds

=============================================================================
