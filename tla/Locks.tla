------------------------------- MODULE Locks -------------------------------
(***************************************************************************)
(* core/threading: Mutex, Spinlock and ReadWriteLock, used through the     *)
(* scoped MutexLocker and ScopedRWLock.  One lock and the scopes of the    *)
(* threads; a mutex or a spinlock is a lock that is only taken for         *)
(* writing.  The pthread lock is external: readers share it, with the      *)
(* "writer" preference no reader enters while a writer waits.              *)
(***************************************************************************)
EXTENDS Naturals, FiniteSets

CONSTANTS Users, Nobody

Policies == {"RWLockPolicyPreferWriter", "RWLockPolicyPreferReader"}
Kinds == {"rw", "mutex", "spin"}

VARIABLES kindOfLock, policy,
          preference,  \* the kind of the pthread lock
          writer, readers,
          pending,     \* per thread, what it waits for: "none", "read", "write"
          scope        \* per thread, its scoped locker: [open, write, locked]

NoScope == [open |-> FALSE, write |-> FALSE, locked |-> FALSE]

\* Mutant: the two policies are mixed up.
SetKindSwapped(p) == IF p = "RWLockPolicyPreferWriter" THEN "reader" ELSE "writer"

\* The constructor of ReadWriteLock chooses the kind of the pthread lock.
SetKind(p) == IF p = "RWLockPolicyPreferWriter" THEN "writer" ELSE "reader"

Init ==
    /\ kindOfLock \in Kinds /\ policy \in Policies /\ preference = SetKind(policy)
    /\ writer = Nobody /\ readers = {}
    /\ pending = [t \in Users |-> "none"]
    /\ scope = [t \in Users |-> NoScope]

Holds(t) == writer = t \/ t \in readers
WriterWaits == \E t \in Users : pending[t] = "write"

(* pthread_rwlock_t, pthread_mutex_t, pthread_spinlock_t. *)
CanAcquire(t) ==
    /\ writer = Nobody
    /\ pending[t] = "write" => readers = {}
    /\ pending[t] = "read" => preference = "reader" \/ ~WriterWaits
Release(t) ==
    IF t \in readers THEN readers' = readers \ {t} /\ UNCHANGED writer
    ELSE writer' = Nobody /\ UNCHANGED readers

Ask(t, write) == pending' = [pending EXCEPT ![t] = IF write THEN "write" ELSE "read"]

\* The constructors of MutexLocker and ScopedRWLock.
Construct(t, write, initially_lock) ==
    /\ ~scope[t].open /\ (kindOfLock # "rw" => write)
    /\ scope' = [scope EXCEPT ![t] = [open |-> TRUE, write |-> write, locked |-> FALSE]]
    /\ IF initially_lock THEN Ask(t, write) ELSE UNCHANGED pending
    /\ UNCHANGED <<kindOfLock, policy, preference, writer, readers>>

\* relock() of a locker that was unlocked.
relock(t) ==
    /\ scope[t].open /\ ~scope[t].locked /\ pending[t] = "none"
    /\ Ask(t, scope[t].write)
    /\ UNCHANGED <<kindOfLock, policy, preference, writer, readers, scope>>

\* lock() of the underlying lock returns and __locked is set.
Acquire(t) ==
    /\ pending[t] # "none" /\ CanAcquire(t)
    /\ IF pending[t] = "write" THEN writer' = t /\ UNCHANGED readers
       ELSE readers' = readers \cup {t} /\ UNCHANGED writer
    /\ pending' = [pending EXCEPT ![t] = "none"]
    /\ scope' = [scope EXCEPT ![t].locked = TRUE]
    /\ UNCHANGED <<kindOfLock, policy, preference>>

\* Mutant: the locker does not remember that it was unlocked.
unlock_forgets(t) ==
    /\ scope[t].locked
    /\ Release(t)
    /\ UNCHANGED <<kindOfLock, policy, preference, pending, scope>>

unlock(t) ==
    /\ scope[t].locked
    /\ scope' = [scope EXCEPT ![t].locked = FALSE]
    /\ Release(t)
    /\ UNCHANGED <<kindOfLock, policy, preference, pending>>

\* The destructor: only a locker that is locked unlocks.
Destruct(t) ==
    /\ scope[t].open /\ pending[t] = "none"
    /\ IF scope[t].locked THEN Release(t) ELSE UNCHANGED <<writer, readers>>
    /\ scope' = [scope EXCEPT ![t] = NoScope]
    /\ UNCHANGED <<kindOfLock, policy, preference, pending>>

Next ==
    \E t \in Users :
        \/ relock(t) \/ Acquire(t) \/ unlock(t) \/ Destruct(t)
        \/ \E write, initially_lock \in BOOLEAN : Construct(t, write, initially_lock)

-----------------------------------------------------------------------------
(* Properties. *)

\* A locker that says it is locked has the lock and no other has: neither an
\* unlock() before the end of the scope nor a relock() makes the destructor
\* release what another thread holds.
LockedMeansHeld == \A t \in Users : scope[t].locked <=> Holds(t)

=============================================================================
