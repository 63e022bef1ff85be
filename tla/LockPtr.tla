------------------------------ MODULE LockPtr ------------------------------
(***************************************************************************)
(* core/utils/lockptr.h: a RefPtr with one more shared member, the mutex   *)
(* of the object, which lock() and unlock() of every copy use.  A thread   *)
(* that has locked an object keeps the pointer it used until it unlocks.   *)
(***************************************************************************)
EXTENDS Naturals, FiniteSets

CONSTANTS Threads, Slots, Owner, Temp, Objects, Null
VARIABLES slot, counted, refCount, alive, op, arg,
          via,         \* the pointer a thread has locked its object through, or Null
          mutexOwner   \* the owner of an object's mutex, or Null
vars == <<slot, counted, refCount, alive, op, arg, via, mutexOwner>>

P == INSTANCE RefPtr WITH Fields <- {"object", "objMutex", "refCount", "refMutex"}

Init ==
    /\ P!Init
    /\ via = [t \in Threads |-> Null] /\ mutexOwner = [o \in Objects |-> Null]

Unlocked == UNCHANGED <<via, mutexOwner>>
Kept(t, s) == via[t] # s

\* LockPtr(T *) makes the object's mutex as well.
Create(t, s) == P!Create(t, s) /\ Unlocked
\* The copy constructors and the casts.
Copy(t, src, dst) == P!Copy(t, src, dst) /\ Unlocked
\* operator=
AssignFrom(t, src) == P!AssignFrom(t, src) /\ Unlocked
Count(t) == P!Count(t) /\ Unlocked

\* Mutant: the object's mutex stays where it was.
SwapButMutex(t, s) ==
    /\ op[t] = "swap" /\ s \in P!Named(t) /\ Kept(t, s)
    /\ slot' = [slot EXCEPT ![s] = [slot[Temp[t]] EXCEPT !.objMutex = slot[s].objMutex],
                            ![Temp[t]] = [slot[s] EXCEPT !.objMutex = slot[Temp[t]].objMutex]]
    /\ counted' = counted \cup {s}
    /\ P!Goto(t, IF s \in counted THEN "drop" ELSE "idle", Temp[t])
    /\ UNCHANGED <<refCount, alive>> /\ Unlocked

Swap(t, s) == P!Swap(t, s) /\ Kept(t, s) /\ Unlocked
\* clear()
Clear(t, s) == P!Clear(t, s) /\ Kept(t, s) /\ Unlocked
\* ~LockPtr(): the last one deletes the object's mutex with the object.
Drop(t) == P!Drop(t) /\ Unlocked

\* lock(), or a try_lock() that succeeds.
Lock(t, s) ==
    /\ op[t] = "idle" /\ via[t] = Null
    /\ s \in P!Named(t) /\ slot[s].objMutex # Null
    /\ mutexOwner[slot[s].objMutex] = Null
    /\ via' = [via EXCEPT ![t] = s]
    /\ mutexOwner' = [mutexOwner EXCEPT ![slot[s].objMutex] = t]
    /\ UNCHANGED <<slot, counted, refCount, alive, op, arg>>

Unlock(t) ==
    /\ op[t] = "idle" /\ via[t] # Null
    /\ mutexOwner' = [mutexOwner EXCEPT ![slot[via[t]].objMutex] = Null]
    /\ via' = [via EXCEPT ![t] = Null]
    /\ UNCHANGED <<slot, counted, refCount, alive, op, arg>>

Next ==
    \E t \in Threads :
        \/ Count(t) \/ Drop(t) \/ Unlock(t)
        \/ \E s \in Slots :
              \/ Create(t, s) \/ AssignFrom(t, s) \/ Swap(t, s) \/ Clear(t, s) \/ Lock(t, s)
              \/ \E d \in Slots : Copy(t, s, d)

-----------------------------------------------------------------------------
(* Properties. *)

\* See RefPtr.
CountExact == P!CountExact
NoDangling == P!NoDangling

\* Two threads that have locked their pointers never use the same object, and
\* the mutex they hold is not one that was deleted.
ObjectExclusive ==
    \A t \in Threads : via[t] # Null =>
        /\ slot[via[t]].objMutex \in alive
        /\ \A u \in Threads \ {t} :
               via[u] # Null => slot[via[u]].object # slot[via[t]].object

\* What keeps an object alive exactly as long as it is referred to.
PointersSound == CountExact /\ NoDangling /\ ObjectExclusive

=============================================================================
