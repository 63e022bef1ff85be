-------------------------- MODULE Libraries_proofs --------------------------
(***************************************************************************)
(* Proofs about the library under the plugins (module Libraries), for any  *)
(* number of threads, lists of any length and all bounds.  A behaviour is  *)
(* about one class; of each there is an inductive invariant, and the steps *)
(* of the other classes cannot happen in such a behaviour.                 *)
(*                                                                         *)
(* Pointers have proofs of their own, LockPtr_proofs, which are used here. *)
(***************************************************************************)
EXTENDS Libraries, Integers, FiniteSetTheorems, SequenceTheorems, TLAPS

\* A step of the library.
Step == [CoreNext \/ ThreadingNext]_allVars

\* A behaviour stays with the class it began with.
LEMMA KindKept == Step => kind' = kind
  BY DEF Step, CoreNext, ThreadingNext, Next, PtrNext, ContainerNext, ListNext, LockNext,
         CondNext, ConfigNext, allVars, vars, Thread!Next, Thread!ThreadNext, Thread!ListNext,
         Thread!LifeNext

-----------------------------------------------------------------------------
(* Locks. *)

LockTypeOK ==
    /\ writer \in Users \cup {Nobody} /\ readers \in SUBSET Users
    /\ pending \in [Users -> {"none", "read", "write"}]
    /\ scope \in [Users -> [open : BOOLEAN, write : BOOLEAN, locked : BOOLEAN]]

\* Only an open locker is locked, and only one that is not asks for its lock.
ScopesInOrder ==
    \A t \in Users :
        /\ scope[t].locked => scope[t].open
        /\ pending[t] # "none" => scope[t].open /\ ~scope[t].locked

\* Nobody reads what is locked for writing: without this, a thread that had the
\* lock in both ways would keep one of them when it unlocks.
WriterAlone == writer # Nobody => readers = {}

LockIInv == LockTypeOK /\ ScopesInOrder /\ WriterAlone /\ Lock!LockedMeansHeld

\* A lock is not held when it is made.
LEMMA LockInit == AllInit /\ kind = "lock" => LockIInv
<1>. SUFFICES ASSUME Lock!Init PROVE LockIInv
  BY DEF AllInit, Init, Thread!Init
<1>. QED  BY CoreAssumption
          DEF Lock!Init, Lock!NoScope, LockIInv, LockTypeOK, ScopesInOrder, WriterAlone,
              Lock!LockedMeansHeld, Lock!Holds

\* Releasing gives back exactly what the thread holds.
LEMMA ReleaseFacts ==
    ASSUME LockIInv, NEW t \in Users, scope[t].locked, Lock!Release(t)
    PROVE  /\ writer' \in Users \cup {Nobody} /\ readers' \in SUBSET Users
           /\ writer' # Nobody => readers' = {}
           /\ ~(Lock!Holds(t))'
           /\ \A u \in Users \ {t} : (Lock!Holds(u))' <=> Lock!Holds(u)
  BY CoreAssumption DEF LockIInv, LockTypeOK, WriterAlone, Lock!LockedMeansHeld, Lock!Holds,
                        Lock!Release

\* A locker that changes its mind stays open.
LEMMA ScopeFacts ==
    ASSUME LockTypeOK, NEW t \in Users, NEW value \in BOOLEAN,
           scope' = [scope EXCEPT ![t].locked = value]
    PROVE  /\ scope' \in [Users -> [open : BOOLEAN, write : BOOLEAN, locked : BOOLEAN]]
           /\ scope'[t].open = scope[t].open /\ scope'[t].locked = value
           /\ \A u \in Users \ {t} : scope'[u] = scope[u]
<1>1. scope'[t] = [scope[t] EXCEPT !.locked = value]
  BY DEF LockTypeOK
<1>2. scope'[t] \in [open : BOOLEAN, write : BOOLEAN, locked : BOOLEAN]
  BY <1>1 DEF LockTypeOK
<1>. QED  BY <1>1, <1>2 DEF LockTypeOK

\* The steps of the scoped lockers.
LEMMA LockStep == ASSUME kind = "lock", LockIInv, Step PROVE LockIInv'
<1>0. LockTypeOK /\ ScopesInOrder /\ WriterAlone /\ Lock!LockedMeansHeld
  BY DEF LockIInv
<1>. USE DEF LockIInv, LockTypeOK, ScopesInOrder, WriterAlone, Lock!LockedMeansHeld, Lock!Holds
<1>1. CASE UNCHANGED allVars
  BY <1>0, <1>1 DEF allVars, vars, rwVars, lockOnly
<1>2. ASSUME NEW t \in Users, Lock!relock(t) PROVE LockIInv'
  BY <1>0, <1>2 DEF Lock!relock, Lock!Ask
<1>3. ASSUME NEW t \in Users, Lock!Acquire(t) PROVE LockIInv'
  <2>1. /\ pending[t] # "none" /\ writer = Nobody
        /\ pending[t] = "write" => readers = {}
        /\ pending' = [pending EXCEPT ![t] = "none"]
        /\ scope' = [scope EXCEPT ![t].locked = TRUE]
    BY <1>3 DEF Lock!Acquire, Lock!CanAcquire
  <2>2. scope[t].open /\ ~scope[t].locked
    BY <1>0, <2>1
  <2>3. LockTypeOK'
    <3>1. scope' \in [Users -> [open : BOOLEAN, write : BOOLEAN, locked : BOOLEAN]]
      BY <1>0, <2>1, ScopeFacts
    <3>2. writer' \in Users \cup {Nobody} /\ readers' \in SUBSET Users
      BY <1>0, <1>3 DEF Lock!Acquire
    <3>. QED  BY <1>0, <2>1, <3>1, <3>2
  <2>4. ScopesInOrder'
    BY <1>0, <2>1, <2>2, ScopeFacts
  <2>5. WriterAlone' /\ Lock!LockedMeansHeld'
    BY <1>0, <1>3, <2>1, CoreAssumption DEF Lock!Acquire
  <2>. QED  BY <2>3, <2>4, <2>5
<1>4. ASSUME NEW t \in Users, Lock!unlock(t) PROVE LockIInv'
  <2>1. scope' = [scope EXCEPT ![t].locked = FALSE] /\ UNCHANGED pending
    BY <1>4 DEF Lock!unlock
  <2>2. LockTypeOK' /\ ScopesInOrder'
    BY <1>0, <1>4, <2>1, ReleaseFacts, ScopeFacts DEF Lock!unlock
  <2>3. WriterAlone' /\ Lock!LockedMeansHeld'
    BY <1>0, <1>4, <2>1, ReleaseFacts, ScopeFacts DEF Lock!unlock
  <2>. QED  BY <2>2, <2>3
<1>5. ASSUME NEW t \in Users, Lock!Destruct(t) PROVE LockIInv'
  BY <1>0, <1>5, ReleaseFacts DEF Lock!Destruct, Lock!NoScope
<1>6. ASSUME NEW t \in Users, NEW write \in BOOLEAN, NEW initially_lock \in BOOLEAN,
             Lock!Construct(t, write, initially_lock)
      PROVE  LockIInv'
  BY <1>0, <1>6 DEF Lock!Construct, Lock!Ask
<1>7. Lock!Next \/ UNCHANGED allVars
  BY DEF Step, CoreNext, ThreadingNext, Next, PtrNext, ContainerNext, ListNext, LockNext,
         CondNext, ConfigNext, Thread!Next, Thread!ThreadNext, Thread!ListNext, Thread!LifeNext
<1>. QED  BY <1>1, <1>2, <1>3, <1>4, <1>5, <1>6, <1>7 DEF Lock!Next

-----------------------------------------------------------------------------
(* Wait conditions. *)

TimeType == [sec : Nat, nsec : Nat]
CondTypeOK ==
    /\ own \in BOOLEAN /\ owner \in Users \cup {Nobody}
    /\ at \in [Users -> {"idle", "locking", "waiting", "woken", "late", "failed"}]
    /\ deadline \in [Users -> TimeType]
    /\ asked \in [Users -> [now : TimeType, rel : TimeType]]

\* The mutex is kept by who was refused, and by nobody else if it is the condition's.
MutexKept ==
    /\ own = TRUE => \A t \in Users : at[t] # "failed" => owner # t
    /\ own = FALSE => \A t \in Users : at[t] = "failed" => owner = t

\* The time a thread waits for is the one it asked for.
DeadlineAsked ==
    \A t \in Users :
        /\ asked[t].rel # Cond!NoTime =>
              /\ deadline[t] = Cond!AddTimeout(asked[t].now, asked[t].rel)
              /\ asked[t].now.nsec < NsPerSec
        /\ at[t] = "failed" => ~Cond!Valid(deadline[t])

CondIInv == CondTypeOK /\ MutexKept /\ DeadlineAsked

\* A sum of two times is a time, as long as the two together; that it is not
\* normalised is the timeout's fault.
LEMMA AddTimeoutFacts ==
    ASSUME NEW now \in TimeType, NEW rel \in TimeType
    PROVE  LET sum == Cond!AddTimeout(now, rel)
           IN /\ sum \in TimeType
              /\ Cond!Total(sum) = Cond!Total(now) + Cond!Total(rel)
              /\ now.nsec < NsPerSec /\ ~Cond!Valid(sum) => rel.nsec >= NsPerSec
<1>. DEFINE ns == now.nsec + rel.nsec
<1>0. NsPerSec \in Nat /\ now.sec \in Nat /\ now.nsec \in Nat /\ rel.sec \in Nat /\ rel.nsec \in Nat
  BY CoreAssumption DEF TimeType
<1>1. CASE ns >= NsPerSec
  <2>1. Cond!AddTimeout(now, rel) = [sec |-> now.sec + rel.sec + 1, nsec |-> ns - NsPerSec]
    BY <1>1 DEF Cond!AddTimeout
  <2>2. (now.sec + rel.sec + 1) * NsPerSec = now.sec * NsPerSec + rel.sec * NsPerSec + NsPerSec
    BY <1>0
  <2>3. now.sec * NsPerSec \in Nat /\ rel.sec * NsPerSec \in Nat
    BY <1>0
  <2>. QED  BY <1>0, <1>1, <2>1, <2>2, <2>3 DEF Cond!Total, Cond!Valid, TimeType
<1>2. CASE ~(ns >= NsPerSec)
  <2>1. Cond!AddTimeout(now, rel) = [sec |-> now.sec + rel.sec, nsec |-> ns]
    BY <1>2 DEF Cond!AddTimeout
  <2>2. (now.sec + rel.sec) * NsPerSec = now.sec * NsPerSec + rel.sec * NsPerSec
    BY <1>0
  <2>3. now.sec * NsPerSec \in Nat /\ rel.sec * NsPerSec \in Nat
    BY <1>0
  <2>. QED  BY <1>0, <1>2, <2>1, <2>2, <2>3 DEF Cond!Total, Cond!Valid, TimeType
<1>. QED  BY <1>1, <1>2

\* A condition is made with a free mutex and nobody waits.
LEMMA CondInit == AllInit /\ kind = "condition" => CondIInv
<1>. SUFFICES ASSUME Cond!Init PROVE CondIInv
  BY DEF AllInit, Init, Thread!Init
<1>1. Cond!NoTime \in TimeType /\ Cond!Forever \in TimeType
  BY CoreAssumption DEF TimeType, Cond!NoTime, Cond!Forever
<1>2. CondTypeOK
  BY <1>1 DEF Cond!Init, CondTypeOK, Cond!NotAsked
<1>. QED  BY <1>2, CoreAssumption
          DEF Cond!Init, CondIInv, MutexKept, DeadlineAsked, Cond!NotAsked

\* A wait for a time: with a mutex of the user's it begins at once.
LEMMA BeginWaitIInv ==
    ASSUME CondIInv, NEW t \in Users, NEW until \in TimeType, Cond!BeginWait(t, until),
           NEW ask \in [now : TimeType, rel : TimeType], asked' = [asked EXCEPT ![t] = ask],
           ask.rel # Cond!NoTime => /\ until = Cond!AddTimeout(ask.now, ask.rel)
                                    /\ ask.now.nsec < NsPerSec
    PROVE  CondIInv'
<1>0. CondTypeOK /\ MutexKept /\ DeadlineAsked
  BY DEF CondIInv
<1>1. /\ deadline' = [deadline EXCEPT ![t] = until] /\ own' = own /\ at[t] = "idle"
      /\ own = FALSE => owner = t
      /\ asked' = [asked EXCEPT ![t] = ask]
  BY DEF Cond!BeginWait
<1>2. /\ \A u \in Users \ {t} : at'[u] = at[u]
      /\ at'[t] = "failed" => ~Cond!Valid(until)
      /\ at' \in [Users -> {"idle", "locking", "waiting", "woken", "late", "failed"}]
      /\ own = TRUE => owner' = owner /\ at'[t] = "locking"
      /\ own = FALSE => owner' \in {t, Nobody} /\ (at'[t] = "failed" => owner' = t)
  <2>1. CASE own = TRUE
    BY <1>0, <2>1 DEF Cond!BeginWait, CondTypeOK
  <2>2. CASE own = FALSE
    BY <1>0, <2>2 DEF Cond!BeginWait, Cond!CondWait, CondTypeOK
  <2>. QED  BY <1>0, <2>1, <2>2 DEF CondTypeOK
<1>3. CondTypeOK'
  BY <1>0, <1>1, <1>2 DEF CondTypeOK
<1>4. MutexKept'
  BY <1>0, <1>1, <1>2, CoreAssumption DEF CondTypeOK, MutexKept
<1>5. DeadlineAsked'
  BY <1>0, <1>1, <1>2 DEF CondTypeOK, DeadlineAsked, Cond!Valid, Cond!AddTimeout, Cond!NoTime
<1>. QED  BY <1>3, <1>4, <1>5 DEF CondIInv

\* The steps of those who wait and of those who signal.
LEMMA CondStep == ASSUME kind = "condition", CondIInv, Step PROVE CondIInv'
<1>0. CondTypeOK /\ MutexKept /\ DeadlineAsked
  BY DEF CondIInv
<1>t. Cond!NoTime \in TimeType /\ Cond!Forever \in TimeType /\ Cond!NotAsked.rel = Cond!NoTime
      /\ Cond!NotAsked \in [now : TimeType, rel : TimeType]
  BY CoreAssumption DEF TimeType, Cond!NoTime, Cond!Forever, Cond!NotAsked
<1>1. CASE UNCHANGED allVars
  BY <1>0, <1>1 DEF allVars, vars, condOnly, CondIInv, CondTypeOK, MutexKept, DeadlineAsked
<1>2. ASSUME NEW t \in Users, Cond!UserLock(t) \/ Cond!UserUnlock(t) PROVE CondIInv'
  <2>1. /\ own = FALSE /\ at[t] = "idle" /\ owner \in {Nobody, t} /\ owner' \in {Nobody, t}
        /\ UNCHANGED <<own, at, deadline, asked>>
    BY <1>0, <1>2 DEF Cond!UserLock, Cond!UserUnlock, CondTypeOK
  <2>. QED  BY <1>0, <2>1, CoreAssumption
            DEF CondIInv, CondTypeOK, MutexKept, DeadlineAsked
<1>3. ASSUME NEW t \in Users, Cond!wait(t) PROVE CondIInv'
  BY <1>3, <1>t, BeginWaitIInv DEF Cond!wait
<1>4. ASSUME NEW t \in Users, NEW until \in Cond!Times, Cond!abstimed_wait(t, until)
      PROVE  CondIInv'
  <2>1. until \in TimeType
    BY CoreAssumption DEF Cond!Times, TimeType
  <2>. QED  BY <1>4, <1>t, <2>1, BeginWaitIInv DEF Cond!abstimed_wait
<1>5. ASSUME NEW t \in Users, NEW now \in Cond!Times, NEW rel \in Cond!Timeouts,
             Cond!reltimed_wait(t, now, rel)
      PROVE  CondIInv'
  <2>1. now \in TimeType /\ rel \in TimeType /\ now.nsec < NsPerSec
    BY CoreAssumption DEF Cond!Times, Cond!Timeouts, TimeType
  <2>. DEFINE until == IF rel = Cond!NoTime THEN Cond!Forever ELSE Cond!AddTimeout(now, rel)
              ask == [now |-> now, rel |-> rel]
  <2>2. until \in TimeType
    BY <1>t, <2>1, AddTimeoutFacts
  <2>3. Cond!BeginWait(t, until) /\ asked' = [asked EXCEPT ![t] = ask]
    BY <1>5 DEF Cond!reltimed_wait
  <2>4. ask \in [now : TimeType, rel : TimeType]
    BY <2>1
  <2>5. ask.rel # Cond!NoTime => /\ until = Cond!AddTimeout(ask.now, ask.rel)
                                 /\ ask.now.nsec < NsPerSec
    BY <2>1
  <2>. HIDE DEF until, ask
  <2>. QED  BY <2>2, <2>3, <2>4, <2>5, BeginWaitIInv
<1>6. ASSUME NEW t \in Users, Cond!LockOwn(t) PROVE CondIInv'
  <2>1. /\ at[t] = "locking" /\ owner = Nobody /\ UNCHANGED <<own, deadline, asked>>
        /\ \A u \in Users \ {t} : at'[u] = at[u]
        /\ at'[t] = "failed" => ~Cond!Valid(deadline[t])
        /\ at' \in [Users -> {"idle", "locking", "waiting", "woken", "late", "failed"}]
        /\ \/ at'[t] = "waiting" /\ owner' = Nobody
           \/ at'[t] = "failed" /\ owner' = t
    BY <1>0, <1>6 DEF Cond!LockOwn, Cond!CondWait, CondTypeOK
  <2>2. CondTypeOK'
    BY <1>0, <2>1 DEF CondTypeOK
  <2>3. MutexKept'
    BY <1>0, <2>1, CoreAssumption DEF MutexKept, CondTypeOK
  <2>4. DeadlineAsked'
    BY <1>0, <2>1 DEF DeadlineAsked, CondTypeOK, Cond!Valid, Cond!AddTimeout, Cond!NoTime
  <2>. QED  BY <2>2, <2>3, <2>4 DEF CondIInv
<1>7. ASSUME NEW t \in Users, Cond!TimesOut(t) \/ Cond!Spurious(t) \/ Cond!wake_one(t)
                                \/ Cond!wake_all(t)
      PROVE  CondIInv'
  <2>1. /\ at' \in [Users -> {"idle", "locking", "waiting", "woken", "late", "failed"}]
        /\ \A u \in Users : at'[u] = "failed" <=> at[u] = "failed"
    BY <1>0, <1>7 DEF Cond!TimesOut, Cond!Spurious, Cond!wake_one, Cond!wake_all, CondTypeOK
  <2>2. UNCHANGED <<own, owner, deadline, asked>>
    BY <1>7 DEF Cond!TimesOut, Cond!Spurious, Cond!wake_one, Cond!wake_all
  <2>. QED  BY <1>0, <2>1, <2>2
            DEF CondIInv, CondTypeOK, MutexKept, DeadlineAsked, Cond!Valid, Cond!AddTimeout,
                Cond!NoTime
<1>8. ASSUME NEW t \in Users, Cond!Return(t) PROVE CondIInv'
  <2>1. /\ own' = own /\ at' = [at EXCEPT ![t] = "idle"]
        /\ deadline' = [deadline EXCEPT ![t] = Cond!Forever]
        /\ asked' = [asked EXCEPT ![t] = Cond!NotAsked]
    BY <1>8 DEF Cond!Return, Cond!EndWait
  <2>2. /\ own = TRUE => owner' = Nobody
        /\ own = FALSE => \/ owner = Nobody /\ owner' = t
                          \/ owner' = owner
    BY <1>0, <1>8 DEF Cond!Return, CondTypeOK, MutexKept
  <2>3. CondTypeOK'
    BY <1>0, <1>t, <2>1, <2>2 DEF CondTypeOK
  <2>4. MutexKept'
    BY <1>0, <2>1, <2>2, CoreAssumption DEF MutexKept, CondTypeOK
  <2>5. DeadlineAsked'
    BY <1>0, <1>t, <2>1 DEF DeadlineAsked, CondTypeOK, Cond!Valid, Cond!AddTimeout
  <2>. QED  BY <2>3, <2>4, <2>5 DEF CondIInv
<1>9. Cond!Next \/ UNCHANGED allVars
  BY DEF Step, CoreNext, ThreadingNext, Next, PtrNext, ContainerNext, ListNext, LockNext,
         CondNext, ConfigNext, Thread!Next, Thread!ThreadNext, Thread!ListNext, Thread!LifeNext
<1>. QED  BY <1>1, <1>2, <1>3, <1>4, <1>5, <1>6, <1>7, <1>8, <1>9 DEF Cond!Next

\* In a state of the invariant a wait keeps its promises.
LEMMA CondIInvSound == CondIInv => Cond!MutexGivenBack /\ Cond!TimeoutExact
<1>. SUFFICES ASSUME CondTypeOK, MutexKept, DeadlineAsked
              PROVE  Cond!MutexGivenBack /\ Cond!TimeoutExact
  BY DEF CondIInv
<1>1. Cond!MutexGivenBack
  <2>1. CASE own = TRUE
    BY <2>1 DEF MutexKept, Cond!MutexGivenBack
  <2>2. CASE own = FALSE
    BY <2>2 DEF MutexKept, Cond!MutexGivenBack
  <2>. QED  BY <2>1, <2>2 DEF CondTypeOK
<1>2. Cond!TimeoutExact
  <2>. SUFFICES ASSUME NEW t \in Users, asked[t].rel # Cond!NoTime
                PROVE  /\ Cond!Total(deadline[t]) = Cond!Total(asked[t].now) + Cond!Total(asked[t].rel)
                       /\ at[t] = "failed" => asked[t].rel.nsec >= NsPerSec
    BY DEF Cond!TimeoutExact
  <2>1. asked[t].now \in TimeType /\ asked[t].rel \in TimeType
    BY DEF CondTypeOK
  <2>. QED  BY <2>1, AddTimeoutFacts DEF DeadlineAsked
<1>. QED  BY <1>1, <1>2

\* Locks and wait conditions: a scoped locker that says it is locked has the
\* lock and no other has; a wait gives back the mutex it came with, and waits
\* for the time it was asked to.
THEOREM LocksAreBalanced == LibrariesSpec => []LocksBalanced
<1>. DEFINE Inv == (kind = "lock" => LockIInv) /\ (kind = "condition" => CondIInv)
<1>1. AllInit => Inv
  BY LockInit, CondInit
<1>2. Inv /\ Step => Inv'
  BY LockStep, CondStep, KindKept
<1>3. Inv => LocksBalanced
  BY CondIInvSound DEF LocksBalanced, LockIInv
<1>. QED  BY <1>1, <1>2, <1>3, PTL DEF LibrariesSpec, Step

-----------------------------------------------------------------------------
(* Pointers, with the proofs of LockPtr_proofs. *)

PtrP == INSTANCE LockPtr_proofs WITH
    Threads <- {"A", "B"}, Slots <- {"a1", "a2", "at", "b1", "bt"},
    Owner <- [s \in {"a1", "a2", "at", "b1", "bt"} |-> IF s \in {"b1", "bt"} THEN "B" ELSE "A"],
    Temp <- [t \in {"A", "B"} |-> IF t = "A" THEN "at" ELSE "bt"],
    Objects <- {"x", "y"}, Null <- Nobody

\* The pointers of CoreLibs are what the proofs assume pointers to be.
LEMMA PointersAssumed == PtrP!PtrAssumption
<1>1. IsFiniteSet({"a1", "a2", "at", "b1", "bt"})
  <2>1. IsFiniteSet({"a1"} \cup {"a2"})
    BY FS_AddElement, FS_Singleton
  <2>2. IsFiniteSet({"b1"} \cup {"bt"})
    BY FS_AddElement, FS_Singleton
  <2>3. IsFiniteSet(({"a1"} \cup {"a2"}) \cup {"at"})
    BY <2>1, FS_AddElement
  <2>4. IsFiniteSet((({"a1"} \cup {"a2"}) \cup {"at"}) \cup ({"b1"} \cup {"bt"}))
    BY <2>2, <2>3, FS_Union
  <2>5. (({"a1"} \cup {"a2"}) \cup {"at"}) \cup ({"b1"} \cup {"bt"})
            = {"a1", "a2", "at", "b1", "bt"}
    OBVIOUS
  <2>. QED  BY <2>4, <2>5
<1>2. Nobody \notin {"a1", "a2", "at", "b1", "bt"} \cup {"x", "y"} \cup {"A", "B"}
  BY CoreAssumption
<1>3. PtrP!IsFiniteSet({"a1", "a2", "at", "b1", "bt"})
  BY <1>1 DEF PtrP!IsFiniteSet, IsFiniteSet
<1>. QED  BY <1>2, <1>3 DEF PtrP!PtrAssumption

\* LockPtr_proofs speaks of the same pointers.
LEMMA SamePointers ==
    /\ Ptr!Init <=> PtrP!Init
    /\ Ptr!Next <=> PtrP!Next
    /\ Ptr!PointersSound <=> PtrP!PointersSound
<1>. USE DEF Ptr!P!NullPtr, PtrP!P!NullPtr, Ptr!P!To, PtrP!P!To, Ptr!P!IsNull, PtrP!P!IsNull,
             Ptr!P!Named, PtrP!P!Named, Ptr!P!Goto, PtrP!P!Goto,
             Ptr!Unlocked, PtrP!Unlocked, Ptr!Kept, PtrP!Kept
<1>1. Ptr!Init <=> PtrP!Init
  BY DEF Ptr!Init, PtrP!Init, Ptr!P!Init, PtrP!P!Init
<1>2. ASSUME NEW t, NEW s, NEW d
      PROVE  /\ Ptr!Count(t) <=> PtrP!Count(t)
             /\ Ptr!Drop(t) <=> PtrP!Drop(t)
             /\ Ptr!Unlock(t) <=> PtrP!Unlock(t)
             /\ Ptr!Create(t, s) <=> PtrP!Create(t, s)
             /\ Ptr!AssignFrom(t, s) <=> PtrP!AssignFrom(t, s)
             /\ Ptr!Swap(t, s) <=> PtrP!Swap(t, s)
             /\ Ptr!Clear(t, s) <=> PtrP!Clear(t, s)
             /\ Ptr!Lock(t, s) <=> PtrP!Lock(t, s)
             /\ Ptr!Copy(t, s, d) <=> PtrP!Copy(t, s, d)
  <2>1. Ptr!Count(t) <=> PtrP!Count(t)
    BY DEF Ptr!Count, PtrP!Count, Ptr!P!Count, PtrP!P!Count
  <2>2. Ptr!Drop(t) <=> PtrP!Drop(t)
    BY DEF Ptr!Drop, PtrP!Drop, Ptr!P!Drop, PtrP!P!Drop
  <2>3. Ptr!Unlock(t) <=> PtrP!Unlock(t)
    BY DEF Ptr!Unlock, PtrP!Unlock
  <2>4. Ptr!Create(t, s) <=> PtrP!Create(t, s)
    BY DEF Ptr!Create, PtrP!Create, Ptr!P!Create, PtrP!P!Create
  <2>5. Ptr!AssignFrom(t, s) <=> PtrP!AssignFrom(t, s)
    BY DEF Ptr!AssignFrom, PtrP!AssignFrom, Ptr!P!AssignFrom, PtrP!P!AssignFrom
  <2>6. Ptr!Swap(t, s) <=> PtrP!Swap(t, s)
    BY DEF Ptr!Swap, PtrP!Swap, Ptr!P!Swap, PtrP!P!Swap
  <2>7. Ptr!Clear(t, s) <=> PtrP!Clear(t, s)
    BY DEF Ptr!Clear, PtrP!Clear, Ptr!P!Clear, PtrP!P!Clear
  <2>8. Ptr!Lock(t, s) <=> PtrP!Lock(t, s)
    BY DEF Ptr!Lock, PtrP!Lock
  <2>9. Ptr!Copy(t, s, d) <=> PtrP!Copy(t, s, d)
    BY DEF Ptr!Copy, PtrP!Copy, Ptr!P!Copy, PtrP!P!Copy
  <2>. QED  BY <2>1, <2>2, <2>3, <2>4, <2>5, <2>6, <2>7, <2>8, <2>9
<1>3. Ptr!Next <=> PtrP!Next
  BY <1>2 DEF Ptr!Next, PtrP!Next
<1>4. Ptr!PointersSound <=> PtrP!PointersSound
  <2>1. \A S : Ptr!P!Cardinality(S) = PtrP!P!Cardinality(S)
    BY DEF Ptr!P!Cardinality, PtrP!P!Cardinality
  <2>2. Ptr!CountExact <=> PtrP!CountExact
    BY <2>1 DEF Ptr!CountExact, PtrP!CountExact, Ptr!P!CountExact, PtrP!P!CountExact
  <2>3. Ptr!NoDangling <=> PtrP!NoDangling
    BY DEF Ptr!NoDangling, PtrP!NoDangling, Ptr!P!NoDangling, PtrP!P!NoDangling
  <2>4. Ptr!ObjectExclusive <=> PtrP!ObjectExclusive
    BY DEF Ptr!ObjectExclusive, PtrP!ObjectExclusive
  <2>. QED  BY <2>2, <2>3, <2>4 DEF Ptr!PointersSound, PtrP!PointersSound
<1>. QED  BY <1>1, <1>3, <1>4

\* The pointers of a behaviour that is about them.
LEMMA PtrStep == ASSUME kind = "ptr", PtrP!IInv, Step PROVE PtrP!IInv'
<1>1. Ptr!Next \/ UNCHANGED Ptr!vars
  BY DEF Step, CoreNext, ThreadingNext, Next, PtrNext, ContainerNext, ListNext, LockNext,
         CondNext, ConfigNext, Thread!Next, Thread!ThreadNext, Thread!ListNext, Thread!LifeNext,
         allVars, vars, ptrOnly, Ptr!vars
<1>2. [PtrP!Next]_(PtrP!vars)
  BY <1>1, SamePointers DEF Ptr!vars, PtrP!vars
<1>. QED  BY <1>2, PointersAssumed, PtrP!StepIInv

\* Pointers: the count of an object is exact whatever is in progress in other
\* threads, no pointer leads to a deleted object, a locked object has one user.
THEOREM PointersAreSound == LibrariesSpec => []PointersSound
<1>. DEFINE Inv == kind = "ptr" => PtrP!IInv
<1>1. AllInit => Inv
  <2>. SUFFICES ASSUME Ptr!Init PROVE PtrP!IInv
    BY DEF AllInit, Init, Thread!Init
  <2>. QED  BY SamePointers, PointersAssumed, PtrP!InitIInv
<1>2. Inv /\ Step => Inv'
  BY PtrStep, KindKept
<1>3. Inv => PointersSound
  BY SamePointers, PointersAssumed, PtrP!IInvSound DEF PointersSound
<1>. QED  BY <1>1, <1>2, <1>3, PTL DEF LibrariesSpec, Step

-----------------------------------------------------------------------------
(* Threads.  Of the three parts of ThreadSound only NoLostWakeup is inductive; *)
(* the other two need to know where the worker may be while it, or the manager, *)
(* owns a mutex.                                                                *)

Thr == INSTANCE Thread

\* The thread of the library is that of module Thread.
LEMMA SameThread ==
    /\ Thread!Thr!Init <=> Thr!Init
    /\ Thread!Thr!Next <=> Thr!Next
    /\ Thread!Thr!ThreadSound <=> Thr!ThreadSound
  BY DEF Thread!Thr!settings, Thr!settings, Thread!Thr!life, Thr!life, Thread!Thr!wake,
         Thr!wake, Thread!Thr!fin, Thr!fin, Thread!Thr!mutexes, Thr!mutexes,
         Thread!Thr!vars, Thr!vars, Thread!Thr!Init, Thr!Init, Thread!Thr!Entry, Thr!Entry,
         Thread!Thr!Startup, Thr!Startup, Thread!Thr!Once, Thr!Once, Thread!Thr!FallAsleep,
         Thr!FallAsleep, Thread!Thr!TakeWakeup, Thr!TakeWakeup, Thread!Thr!Wake, Thr!Wake,
         Thread!Thr!WakeSignalled, Thr!WakeSignalled, Thread!Thr!WakeSpurious,
         Thr!WakeSpurious, Thread!Thr!StopBy, Thr!StopBy, Thread!Thr!EnterLoop,
         Thr!EnterLoop, Thread!Thr!SkipLoop, Thr!SkipLoop, Thread!Thr!LoopReturns,
         Thr!LoopReturns, Thread!Thr!Exit, Thr!Exit, Thread!Thr!AfterLoop, Thr!AfterLoop,
         Thread!Thr!BarrierReturns, Thr!BarrierReturns, Thread!Thr!Relock, Thr!Relock,
         Thread!Thr!Cancelled, Thr!Cancelled, Thread!Thr!Worker, Thr!Worker,
         Thread!Thr!Rouse, Thr!Rouse, Thread!Thr!Wakeup, Thr!Wakeup,
         Thread!Thr!WakeupBarrier, Thr!WakeupBarrier, Thread!Thr!SetPrepfinHold,
         Thr!SetPrepfinHold, Thread!Thr!SetOpMode, Thr!SetOpMode,
         Thread!Thr!SetPrepfinConcLoop, Thr!SetPrepfinConcLoop, Thread!Thr!SetCoalesceWakeups,
         Thr!SetCoalesceWakeups, Thread!Thr!Start, Thr!Start, Thread!Thr!HoldTested,
         Thr!HoldTested, Thread!Thr!PrepareFinalize, Thr!PrepareFinalize,
         Thread!Thr!HoldWaited, Thr!HoldWaited, Thread!Thr!LockAntistarve,
         Thr!LockAntistarve, Thread!Thr!LockLoop, Thr!LockLoop, Thread!Thr!UserPrepared,
         Thr!UserPrepared, Thread!Thr!CancelFinalize, Thr!CancelFinalize, Thread!Thr!Cancel,
         Thr!Cancel, Thread!Thr!Join, Thr!Join, Thread!Thr!Detach, Thr!Detach,
         Thread!Thr!Manager, Thr!Manager, Thread!Thr!Next, Thr!Next, Thread!Thr!NoLostWakeup,
         Thr!NoLostWakeup, Thread!Thr!FinalizedIsQuiet, Thr!FinalizedIsQuiet,
         Thread!Thr!JoinedHoldsNothing, Thr!JoinedHoldsNothing, Thread!Thr!ThreadSound,
         Thr!ThreadSound

\* Where the owners of the loop mutex are; without the last two conjuncts the
\* steps of prepare_finalize() do not preserve the others.
LoopOwned ==
    /\ pc = "loop" => loopM = "worker"
    /\ loopM = "worker" => pc \in {"loop", "dead"}
    /\ loopM = "manager" => mgr = "user"
    /\ loopM = "manager" => ~concLoop
    /\ mgr \in {"anti", "loopm"} => ~concLoop
    /\ mgr = "user" /\ ~concLoop => loopM = "manager"

\* Only a thread in wake-up mode sleeps, and only such a one owns the sleep mutex.
SleepOwned ==
    /\ pc \in {"sleep", "asleep", "barrier", "relock"} => opMode = "wakeup"
    /\ sleepM = "worker" => opMode = "wakeup" /\ pc \in {"startup", "once", "sleep", "dead"}

\* A thread that was started has a worker, and the manager is busy only with such.
Lives ==
    /\ started <=> pc # "none"
    /\ mgr # "idle" => started

Owned == Thr!FinalizedIsQuiet /\ LoopOwned /\ SleepOwned /\ Lives
ThreadIInv == Thr!TypeOK /\ Thr!NoLostWakeup /\ Owned

\* The initial states satisfy the inductive invariant.
LEMMA ThreadInit == Thr!Init => ThreadIInv
<1> SUFFICES ASSUME Thr!Init PROVE ThreadIInv
  OBVIOUS
<1>1. Thr!TypeOK
  BY DEF Thr!Init, Thr!TypeOK
<1>2. Thr!NoLostWakeup
  BY DEF Thr!Init, Thr!NoLostWakeup
<1>3. Owned
  BY DEF Thr!Init, Owned, Thr!FinalizedIsQuiet, LoopOwned, SleepOwned, Lives
<1> QED
  BY <1>1, <1>2, <1>3 DEF ThreadIInv

\* The inductive invariant implies that the thread is sound.
LEMMA ThreadIInvSound == ThreadIInv => Thr!ThreadSound
  BY DEF ThreadIInv, Thr!TypeOK, Owned, LoopOwned, SleepOwned, Lives, Thr!ThreadSound,
         Thr!JoinedHoldsNothing

\* Types: every step of the worker, the clients and the manager keeps them.
LEMMA ThreadTypeStep == Thr!TypeOK /\ [Thr!Next]_(Thr!vars) => Thr!TypeOK'
<1>1. Thr!TypeOK /\ Thr!Entry => Thr!TypeOK'
  BY DEF Thr!Entry, Thr!TypeOK,
         Thr!settings, Thr!life, Thr!wake, Thr!fin, Thr!mutexes
<1>2. Thr!TypeOK /\ Thr!Startup => Thr!TypeOK'
  BY DEF Thr!Startup, Thr!TypeOK,
         Thr!settings, Thr!life, Thr!wake, Thr!fin, Thr!mutexes
<1>3. Thr!TypeOK /\ Thr!Once => Thr!TypeOK'
  BY DEF Thr!Once, Thr!TypeOK,
         Thr!settings, Thr!life, Thr!wake, Thr!fin, Thr!mutexes
<1>4. Thr!TypeOK /\ Thr!FallAsleep => Thr!TypeOK'
  BY DEF Thr!FallAsleep, Thr!TypeOK,
         Thr!settings, Thr!life, Thr!wake, Thr!fin, Thr!mutexes
<1>5. Thr!TypeOK /\ Thr!TakeWakeup => Thr!TypeOK'
  BY DEF Thr!TakeWakeup, Thr!TypeOK,
         Thr!settings, Thr!life, Thr!wake, Thr!fin, Thr!mutexes
<1>6. Thr!TypeOK /\ (Thr!WakeSignalled \/ Thr!WakeSpurious) => Thr!TypeOK'
  BY DEF Thr!WakeSignalled, Thr!WakeSpurious, Thr!Wake, Thr!TypeOK,
         Thr!settings, Thr!life, Thr!wake, Thr!fin, Thr!mutexes
<1>7. Thr!TypeOK /\ Thr!StopBy => Thr!TypeOK'
  BY DEF Thr!StopBy, Thr!TypeOK,
         Thr!settings, Thr!life, Thr!wake, Thr!fin, Thr!mutexes
<1>8. Thr!TypeOK /\ Thr!EnterLoop => Thr!TypeOK'
  BY DEF Thr!EnterLoop, Thr!TypeOK,
         Thr!settings, Thr!life, Thr!wake, Thr!fin, Thr!mutexes
<1>9. Thr!TypeOK /\ Thr!SkipLoop => Thr!TypeOK'
  BY DEF Thr!SkipLoop, Thr!TypeOK,
         Thr!settings, Thr!life, Thr!wake, Thr!fin, Thr!mutexes
<1>10. Thr!TypeOK /\ Thr!LoopReturns => Thr!TypeOK'
  BY DEF Thr!LoopReturns, Thr!TypeOK,
         Thr!settings, Thr!life, Thr!wake, Thr!fin, Thr!mutexes
<1>11. Thr!TypeOK /\ Thr!Exit => Thr!TypeOK'
  BY DEF Thr!Exit, Thr!TypeOK,
         Thr!settings, Thr!life, Thr!wake, Thr!fin, Thr!mutexes
<1>12. Thr!TypeOK /\ Thr!AfterLoop => Thr!TypeOK'
  <2> SUFFICES ASSUME Thr!TypeOK, Thr!AfterLoop PROVE Thr!TypeOK'
    OBVIOUS
  <2>1. loopDone' \in BOOLEAN /\ barrier' \in BOOLEAN
    BY DEF Thr!AfterLoop, Thr!TypeOK
  <2>2. pc' \in {"top", "relock", "barrier"}
    BY DEF Thr!AfterLoop
  <2>3. UNCHANGED <<Thr!settings, Thr!life, pending, waiting, signalled, Thr!fin, Thr!mutexes, mgr>>
    BY DEF Thr!AfterLoop
  <2> QED
    BY <2>1, <2>2, <2>3 DEF Thr!TypeOK, Thr!settings, Thr!life, Thr!fin, Thr!mutexes
<1>13. Thr!TypeOK /\ Thr!BarrierReturns => Thr!TypeOK'
  BY DEF Thr!BarrierReturns, Thr!TypeOK,
         Thr!settings, Thr!life, Thr!wake, Thr!fin, Thr!mutexes
<1>14. Thr!TypeOK /\ Thr!Relock => Thr!TypeOK'
  BY DEF Thr!Relock, Thr!TypeOK,
         Thr!settings, Thr!life, Thr!wake, Thr!fin, Thr!mutexes
<1>15. Thr!TypeOK /\ Thr!Cancelled => Thr!TypeOK'
  <2> SUFFICES ASSUME Thr!TypeOK, Thr!Cancelled PROVE Thr!TypeOK'
    OBVIOUS
  <2>1. loopDone' \in BOOLEAN
    BY DEF Thr!Cancelled, Thr!TypeOK
  <2>2. sleepM' \in {"free", "worker"}
    BY DEF Thr!Cancelled, Thr!TypeOK
  <2>3. pc' = "dead" /\ UNCHANGED <<Thr!settings, Thr!life, Thr!wake, Thr!fin, loopM, antiM,
  holdM, mgr>>
    BY DEF Thr!Cancelled
  <2> QED
    BY <2>1, <2>2, <2>3 DEF Thr!TypeOK, Thr!settings, Thr!life, Thr!fin, Thr!wake
<1>16. Thr!TypeOK /\ Thr!Wakeup => Thr!TypeOK'
  <2> SUFFICES ASSUME Thr!TypeOK, Thr!Wakeup PROVE Thr!TypeOK'
    OBVIOUS
  <2>1. pending' \in Nat
    BY DEF Thr!Wakeup, Thr!TypeOK
  <2>2. waiting' \in BOOLEAN /\ signalled' \in BOOLEAN
    BY DEF Thr!Wakeup, Thr!Rouse, Thr!TypeOK
  <2>3. UNCHANGED <<Thr!settings, Thr!life, barrier, Thr!fin, loopDone, pc, Thr!mutexes, mgr>>
    BY DEF Thr!Wakeup
  <2> QED
    BY <2>1, <2>2, <2>3 DEF Thr!TypeOK, Thr!settings, Thr!life, Thr!fin, Thr!mutexes
<1>17. Thr!TypeOK /\ Thr!WakeupBarrier => Thr!TypeOK'
  <2> SUFFICES ASSUME Thr!TypeOK, Thr!WakeupBarrier PROVE Thr!TypeOK'
    OBVIOUS
  <2>1. pending' \in Nat
    BY DEF Thr!WakeupBarrier, Thr!TypeOK
  <2>2. waiting' \in BOOLEAN /\ signalled' \in BOOLEAN /\ barrier' \in BOOLEAN
    BY DEF Thr!WakeupBarrier, Thr!Rouse, Thr!TypeOK
  <2>3. UNCHANGED <<Thr!settings, Thr!life, Thr!fin, loopDone, pc, Thr!mutexes, mgr>>
    BY DEF Thr!WakeupBarrier
  <2> QED
    BY <2>1, <2>2, <2>3 DEF Thr!TypeOK, Thr!settings, Thr!life, Thr!fin, Thr!mutexes
<1>18. Thr!TypeOK /\ (\E h \in BOOLEAN : Thr!SetPrepfinHold(h)) => Thr!TypeOK'
  BY DEF Thr!SetPrepfinHold, Thr!TypeOK,
         Thr!settings, Thr!life, Thr!wake, Thr!fin, Thr!mutexes
<1>19. Thr!TypeOK /\ (\E m \in {"continuous", "wakeup"} : Thr!SetOpMode(m)) => Thr!TypeOK'
  BY DEF Thr!SetOpMode, Thr!TypeOK,
         Thr!settings, Thr!life, Thr!wake, Thr!fin, Thr!mutexes
<1>20. Thr!TypeOK /\ Thr!SetPrepfinConcLoop => Thr!TypeOK'
  BY DEF Thr!SetPrepfinConcLoop, Thr!TypeOK,
         Thr!settings, Thr!life, Thr!wake, Thr!fin, Thr!mutexes
<1>21. Thr!TypeOK /\ Thr!SetCoalesceWakeups => Thr!TypeOK'
  BY DEF Thr!SetCoalesceWakeups, Thr!TypeOK,
         Thr!settings, Thr!life, Thr!wake, Thr!fin, Thr!mutexes
<1>22. Thr!TypeOK /\ (\E w \in BOOLEAN : Thr!Start(w)) => Thr!TypeOK'
  <2> SUFFICES ASSUME Thr!TypeOK, NEW w \in BOOLEAN, Thr!Start(w) PROVE Thr!TypeOK'
    OBVIOUS
  <2>1. mgr' \in {"idle", "startup", "hold", "anti", "loopm", "user"}
    BY DEF Thr!Start
  <2>2. started' \in BOOLEAN /\ cancelled' \in BOOLEAN /\ detached' \in BOOLEAN
    BY DEF Thr!Start
  <2>3. UNCHANGED <<Thr!settings, Thr!wake, Thr!fin, loopDone, Thr!mutexes>> /\ pc' = "entry"
    BY DEF Thr!Start
  <2> QED
    BY <2>1, <2>2, <2>3 DEF Thr!TypeOK, Thr!settings, Thr!wake, Thr!fin, Thr!mutexes
<1>23. Thr!TypeOK /\ Thr!PrepareFinalize => Thr!TypeOK'
  BY DEF Thr!PrepareFinalize, Thr!HoldTested, Thr!TypeOK,
         Thr!settings, Thr!life, Thr!wake, Thr!fin, Thr!mutexes
<1>24. Thr!TypeOK /\ Thr!HoldWaited => Thr!TypeOK'
  BY DEF Thr!HoldWaited, Thr!HoldTested, Thr!TypeOK,
         Thr!settings, Thr!life, Thr!wake, Thr!fin, Thr!mutexes
<1>25. Thr!TypeOK /\ Thr!LockAntistarve => Thr!TypeOK'
  BY DEF Thr!LockAntistarve, Thr!TypeOK,
         Thr!settings, Thr!life, Thr!wake, Thr!fin, Thr!mutexes
<1>26. Thr!TypeOK /\ Thr!LockLoop => Thr!TypeOK'
  BY DEF Thr!LockLoop, Thr!TypeOK,
         Thr!settings, Thr!life, Thr!wake, Thr!fin, Thr!mutexes
<1>27. Thr!TypeOK /\ Thr!UserPrepared => Thr!TypeOK'
  BY DEF Thr!UserPrepared, Thr!TypeOK,
         Thr!settings, Thr!life, Thr!wake, Thr!fin, Thr!mutexes
<1>28. Thr!TypeOK /\ Thr!CancelFinalize => Thr!TypeOK'
  BY DEF Thr!CancelFinalize, Thr!TypeOK,
         Thr!settings, Thr!life, Thr!wake, Thr!fin, Thr!mutexes
<1>29. Thr!TypeOK /\ Thr!Cancel => Thr!TypeOK'
  BY DEF Thr!Cancel, Thr!TypeOK,
         Thr!settings, Thr!life, Thr!wake, Thr!fin, Thr!mutexes
<1>30. Thr!TypeOK /\ Thr!Join => Thr!TypeOK'
  BY DEF Thr!Join, Thr!TypeOK,
         Thr!settings, Thr!life, Thr!wake, Thr!fin, Thr!mutexes
<1>31. Thr!TypeOK /\ Thr!Detach => Thr!TypeOK'
  BY DEF Thr!Detach, Thr!TypeOK,
         Thr!settings, Thr!life, Thr!wake, Thr!fin, Thr!mutexes
<1>32. Thr!TypeOK /\ UNCHANGED Thr!vars => Thr!TypeOK'
  BY DEF Thr!vars, Thr!TypeOK,
         Thr!settings, Thr!life, Thr!wake, Thr!fin, Thr!mutexes
<1> QED
  BY <1>1, <1>2, <1>3, <1>4, <1>5, <1>6, <1>7, <1>8, <1>9, <1>10, <1>11, <1>12, <1>13,
     <1>14, <1>15, <1>16, <1>17, <1>18, <1>19, <1>20, <1>21, <1>22, <1>23, <1>24, <1>25,
     <1>26, <1>27, <1>28, <1>29, <1>30, <1>31, <1>32
     DEF Thr!Next, Thr!Worker, Thr!Manager

\* A wake-up is counted in the section that rouses the worker, and the worker
\* goes to sleep in one that sees none.
LEMMA PendingStep == Thr!TypeOK /\ Thr!NoLostWakeup /\ [Thr!Next]_(Thr!vars) => Thr!NoLostWakeup'
<1>1. Thr!TypeOK /\ Thr!NoLostWakeup /\ Thr!Entry => Thr!NoLostWakeup'
  BY DEF Thr!Entry, Thr!TypeOK, Thr!NoLostWakeup,
         Thr!settings, Thr!life, Thr!wake, Thr!fin, Thr!mutexes
<1>2. Thr!TypeOK /\ Thr!NoLostWakeup /\ Thr!Startup => Thr!NoLostWakeup'
  BY DEF Thr!Startup, Thr!TypeOK, Thr!NoLostWakeup,
         Thr!settings, Thr!life, Thr!wake, Thr!fin, Thr!mutexes
<1>3. Thr!TypeOK /\ Thr!NoLostWakeup /\ Thr!Once => Thr!NoLostWakeup'
  BY DEF Thr!Once, Thr!TypeOK, Thr!NoLostWakeup,
         Thr!settings, Thr!life, Thr!wake, Thr!fin, Thr!mutexes
<1>4. Thr!TypeOK /\ Thr!NoLostWakeup /\ Thr!FallAsleep => Thr!NoLostWakeup'
  BY DEF Thr!FallAsleep, Thr!TypeOK, Thr!NoLostWakeup,
         Thr!settings, Thr!life, Thr!wake, Thr!fin, Thr!mutexes
<1>5. Thr!TypeOK /\ Thr!NoLostWakeup /\ Thr!TakeWakeup => Thr!NoLostWakeup'
  BY DEF Thr!TakeWakeup, Thr!TypeOK, Thr!NoLostWakeup,
         Thr!settings, Thr!life, Thr!wake, Thr!fin, Thr!mutexes
<1>6. Thr!TypeOK /\ Thr!NoLostWakeup /\ (Thr!WakeSignalled \/ Thr!WakeSpurious) => Thr!NoLostWakeup'
  BY DEF Thr!WakeSignalled, Thr!WakeSpurious, Thr!Wake, Thr!TypeOK, Thr!NoLostWakeup,
         Thr!settings, Thr!life, Thr!wake, Thr!fin, Thr!mutexes
<1>7. Thr!TypeOK /\ Thr!NoLostWakeup /\ Thr!StopBy => Thr!NoLostWakeup'
  BY DEF Thr!StopBy, Thr!TypeOK, Thr!NoLostWakeup,
         Thr!settings, Thr!life, Thr!wake, Thr!fin, Thr!mutexes
<1>8. Thr!TypeOK /\ Thr!NoLostWakeup /\ Thr!EnterLoop => Thr!NoLostWakeup'
  BY DEF Thr!EnterLoop, Thr!TypeOK, Thr!NoLostWakeup,
         Thr!settings, Thr!life, Thr!wake, Thr!fin, Thr!mutexes
<1>9. Thr!TypeOK /\ Thr!NoLostWakeup /\ Thr!SkipLoop => Thr!NoLostWakeup'
  BY DEF Thr!SkipLoop, Thr!TypeOK, Thr!NoLostWakeup,
         Thr!settings, Thr!life, Thr!wake, Thr!fin, Thr!mutexes
<1>10. Thr!TypeOK /\ Thr!NoLostWakeup /\ Thr!LoopReturns => Thr!NoLostWakeup'
  BY DEF Thr!LoopReturns, Thr!TypeOK, Thr!NoLostWakeup,
         Thr!settings, Thr!life, Thr!wake, Thr!fin, Thr!mutexes
<1>11. Thr!TypeOK /\ Thr!NoLostWakeup /\ Thr!Exit => Thr!NoLostWakeup'
  BY DEF Thr!Exit, Thr!TypeOK, Thr!NoLostWakeup,
         Thr!settings, Thr!life, Thr!wake, Thr!fin, Thr!mutexes
<1>12. Thr!TypeOK /\ Thr!NoLostWakeup /\ Thr!AfterLoop => Thr!NoLostWakeup'
  BY DEF Thr!AfterLoop, Thr!TypeOK, Thr!NoLostWakeup,
         Thr!settings, Thr!life, Thr!wake, Thr!fin, Thr!mutexes
<1>13. Thr!TypeOK /\ Thr!NoLostWakeup /\ Thr!BarrierReturns => Thr!NoLostWakeup'
  BY DEF Thr!BarrierReturns, Thr!TypeOK, Thr!NoLostWakeup,
         Thr!settings, Thr!life, Thr!wake, Thr!fin, Thr!mutexes
<1>14. Thr!TypeOK /\ Thr!NoLostWakeup /\ Thr!Relock => Thr!NoLostWakeup'
  BY DEF Thr!Relock, Thr!TypeOK, Thr!NoLostWakeup,
         Thr!settings, Thr!life, Thr!wake, Thr!fin, Thr!mutexes
<1>15. Thr!TypeOK /\ Thr!NoLostWakeup /\ Thr!Cancelled => Thr!NoLostWakeup'
  BY DEF Thr!Cancelled, Thr!TypeOK, Thr!NoLostWakeup,
         Thr!settings, Thr!life, Thr!wake, Thr!fin, Thr!mutexes
<1>16. Thr!TypeOK /\ Thr!NoLostWakeup /\ Thr!Wakeup => Thr!NoLostWakeup'
  BY DEF Thr!Wakeup, Thr!Rouse, Thr!TypeOK, Thr!NoLostWakeup,
         Thr!settings, Thr!life, Thr!wake, Thr!fin, Thr!mutexes
<1>17. Thr!TypeOK /\ Thr!NoLostWakeup /\ Thr!WakeupBarrier => Thr!NoLostWakeup'
  BY DEF Thr!WakeupBarrier, Thr!Rouse, Thr!TypeOK, Thr!NoLostWakeup,
         Thr!settings, Thr!life, Thr!wake, Thr!fin, Thr!mutexes
<1>18. Thr!TypeOK /\ Thr!NoLostWakeup /\ (\E h \in BOOLEAN : Thr!SetPrepfinHold(h)) => Thr!NoLostWakeup'
  BY DEF Thr!SetPrepfinHold, Thr!TypeOK, Thr!NoLostWakeup,
         Thr!settings, Thr!life, Thr!wake, Thr!fin, Thr!mutexes
<1>19. Thr!TypeOK /\ Thr!NoLostWakeup /\ (\E m \in {"continuous",
"wakeup"} : Thr!SetOpMode(m)) => Thr!NoLostWakeup'
  BY DEF Thr!SetOpMode, Thr!TypeOK, Thr!NoLostWakeup,
         Thr!settings, Thr!life, Thr!wake, Thr!fin, Thr!mutexes
<1>20. Thr!TypeOK /\ Thr!NoLostWakeup /\ Thr!SetPrepfinConcLoop => Thr!NoLostWakeup'
  BY DEF Thr!SetPrepfinConcLoop, Thr!TypeOK, Thr!NoLostWakeup,
         Thr!settings, Thr!life, Thr!wake, Thr!fin, Thr!mutexes
<1>21. Thr!TypeOK /\ Thr!NoLostWakeup /\ Thr!SetCoalesceWakeups => Thr!NoLostWakeup'
  BY DEF Thr!SetCoalesceWakeups, Thr!TypeOK, Thr!NoLostWakeup,
         Thr!settings, Thr!life, Thr!wake, Thr!fin, Thr!mutexes
<1>22. Thr!TypeOK /\ Thr!NoLostWakeup /\ (\E w \in BOOLEAN : Thr!Start(w)) => Thr!NoLostWakeup'
  BY DEF Thr!Start, Thr!TypeOK, Thr!NoLostWakeup,
         Thr!settings, Thr!life, Thr!wake, Thr!fin, Thr!mutexes
<1>23. Thr!TypeOK /\ Thr!NoLostWakeup /\ Thr!PrepareFinalize => Thr!NoLostWakeup'
  BY DEF Thr!PrepareFinalize, Thr!HoldTested, Thr!TypeOK, Thr!NoLostWakeup,
         Thr!settings, Thr!life, Thr!wake, Thr!fin, Thr!mutexes
<1>24. Thr!TypeOK /\ Thr!NoLostWakeup /\ Thr!HoldWaited => Thr!NoLostWakeup'
  BY DEF Thr!HoldWaited, Thr!HoldTested, Thr!TypeOK, Thr!NoLostWakeup,
         Thr!settings, Thr!life, Thr!wake, Thr!fin, Thr!mutexes
<1>25. Thr!TypeOK /\ Thr!NoLostWakeup /\ Thr!LockAntistarve => Thr!NoLostWakeup'
  BY DEF Thr!LockAntistarve, Thr!TypeOK, Thr!NoLostWakeup,
         Thr!settings, Thr!life, Thr!wake, Thr!fin, Thr!mutexes
<1>26. Thr!TypeOK /\ Thr!NoLostWakeup /\ Thr!LockLoop => Thr!NoLostWakeup'
  BY DEF Thr!LockLoop, Thr!TypeOK, Thr!NoLostWakeup,
         Thr!settings, Thr!life, Thr!wake, Thr!fin, Thr!mutexes
<1>27. Thr!TypeOK /\ Thr!NoLostWakeup /\ Thr!UserPrepared => Thr!NoLostWakeup'
  BY DEF Thr!UserPrepared, Thr!TypeOK, Thr!NoLostWakeup,
         Thr!settings, Thr!life, Thr!wake, Thr!fin, Thr!mutexes
<1>28. Thr!TypeOK /\ Thr!NoLostWakeup /\ Thr!CancelFinalize => Thr!NoLostWakeup'
  BY DEF Thr!CancelFinalize, Thr!TypeOK, Thr!NoLostWakeup,
         Thr!settings, Thr!life, Thr!wake, Thr!fin, Thr!mutexes
<1>29. Thr!TypeOK /\ Thr!NoLostWakeup /\ Thr!Cancel => Thr!NoLostWakeup'
  BY DEF Thr!Cancel, Thr!TypeOK, Thr!NoLostWakeup,
         Thr!settings, Thr!life, Thr!wake, Thr!fin, Thr!mutexes
<1>30. Thr!TypeOK /\ Thr!NoLostWakeup /\ Thr!Join => Thr!NoLostWakeup'
  BY DEF Thr!Join, Thr!TypeOK, Thr!NoLostWakeup,
         Thr!settings, Thr!life, Thr!wake, Thr!fin, Thr!mutexes
<1>31. Thr!TypeOK /\ Thr!NoLostWakeup /\ Thr!Detach => Thr!NoLostWakeup'
  BY DEF Thr!Detach, Thr!TypeOK, Thr!NoLostWakeup,
         Thr!settings, Thr!life, Thr!wake, Thr!fin, Thr!mutexes
<1>32. Thr!TypeOK /\ Thr!NoLostWakeup /\ UNCHANGED Thr!vars => Thr!NoLostWakeup'
  BY DEF Thr!vars, Thr!TypeOK, Thr!NoLostWakeup,
         Thr!settings, Thr!life, Thr!wake, Thr!fin, Thr!mutexes
<1> QED
  BY <1>1, <1>2, <1>3, <1>4, <1>5, <1>6, <1>7, <1>8, <1>9, <1>10, <1>11, <1>12, <1>13,
     <1>14, <1>15, <1>16, <1>17, <1>18, <1>19, <1>20, <1>21, <1>22, <1>23, <1>24, <1>25,
     <1>26, <1>27, <1>28, <1>29, <1>30, <1>31, <1>32
     DEF Thr!Next, Thr!Worker, Thr!Manager

\* prepare_finalize() up to the first mutex: the loop mutex is not touched.
LEMMA HoldTestedOwned ==
  ASSUME LoopOwned, Thr!HoldTested, mgr \in {"idle", "hold"}, UNCHANGED <<Thr!settings, pc, loopM>>
  PROVE  LoopOwned'
<1>0. concLoop' = concLoop /\ loopM # "manager"
  BY DEF LoopOwned, Thr!settings
<1>1. CASE hold
  BY <1>0, <1>1 DEF LoopOwned, Thr!HoldTested
<1>2. CASE ~hold /\ concLoop
  BY <1>0, <1>2 DEF LoopOwned, Thr!HoldTested
<1>3. CASE ~hold /\ ~concLoop
  BY <1>0, <1>3 DEF LoopOwned, Thr!HoldTested
<1> QED
  BY <1>1, <1>2, <1>3

\* The mutexes: who owns one is where it may own it, so that loop() is not
\* entered once the thread is prepared, and the worker is not in it when
\* prepare_finalize() gets the loop mutex.
LEMMA OwnedStep == Thr!TypeOK /\ Owned /\ [Thr!Next]_(Thr!vars) => Owned'
<1>1. Thr!TypeOK /\ Owned /\ Thr!Entry => Owned'
  BY DEF Thr!Entry, Thr!TypeOK, Owned, Thr!FinalizedIsQuiet, LoopOwned,
         SleepOwned, Lives, Thr!settings, Thr!life, Thr!wake, Thr!fin, Thr!mutexes
<1>2. Thr!TypeOK /\ Owned /\ Thr!Startup => Owned'
  BY DEF Thr!Startup, Thr!TypeOK, Owned, Thr!FinalizedIsQuiet, LoopOwned,
         SleepOwned, Lives, Thr!settings, Thr!life, Thr!wake, Thr!fin, Thr!mutexes
<1>3. Thr!TypeOK /\ Owned /\ Thr!Once => Owned'
  BY DEF Thr!Once, Thr!TypeOK, Owned, Thr!FinalizedIsQuiet, LoopOwned,
         SleepOwned, Lives, Thr!settings, Thr!life, Thr!wake, Thr!fin, Thr!mutexes
<1>4. Thr!TypeOK /\ Owned /\ Thr!FallAsleep => Owned'
  BY DEF Thr!FallAsleep, Thr!TypeOK, Owned, Thr!FinalizedIsQuiet, LoopOwned,
         SleepOwned, Lives, Thr!settings, Thr!life, Thr!wake, Thr!fin, Thr!mutexes
<1>5. Thr!TypeOK /\ Owned /\ Thr!TakeWakeup => Owned'
  BY DEF Thr!TakeWakeup, Thr!TypeOK, Owned, Thr!FinalizedIsQuiet, LoopOwned,
         SleepOwned, Lives, Thr!settings, Thr!life, Thr!wake, Thr!fin, Thr!mutexes
<1>6. Thr!TypeOK /\ Owned /\ (Thr!WakeSignalled \/ Thr!WakeSpurious) => Owned'
  BY DEF Thr!WakeSignalled, Thr!WakeSpurious, Thr!Wake, Thr!TypeOK, Owned, Thr!FinalizedIsQuiet,
         LoopOwned,
         SleepOwned, Lives, Thr!settings, Thr!life, Thr!wake, Thr!fin, Thr!mutexes
<1>7. Thr!TypeOK /\ Owned /\ Thr!StopBy => Owned'
  BY DEF Thr!StopBy, Thr!TypeOK, Owned, Thr!FinalizedIsQuiet, LoopOwned,
         SleepOwned, Lives, Thr!settings, Thr!life, Thr!wake, Thr!fin, Thr!mutexes
<1>8. Thr!TypeOK /\ Owned /\ Thr!EnterLoop => Owned'
  BY DEF Thr!EnterLoop, Thr!TypeOK, Owned, Thr!FinalizedIsQuiet, LoopOwned,
         SleepOwned, Lives, Thr!settings, Thr!life, Thr!wake, Thr!fin, Thr!mutexes
<1>9. Thr!TypeOK /\ Owned /\ Thr!SkipLoop => Owned'
  BY DEF Thr!SkipLoop, Thr!TypeOK, Owned, Thr!FinalizedIsQuiet, LoopOwned,
         SleepOwned, Lives, Thr!settings, Thr!life, Thr!wake, Thr!fin, Thr!mutexes
<1>10. Thr!TypeOK /\ Owned /\ Thr!LoopReturns => Owned'
  BY DEF Thr!LoopReturns, Thr!TypeOK, Owned, Thr!FinalizedIsQuiet, LoopOwned,
         SleepOwned, Lives, Thr!settings, Thr!life, Thr!wake, Thr!fin, Thr!mutexes
<1>11. Thr!TypeOK /\ Owned /\ Thr!Exit => Owned'
  BY DEF Thr!Exit, Thr!TypeOK, Owned, Thr!FinalizedIsQuiet, LoopOwned,
         SleepOwned, Lives, Thr!settings, Thr!life, Thr!wake, Thr!fin, Thr!mutexes
<1>12. Thr!TypeOK /\ Owned /\ Thr!AfterLoop => Owned'
  BY DEF Thr!AfterLoop, Thr!TypeOK, Owned, Thr!FinalizedIsQuiet, LoopOwned,
         SleepOwned, Lives, Thr!settings, Thr!life, Thr!wake, Thr!fin, Thr!mutexes
<1>13. Thr!TypeOK /\ Owned /\ Thr!BarrierReturns => Owned'
  BY DEF Thr!BarrierReturns, Thr!TypeOK, Owned, Thr!FinalizedIsQuiet, LoopOwned,
         SleepOwned, Lives, Thr!settings, Thr!life, Thr!wake, Thr!fin, Thr!mutexes
<1>14. Thr!TypeOK /\ Owned /\ Thr!Relock => Owned'
  BY DEF Thr!Relock, Thr!TypeOK, Owned, Thr!FinalizedIsQuiet, LoopOwned,
         SleepOwned, Lives, Thr!settings, Thr!life, Thr!wake, Thr!fin, Thr!mutexes
<1>15. Thr!TypeOK /\ Owned /\ Thr!Cancelled => Owned'
  BY DEF Thr!Cancelled, Thr!TypeOK, Owned, Thr!FinalizedIsQuiet, LoopOwned,
         SleepOwned, Lives, Thr!settings, Thr!life, Thr!wake, Thr!fin, Thr!mutexes
<1>16. Thr!TypeOK /\ Owned /\ Thr!Wakeup => Owned'
  BY DEF Thr!Wakeup, Thr!Rouse, Thr!TypeOK, Owned, Thr!FinalizedIsQuiet, LoopOwned,
         SleepOwned, Lives, Thr!settings, Thr!life, Thr!wake, Thr!fin, Thr!mutexes
<1>17. Thr!TypeOK /\ Owned /\ Thr!WakeupBarrier => Owned'
  BY DEF Thr!WakeupBarrier, Thr!Rouse, Thr!TypeOK, Owned, Thr!FinalizedIsQuiet, LoopOwned,
         SleepOwned, Lives, Thr!settings, Thr!life, Thr!wake, Thr!fin, Thr!mutexes
<1>18. Thr!TypeOK /\ Owned /\ (\E h \in BOOLEAN : Thr!SetPrepfinHold(h)) => Owned'
  BY DEF Thr!SetPrepfinHold, Thr!TypeOK, Owned, Thr!FinalizedIsQuiet, LoopOwned,
         SleepOwned, Lives, Thr!settings, Thr!life, Thr!wake, Thr!fin, Thr!mutexes
<1>19. Thr!TypeOK /\ Owned /\ (\E m \in {"continuous", "wakeup"} : Thr!SetOpMode(m)) => Owned'
  BY DEF Thr!SetOpMode, Thr!TypeOK, Owned, Thr!FinalizedIsQuiet, LoopOwned,
         SleepOwned, Lives, Thr!settings, Thr!life, Thr!wake, Thr!fin, Thr!mutexes
<1>20. Thr!TypeOK /\ Owned /\ Thr!SetPrepfinConcLoop => Owned'
  BY DEF Thr!SetPrepfinConcLoop, Thr!TypeOK, Owned, Thr!FinalizedIsQuiet, LoopOwned,
         SleepOwned, Lives, Thr!settings, Thr!life, Thr!wake, Thr!fin, Thr!mutexes
<1>21. Thr!TypeOK /\ Owned /\ Thr!SetCoalesceWakeups => Owned'
  BY DEF Thr!SetCoalesceWakeups, Thr!TypeOK, Owned, Thr!FinalizedIsQuiet, LoopOwned,
         SleepOwned, Lives, Thr!settings, Thr!life, Thr!wake, Thr!fin, Thr!mutexes
<1>22. Thr!TypeOK /\ Owned /\ (\E w \in BOOLEAN : Thr!Start(w)) => Owned'
  BY DEF Thr!Start, Thr!TypeOK, Owned, Thr!FinalizedIsQuiet, LoopOwned,
         SleepOwned, Lives, Thr!settings, Thr!life, Thr!wake, Thr!fin, Thr!mutexes
<1>23. Thr!TypeOK /\ Owned /\ Thr!PrepareFinalize => Owned'
  <2> SUFFICES ASSUME Thr!TypeOK, Owned, Thr!PrepareFinalize PROVE Owned'
    OBVIOUS
  <2>1. Thr!FinalizedIsQuiet'
    BY DEF Thr!TypeOK, Owned, Thr!FinalizedIsQuiet, LoopOwned, SleepOwned, Lives,
           Thr!PrepareFinalize, Thr!HoldTested,
           Thr!settings, Thr!life, Thr!wake, Thr!fin, Thr!mutexes
  <2>2. LoopOwned'
    BY HoldTestedOwned DEF Owned, Thr!PrepareFinalize
  <2>3. SleepOwned'
    BY DEF Thr!TypeOK, Owned, Thr!FinalizedIsQuiet, LoopOwned, SleepOwned, Lives,
           Thr!PrepareFinalize, Thr!HoldTested,
           Thr!settings, Thr!life, Thr!wake, Thr!fin, Thr!mutexes
  <2>4. Lives'
    BY DEF Thr!TypeOK, Owned, Thr!FinalizedIsQuiet, LoopOwned, SleepOwned, Lives,
           Thr!PrepareFinalize, Thr!HoldTested,
           Thr!settings, Thr!life, Thr!wake, Thr!fin, Thr!mutexes
  <2> QED
    BY <2>1, <2>2, <2>3, <2>4 DEF Owned
<1>24. Thr!TypeOK /\ Owned /\ Thr!HoldWaited => Owned'
  <2> SUFFICES ASSUME Thr!TypeOK, Owned, Thr!HoldWaited PROVE Owned'
    OBVIOUS
  <2>1. Thr!FinalizedIsQuiet'
    BY DEF Thr!TypeOK, Owned, Thr!FinalizedIsQuiet, LoopOwned, SleepOwned, Lives, Thr!HoldWaited,
           Thr!HoldTested,
           Thr!settings, Thr!life, Thr!wake, Thr!fin, Thr!mutexes
  <2>2. LoopOwned'
    BY HoldTestedOwned DEF Owned, Thr!HoldWaited
  <2>3. SleepOwned'
    BY DEF Thr!TypeOK, Owned, Thr!FinalizedIsQuiet, LoopOwned, SleepOwned, Lives, Thr!HoldWaited,
           Thr!HoldTested,
           Thr!settings, Thr!life, Thr!wake, Thr!fin, Thr!mutexes
  <2>4. Lives'
    BY DEF Thr!TypeOK, Owned, Thr!FinalizedIsQuiet, LoopOwned, SleepOwned, Lives, Thr!HoldWaited,
           Thr!HoldTested,
           Thr!settings, Thr!life, Thr!wake, Thr!fin, Thr!mutexes
  <2> QED
    BY <2>1, <2>2, <2>3, <2>4 DEF Owned
<1>25. Thr!TypeOK /\ Owned /\ Thr!LockAntistarve => Owned'
  BY DEF Thr!LockAntistarve, Thr!TypeOK, Owned, Thr!FinalizedIsQuiet, LoopOwned,
         SleepOwned, Lives, Thr!settings, Thr!life, Thr!wake, Thr!fin, Thr!mutexes
<1>26. Thr!TypeOK /\ Owned /\ Thr!LockLoop => Owned'
  <2> SUFFICES ASSUME Thr!TypeOK, Owned, Thr!LockLoop PROVE Owned'
    OBVIOUS
  <2>1. Thr!FinalizedIsQuiet'
    BY DEF Thr!TypeOK, Owned, Thr!FinalizedIsQuiet, LoopOwned, SleepOwned, Lives, Thr!LockLoop,
           Thr!settings, Thr!life, Thr!wake, Thr!fin, Thr!mutexes
  <2>2. LoopOwned'
    BY DEF Thr!TypeOK, Owned, Thr!FinalizedIsQuiet, LoopOwned, SleepOwned, Lives, Thr!LockLoop,
           Thr!settings, Thr!life, Thr!wake, Thr!fin, Thr!mutexes
  <2>3. SleepOwned'
    BY DEF Thr!TypeOK, Owned, Thr!FinalizedIsQuiet, LoopOwned, SleepOwned, Lives, Thr!LockLoop,
           Thr!settings, Thr!life, Thr!wake, Thr!fin, Thr!mutexes
  <2>4. Lives'
    BY DEF Thr!TypeOK, Owned, Thr!FinalizedIsQuiet, LoopOwned, SleepOwned, Lives, Thr!LockLoop,
           Thr!settings, Thr!life, Thr!wake, Thr!fin, Thr!mutexes
  <2> QED
    BY <2>1, <2>2, <2>3, <2>4 DEF Owned
<1>27. Thr!TypeOK /\ Owned /\ Thr!UserPrepared => Owned'
  <2> SUFFICES ASSUME Thr!TypeOK, Owned, Thr!UserPrepared PROVE Owned'
    OBVIOUS
  <2>1. Thr!FinalizedIsQuiet'
    BY DEF Thr!TypeOK, Owned, Thr!FinalizedIsQuiet, LoopOwned, SleepOwned, Lives, Thr!UserPrepared,
           Thr!settings, Thr!life, Thr!wake, Thr!fin, Thr!mutexes
  <2>2. LoopOwned'
    <3>1. loopM' # "manager" /\ (pc = "loop" => loopM' = "worker") /\ (loopM' = "worker" => pc \in {"loop", "dead"})
      <4>1. CASE concLoop
        BY <4>1 DEF Thr!UserPrepared, Owned, LoopOwned, Thr!TypeOK
      <4>2. CASE ~concLoop
        BY <4>2 DEF Thr!UserPrepared, Owned, LoopOwned, Thr!TypeOK
      <4> QED
        BY <4>1, <4>2
    <3> QED
      BY <3>1 DEF Thr!UserPrepared, LoopOwned, Thr!TypeOK
  <2>3. SleepOwned'
    BY DEF Thr!TypeOK, Owned, Thr!FinalizedIsQuiet, LoopOwned, SleepOwned, Lives, Thr!UserPrepared,
           Thr!settings, Thr!life, Thr!wake, Thr!fin, Thr!mutexes
  <2>4. Lives'
    BY DEF Thr!TypeOK, Owned, Thr!FinalizedIsQuiet, LoopOwned, SleepOwned, Lives, Thr!UserPrepared,
           Thr!settings, Thr!life, Thr!wake, Thr!fin, Thr!mutexes
  <2> QED
    BY <2>1, <2>2, <2>3, <2>4 DEF Owned
<1>28. Thr!TypeOK /\ Owned /\ Thr!CancelFinalize => Owned'
  BY DEF Thr!CancelFinalize, Thr!TypeOK, Owned, Thr!FinalizedIsQuiet, LoopOwned,
         SleepOwned, Lives, Thr!settings, Thr!life, Thr!wake, Thr!fin, Thr!mutexes
<1>29. Thr!TypeOK /\ Owned /\ Thr!Cancel => Owned'
  BY DEF Thr!Cancel, Thr!TypeOK, Owned, Thr!FinalizedIsQuiet, LoopOwned,
         SleepOwned, Lives, Thr!settings, Thr!life, Thr!wake, Thr!fin, Thr!mutexes
<1>30. Thr!TypeOK /\ Owned /\ Thr!Join => Owned'
  BY DEF Thr!Join, Thr!TypeOK, Owned, Thr!FinalizedIsQuiet, LoopOwned,
         SleepOwned, Lives, Thr!settings, Thr!life, Thr!wake, Thr!fin, Thr!mutexes
<1>31. Thr!TypeOK /\ Owned /\ Thr!Detach => Owned'
  BY DEF Thr!Detach, Thr!TypeOK, Owned, Thr!FinalizedIsQuiet, LoopOwned,
         SleepOwned, Lives, Thr!settings, Thr!life, Thr!wake, Thr!fin, Thr!mutexes
<1>32. Thr!TypeOK /\ Owned /\ UNCHANGED Thr!vars => Owned'
  BY DEF Thr!vars, Thr!TypeOK, Owned, Thr!FinalizedIsQuiet, LoopOwned,
         SleepOwned, Lives, Thr!settings, Thr!life, Thr!wake, Thr!fin, Thr!mutexes
<1> QED
  BY <1>1, <1>2, <1>3, <1>4, <1>5, <1>6, <1>7, <1>8, <1>9, <1>10, <1>11, <1>12, <1>13,
     <1>14, <1>15, <1>16, <1>17, <1>18, <1>19, <1>20, <1>21, <1>22, <1>23, <1>24, <1>25,
     <1>26, <1>27, <1>28, <1>29, <1>30, <1>31, <1>32
     DEF Thr!Next, Thr!Worker, Thr!Manager

\* A thread of core/threading is sound however its worker, its manager and its
\* clients interleave: no wakeup() is lost between the test of
\* __pending_wakeups and the wait, loop() does not run once prepare_finalize()
\* has got the loop mutex, and join() leaves no mutex locked.
THEOREM ThreadIsSound == Thr!Spec => []Thr!ThreadSound
<1>1. Thr!Init => ThreadIInv
  BY ThreadInit
<1>2. ThreadIInv /\ [Thr!Next]_(Thr!vars) => ThreadIInv'
  BY ThreadTypeStep, PendingStep, OwnedStep DEF ThreadIInv
<1>3. ThreadIInv => Thr!ThreadSound
  BY ThreadIInvSound
<1> QED
  BY <1>1, <1>2, <1>3, PTL DEF Thr!Spec

\* The thread of a behaviour that is about one.
LEMMA ThreadStep == ASSUME kind = "thread", ThreadIInv, Step PROVE ThreadIInv'
<1>1. Thread!Thr!Next \/ UNCHANGED Thr!vars
  BY DEF Step, CoreNext, ThreadingNext, Next, PtrNext, ContainerNext, ListNext, LockNext,
         CondNext, ConfigNext, Thread!Next, Thread!ThreadNext, Thread!ListNext, Thread!LifeNext,
         allVars, vars, lockOnly, threadingOnly, Thr!vars, Thr!settings, Thr!life, Thr!wake,
         Thr!fin, Thr!mutexes
<1>2. [Thr!Next]_(Thr!vars)
  BY <1>1, SameThread
<1>. QED  BY <1>2, ThreadTypeStep, PendingStep, OwnedStep DEF ThreadIInv

\* Threads: no wake-up is lost, a thread prepared for finalization is quiet, and
\* one that was joined holds none of its mutexes.
THEOREM ThreadsAreSound == LibrariesSpec => []ThreadSound
<1>. DEFINE Inv == kind = "thread" => ThreadIInv
<1>1. AllInit => Inv
  <2>. SUFFICES ASSUME Thread!Thr!Init PROVE ThreadIInv
    BY DEF AllInit, Init, Thread!Init
  <2>. QED  BY SameThread, ThreadInit
<1>2. Inv /\ Step => Inv'
  BY ThreadStep, KindKept
<1>3. Inv => ThreadSound
  BY SameThread, ThreadIInvSound DEF ThreadSound, Thread!ThreadSound
<1>. QED  BY <1>1, <1>2, <1>3, PTL DEF LibrariesSpec, Step

-----------------------------------------------------------------------------
(* The life of a list of threads. *)

Listed == 1 .. ListLength
LifeTypeOK ==
    /\ op \in {"none", "init", "undo", "finalize", "force_finalize", "stop", "force_stop",
               "prepare", "force_prepare"}
    /\ pos \in 0 .. ListLength + 1 /\ holdPos \in 0 .. ListLength + 1
    /\ inited \in SUBSET Listed /\ aspects \in SUBSET Listed
    /\ running \in SUBSET Listed /\ held \in SUBSET Listed
    /\ hold \in {"none", "hold", "release", "undo"}

\* How far an operation has come: what is before or behind its position is done.
AllOrNothing == \/ inited = Listed /\ aspects = Listed
                \/ inited = {} /\ aspects \subseteq leftover
                \/ \E k \in leftover : inited = 1 .. k - 1 /\ aspects = inited \cup {k}
Initialised ==
    /\ op \in {"none", "stop", "force_stop", "prepare", "force_prepare"} => AllOrNothing
    /\ op = "init" => pos >= 1 /\ inited = 1 .. pos - 1 /\ aspects = 1 .. pos - 1
    /\ op \in {"undo", "finalize", "force_finalize"} =>
          inited \subseteq 1 .. pos /\ aspects \subseteq (1 .. pos) \cup leftover
Stopped ==
    /\ op = "force_stop" => running \subseteq 1 .. pos
    /\ op = "force_finalize" => running = {}
    /\ op = "none" /\ last = [op |-> "force_stop", end |-> "ok"] => running = {} /\ inited = {}
HeldTogether ==
    /\ hold = "none" => held \in {{}, Listed}
    /\ hold = "hold" => holdPos >= 1 /\ held \in {Listed, 1 .. holdPos - 1}
    /\ hold = "release" => holdPos >= 1 /\ held \in {{}, holdPos .. ListLength}
    /\ hold = "undo" => held \subseteq holdPos .. ListLength

LifeIInv == LifeTypeOK /\ Initialised /\ Stopped /\ HeldTogether

\* A list begins with threads nobody has done anything to.
LEMMA LifeInit == AllInit /\ kind = "lifecycle" => LifeIInv
<1>. SUFFICES ASSUME Thread!Life!Init PROVE LifeIInv
  BY DEF AllInit, Init, Thread!Init
<1>. QED  BY ListAssumption
          DEF Thread!Life!Init, LifeIInv, LifeTypeOK, Initialised, Stopped, HeldTogether,
              AllOrNothing

\* The steps of set_prepfin_hold(): they touch nothing else.
LEMMA HoldStep ==
    ASSUME LifeIInv,
           (\E value \in BOOLEAN : Thread!Life!BeginHold(value))
              \/ Thread!Life!HoldOne \/ Thread!Life!UndoHold \/ Thread!Life!EndHold
    PROVE  LifeIInv'
<1>0. LifeTypeOK /\ Initialised /\ Stopped /\ HeldTogether /\ ListLength \in Nat
  BY ListAssumption DEF LifeIInv
<1>1. UNCHANGED <<op, pos, last, aspects, inited, running, leftover>>
  BY DEF Thread!Life!BeginHold, Thread!Life!HoldOne, Thread!Life!UndoHold, Thread!Life!EndHold,
         Thread!Life!workVars
<1>2. Initialised' /\ Stopped'
  BY <1>0, <1>1 DEF Initialised, Stopped, AllOrNothing
<1>3. /\ holdPos' \in 0 .. ListLength + 1 /\ held' \in SUBSET Listed
      /\ hold' \in {"none", "hold", "release", "undo"} /\ HeldTogether'
  <2>. USE DEF LifeTypeOK, HeldTogether, Listed
  <2>1. CASE \E value \in BOOLEAN : Thread!Life!BeginHold(value)
    BY <1>0, <2>1 DEF Thread!Life!BeginHold, Thread!Life!workVars
  <2>2. CASE Thread!Life!HoldOne
    <3>1. CASE hold = "hold" /\ holdPos \in prepared
      BY <1>0, <2>2, <3>1 DEF Thread!Life!HoldOne
    <3>2. CASE hold = "hold" /\ holdPos \notin prepared
      <4>1. held' = held \cup {holdPos} /\ holdPos' = holdPos + 1 /\ hold' = hold
            /\ holdPos <= ListLength
        BY <2>2, <3>2 DEF Thread!Life!HoldOne
      <4>2. (1 .. holdPos - 1) \cup {holdPos} = 1 .. holdPos' - 1
        BY <1>0, <3>2, <4>1
      <4>. QED  BY <1>0, <3>2, <4>1, <4>2
    <3>3. CASE hold = "release"
      <4>1. held' = held \ {holdPos} /\ holdPos' = holdPos + 1 /\ hold' = hold
            /\ holdPos <= ListLength
        BY <2>2, <3>3 DEF Thread!Life!HoldOne
      <4>2. (holdPos .. ListLength) \ {holdPos} = holdPos' .. ListLength
        BY <1>0, <3>3, <4>1
      <4>. QED  BY <1>0, <3>3, <4>1, <4>2
    <3>. QED  BY <2>2, <3>1, <3>2, <3>3 DEF Thread!Life!HoldOne
  <2>3. CASE Thread!Life!UndoHold
    BY <1>0, <2>3 DEF Thread!Life!UndoHold
  <2>4. CASE Thread!Life!EndHold
    BY <1>0, <2>4 DEF Thread!Life!EndHold, Thread!Life!workVars
  <2>. QED  BY <2>1, <2>2, <2>3, <2>4
<1>4. LifeTypeOK'
  BY <1>0, <1>1, <1>3 DEF LifeTypeOK
<1>. QED  BY <1>2, <1>3, <1>4 DEF LifeIInv

\* The steps of the manager thread: each operation goes over the list to its end.
LEMMA OperationStep ==
    ASSUME LifeIInv, Thread!Life!Next, UNCHANGED <<hold, holdPos, held>>
    PROVE  LifeIInv'
<1>0. LifeTypeOK /\ Initialised /\ Stopped /\ HeldTogether /\ ListLength \in Nat
  BY ListAssumption DEF LifeIInv
<1>1. HeldTogether'
  BY <1>0 DEF HeldTogether
<1>. USE DEF LifeTypeOK, Initialised, Stopped, AllOrNothing, Listed, Thread!Life!List,
             Thread!Life!Idle, Thread!Life!Begin, Thread!Life!Continue, Thread!Life!End,
             Thread!Life!workVars
<1>2. ASSUME LifeTypeOK', Initialised', Stopped' PROVE LifeIInv'
  BY <1>1, <1>2 DEF LifeIInv
<1>3. CASE Thread!Life!BeginInit
  BY <1>0, <1>2, <1>3 DEF Thread!Life!BeginInit
<1>4. CASE Thread!Life!InitOne
  <2>1. /\ op = "init" /\ pos \in 1 .. ListLength /\ inited = 1 .. pos - 1 /\ aspects = 1 .. pos - 1
        /\ UNCHANGED <<running, held>>
    BY <1>0, <1>4 DEF Thread!Life!InitOne
  <2>2. CASE /\ aspects' = aspects \cup {pos} /\ inited' = inited \cup {pos}
             /\ op' = "init" /\ pos' = pos + 1 /\ UNCHANGED <<leftover, last>>
    <3>1. (1 .. pos - 1) \cup {pos} = 1 .. pos' - 1 /\ 1 .. pos \subseteq Listed
      BY <1>0, <2>1, <2>2
    <3>2. LifeTypeOK'
      BY <1>0, <2>1, <2>2, <3>1
    <3>3. Initialised' /\ Stopped'
      BY <2>1, <2>2, <3>1
    <3>. QED  BY <1>2, <3>2, <3>3
  <2>3. CASE UNCHANGED <<aspects, inited, leftover, last>> /\ op' = "undo" /\ pos' = pos - 1
    <3>1. LifeTypeOK'
      BY <1>0, <2>1, <2>3
    <3>2. Initialised' /\ Stopped'
      BY <2>1, <2>3
    <3>. QED  BY <1>2, <3>1, <3>2
  <2>4. CASE /\ aspects' = aspects \cup {pos} /\ leftover' = leftover \cup {pos}
             /\ inited' = inited /\ op' = "none" /\ pos' = 0
             /\ last' = [op |-> "init", end |-> "escaped"]
    <3>1. LifeTypeOK'
      BY <1>0, <2>1, <2>4
    <3>2. pos \in leftover' /\ inited' = 1 .. pos - 1 /\ aspects' = inited' \cup {pos}
      BY <2>1, <2>4
    <3>3. Initialised' /\ Stopped'
      BY <2>4, <3>2
    <3>. QED  BY <1>2, <3>1, <3>3
  <2>. QED  BY <1>4, <2>2, <2>3, <2>4 DEF Thread!Life!InitOne
<1>5. CASE Thread!Life!EndInit
  BY <1>0, <1>2, <1>5 DEF Thread!Life!EndInit
<1>6. CASE Thread!Life!BeginFinalize
  BY <1>0, <1>2, <1>6 DEF Thread!Life!BeginFinalize
<1>7. CASE Thread!Life!FinalizeOne
  <2>1. /\ op \in {"undo", "finalize", "force_finalize"} /\ pos \in 1 .. ListLength + 1
        /\ op' = op /\ pos' = pos - 1 /\ inited' = inited \ {pos}
        /\ UNCHANGED <<running, held, last>>
    BY <1>0, <1>7 DEF Thread!Life!FinalizeOne
  <2>2. /\ aspects' \subseteq aspects /\ leftover \subseteq leftover'
        /\ pos \notin aspects' \/ pos \in leftover'
    BY <1>7 DEF Thread!Life!FinalizeOne
  <2>3. LifeTypeOK'
    BY <1>0, <2>1, <2>2
  <2>4. (1 .. pos) \ {pos} = 1 .. pos'
    BY <2>1
  <2>5. inited' \subseteq 1 .. pos' /\ aspects' \subseteq (1 .. pos') \cup leftover'
    BY <1>0, <2>1, <2>2, <2>4
  <2>6. Initialised' /\ Stopped'
    BY <1>0, <2>1, <2>5
  <2>. QED  BY <1>2, <2>3, <2>6
<1>8. CASE Thread!Life!EndFinalize
  <2>1. inited = {} /\ aspects \subseteq leftover
    BY <1>0, <1>8 DEF Thread!Life!EndFinalize
  <2>2. /\ op' = "none" /\ pos' = 0 /\ UNCHANGED <<aspects, inited, running, held, leftover>>
        /\ last' = [op |-> "force_stop", end |-> "ok"] => running = {}
    <3>1. op = "force_finalize" => running = {}
      BY <1>0
    <3>2. \/ op = "finalize" /\ \E end : Thread!Life!End("finalize", end)
          \/ op = "undo" /\ Thread!Life!End("init", "threw")
          \/ op = "force_finalize" /\ Thread!Life!End("force_stop", "ok")
      BY <1>8 DEF Thread!Life!EndFinalize
    <3>3. op # "force_finalize" => last' # [op |-> "force_stop", end |-> "ok"]
      BY <3>2
    <3>4. op' = "none" /\ pos' = 0
      BY <3>2
    <3>5. UNCHANGED <<aspects, inited, running, held, leftover>>
      BY <1>8 DEF Thread!Life!EndFinalize
    <3>. QED  BY <3>1, <3>3, <3>4, <3>5
  <2>3. LifeTypeOK'
    BY <1>0, <2>2
  <2>4. Initialised' /\ Stopped'
    BY <2>1, <2>2
  <2>. QED  BY <1>2, <2>3, <2>4
<1>9. CASE Thread!Life!Start \/ Thread!Life!CancelAndJoin
  <2>1. /\ op = "none" /\ op' = "none" /\ pos' = 0 /\ running' \in SUBSET Listed
        /\ UNCHANGED <<aspects, inited, held, leftover>>
        /\ last' = [op |-> "start", end |-> "ok"] \/ last' = [op |-> "join", end |-> "ok"]
    BY <1>9 DEF Thread!Life!Start, Thread!Life!CancelAndJoin
  <2>2. LifeTypeOK'
    BY <1>0, <2>1
  <2>3. Initialised' /\ Stopped'
    BY <1>0, <2>1
  <2>. QED  BY <1>2, <2>2, <2>3
<1>10. CASE \/ Thread!Life!BeginStop
             \/ \E name \in {"prepare", "force_prepare"} : Thread!Life!BeginPrepare(name)
  <2>1. /\ op = "none" /\ op' \in {"stop", "prepare", "force_prepare"} /\ pos' = ListLength
        /\ UNCHANGED <<aspects, inited, running, held, leftover, last>>
    BY <1>10 DEF Thread!Life!BeginStop, Thread!Life!BeginPrepare
  <2>2. LifeTypeOK'
    BY <1>0, <2>1
  <2>3. Initialised' /\ Stopped'
    BY <1>0, <2>1
  <2>. QED  BY <1>2, <2>2, <2>3
<1>11. CASE Thread!Life!StopOne
  BY <1>0, <1>2, <1>11 DEF Thread!Life!StopOne
<1>12. CASE Thread!Life!EndStop
  BY <1>0, <1>2, <1>12 DEF Thread!Life!EndStop
<1>13. CASE Thread!Life!PrepareOne
  BY <1>0, <1>2, <1>13 DEF Thread!Life!PrepareOne
<1>14. CASE Thread!Life!EndPrepare
  BY <1>0, <1>2, <1>14 DEF Thread!Life!EndPrepare
<1>15. CASE Thread!Life!cancel_finalize
  BY <1>0, <1>2, <1>15 DEF Thread!Life!cancel_finalize
<1>16. CASE (\E value \in BOOLEAN : Thread!Life!BeginHold(value))
              \/ Thread!Life!HoldOne \/ Thread!Life!UndoHold \/ Thread!Life!EndHold
  BY <1>16, HoldStep
<1>. QED  BY <1>3, <1>4, <1>5, <1>6, <1>7, <1>8, <1>9, <1>10, <1>11, <1>12, <1>13, <1>14,
             <1>15, <1>16 DEF Thread!Life!Next

\* The operations on a list, and set_prepfin_hold() at the same time.
LEMMA LifeStep == ASSUME kind = "lifecycle", LifeIInv, Step PROVE LifeIInv'
<1>1. Thread!Life!Next \/ UNCHANGED allVars
  BY DEF Step, CoreNext, ThreadingNext, Next, PtrNext, ContainerNext, ListNext, LockNext,
         CondNext, ConfigNext, Thread!Next, Thread!ThreadNext, Thread!ListNext, Thread!LifeNext
<1>2. CASE UNCHANGED allVars
  BY <1>2 DEF allVars, vars, threadingOnly, LifeIInv, LifeTypeOK, Initialised, Stopped,
              HeldTogether, AllOrNothing
<1>3. CASE (\E value \in BOOLEAN : Thread!Life!BeginHold(value))
              \/ Thread!Life!HoldOne \/ Thread!Life!UndoHold \/ Thread!Life!EndHold
  BY <1>3, HoldStep
<1>4. ASSUME Thread!Life!Next,
             ~((\E value \in BOOLEAN : Thread!Life!BeginHold(value))
                  \/ Thread!Life!HoldOne \/ Thread!Life!UndoHold \/ Thread!Life!EndHold)
      PROVE  UNCHANGED <<hold, holdPos, held>>
  BY <1>4 DEF Thread!Life!Next, Thread!Life!BeginInit, Thread!Life!InitOne, Thread!Life!EndInit,
              Thread!Life!BeginFinalize, Thread!Life!FinalizeOne, Thread!Life!EndFinalize,
              Thread!Life!Start, Thread!Life!CancelAndJoin, Thread!Life!BeginStop,
              Thread!Life!StopOne, Thread!Life!EndStop, Thread!Life!BeginPrepare,
              Thread!Life!PrepareOne, Thread!Life!EndPrepare, Thread!Life!cancel_finalize,
              Thread!Life!workVars
<1>. QED  BY <1>1, <1>2, <1>3, <1>4, OperationStep

\* A list of threads is one: initialised as a whole or not at all, unless the
\* finalizer has thrown for the thread that failed, which leaves exactly those
\* before it initialised; held together or not; and not running any more after a
\* force_stop().
THEOREM ListsAreOne == LibrariesSpec => []ListIsOne
<1>. DEFINE Inv == kind = "lifecycle" => LifeIInv
<1>1. AllInit => Inv
  BY LifeInit
<1>2. Inv /\ Step => Inv'
  BY LifeStep, KindKept
<1>3. Inv => ListIsOne
  BY DEF ListIsOne, Thread!ListIsOne, Thread!Life!ListIsOne, Thread!Life!InitAllOrNothing,
         Thread!Life!HoldAllOrNothing, Thread!Life!ForceStopStops, Thread!Life!Idle,
         Thread!Life!HalfInitialised, Thread!Life!List, LifeIInv, LifeTypeOK, Initialised, AllOrNothing, Stopped,
         HeldTogether, Listed
<1>. QED  BY <1>1, <1>2, <1>3, PTL DEF LibrariesSpec, Step

-----------------------------------------------------------------------------
(* Rounds of a list of threads. *)

BarrierPtr == Nat
Points == {"asleep", "sleep", "loop", "done", "go", "in", "out", "stuck"}
ListTypeOK ==
    /\ members \in SUBSET Threads /\ bad \in SUBSET Threads
    /\ badBars \in Seq(SUBSET Threads)
    /\ mpc \in {"idle", "wait", "recover"} /\ entry \in Nat /\ changed \in BOOLEAN
    /\ mpc = "recover" => entry >= 1
    /\ bar \in [Threads -> BarrierPtr] /\ at \in [Threads -> BarrierPtr]
    /\ wpc \in [Threads -> Points] /\ pend \in [Threads -> Nat]

\* Who is flagged can be recovered.
Recoverable == \A t \in bad : \E i \in DOMAIN badBars : t \in badBars[i]

\* The barrier is for the threads that are not flagged, except while a recovery
\* that has unflagged one has not ended.
Counted == (mpc = "recover" /\ changed = TRUE) \/ count = 1 + Cardinality(members \ bad)

\* Who is at the barrier: the main thread in a round, and threads that wait there.
Cur == Thread!List!Cur
Null == Thread!List!Null
Left == Thread!List!Left
Inside ==
    /\ inside \subseteq {Main} \cup {t \in Threads : at[t] = Cur /\ wpc[t] = "in"}
    /\ mpc # "wait" => inside = {}

\* What a thread has at each point of run(): none of the pointers without a
\* pending wake-up, a loop() or a wait() that goes with it.
AtItsPoint(t) ==
    /\ wpc[t] = "asleep" => pend[t] = 0 /\ bar[t] = Null
    /\ bar[t] # Null => pend[t] > 0 \/ wpc[t] \in {"loop", "done"}
    /\ at[t] # Null => wpc[t] \in {"go", "in", "out", "stuck"}
    /\ wpc[t] = "go" => at[t] # Null
    /\ at[t] = Cur => wpc[t] \in {"go", "in"} /\ bar[t] # Cur
    /\ bar[t] # Left /\ (at[t] = Left => wpc[t] = "out")

\* The barrier is with exactly the threads of the round.
Unflagged(t) == mpc = "wait" /\ t \in members \ bad
HasBarrier(t) == (bar[t] = Cur \/ at[t] = Cur) <=> Unflagged(t)

\* A thread that only the list wakes: at rest between two rounds, and in a round
\* it has yet to run, runs, or has run and comes to the barrier.
AtRest(t) == pend[t] = 0 /\ bar[t] = Null /\ wpc[t] \notin {"loop", "done"}
Woken(t) ==
    \/ pend[t] = 1 /\ bar[t] = Cur /\ wpc[t] \notin {"loop", "done"}
    \/ pend[t] = 0 /\ bar[t] = Cur /\ wpc[t] = "loop"
    \/ pend[t] = 0 /\ bar[t] = Cur /\ wpc[t] = "done" /\ t \in did
    \/ pend[t] = 0 /\ bar[t] = Null /\ at[t] = Cur /\ t \in did
OnlyByList(t) ==
    t \notin bad \cup plain => IF mpc = "wait" /\ t \in members THEN Woken(t) ELSE AtRest(t)

Member(t) == AtItsPoint(t) /\ HasBarrier(t) /\ OnlyByList(t)

ListIInv == ListTypeOK /\ Recoverable /\ Counted /\ Inside /\ \A t \in Threads : Member(t)

\* There is one cardinality.
LEMMA SameCardinality == ASSUME NEW S PROVE Thread!List!Cardinality(S) = Cardinality(S)
  BY DEF Thread!List!Cardinality, Cardinality

\* The list is made with one member that waits for a wake-up.
LEMMA ListInit == AllInit /\ kind = "list" => ListIInv
<1>. SUFFICES ASSUME Thread!List!Init PROVE ListIInv
  BY DEF AllInit, Init, Thread!Init
<1>. USE DEF Thread!List!Init
<1>1. PICK t \in Threads : members = {t}
  OBVIOUS
<1>2. Cardinality(members \ bad) = 1
  <2>1. members \ bad = {t}
    BY <1>1
  <2>. QED  BY <2>1, FS_Singleton
<1>3. <<>> \in Seq(SUBSET Threads)
  OBVIOUS
<1>4. ListTypeOK
  BY <1>1, <1>3 DEF ListTypeOK, BarrierPtr, Points, Thread!List!Null
<1>5. Recoverable /\ Counted /\ Inside
  BY <1>2 DEF Recoverable, Counted, Inside
<1>6. ASSUME NEW u \in Threads PROVE Member(u)
  BY DEF Member, AtItsPoint, HasBarrier, Unflagged, OnlyByList, AtRest, Cur, Null, Left,
         Thread!List!Cur, Thread!List!Null, Thread!List!Left
<1>. QED  BY <1>4, <1>5, <1>6 DEF ListIInv

\* A new barrier is for the unflagged members; nobody has a pointer to it yet.
Renamed(p, q) == (q = Null <=> p = Null) /\ q # Cur /\ (q = Left => p = Left)
LEMMA NewBarrierFacts ==
    ASSUME ListTypeOK, NEW ms, NEW flagged, NEW old \in BarrierPtr, old \notin {Null, Cur, Left},
           Thread!List!NewBarrier(ms, flagged, old)
    PROVE  /\ count' = 1 + Cardinality(ms \ flagged) /\ inside' = {}
           /\ bar' \in [Threads -> BarrierPtr] /\ at' \in [Threads -> BarrierPtr]
           /\ \A t \in Threads : Renamed(bar[t], bar'[t]) /\ Renamed(at[t], at'[t])
  BY SameCardinality
     DEF Thread!List!NewBarrier, Thread!List!Rename, ListTypeOK, Cur, Null, Left, Renamed, BarrierPtr,
         Thread!List!Cur, Thread!List!Null, Thread!List!Left

\* What is left when an element is removed from a sequence.
LEMMA RemoveAtFacts ==
    ASSUME NEW S, NEW s \in Seq(S), NEW i \in 1 .. Len(s)
    PROVE  LET r == Thread!List!RemoveAt(s, i)
           IN /\ r \in Seq(S)
              /\ \A j \in DOMAIN s \ {i} : \E k \in DOMAIN r : r[k] = s[j]
<1>. DEFINE front == SubSeq(s, 1, i - 1)
            back == SubSeq(s, i + 1, Len(s))
            r == front \o back
            n == Len(s)
<1>0. n \in Nat /\ DOMAIN s = 1 .. n /\ i \in 1 .. n /\ \A j \in 1 .. n : s[j] \in S
  BY LenProperties, ElementOfSeq
<1>. HIDE DEF n
<1>1. /\ front \in Seq(S) /\ Len(front) = i - 1
      /\ \A j \in 1 .. i - 1 : front[j] = s[j]
  <2>1. \A j \in 1 .. i - 1 : s[j] \in S
    BY <1>0
  <2>2. /\ front \in Seq(S)
        /\ Len(front) = IF 1 <= i - 1 THEN (i - 1) - 1 + 1 ELSE 0
        /\ \A j \in 1 .. (i - 1) - 1 + 1 : front[j] = s[1 + j - 1]
    BY <1>0, <2>1, SubSeqProperties
  <2>. QED  BY <1>0, <2>2
<1>2. /\ back \in Seq(S) /\ Len(back) = n - i
      /\ \A j \in i + 1 .. n : back[j - i] = s[j]
  <2>1. /\ back \in Seq(S)
        /\ Len(back) = IF i + 1 <= n THEN n - (i + 1) + 1 ELSE 0
        /\ \A j \in 1 .. n - (i + 1) + 1 : back[j] = s[(i + 1) + j - 1]
    BY <1>0, SubSeqProperties DEF n
  <2>2. ASSUME NEW j \in i + 1 .. n PROVE back[j - i] = s[j]
    <3>1. j - i \in 1 .. n - (i + 1) + 1 /\ (i + 1) + (j - i) - 1 = j
      BY <1>0
    <3>2. back[j - i] = s[(i + 1) + (j - i) - 1]
      BY <2>1, <3>1
    <3>. QED  BY <3>1, <3>2
  <2>3. Len(back) = n - i
    BY <1>0, <2>1
  <2>. QED  BY <2>1, <2>2, <2>3
<1>3. /\ r \in Seq(S) /\ Len(r) = n - 1
      /\ \A j \in 1 .. i - 1 : r[j] = s[j]
      /\ \A j \in i + 1 .. n : r[j - 1] = s[j]
  <2>1. /\ r \in Seq(S) /\ Len(r) = Len(front) + Len(back)
        /\ \A j \in 1 .. Len(front) + Len(back) :
              r[j] = IF j <= Len(front) THEN front[j] ELSE back[j - Len(front)]
    BY <1>1, <1>2, ConcatProperties
  <2>. HIDE DEF front, back, r
  <2>2. /\ Len(r) = n - 1
        /\ \A j \in 1 .. n - 1 : r[j] = IF j <= i - 1 THEN front[j] ELSE back[j - (i - 1)]
    BY <1>0, <1>1, <1>2, <2>1
  <2>3. ASSUME NEW j \in 1 .. i - 1 PROVE r[j] = s[j]
    BY <1>0, <1>1, <2>2
  <2>4. ASSUME NEW j \in i + 1 .. n PROVE r[j - 1] = s[j]
    <3>1. j - 1 \in 1 .. n - 1 /\ ~(j - 1 <= i - 1) /\ (j - 1) - (i - 1) = j - i
      BY <1>0
    <3>2. r[j - 1] = back[(j - 1) - (i - 1)]
      BY <2>2, <3>1
    <3>. QED  BY <1>2, <3>1, <3>2
  <2>. QED  BY <2>1, <2>2, <2>3, <2>4
<1>4. DOMAIN r = 1 .. n - 1
  BY <1>3, LenProperties
<1>5. Thread!List!RemoveAt(s, i) = r
  BY DEF Thread!List!RemoveAt
<1>. HIDE DEF front, back, r, n
<1>6. ASSUME NEW j \in DOMAIN s \ {i} PROVE \E k \in DOMAIN r : r[k] = s[j]
  <2>1. CASE j < i
    BY <1>0, <1>3, <1>4, <1>6, <2>1
  <2>2. CASE j > i
    <3>1. j - 1 \in DOMAIN r /\ r[j - 1] = s[j]
      BY <1>0, <1>3, <1>4, <1>6, <2>2
    <3>. QED  BY <3>1
  <2>. QED  BY <1>0, <1>6, <2>1, <2>2
<1>. QED  BY <1>3, <1>5, <1>6

\* A thread that no step has touched.
SameOf(t) ==
    /\ wpc'[t] = wpc[t] /\ pend'[t] = pend[t] /\ bar'[t] = bar[t] /\ at'[t] = at[t]
    /\ t \in plain' <=> t \in plain
    /\ t \in bad' <=> t \in bad
    /\ t \in did => t \in did'
LEMMA MemberKept ==
    ASSUME NEW t \in Threads, Member(t), SameOf(t), UNCHANGED <<mpc, members>>
    PROVE  Member(t)'
  BY DEF Member, AtItsPoint, HasBarrier, Unflagged, OnlyByList, AtRest, Woken, SameOf, Cur, Null, Left

\* The steps of the member threads: the barrier is taken after loop() has returned.
LEMMA MemberStep ==
    ASSUME ListIInv, NEW t \in Threads,
           Thread!List!Step(t) \/ Thread!List!Wakeup(t) \/ Thread!List!UseDeleted(t)
    PROVE  ListIInv'
<1>0. ListTypeOK /\ Recoverable /\ Counted /\ Inside /\ Member(t)
  BY DEF ListIInv
<1>1. UNCHANGED <<members, bad, badBars, count, mpc, entry, changed>>
  BY DEF Thread!List!Step, Thread!List!TestPending, Thread!List!LoopReturns, Thread!List!Arrive,
         Thread!List!TakeBarrier, Thread!List!Leave, Thread!List!Wakeup, Thread!List!UseDeleted,
         Thread!List!list, Thread!List!barriers, Thread!List!main
<1>2. Recoverable' /\ Counted'
  BY <1>0, <1>1 DEF Recoverable, Counted
<1>. DEFINE Types == /\ wpc' \in [Threads -> Points] /\ pend' \in [Threads -> Nat]
                     /\ bar' \in [Threads -> BarrierPtr] /\ at' \in [Threads -> BarrierPtr]
            Others == \A u \in Threads \ {t} : SameOf(u)
<1>3. Types /\ Others /\ Inside' /\ Member(t)'
  <2>. USE <1>0, <1>1 DEF ListTypeOK, Inside, BarrierPtr, Points, Cur, Null, Left, Thread!List!Cur,
           Thread!List!Null, Thread!List!Left, Thread!List!list, Thread!List!barriers, Thread!List!main,
           Thread!List!wakeups, SameOf
  <2>. USE DEF Member, AtItsPoint, HasBarrier, Unflagged, OnlyByList, AtRest, Woken
  <2>1. CASE Thread!List!TestPending(t)
    <3>1. wpc[t] = "sleep" /\ UNCHANGED <<inside, bar, at, did>>
      BY <2>1 DEF Thread!List!TestPending
    <3>2. CASE pend[t] > 0
      <4>1. /\ pend' = [pend EXCEPT ![t] = @ - 1] /\ wpc' = [wpc EXCEPT ![t] = "loop"]
            /\ plain' = plain
        BY <2>1, <3>2 DEF Thread!List!TestPending
      <4>. QED  BY <3>1, <3>2, <4>1
    <3>3. CASE ~(pend[t] > 0)
      <4>1. wpc' = [wpc EXCEPT ![t] = "asleep"] /\ plain' = plain \ {t} /\ pend' = pend
        BY <2>1, <3>3 DEF Thread!List!TestPending
      <4>2. pend[t] = 0 /\ bar[t] = Null /\ at[t] = Null
        BY <3>1, <3>3
      <4>3. ~Unflagged(t)
        BY <4>2
      <4>. QED  BY <3>1, <4>1, <4>2, <4>3
    <3>. QED  BY <3>2, <3>3
  <2>2. CASE Thread!List!LoopReturns(t)
    BY <2>2 DEF Thread!List!LoopReturns
  <2>3. CASE Thread!List!TakeBarrier(t)
    BY <2>3 DEF Thread!List!TakeBarrier
  <2>4. CASE Thread!List!Arrive(t)
    <3>1. CASE Thread!List!IsSpent(at[t])
      <4>1. /\ at[t] # Cur /\ wpc[t] = "go"
            /\ wpc' = [wpc EXCEPT ![t] = "sleep"] /\ at' = [at EXCEPT ![t] = Thread!List!Null]
            /\ UNCHANGED <<inside, pend, bar, plain, did>>
        BY <2>4, <3>1 DEF Thread!List!Arrive, Thread!List!IsSpent, Thread!List!Left
      <4>. QED  BY <4>1
    <3>2. CASE ~Thread!List!IsSpent(at[t])
      <4>1. /\ wpc[t] = "go" /\ wpc' = [wpc EXCEPT ![t] = "in"] /\ inside' = inside \cup {t}
            /\ at[t] = Cur /\ UNCHANGED <<at, pend, bar, plain, did>>
        BY <2>4, <3>2 DEF Thread!List!Arrive, Thread!List!IsSpent, Thread!List!Left, Thread!List!Gone
      <4>. QED  BY <4>1
    <3>. QED  BY <3>1, <3>2
  <2>5. CASE Thread!List!Leave(t)
    BY <2>5 DEF Thread!List!Leave, Thread!List!IsSpent, Thread!List!Left
  <2>6. CASE Thread!List!Wakeup(t)
    BY <2>6 DEF Thread!List!Wakeup, Thread!List!Rouse
  <2>7. CASE Thread!List!UseDeleted(t)
    BY <2>7 DEF Thread!List!UseDeleted, Thread!List!worker
  <2>. QED  BY <2>1, <2>2, <2>3, <2>4, <2>5, <2>6, <2>7 DEF Thread!List!Step
<1>4. ListTypeOK'
  BY <1>0, <1>1, <1>3 DEF ListTypeOK
<1>5. \A u \in Threads \ {t} : Member(u)'
  BY <1>1, <1>3, MemberKept DEF ListIInv
<1>. QED  BY <1>2, <1>3, <1>4, <1>5 DEF ListIInv

\* Between two rounds, a new barrier and new flags leave every thread as it should
\* be, when each that is not flagged, and that only the list wakes, is at rest.
LEMMA MemberRenamed ==
    ASSUME NEW t \in Threads, AtItsPoint(t), mpc' # "wait",
           Renamed(bar[t], bar'[t]), Renamed(at[t], at'[t]), pend'[t] = pend[t],
           wpc'[t] = wpc[t] \/ (wpc[t] = "in" /\ wpc'[t] = "stuck"),
           plain' = plain, t \notin bad' \cup plain => AtRest(t)
    PROVE  Member(t)'
  BY DEF Member, AtItsPoint, HasBarrier, Unflagged, OnlyByList, AtRest, Renamed, Cur, Null, Left

\* A thread is added or removed: the barrier is made anew.
LEMMA ChangeStep ==
    ASSUME ListIInv, NEW t \in Threads,
           Thread!List!AddThread(t) \/ Thread!List!RemoveThread(t)
    PROVE  ListIInv'
<1>0. ListTypeOK /\ Recoverable /\ \A u \in Threads : Member(u)
  BY DEF ListIInv
<1>1. /\ mpc = "idle" /\ members' \in SUBSET Threads
      /\ Thread!List!NewBarrier(members', bad, Thread!List!Gone)
      /\ UNCHANGED <<bad, badBars, wpc, pend, plain, did, mpc, entry, changed>>
  BY <1>0 DEF Thread!List!AddThread, Thread!List!RemoveThread, Thread!List!main,
              Thread!List!wakeups, ListTypeOK
<1>2. /\ count' = 1 + Cardinality(members' \ bad) /\ inside' = {}
      /\ bar' \in [Threads -> BarrierPtr] /\ at' \in [Threads -> BarrierPtr]
      /\ \A u \in Threads : Renamed(bar[u], bar'[u]) /\ Renamed(at[u], at'[u])
  <2>1. Thread!List!Gone \in BarrierPtr /\ Thread!List!Gone \notin {Null, Cur, Left}
    BY DEF BarrierPtr, Cur, Null, Left, Thread!List!Cur, Thread!List!Gone, Thread!List!Null,
           Thread!List!Left
  <2>. QED  BY <1>0, <1>1, <2>1, NewBarrierFacts
<1>3. ASSUME NEW u \in Threads PROVE Member(u)'
  <2>1. AtItsPoint(u) /\ (u \notin bad \cup plain => AtRest(u))
    BY <1>0, <1>1 DEF Member, OnlyByList
  <2>. QED  BY <1>1, <1>2, <2>1, MemberRenamed
<1>. QED  BY <1>0, <1>1, <1>2, <1>3 DEF ListIInv, ListTypeOK, Recoverable, Counted, Inside

\* wakeup_and_wait() hands the barrier to the unflagged members.
LEMMA WakeupStep == ASSUME ListIInv, Thread!List!WakeupAndWait PROVE ListIInv'
<1>0. ListTypeOK /\ Recoverable /\ Counted /\ Inside /\ \A t \in Threads : Member(t)
  BY DEF ListIInv
<1>1. /\ mpc = "idle" /\ mpc' = "wait" /\ inside' = inside \cup {Main} /\ did' = {}
      /\ bar' = [t \in Threads |-> IF t \in members \ bad THEN Cur ELSE bar[t]]
      /\ pend' = [t \in Threads |-> IF t \in members \ bad THEN pend[t] + 1 ELSE pend[t]]
      /\ wpc' = [t \in Threads |-> IF t \in members \ bad /\ wpc[t] = "asleep" THEN "sleep"
                                   ELSE wpc[t]]
      /\ UNCHANGED <<members, bad, badBars, count, at, plain, entry, changed>>
  BY DEF Thread!List!WakeupAndWait, Thread!List!Rouse, Thread!List!list, Cur
<1>2. ListTypeOK'
  BY <1>0, <1>1 DEF ListTypeOK, BarrierPtr, Points, Cur, Thread!List!Cur
<1>3. Recoverable' /\ Counted'
  BY <1>0, <1>1 DEF Recoverable, Counted
<1>4. ASSUME NEW t \in Threads PROVE Member(t)'
  <2>1. Member(t) /\ ListTypeOK
    BY <1>0
  <2>. USE <1>1 DEF ListTypeOK, Member, AtItsPoint, HasBarrier, Unflagged, OnlyByList, AtRest, Woken,
                    Cur, Null, Thread!List!Cur, Thread!List!Null, Thread!List!Left
  <2>2. CASE t \in members \ bad
    <3>1. /\ bar'[t] = Cur /\ pend'[t] = pend[t] + 1 /\ at'[t] = at[t]
          /\ wpc'[t] = IF wpc[t] = "asleep" THEN "sleep" ELSE wpc[t]
      BY <2>2
    <3>2. pend[t] \in Nat /\ pend'[t] > 0 /\ at[t] # Cur /\ bar[t] # Left
      BY <2>1, <3>1
    <3>3. AtItsPoint(t)'
      <4>1. wpc'[t] # "asleep" /\ (wpc[t] # "asleep" => wpc'[t] = wpc[t])
        BY <3>1
      <4>2. at[t] # Null => wpc[t] \in {"go", "in", "out", "stuck"}
        BY <2>1
      <4>3. (wpc[t] = "go" => at[t] # Null) /\ (at[t] = Left => wpc[t] = "out")
        BY <2>1
      <4>. QED  BY <3>1, <3>2, <4>1, <4>2, <4>3
                DEF Cur, Null, Left, Thread!List!Cur, Thread!List!Null, Thread!List!Left
    <3>5. HasBarrier(t)'
      BY <2>2, <3>1
    <3>4. OnlyByList(t)'
      BY <2>1, <2>2, <3>1, <3>2
    <3>. QED  BY <3>3, <3>4, <3>5
  <2>3. CASE t \notin members \ bad
    <3>1. bar'[t] = bar[t] /\ pend'[t] = pend[t] /\ at'[t] = at[t] /\ wpc'[t] = wpc[t]
      BY <2>3
    <3>. QED  BY <2>1, <2>3, <3>1
  <2>. QED  BY <2>2, <2>3
<1>5. Inside'
  <2>1. inside' = {Main}
    BY <1>0, <1>1 DEF Inside
  <2>. QED  BY <1>1, <2>1 DEF Inside
<1>. QED  BY <1>2, <1>3, <1>4, <1>5 DEF ListIInv

\* When as many have come as the barrier is for, these are the unflagged members
\* and the main thread.
LEMMA CompleteRound ==
    ASSUME ListIInv, mpc = "wait", Thread!List!Complete
    PROVE  inside = {Main} \cup (members \ bad)
<1>0. ListTypeOK /\ Counted /\ Inside /\ \A t \in Threads : HasBarrier(t)
  BY DEF ListIInv, Member
<1>. DEFINE awake == members \ bad
            party == awake \cup {Main}
<1>1. IsFiniteSet(awake) /\ Main \notin awake
  BY <1>0, ListAssumption, FS_Subset DEF ListTypeOK
<1>2. IsFiniteSet(party) /\ Cardinality(party) = 1 + Cardinality(awake)
  <2>1. Cardinality(awake) \in Nat /\ Cardinality(party) = Cardinality(awake) + 1
    BY <1>1, FS_AddElement, FS_CardinalityType
  <2>2. IsFiniteSet(party)
    BY <1>1, FS_AddElement
  <2>. QED  BY <2>1, <2>2
<1>3. inside \subseteq party
  BY <1>0 DEF Inside, HasBarrier, Unflagged
<1>4. Cardinality(inside) = Cardinality(party)
  BY <1>0, <1>2, SameCardinality DEF Thread!List!Complete, Counted
<1>5. inside = party
  BY <1>2, <1>3, <1>4, FS_Subset
<1>. QED  BY <1>5

\* Who is at the barrier and was woken by the list only has run in this round,
\* and nothing is pending for it.
LEMMA HasRun ==
    ASSUME ListIInv, NEW t \in Threads, t \in inside, t \notin bad \cup plain
    PROVE  t \in did /\ AtRest(t)
<1>1. Inside /\ Member(t) /\ t # Main
  BY ListAssumption DEF ListIInv
<1>2. at[t] = Cur /\ wpc[t] = "in" /\ mpc = "wait"
  BY <1>1 DEF Inside
<1>3. bar[t] # Cur /\ t \in members
  BY <1>1, <1>2 DEF Member, AtItsPoint, HasBarrier, Unflagged
<1>4. pend[t] = 0 /\ bar[t] = Null /\ t \in did
  BY <1>1, <1>2, <1>3 DEF Member, OnlyByList, Woken
<1>. QED  BY <1>2, <1>4 DEF AtRest

\* The round ends.
LEMMA RoundEndsStep == ASSUME ListIInv, Thread!List!RoundEnds PROVE ListIInv'
<1>0. ListTypeOK /\ Recoverable /\ Counted /\ Inside /\ \A t \in Threads : Member(t)
  BY DEF ListIInv
<1>1. /\ mpc = "wait" /\ mpc' = "idle" /\ inside' = {} /\ did' = {}
      /\ wpc' = [t \in Threads |-> IF t \in inside THEN "out" ELSE wpc[t]]
      /\ at' = [t \in Threads |-> IF t \in inside THEN Thread!List!Left ELSE at[t]]
      /\ UNCHANGED <<members, bad, badBars, count, pend, plain, bar, entry, changed>>
  BY DEF Thread!List!RoundEnds, Thread!List!list, Thread!List!wakeups
<1>2. inside = {Main} \cup (members \ bad)
  BY CompleteRound DEF Thread!List!RoundEnds
<1>3. ListTypeOK'
  BY <1>0, <1>1 DEF ListTypeOK, BarrierPtr, Points, Thread!List!Left
<1>4. ASSUME NEW t \in Threads PROVE Member(t)'
  <2>1. Member(t) /\ t # Main
    BY <1>0, ListAssumption
  <2>2. CASE t \in inside
    <3>1. /\ wpc[t] = "in" /\ at[t] = Cur /\ wpc'[t] = "out" /\ at'[t] = Thread!List!Left
          /\ bar'[t] = bar[t] /\ pend'[t] = pend[t]
      BY <1>0, <1>1, <2>1, <2>2 DEF Inside
    <3>2. t \notin bad \cup plain => AtRest(t)
      BY <2>2, HasRun
    <3>3. AtItsPoint(t) /\ bar[t] # Cur
      BY <2>1, <3>1 DEF Member, AtItsPoint
    <3>. QED  BY <1>1, <3>1, <3>2, <3>3
              DEF Member, AtItsPoint, HasBarrier, Unflagged, OnlyByList, AtRest, Cur, Null, Left,
                  Thread!List!Cur, Thread!List!Null, Thread!List!Left
  <2>3. CASE t \notin inside
    <3>1. wpc'[t] = wpc[t] /\ at'[t] = at[t] /\ bar'[t] = bar[t] /\ pend'[t] = pend[t]
      BY <1>1, <2>3
    <3>2. t \notin members \ bad
      BY <1>2, <2>3
    <3>. QED  BY <1>1, <2>1, <3>1, <3>2
              DEF Member, AtItsPoint, HasBarrier, Unflagged, OnlyByList, AtRest, Cur, Null, Left
  <2>. QED  BY <2>2, <2>3
<1>5. Recoverable' /\ Counted' /\ Inside'
  BY <1>0, <1>1 DEF Recoverable, Counted, Inside
<1>. QED  BY <1>3, <1>4, <1>5 DEF ListIInv

\* The timeout: whoever has not come is flagged, and listed with the barrier.
LEMMA TimeoutStep == ASSUME ListIInv, Thread!List!RoundTimesOut PROVE ListIInv'
<1>0. ListTypeOK /\ Recoverable /\ Inside /\ \A t \in Threads : Member(t)
  BY DEF ListIInv
<1>. DEFINE late == members \ inside
            old == Thread!List!Bad(Len(badBars'))
<1>1. PICK stuck : stuck \subseteq inside /\ Thread!List!TimedOut(late, stuck)
  BY DEF Thread!List!RoundTimesOut
<1>2. /\ mpc = "wait" /\ mpc' = "idle" /\ bad' = bad \cup late /\ badBars' = Append(badBars, late)
      /\ Thread!List!NewBarrier(members, bad', old)
      /\ wpc' = [t \in Threads |-> IF t \in stuck THEN "stuck" ELSE wpc[t]]
      /\ UNCHANGED <<members, pend, plain, entry, changed>>
  BY <1>1 DEF Thread!List!TimedOut, Thread!List!wakeups
<1>3. late \in SUBSET Threads
  BY <1>0 DEF ListTypeOK
<1>4. /\ badBars' \in Seq(SUBSET Threads) /\ Len(badBars') = Len(badBars) + 1
      /\ Len(badBars) \in Nat /\ badBars'[Len(badBars) + 1] = late
      /\ \A i \in 1 .. Len(badBars) : badBars'[i] = badBars[i]
      /\ DOMAIN badBars = 1 .. Len(badBars) /\ DOMAIN badBars' = 1 .. Len(badBars')
  BY <1>0, <1>2, <1>3, AppendProperties, LenProperties DEF ListTypeOK
<1>5. old \in BarrierPtr /\ old \notin {Null, Cur, Left}
  BY <1>4 DEF BarrierPtr, Thread!List!Bad, Null, Left, Thread!List!Null, Cur, Thread!List!Cur,
              Thread!List!Left
<1>9. ASSUME NEW t \in Threads, t \notin bad' \cup plain PROVE AtRest(t)
  <2>1. Member(t) /\ t \notin bad /\ t \notin late
    BY <1>0, <1>2, <1>9
  <2>2. CASE t \in inside
    BY <1>9, <2>1, <2>2, HasRun
  <2>3. CASE t \notin inside
    BY <1>9, <2>1, <2>3 DEF Member, OnlyByList
  <2>. QED  BY <2>2, <2>3
<1>. HIDE DEF late, old
<1>6. /\ count' = 1 + Cardinality(members \ bad') /\ inside' = {}
      /\ bar' \in [Threads -> BarrierPtr] /\ at' \in [Threads -> BarrierPtr]
      /\ \A t \in Threads : Renamed(bar[t], bar'[t]) /\ Renamed(at[t], at'[t])
  BY <1>0, <1>2, <1>5, NewBarrierFacts
<1>7. Recoverable'
  <2>. SUFFICES ASSUME NEW t \in bad' PROVE \E i \in DOMAIN badBars' : t \in badBars'[i]
    BY DEF Recoverable
  <2>1. CASE t \in late
    <3>1. Len(badBars) + 1 \in DOMAIN badBars' /\ t \in badBars'[Len(badBars) + 1]
      BY <1>4, <2>1
    <3>. QED  BY <3>1
  <2>2. CASE t \in bad
    <3>1. PICK i \in DOMAIN badBars : t \in badBars[i]
      BY <1>0, <2>2 DEF Recoverable
    <3>2. i \in DOMAIN badBars' /\ t \in badBars'[i]
      BY <1>4, <3>1
    <3>. QED  BY <3>2
  <2>. QED  BY <1>2, <2>1, <2>2
<1>8. ListTypeOK'
  BY <1>0, <1>2, <1>3, <1>4, <1>6 DEF ListTypeOK, Points
<1>10. ASSUME NEW t \in Threads PROVE Member(t)'
  <2>1. wpc'[t] = wpc[t] \/ (wpc[t] = "in" /\ wpc'[t] = "stuck")
    BY <1>0, <1>1, <1>2, ListAssumption DEF Inside, ListTypeOK
  <2>2. AtItsPoint(t) /\ mpc' # "wait" /\ pend'[t] = pend[t] /\ plain' = plain
    BY <1>0, <1>2 DEF Member
  <2>3. Renamed(bar[t], bar'[t]) /\ Renamed(at[t], at'[t])
    BY <1>6
  <2>. QED  BY <1>9, <2>1, <2>2, <2>3, MemberRenamed
<1>11. Counted' /\ Inside'
  BY <1>2, <1>6 DEF Counted, Inside
<1>. QED  BY <1>7, <1>8, <1>10, <1>11 DEF ListIInv

\* One bad barrier of try_recover(): who waits for a wake-up is struck out and
\* unflagged, and the barrier is deleted when nobody is left.
LEMMA RecoverEntryStep == ASSUME ListIInv, Thread!List!RecoverEntry PROVE ListIInv'
<1>0. ListTypeOK /\ Recoverable /\ Counted /\ Inside /\ \A t \in Threads : Member(t)
  BY DEF ListIInv
<1>. DEFINE back == {t \in badBars[entry] : wpc[t] = "asleep"}
            rest == badBars[entry] \ back
<1>1. /\ mpc = "recover" /\ entry <= Len(badBars)
      /\ bad' = bad \ back /\ changed' = (changed \/ back # {})
      /\ \/ rest = {} /\ badBars' = Thread!List!RemoveAt(badBars, entry) /\ entry' = entry
         \/ /\ rest # {} /\ badBars' = [badBars EXCEPT ![entry] = rest] /\ entry' = entry + 1
      /\ UNCHANGED <<members, count, inside, wpc, pend, plain, mpc, did>>
  BY DEF Thread!List!RecoverEntry, Thread!List!barriers, Thread!List!wakeups
<1>2. /\ Len(badBars) \in Nat /\ DOMAIN badBars = 1 .. Len(badBars) /\ entry \in 1 .. Len(badBars)
      /\ badBars[entry] \in SUBSET Threads
  BY <1>0, <1>1, LenProperties, ElementOfSeq DEF ListTypeOK
<1>3. /\ bar' \in [Threads -> BarrierPtr] /\ at' \in [Threads -> BarrierPtr]
      /\ \A t \in Threads : (bar'[t] = Cur <=> bar[t] = Cur) /\ (bar'[t] = Null <=> bar[t] = Null)
                              /\ (bar'[t] = Left => bar[t] = Left)
      /\ \A t \in Threads : (at'[t] = Cur <=> at[t] = Cur) /\ (at'[t] = Null <=> at[t] = Null)
                              /\ (at'[t] = Left => at[t] = Left)
  <2>. USE <1>0, <1>2 DEF ListTypeOK, BarrierPtr, Cur, Null, Left, Thread!List!Cur, Thread!List!Null, Thread!List!Left
  <2>1. CASE rest = {}
    <3>. DEFINE moved == {Thread!List!Bad(i) : i \in entry .. Len(badBars)}
                to(b) == IF b \in moved THEN IF b = Thread!List!Bad(entry) THEN Thread!List!Gone
                                             ELSE b - 1
                         ELSE b
    <3>1. bar' = [t \in Threads |-> to(bar[t])] /\ at' = [t \in Threads |-> to(at[t])]
      BY <2>1 DEF Thread!List!RecoverEntry, Thread!List!Rename
    <3>2. \A b \in moved : b \in Nat /\ b >= 3 + entry /\ entry >= 1
      BY DEF Thread!List!Bad, Thread!List!Left
    <3>3. \A b \in BarrierPtr : to(b) \in BarrierPtr /\ (to(b) = Cur <=> b = Cur) /\ (to(b) = 0 <=> b = 0)
                                 /\ (to(b) = Left => b = Left)
      BY <3>2 DEF Thread!List!Bad, Thread!List!Gone, Thread!List!Left
    <3>. HIDE DEF to
    <3>. QED  BY <3>1, <3>3
  <2>2. CASE rest # {}
    BY <2>2 DEF Thread!List!RecoverEntry
  <2>. QED  BY <2>1, <2>2
<1>. HIDE DEF back
<1>4. badBars' \in Seq(SUBSET Threads) /\ Recoverable'
  <2>1. CASE rest = {} /\ badBars' = Thread!List!RemoveAt(badBars, entry)
    <3>1. badBars' \in Seq(SUBSET Threads)
          /\ \A j \in DOMAIN badBars \ {entry} : \E k \in DOMAIN badBars' : badBars'[k] = badBars[j]
      <4>1. badBars \in Seq(SUBSET Threads)
        BY <1>0 DEF ListTypeOK
      <4>. QED  BY <1>2, <2>1, <4>1, RemoveAtFacts
    <3>2. ASSUME NEW t \in bad' PROVE \E k \in DOMAIN badBars' : t \in badBars'[k]
      <4>1. t \in bad /\ t \notin badBars[entry]
        BY <1>1, <2>1, <3>2
      <4>2. PICK j \in DOMAIN badBars : t \in badBars[j]
        BY <1>0, <4>1 DEF Recoverable
      <4>. QED  BY <3>1, <4>1, <4>2
    <3>. QED  BY <3>1, <3>2 DEF Recoverable
  <2>2. CASE badBars' = [badBars EXCEPT ![entry] = rest]
    <3>1. rest \in SUBSET Threads
      BY <1>2
    <3>2. badBars' \in Seq(SUBSET Threads) /\ DOMAIN badBars' = DOMAIN badBars
      BY <1>0, <1>2, <2>2, <3>1, ExceptSeq, LenProperties DEF ListTypeOK
    <3>3. ASSUME NEW t \in bad' PROVE \E k \in DOMAIN badBars' : t \in badBars'[k]
      <4>1. t \in bad /\ t \notin back
        BY <1>1, <3>3
      <4>2. PICK j \in DOMAIN badBars : t \in badBars[j]
        BY <1>0, <4>1 DEF Recoverable
      <4>3. t \in badBars'[j]
        BY <2>2, <4>1, <4>2
      <4>. QED  BY <3>2, <4>2, <4>3
    <3>. QED  BY <3>2, <3>3 DEF Recoverable
  <2>. QED  BY <1>1, <2>1, <2>2
<1>5. bad' \in SUBSET Threads /\ entry' \in Nat /\ entry' >= 1 /\ changed' \in BOOLEAN
  BY <1>0, <1>1, <1>2 DEF ListTypeOK
<1>6. Counted'
  <2>1. CASE back = {}
    BY <1>0, <1>1, <2>1 DEF Counted, ListTypeOK
  <2>2. CASE back # {}
    BY <1>1, <2>2 DEF Counted
  <2>. QED  BY <2>1, <2>2
<1>7. ASSUME NEW t \in Threads PROVE Member(t)'
  <2>1. /\ Member(t) /\ Renamed(bar[t], bar'[t]) /\ Renamed(at[t], at'[t])
        /\ wpc'[t] = wpc[t] /\ pend'[t] = pend[t] /\ plain' = plain /\ mpc' # "wait"
    BY <1>0, <1>1, <1>3 DEF Renamed, Member, HasBarrier, Unflagged
  <2>2. t \notin bad' \cup plain => AtRest(t)
    <3>1. CASE t \in back
      BY <2>1, <3>1 DEF Member, AtItsPoint, AtRest, back
    <3>2. CASE t \notin back
      BY <1>1, <2>1, <3>2 DEF Member, OnlyByList
    <3>. QED  BY <3>1, <3>2
  <2>. QED  BY <2>1, <2>2, MemberRenamed DEF Member
<1>9. Inside'
  BY <1>0, <1>1 DEF Inside
<1>8. ListTypeOK'
  BY <1>0, <1>1, <1>3, <1>4, <1>5 DEF ListTypeOK
<1>. QED  BY <1>4, <1>6, <1>7, <1>8, <1>9 DEF ListIInv

\* A recovery begins and ends: one that has unflagged a thread makes the barrier anew.
LEMMA RecoverStep ==
    ASSUME ListIInv, Thread!List!TryRecover \/ Thread!List!RecoverEnds
    PROVE  ListIInv'
<1>0. ListTypeOK /\ Recoverable /\ Counted /\ Inside /\ \A t \in Threads : Member(t)
  BY DEF ListIInv
<1>1. CASE Thread!List!TryRecover
  <2>1. /\ mpc = "idle" /\ mpc' = "recover" /\ entry' = 1 /\ changed' = FALSE
        /\ UNCHANGED <<members, bad, badBars, count, inside, wpc, pend, plain, bar, at, did>>
    BY <1>1 DEF Thread!List!TryRecover, Thread!List!list, Thread!List!barriers, Thread!List!worker,
                Thread!List!wakeups
  <2>2. ListTypeOK'
    <3>1. changed' \in BOOLEAN
      BY <2>1
    <3>2. badBars' \in Seq(SUBSET Threads)
      BY <1>0, <2>1 DEF ListTypeOK
    <3>3. mpc' \in {"idle", "wait", "recover"} /\ entry' \in Nat /\ entry' >= 1
      BY <2>1
    <3>. QED  BY <1>0, <2>1, <3>1, <3>2, <3>3 DEF ListTypeOK
  <2>3. Recoverable' /\ Counted' /\ Inside'
    BY <1>0, <2>1 DEF Recoverable, Counted, Inside
  <2>4. ASSUME NEW t \in Threads PROVE Member(t)'
    BY <1>0, <2>1 DEF Member, AtItsPoint, HasBarrier, Unflagged, OnlyByList, AtRest, Cur, Null, Left
  <2>. QED  BY <2>2, <2>3, <2>4 DEF ListIInv
<1>2. CASE Thread!List!RecoverEnds
  <2>1. /\ mpc = "recover" /\ mpc' = "idle" /\ entry' = 0 /\ changed' = FALSE
        /\ UNCHANGED <<members, bad, badBars, wpc, pend, plain, did>>
    BY <1>2 DEF Thread!List!RecoverEnds, Thread!List!list, Thread!List!wakeups
  <2>2. /\ count' = 1 + Cardinality(members \ bad) /\ inside' = {}
        /\ bar' \in [Threads -> BarrierPtr] /\ at' \in [Threads -> BarrierPtr]
        /\ \A t \in Threads : Renamed(bar[t], bar'[t]) /\ Renamed(at[t], at'[t])
    <3>1. CASE changed = TRUE
      <4>1. Thread!List!NewBarrier(members, bad, Thread!List!Gone)
        BY <1>2, <3>1 DEF Thread!List!RecoverEnds
      <4>2. Thread!List!Gone \in BarrierPtr /\ Thread!List!Gone \notin {Null, Cur, Left}
        BY DEF BarrierPtr, Cur, Null, Left, Thread!List!Cur, Thread!List!Gone, Thread!List!Null,
           Thread!List!Left
      <4>. QED  BY <1>0, <4>1, <4>2, NewBarrierFacts
    <3>2. CASE changed = FALSE
      <4>1. UNCHANGED <<count, inside, bar, at>>
        BY <1>2, <3>2 DEF Thread!List!RecoverEnds, Thread!List!barriers
      <4>. QED  BY <1>0, <2>1, <3>2, <4>1
                DEF ListTypeOK, Counted, Inside, Member, HasBarrier, Unflagged, Renamed
    <3>. QED  BY <1>0, <3>1, <3>2 DEF ListTypeOK
  <2>3. ASSUME NEW t \in Threads PROVE Member(t)'
    <3>1. AtItsPoint(t) /\ (t \notin bad \cup plain => AtRest(t))
      BY <1>0, <2>1 DEF Member, OnlyByList
    <3>. QED  BY <2>1, <2>2, <3>1, MemberRenamed
  <2>. QED  BY <1>0, <2>1, <2>2, <2>3 DEF ListIInv, ListTypeOK, Recoverable, Counted, Inside
<1>. QED  BY <1>1, <1>2

\* What a step of a behaviour that is about the rounds of a list is.
LEMMA ListSteps == kind = "list" /\ Step => Thread!List!Next \/ UNCHANGED allVars
  BY DEF Step, CoreNext, ThreadingNext, Next, PtrNext, ContainerNext, ListNext, LockNext,
         CondNext, ConfigNext, Thread!Next, Thread!ThreadNext, Thread!ListNext, Thread!LifeNext

\* Every step of the members and of the main thread.
LEMMA ListStep == ASSUME kind = "list", ListIInv, Step PROVE ListIInv'
<1>1. CASE UNCHANGED allVars
  BY <1>1 DEF allVars, vars, condOnly, threadingOnly, ListIInv, ListTypeOK, Recoverable, Counted,
              Inside, Member, AtItsPoint, HasBarrier, Unflagged, OnlyByList, AtRest, Woken
<1>2. CASE Thread!List!Next
  BY <1>2, MemberStep, ChangeStep, WakeupStep, RoundEndsStep, TimeoutStep, RecoverStep,
     RecoverEntryStep DEF Thread!List!Next, Thread!List!Recovery
<1>. QED  BY <1>1, <1>2, ListSteps

\* The invariant of a list of threads, of which the next two are consequences.
LEMMA RoundsInvariance == LibrariesSpec => [](kind = "list" => ListIInv)
<1>. DEFINE Inv == kind = "list" => ListIInv
<1>1. AllInit => Inv
  BY ListInit
<1>2. Inv /\ Step => Inv'
  BY ListStep, KindKept
<1>. QED  BY <1>1, <1>2, PTL DEF LibrariesSpec, Step

\* Rounds: who is flagged can be recovered, and the barrier of the next round is
\* for exactly the threads that will be woken.
THEOREM RoundsFit == LibrariesSpec => []RoundFits
<1>1. (kind = "list" => ListIInv) => RoundFits
  BY SameCardinality
     DEF RoundFits, Thread!RoundFits, Thread!List!RoundFits, ListIInv, Recoverable, Counted
<1>. QED  BY <1>1, RoundsInvariance, PTL

\* wakeup_and_wait() returns from a round without timeout only when every member
\* that is not flagged and that only the list has woken since it last waited for a
\* wake-up has finished loop() in this round, whatever timeouts, recoveries,
\* changes of the list and plain wake-ups came before.
THEOREM RoundsAreComplete == LibrariesSpec => RoundComplete
<1>. DEFINE Inv == kind = "list" => ListIInv
            Ran == Thread!List!RoundEnds => members \ (bad \cup plain) \subseteq did
<1>1. ASSUME ListIInv PROVE Ran
  <2>. SUFFICES ASSUME Thread!List!RoundEnds, NEW t \in members \ (bad \cup plain) PROVE t \in did
    OBVIOUS
  <2>1. t \in Threads /\ t \in inside
    <3>1. mpc = "wait" /\ Thread!List!Complete
      BY DEF Thread!List!RoundEnds
    <3>2. members \in SUBSET Threads
      BY <1>1 DEF ListIInv, ListTypeOK
    <3>3. inside = {Main} \cup (members \ bad)
      BY <1>1, <3>1, CompleteRound
    <3>. QED  BY <3>2, <3>3
  <2>. QED  BY <1>1, <2>1, HasRun
<1>. HIDE DEF Ran
<1>2. Inv /\ Step => [kind = "list" => Ran]_allVars
  BY <1>1
<1>. QED  BY <1>2, RoundsInvariance, PTL DEF LibrariesSpec, Step, RoundComplete, Ran

-----------------------------------------------------------------------------
(* Locked containers. *)

ContainerTypeOK ==
    /\ content \in [Containers -> Seq(Elements)]
    /\ writer \in [Containers -> Users \cup {Nobody}]
    /\ readers \in [Containers -> SUBSET Users]
    /\ job \in [Users -> {"idle", "held", "source", "copy"}]
    /\ target \in [Users -> Containers \cup {Nobody}]
    /\ source \in [Users -> Containers \cup {Nobody}]
    /\ copied \in [Users -> Nat]

\* The class has no operator= that shares locks: every container has its own.
OwnLocks == class.assign # "implicit" /\ lockOf = [c \in Containers |-> c]

\* The thread may read the container: nobody else changes it meanwhile.
MayRead(t, c) == writer[c] = t \/ t \in readers[c]

\* An assignment has its target for itself from the first step on, and has locked
\* its source, another container, while it copies.
AssignmentLocks ==
    \A t \in Users :
        /\ job[t] = "held" => target[t] \in Containers /\ MayRead(t, target[t])
        /\ job[t] \in {"source", "copy"} =>
              target[t] \in Containers /\ source[t] \in Containers /\ writer[target[t]] = t
        /\ job[t] = "copy" => target[t] # source[t] /\ MayRead(t, source[t])
        /\ job[t] # "copy" => copied[t] = 0

\* A container that is locked for writing has no readers.
NoReaderBeside == \A c \in Containers : writer[c] # Nobody => readers[c] = {}

LockedIInv == ContainerTypeOK /\ AssignmentLocks /\ NoReaderBeside /\ Container!CopyIsSnapshot

\* In a class whose assignment the compiler makes nothing is copied under locks.
CopiesUnlocked == class.assign = "implicit" /\ job \in [Users -> {"idle", "held", "implicit"}]

ContainerIInv == CopiesUnlocked \/ (OwnLocks /\ LockedIInv)

\* Nobody has locked a container when it is made.
LEMMA ContainerInit == AllInit /\ kind = "container" => ContainerIInv
<1>. SUFFICES ASSUME Container!Init PROVE ContainerIInv
  BY DEF AllInit, Init, Thread!Init
<1>1. content \in [Containers -> Seq(Elements)]
  <2>1. ASSUME NEW s \in Container!Contents PROVE s \in Seq(Elements)
    BY <2>1, IsASeq DEF Container!Contents, Container!BoundedSeq, Container!SeqOf
  <2>. QED  BY <2>1 DEF Container!Init
<1>2. LockedIInv
  BY <1>1 DEF Container!Init, LockedIInv, ContainerTypeOK, AssignmentLocks,
              NoReaderBeside, Container!CopyIsSnapshot
<1>3. job \in [Users -> {"idle", "held", "implicit"}] /\ lockOf = [c \in Containers |-> c]
  BY DEF Container!Init
<1>. QED  BY <1>2, <1>3 DEF ContainerIInv, CopiesUnlocked, OwnLocks

\* Who changes a container that nobody else may read leaves the copies of the others whole.
LEMMA OthersCopyOn ==
    ASSUME LockedIInv, NEW c \in Containers, NEW t \in Users, NEW s \in Seq(Elements),
           content' = [content EXCEPT ![c] = s],
           writer[c] = t \/ (writer[c] = Nobody /\ readers[c] = {}),
           NEW u \in Users, u # t, job[u] = "copy"
    PROVE  content'[source[u]] = content[source[u]] /\ content'[target[u]] = content[target[u]]
<1>1. writer[target[u]] = u /\ target[u] \in Containers /\ source[u] \in Containers
  BY DEF LockedIInv, AssignmentLocks
<1>2. target[u] # c
  BY <1>1, CoreAssumption
<1>3. source[u] # c
  BY CoreAssumption DEF LockedIInv, AssignmentLocks, NoReaderBeside, MayRead
<1>. QED  BY <1>1, <1>2, <1>3 DEF LockedIInv, ContainerTypeOK

\* A copy in progress and the content of its two containers.
CopyWhole(t) ==
    /\ copied[t] <= Len(content[source[t]])
    /\ content[target[t]] = SubSeq(content[source[t]], 1, copied[t])

LEMMA LockedOpStep ==
    ASSUME OwnLocks, LockedIInv, NEW t \in Users, NEW c \in Containers, Container!LockedOp(t, c)
    PROVE  LockedIInv'
<1>1. PICK s \in Seq(Elements) : content' = [content EXCEPT ![c] = s]
  <2>1. ASSUME NEW s \in Container!Contents PROVE s \in Seq(Elements)
    BY <2>1 DEF Container!Contents, Container!BoundedSeq, Container!SeqOf
  <2>. QED  BY <2>1 DEF Container!LockedOp
<1>2. writer[c] = Nobody /\ readers[c] = {} /\ job[t] = "idle"
  BY DEF Container!LockedOp, Container!CanWrite, OwnLocks
<1>3. UNCHANGED <<writer, readers, job, target, source, copied>>
  BY DEF Container!LockedOp
<1>4. Container!CopyIsSnapshot'
  <2>. SUFFICES ASSUME NEW u \in Users, job[u] = "copy" PROVE CopyWhole(u)'
    BY <1>3 DEF Container!CopyIsSnapshot, CopyWhole
  <2>1. content'[source[u]] = content[source[u]] /\ content'[target[u]] = content[target[u]]
    BY <1>1, <1>2, OthersCopyOn
  <2>. QED  BY <1>3, <2>1 DEF LockedIInv, Container!CopyIsSnapshot, CopyWhole
<1>5. ContainerTypeOK'
  BY <1>1, <1>3 DEF LockedIInv, ContainerTypeOK
<1>. QED  BY <1>3, <1>4, <1>5
          DEF LockedIInv, AssignmentLocks, NoReaderBeside, MayRead

\* Steps that lock or unlock a container outside the copying.
LEMMA HeldStep ==
    ASSUME OwnLocks, LockedIInv, NEW t \in Users,
           \/ Container!Unlock(t)
           \/ \E c \in Containers : Container!Lock(t, c) \/ Container!LockForRead(t, c)
           \/ \E c, d \in Containers : Container!AssignBegin(t, c, d)
    PROVE  LockedIInv'
<1>. USE DEF LockedIInv, ContainerTypeOK, AssignmentLocks, NoReaderBeside, MayRead,
             Container!CopyIsSnapshot
<1>0. \A c \in Containers : lockOf[c] = c
  BY DEF OwnLocks
<1>1. CASE Container!Unlock(t)
  <2>1. target[t] \in Containers /\ MayRead(t, target[t]) /\ lockOf[target[t]] = target[t]
    BY <1>0, <1>1 DEF Container!Unlock
  <2>. QED  BY <1>1, <2>1, CoreAssumption DEF Container!Unlock
<1>2. ASSUME NEW c \in Containers, Container!Lock(t, c) PROVE LockedIInv'
  BY <1>0, <1>2, CoreAssumption DEF Container!Lock, Container!CanWrite
<1>3. ASSUME NEW c \in Containers, Container!LockForRead(t, c) PROVE LockedIInv'
  BY <1>0, <1>3, CoreAssumption DEF Container!LockForRead, Container!CanRead
<1>4. ASSUME NEW c \in Containers, NEW d \in Containers, Container!AssignBegin(t, c, d)
      PROVE  LockedIInv'
  BY <1>0, <1>4, CoreAssumption DEF Container!AssignBegin, Container!CanWrite
<1>. QED  BY <1>1, <1>2, <1>3, <1>4

\* The source is locked and the target is cleared: nothing is copied yet.
LEMMA AssignSourceStep ==
    ASSUME OwnLocks, LockedIInv, NEW t \in Users, Container!AssignSource(t) PROVE LockedIInv'
<1>0. ContainerTypeOK /\ AssignmentLocks /\ NoReaderBeside
  BY DEF LockedIInv
<1>1. /\ target[t] \in Containers /\ source[t] \in Containers /\ writer[target[t]] = t
      /\ copied[t] = 0 /\ job[t] = "source"
  BY DEF LockedIInv, AssignmentLocks, Container!AssignSource
<1>2. writer[source[t]] = Nobody
  BY <1>1 DEF Container!AssignSource, Container!CanRead, Container!CanWrite, OwnLocks
<1>3. target[t] # source[t]
  BY <1>1, <1>2, CoreAssumption
<1>4. /\ content' = [content EXCEPT ![target[t]] = <<>>] /\ job' = [job EXCEPT ![t] = "copy"]
      /\ target' = target /\ source' = source /\ copied' = copied
  BY DEF Container!AssignSource
<1>5. \/ readers' = [readers EXCEPT ![source[t]] = readers[source[t]] \cup {t}] /\ writer' = writer
      \/ /\ writer' = [writer EXCEPT ![source[t]] = t] /\ readers' = readers
         /\ readers[source[t]] = {}
  BY <1>1 DEF Container!AssignSource, Container!CanRead, Container!CanWrite, OwnLocks
<1>6. ContainerTypeOK' /\ AssignmentLocks' /\ NoReaderBeside'
  <2>1. content' \in [Containers -> Seq(Elements)]
    <3>1. <<>> \in Seq(Elements)
      OBVIOUS
    <3>. QED  BY <1>0, <1>4, <3>1 DEF ContainerTypeOK
  <2>2. ContainerTypeOK'
    <3>1. readers' \in [Containers -> SUBSET Users] /\ writer' \in [Containers -> Users \cup {Nobody}]
      <4>1. readers[source[t]] \cup {t} \in SUBSET Users /\ t \in Users \cup {Nobody}
        BY <1>0, <1>1 DEF ContainerTypeOK
      <4>. QED  BY <1>0, <1>5, <4>1 DEF ContainerTypeOK
    <3>2. job' \in [Users -> {"idle", "held", "source", "copy"}]
      BY <1>0, <1>4 DEF ContainerTypeOK
    <3>. QED  BY <1>0, <1>4, <2>1, <3>1, <3>2 DEF ContainerTypeOK
  <2>3. NoReaderBeside'
    BY <1>0, <1>1, <1>2, <1>5, CoreAssumption DEF ContainerTypeOK, NoReaderBeside
  <2>4. ASSUME NEW u \in Users, NEW c \in Containers
        PROVE  (writer[c] = u => writer'[c] = u) /\ (MayRead(u, c) => MayRead(u, c)')
    <3>1. writer[c] = u => writer'[c] = u
      BY <1>0, <1>1, <1>2, <1>5, CoreAssumption DEF ContainerTypeOK
    <3>2. u \in readers[c] => u \in readers'[c]
      BY <1>0, <1>1, <1>5 DEF ContainerTypeOK
    <3>. QED  BY <3>1, <3>2 DEF MayRead
  <2>5. MayRead(t, source[t])'
    BY <1>0, <1>1, <1>4, <1>5 DEF ContainerTypeOK, MayRead
  <2>6. AssignmentLocks'
    <3>. SUFFICES ASSUME NEW u \in Users
                  PROVE  /\ job'[u] = "held" =>
                               target[u] \in Containers /\ MayRead(u, target[u])'
                         /\ job'[u] \in {"source", "copy"} =>
                               /\ target[u] \in Containers /\ source[u] \in Containers
                               /\ writer'[target[u]] = u
                         /\ job'[u] = "copy" => target[u] # source[u] /\ MayRead(u, source[u])'
                         /\ job'[u] # "copy" => copied[u] = 0
      BY <1>4 DEF AssignmentLocks, MayRead
    <3>1. CASE u = t
      BY <1>0, <1>1, <1>3, <1>4, <2>4, <2>5, <3>1 DEF ContainerTypeOK
    <3>2. CASE u # t
      BY <1>0, <1>4, <2>4, <3>2 DEF ContainerTypeOK, AssignmentLocks
    <3>. QED  BY <3>1, <3>2
  <2>. QED  BY <2>2, <2>3, <2>6
<1>7. Container!CopyIsSnapshot'
  <2>. SUFFICES ASSUME NEW u \in Users, job'[u] = "copy" PROVE CopyWhole(u)'
    BY DEF Container!CopyIsSnapshot, CopyWhole
  <2>1. CASE u = t
    <3>1. content'[target[t]] = <<>> /\ content'[source[t]] \in Seq(Elements)
      BY <1>1, <1>3, <1>4 DEF LockedIInv, ContainerTypeOK
    <3>2. SubSeq(content'[source[t]], 1, 0) = <<>> /\ 0 <= Len(content'[source[t]])
      BY <3>1
    <3>. QED  BY <1>1, <1>4, <2>1, <3>1, <3>2 DEF CopyWhole
  <2>2. CASE u # t
    <3>1. job[u] = "copy"
      BY <1>4, <2>2 DEF LockedIInv, ContainerTypeOK
    <3>2. content'[source[u]] = content[source[u]] /\ content'[target[u]] = content[target[u]]
      <4>1. <<>> \in Seq(Elements)
        OBVIOUS
      <4>. QED  BY <1>1, <1>4, <2>2, <3>1, <4>1, OthersCopyOn
    <3>. QED  BY <1>4, <3>1, <3>2 DEF LockedIInv, Container!CopyIsSnapshot, CopyWhole
  <2>. QED  BY <2>1, <2>2
<1>. QED  BY <1>6, <1>7 DEF LockedIInv

\* One more element of the source.
LEMMA AssignCopyStep ==
    ASSUME LockedIInv, NEW t \in Users, Container!AssignCopy(t) PROVE LockedIInv'
<1>. DEFINE from == content[source[t]]  next_ == Append(content[target[t]], from[copied[t] + 1])
<1>1. /\ target[t] \in Containers /\ source[t] \in Containers /\ writer[target[t]] = t
      /\ job[t] = "copy" /\ target[t] # source[t]
  BY DEF LockedIInv, AssignmentLocks, Container!AssignCopy
<1>2. /\ content' = [content EXCEPT ![target[t]] = next_] /\ copied[t] < Len(from)
      /\ copied' = [copied EXCEPT ![t] = copied[t] + 1]
      /\ UNCHANGED <<writer, readers, job, target, source>>
  BY DEF Container!AssignCopy
<1>3. /\ from \in Seq(Elements) /\ content[target[t]] \in Seq(Elements) /\ copied[t] \in Nat
      /\ content[target[t]] = SubSeq(from, 1, copied[t])
  BY <1>1 DEF LockedIInv, ContainerTypeOK, Container!CopyIsSnapshot
<1>4. next_ = SubSeq(from, 1, copied[t] + 1) /\ next_ \in Seq(Elements)
  <2>1. from[copied[t] + 1] \in Elements
    BY <1>2, <1>3
  <2>2. SubSeq(from, 1, copied[t] + 1) = Append(SubSeq(from, 1, copied[t]), from[copied[t] + 1])
    BY <1>2, <1>3, SubSeqRecursiveSecond
  <2>3. content[target[t]] = SubSeq(from, 1, copied[t])
    BY <1>3
  <2>4. next_ = SubSeq(from, 1, copied[t] + 1)
    BY <2>2, <2>3
  <2>5. next_ \in Seq(Elements)
    BY <1>3, <2>1, AppendProperties
  <2>. QED  BY <2>4, <2>5
<1>. HIDE DEF next_
<1>5. ContainerTypeOK'
  BY <1>1, <1>2, <1>3, <1>4 DEF LockedIInv, ContainerTypeOK
<1>6. AssignmentLocks' /\ NoReaderBeside'
  BY <1>1, <1>2 DEF LockedIInv, ContainerTypeOK, AssignmentLocks, NoReaderBeside, MayRead
<1>7. Container!CopyIsSnapshot'
  <2>. SUFFICES ASSUME NEW u \in Users, job'[u] = "copy" PROVE CopyWhole(u)'
    BY DEF Container!CopyIsSnapshot, CopyWhole
  <2>1. CASE u = t
    <3>1. content'[target[t]] = next_ /\ content'[source[t]] = from /\ copied'[t] = copied[t] + 1
      BY <1>1, <1>2 DEF LockedIInv, ContainerTypeOK
    <3>. QED  BY <1>2, <1>3, <1>4, <2>1, <3>1 DEF CopyWhole
  <2>2. CASE u # t
    <3>1. job[u] = "copy" /\ copied'[u] = copied[u]
      BY <1>2, <2>2 DEF LockedIInv, ContainerTypeOK
    <3>2. content'[source[u]] = content[source[u]] /\ content'[target[u]] = content[target[u]]
      BY <1>1, <1>2, <1>4, <2>2, <3>1, OthersCopyOn
    <3>. QED  BY <1>2, <3>1, <3>2 DEF LockedIInv, Container!CopyIsSnapshot, CopyWhole
  <2>. QED  BY <2>1, <2>2
<1>. QED  BY <1>5, <1>6, <1>7 DEF LockedIInv

\* An assignment gives its two locks back.
LEMMA AssignEndStep ==
    ASSUME LockedIInv, NEW t \in Users, Container!AssignEnd(t) PROVE LockedIInv'
<1>1. source[t] \in Containers
  BY DEF LockedIInv, AssignmentLocks, Container!AssignEnd
<1>. QED  BY <1>1, CoreAssumption
          DEF LockedIInv, ContainerTypeOK, AssignmentLocks, NoReaderBeside, MayRead,
              Container!CopyIsSnapshot, Container!AssignEnd

\* The steps of containers with locks of their own.
LEMMA LockedStep ==
    ASSUME OwnLocks, LockedIInv, Container!Next PROVE OwnLocks' /\ LockedIInv'
<1>1. UNCHANGED <<class, lockOf>>
  BY DEF Container!Next, Container!AssignSource, Container!AssignCopy, Container!AssignEnd,
         Container!Unlock, Container!LockedOp, Container!Lock, Container!LockForRead,
         Container!AssignBegin, Container!ImplicitBegin, Container!ImplicitCopy,
         Container!ImplicitEnd, OwnLocks, LockedIInv, ContainerTypeOK
<1>2. OwnLocks'
  BY <1>1 DEF OwnLocks
<1>3. ASSUME NEW t \in Users
      PROVE  /\ ~Container!ImplicitCopy(t) /\ ~Container!ImplicitEnd(t)
             /\ \A c, d \in Containers : ~Container!ImplicitBegin(t, c, d)
  BY DEF Container!ImplicitBegin, Container!ImplicitCopy, Container!ImplicitEnd, OwnLocks,
         LockedIInv, ContainerTypeOK
<1>. QED
  BY <1>2, <1>3, LockedOpStep, HeldStep, AssignSourceStep, AssignCopyStep, AssignEndStep
     DEF Container!Next

\* The steps of containers that are assigned without locks.
LEMMA UnlockedStep == ASSUME CopiesUnlocked, Container!Next PROVE CopiesUnlocked'
<1>1. class' = class
  BY DEF Container!Next, Container!AssignSource, Container!AssignCopy, Container!AssignEnd,
         Container!Unlock, Container!LockedOp, Container!Lock, Container!LockForRead,
         Container!AssignBegin, Container!ImplicitBegin, Container!ImplicitCopy,
         Container!ImplicitEnd
<1>2. \/ job' = job
      \/ \E t \in Users, s \in {"idle", "held", "implicit"} : job' = [job EXCEPT ![t] = s]
  BY DEF CopiesUnlocked, Container!Next, Container!AssignSource, Container!AssignCopy,
         Container!AssignEnd, Container!Unlock, Container!LockedOp, Container!Lock,
         Container!LockForRead, Container!AssignBegin, Container!ImplicitBegin,
         Container!ImplicitCopy, Container!ImplicitEnd
<1>. QED  BY <1>1, <1>2 DEF CopiesUnlocked

\* The steps of the locked containers.
LEMMA ContainerStep == ASSUME kind = "container", ContainerIInv, Step PROVE ContainerIInv'
<1>1. CASE UNCHANGED allVars
  BY <1>1 DEF allVars, vars, containerOnly, jobVars, rwVars, ContainerIInv, LockedIInv,
              ContainerTypeOK, AssignmentLocks, NoReaderBeside, MayRead, OwnLocks,
              CopiesUnlocked, Container!CopyIsSnapshot
<1>2. Container!Next \/ UNCHANGED allVars
  BY DEF Step, CoreNext, ThreadingNext, Next, PtrNext, ContainerNext, ListNext, LockNext,
         CondNext, ConfigNext, Thread!Next, Thread!ThreadNext, Thread!ListNext, Thread!LifeNext
<1>. QED  BY <1>1, <1>2, LockedStep, UnlockedStep DEF ContainerIInv

-----------------------------------------------------------------------------
(* The messages of exceptions. *)

Nodes == List!Nodes
Message == Texts \cup {Nobody}

ChainTypeOK ==
    /\ nodes \in SUBSET Nodes
    /\ messages \in [Exceptions -> Nodes \cup {0}]
    /\ messagesEnd \in [Exceptions -> Nodes \cup {0}]
    /\ next \in [Nodes -> Nodes \cup {0}] /\ msg \in [Nodes -> Message]
    /\ recorded \in [Exceptions -> Seq(Message)]
\* What a thread that copies has: an iterator and two exceptions.
JobTypeOK ==
    /\ messagesIterator \in [Exceptions -> Nodes \cup {0}]
    /\ job \in [Users -> {"idle", "source", "copy"}]
    /\ target \in [Users -> Exceptions \cup {Nobody}]
    /\ source \in [Users -> Exceptions \cup {Nobody}]
    /\ \A t \in Users : job[t] # "idle" => target[t] \in Exceptions /\ source[t] \in Exceptions

\* Each node of p leads to the one after it, the last one to none.
IsChain(p) == \A i \in 1 .. Len(p) : next[p[i]] = IF i = Len(p) THEN 0 ELSE p[i + 1]
First(p) == IF p = <<>> THEN 0 ELSE p[1]
End(p) == IF p = <<>> THEN 0 ELSE p[Len(p)]

\* The nodes of p are the list of e, and hold the messages that were recorded.
ListOf(e, p) ==
    /\ IsChain(p) /\ messages[e] = First(p) /\ messagesEnd[e] = End(p)
    /\ Len(p) = Len(recorded[e])
    /\ \A i \in 1 .. Len(p) : msg[p[i]] = recorded[e][i]

\* The lists of all exceptions have no node in common, and none twice.
AllLists(path) ==
    /\ path \in [Exceptions -> Seq(nodes)]
    /\ \A e \in Exceptions : ListOf(e, path[e])
    /\ \A e, f \in Exceptions : \A i \in 1 .. Len(path[e]), j \in 1 .. Len(path[f]) :
           path[e][i] = path[f][j] => e = f /\ i = j

ChainsHold == ChainTypeOK /\ \E path : AllLists(path)
MessagesIInv == ChainsHold /\ JobTypeOK

\* A set of numbers that is not empty has a least one.
LEMMA LeastNumber ==
    ASSUME NEW S \in SUBSET Nat, S # {}
    PROVE  \E x \in S : \A y \in S : x <= y
<1>. DEFINE R == OpToRel(<, Nat)
<1>1. IsWellFoundedOn(R, Nat)
  BY NatLessThanWellFounded
<1>2. \A x, y \in Nat : <<x, y>> \in R <=> x < y
  BY DEF OpToRel
<1>. HIDE DEF R
<1>3. PICK x \in S : \A y \in S : ~(<<y, x>> \in R)
  BY <1>1, WFMin
<1>4. ASSUME NEW y \in S PROVE x <= y
  <2>1. x \in Nat /\ y \in Nat /\ ~(y < x)
    BY <1>2, <1>3
  <2>. QED  BY <2>1
<1>. QED  BY <1>4

LEMMA CardinalityOfList == ASSUME NEW S PROVE List!Cardinality(S) = Cardinality(S)
  BY DEF List!Cardinality, Cardinality

LEMMA UpTo == ASSUME NEW n \in Nat PROVE IsFiniteSet(1 .. n) /\ Cardinality(1 .. n) = n
<1>1. 1 \in Int /\ n \in Int
  OBVIOUS
<1>2. IsFiniteSet(1 .. n) /\ Cardinality(1 .. n) = IF 1 > n THEN 0 ELSE n - 1 + 1
  BY <1>1, FS_Interval
<1>. QED  BY <1>2

\* A sequence without an element twice is no longer than the set it takes them from.
LEMMA ShortSequence ==
    ASSUME NEW n \in Nat, NEW p \in Seq(1 .. n),
           \A i, j \in 1 .. Len(p) : p[i] = p[j] => i = j
    PROVE  Len(p) <= n
<1>. SUFFICES ASSUME Len(p) > n PROVE FALSE
  OBVIOUS
<1>1. /\ IsFiniteSet(1 .. n) /\ Cardinality(1 .. n) = n
      /\ IsFiniteSet(1 .. Len(p)) /\ Cardinality(1 .. Len(p)) = Len(p)
  BY UpTo
<1>2. p \in [1 .. Len(p) -> 1 .. n]
  OBVIOUS
<1>3. \E i, j \in 1 .. Len(p) : i # j /\ p[i] = p[j]
  BY <1>1, <1>2, FS_PigeonHole
<1>. QED  BY <1>3

\* The walk along a chain visits its nodes: each step follows from the one before,
\* so that there is no first one that goes wrong.
LEMMA WalkFollows ==
    ASSUME NEW p \in Seq(Nodes), Len(p) <= MaxNodes, IsChain(p)
    PROVE  List!Walk(First(p)) = p
<1>. DEFINE Steps == 1 .. MaxNodes + 1
            Follows(v) == v = [k \in Steps |-> IF k = 1 THEN First(p)
                                               ELSE IF v[k-1] = 0 THEN 0 ELSE next[v[k-1]]]
            visited == CHOOSE v : Follows(v)
            nodeAt == [k \in Steps |-> IF k <= Len(p) THEN p[k] ELSE 0]
            Wrong == {k \in Nat : k \in Steps /\ visited[k] # nodeAt[k]}
<1>0. MaxNodes \in Nat /\ Len(p) \in Nat /\ \A i \in 1 .. Len(p) : p[i] \in Nodes /\ p[i] # 0
  BY CoreAssumption DEF Nodes, List!Nodes
<1>1. Follows(nodeAt)
  <2>. SUFFICES ASSUME NEW k \in Steps
                PROVE  nodeAt[k] = IF k = 1 THEN First(p)
                                   ELSE IF nodeAt[k-1] = 0 THEN 0 ELSE next[nodeAt[k-1]]
    OBVIOUS
  <2>1. CASE k = 1
    BY <1>0, <2>1 DEF First
  <2>2. CASE k # 1
    <3>1. k - 1 \in Steps /\ k \in Nat /\ nodeAt[k-1] = IF k - 1 <= Len(p) THEN p[k-1] ELSE 0
      BY <1>0, <2>2
    <3>2. CASE k - 1 > Len(p)
      BY <1>0, <2>2, <3>1, <3>2
    <3>3. CASE k - 1 <= Len(p)
      <4>1. k - 1 \in 1 .. Len(p) /\ (k - 1) + 1 = k
        BY <1>0, <2>2, <3>1, <3>3
      <4>2. next[p[k-1]] = IF k - 1 = Len(p) THEN 0 ELSE p[k]
        BY <4>1 DEF IsChain
      <4>3. nodeAt[k-1] = p[k-1] /\ nodeAt[k-1] # 0
        BY <1>0, <3>1, <3>3, <4>1
      <4>4. nodeAt[k] = IF k - 1 = Len(p) THEN 0 ELSE p[k]
        BY <1>0, <3>1, <3>3
      <4>. QED  BY <2>2, <4>2, <4>3, <4>4
    <3>. QED  BY <1>0, <3>1, <3>2, <3>3
  <2>. QED  BY <2>1, <2>2
<1>2. Follows(visited)
  BY <1>1
<1>. HIDE DEF visited
<1>3. \A k \in Steps : visited[k] = nodeAt[k]
  <2>. SUFFICES ASSUME NEW n \in Steps, visited[n] # nodeAt[n] PROVE FALSE
    OBVIOUS
  <2>0. n \in Wrong /\ Wrong \in SUBSET Nat
    BY <1>0
  <2>1. PICK k \in Wrong : \A j \in Wrong : k <= j
    BY <2>0, LeastNumber
  <2>2. CASE k = 1
    BY <1>1, <1>2, <2>1, <2>2
  <2>3. CASE k # 1
    <3>1. k \in Steps /\ k - 1 \in Steps /\ k - 1 \notin Wrong /\ visited[k] # nodeAt[k]
      BY <1>0, <2>1, <2>3
    <3>2. visited[k-1] = nodeAt[k-1]
      BY <3>1
    <3>. HIDE DEF nodeAt
    <3>3. /\ visited[k] = IF visited[k-1] = 0 THEN 0 ELSE next[visited[k-1]]
          /\ nodeAt[k] = IF nodeAt[k-1] = 0 THEN 0 ELSE next[nodeAt[k-1]]
      BY <1>1, <1>2, <2>3, <3>1
    <3>. QED  BY <3>1, <3>2, <3>3
  <2>. QED  BY <2>2, <2>3
<1>4. {k \in Steps : visited[k] # 0} = 1 .. Len(p)
  BY <1>0, <1>3
<1>5. List!Cardinality({k \in Steps : visited[k] # 0}) = Len(p)
  BY <1>0, <1>4, UpTo, CardinalityOfList
<1>6. List!Walk(First(p)) = [i \in 1 .. Len(p) |-> visited[i]]
  BY <1>5 DEF List!Walk, visited
<1>7. [i \in 1 .. Len(p) |-> visited[i]] = p
  BY <1>0, <1>3
<1>. QED  BY <1>6, <1>7

-----------------------------------------------------------------------------
LEMMA MessagesInit == AllInit /\ kind = "messages" => MessagesIInv
<1>. SUFFICES ASSUME List!Init PROVE MessagesIInv
  BY DEF AllInit, Init, Thread!Init
<1>. DEFINE path == [e \in Exceptions |-> <<>>]
<1>1. ChainTypeOK /\ JobTypeOK
  BY DEF List!Init, ChainTypeOK, JobTypeOK, Nodes, Message
<1>2. AllLists(path)
  <2>1. path \in [Exceptions -> Seq(nodes)]
    OBVIOUS
  <2>2. \A e \in Exceptions : ListOf(e, path[e])
    BY DEF List!Init, ListOf, IsChain, First, End
  <2>. QED  BY <2>1, <2>2 DEF AllLists
<1>. QED  BY <1>1, <1>2 DEF MessagesIInv, ChainsHold

\* What the lists say of any exception's nodes.
LEMMA ListFacts ==
    ASSUME ChainTypeOK, NEW path, AllLists(path), NEW e \in Exceptions
    PROVE  /\ path[e] \in Seq(nodes) /\ Len(path[e]) \in Nat
           /\ \A i \in 1 .. Len(path[e]) : path[e][i] \in nodes /\ path[e][i] \in Nodes
           /\ ListOf(e, path[e])
           /\ messages[e] \in nodes \cup {0} /\ messagesEnd[e] \in nodes \cup {0}
           /\ messages[e] = 0 <=> path[e] = <<>>
           /\ messagesEnd[e] = 0 <=> path[e] = <<>>
<1>1. path[e] \in Seq(nodes) /\ ListOf(e, path[e])
  BY DEF AllLists
<1>2. Len(path[e]) \in Nat /\ \A i \in 1 .. Len(path[e]) : path[e][i] \in nodes
  BY <1>1
<1>3. nodes \in SUBSET Nodes /\ \A n \in Nodes : n # 0
  BY CoreAssumption DEF ChainTypeOK, Nodes, List!Nodes
<1>4. path[e] # <<>> => 1 \in 1 .. Len(path[e]) /\ Len(path[e]) \in 1 .. Len(path[e])
  BY <1>1
<1>. QED  BY <1>1, <1>2, <1>3, <1>4 DEF ListOf, First, End

\* The node that is taken is not in use.
LEMMA NewNodeFacts ==
    ASSUME ChainTypeOK, nodes # Nodes
    PROVE  List!NewNode \in Nodes /\ List!NewNode \notin nodes /\ List!NewNode # 0
<1>1. \E n \in Nodes \ nodes : TRUE
  BY DEF ChainTypeOK
<1>. QED  BY <1>1, CoreAssumption DEF List!NewNode, Nodes, List!Nodes

\* A list whose nodes keep what they hold, whose first and last node stay, stays whole.
LEMMA ListKept ==
    ASSUME NEW e \in Exceptions, NEW p, ListOf(e, p),
           \A i \in 1 .. Len(p) : next'[p[i]] = next[p[i]] /\ msg'[p[i]] = msg[p[i]],
           messages'[e] = messages[e], messagesEnd'[e] = messagesEnd[e],
           recorded'[e] = recorded[e]
    PROVE  ListOf(e, p)'
  BY DEF ListOf, IsChain, First, End

\* The list of one exception grows by one node at one end, the others stay.
LEMMA ListGrows ==
    ASSUME ChainTypeOK, NEW path, AllLists(path), NEW e \in Exceptions,
           NEW n, n \notin nodes, nodes' = nodes \cup {n},
           NEW p \in Seq(nodes'), ListOf(e, p)',
           \/ p = Append(path[e], n)
           \/ p = <<n>> \o path[e],
           \A f \in Exceptions \ {e} : ListOf(f, path[f])',
           NEW new, new = [path EXCEPT ![e] = p]
    PROVE  AllLists(new)'
<1>1. path \in [Exceptions -> Seq(nodes)] /\ path[e] \in Seq(nodes) /\ Len(path[e]) \in Nat
  BY DEF AllLists
<1>2. new[e] = p /\ \A f \in Exceptions \ {e} : new[f] = path[f]
  BY <1>1
<1>3. new \in [Exceptions -> Seq(nodes')]
  <2>1. \A f \in Exceptions : path[f] \in Seq(nodes')
    BY <1>1
  <2>. QED  BY <1>1, <2>1
<1>4. \A f \in Exceptions : ListOf(f, new[f])'
  BY <1>2
<1>5. PICK at_ \in [1 .. Len(p) -> 0 .. Len(path[e])] :
         /\ \A i, j \in 1 .. Len(p) : at_[i] = at_[j] => i = j
         /\ \A i \in 1 .. Len(p) : IF at_[i] = 0 THEN p[i] = n ELSE p[i] = path[e][at_[i]]
  <2>1. CASE p = Append(path[e], n)
    <3>. DEFINE a == [i \in 1 .. Len(p) |-> IF i = Len(p) THEN 0 ELSE i]
    <3>1. Len(p) = Len(path[e]) + 1 /\ p[Len(p)] = n /\ \A i \in 1 .. Len(path[e]) : p[i] = path[e][i]
      BY <1>1, <2>1
    <3>2. /\ a \in [1 .. Len(p) -> 0 .. Len(path[e])]
          /\ \A i, j \in 1 .. Len(p) : a[i] = a[j] => i = j
          /\ \A i \in 1 .. Len(p) : IF a[i] = 0 THEN p[i] = n ELSE p[i] = path[e][a[i]]
      BY <1>1, <3>1
    <3>. QED  BY <3>2
  <2>2. CASE p = <<n>> \o path[e]
    <3>. DEFINE a == [i \in 1 .. Len(p) |-> i - 1]
    <3>1. Len(p) = Len(path[e]) + 1 /\ p[1] = n /\ \A i \in 2 .. Len(p) : p[i] = path[e][i - 1]
      <4>1. <<n>> \in Seq(nodes') /\ path[e] \in Seq(nodes')
        BY <1>1
      <4>2. Len(<<n>>) = 1 /\ <<n>>[1] = n
        OBVIOUS
      <4>. QED  BY <1>1, <2>2, <4>1, <4>2, ConcatProperties
    <3>. HIDE DEF a
    <3>0. a = [i \in 1 .. Len(p) |-> i - 1]
      BY DEF a
    <3>2. /\ a \in [1 .. Len(p) -> 0 .. Len(path[e])]
          /\ \A i, j \in 1 .. Len(p) : a[i] = a[j] => i = j
          /\ \A i \in 1 .. Len(p) : IF a[i] = 0 THEN p[i] = n ELSE p[i] = path[e][a[i]]
      BY <1>1, <3>0, <3>1
    <3>. QED  BY <3>2
  <2>. QED  BY <2>1, <2>2
<1>6. \A f \in Exceptions : \A i \in 1 .. Len(path[f]) : path[f][i] \in nodes /\ path[f][i] # n
  BY ListFacts
<1>7. \A i \in 1 .. Len(p) :
         \/ at_[i] = 0 /\ p[i] = n
         \/ at_[i] \in 1 .. Len(path[e]) /\ p[i] = path[e][at_[i]]
  <2>. SUFFICES ASSUME NEW i \in 1 .. Len(p), at_[i] # 0 PROVE at_[i] \in 1 .. Len(path[e])
    BY <1>5
  <2>1. at_[i] \in 0 .. Len(path[e])
    BY <1>5
  <2>. QED  BY <1>1, <2>1
<1>8. ASSUME NEW f \in Exceptions, NEW g \in Exceptions,
             NEW i \in 1 .. Len(new[f]), NEW j \in 1 .. Len(new[g]), new[f][i] = new[g][j]
      PROVE  f = g /\ i = j
  <2>1. \A h \in Exceptions : \A k \in 1 .. Len(path[e]), l \in 1 .. Len(path[h]) :
            path[e][k] = path[h][l] => e = h /\ k = l
    BY DEF AllLists
  <2>2. CASE f = e /\ g = e
    <3>1. i \in 1 .. Len(p) /\ j \in 1 .. Len(p) /\ p[i] = p[j]
      BY <1>2, <1>8, <2>2
    <3>2. at_[i] = at_[j]
      <4>1. \A k \in 1 .. Len(path[e]) : path[e][k] # n
        BY <1>6
      <4>2. \A k, l \in 1 .. Len(path[e]) : path[e][k] = path[e][l] => k = l
        BY <2>1
      <4>3. /\ (at_[i] = 0 /\ p[i] = n) \/ (at_[i] \in 1 .. Len(path[e]) /\ p[i] = path[e][at_[i]])
            /\ (at_[j] = 0 /\ p[j] = n) \/ (at_[j] \in 1 .. Len(path[e]) /\ p[j] = path[e][at_[j]])
        BY <1>7, <3>1
      <4>. QED  BY <3>1, <4>1, <4>2, <4>3
    <3>. QED  BY <1>5, <2>2, <3>1, <3>2
  <2>3. CASE f = e /\ g # e
    <3>1. i \in 1 .. Len(p) /\ j \in 1 .. Len(path[g]) /\ p[i] = path[g][j]
      BY <1>2, <1>8, <2>3
    <3>. QED  BY <1>6, <1>7, <2>1, <2>3, <3>1
  <2>4. CASE f # e /\ g = e
    <3>1. j \in 1 .. Len(p) /\ i \in 1 .. Len(path[f]) /\ p[j] = path[f][i]
      BY <1>2, <1>8, <2>4
    <3>. QED  BY <1>6, <1>7, <2>1, <2>4, <3>1
  <2>5. CASE f # e /\ g # e
    BY <1>2, <1>8, <2>5 DEF AllLists
  <2>. QED  BY <2>2, <2>3, <2>4, <2>5
<1>. QED  BY <1>3, <1>4, <1>8 DEF AllLists

\* A message more at the end of the list.
LEMMA AppendStep ==
    ASSUME ChainsHold, NEW e \in Exceptions, NEW text \in Message, List!append_nolock(e, text)
    PROVE  ChainsHold'
<1>. DEFINE n == List!NewNode
<1>1. PICK path : AllLists(path)
  BY DEF ChainsHold
<1>2. /\ nodes # Nodes /\ nodes' = nodes \cup {n} /\ msg' = [msg EXCEPT ![n] = text]
      /\ next' = [m \in Nodes |-> IF m = n THEN 0 ELSE IF m = messagesEnd[e] THEN n ELSE next[m]]
      /\ messages' = [messages EXCEPT ![e] = IF messages[e] = 0 THEN n ELSE messages[e]]
      /\ messagesEnd' = [messagesEnd EXCEPT ![e] = n]
      /\ recorded' = [recorded EXCEPT ![e] = Append(recorded[e], text)]
  BY DEF List!append_nolock, Nodes
<1>3. n \in Nodes /\ n \notin nodes /\ n # 0
  BY <1>2, NewNodeFacts DEF ChainsHold
<1>. HIDE DEF n
<1>4. ChainTypeOK /\ recorded[e] \in Seq(Message)
  BY DEF ChainsHold, ChainTypeOK
<1>5. ChainTypeOK'
  <2>1. recorded' \in [Exceptions -> Seq(Message)]
    BY <1>2, <1>4, AppendProperties DEF ChainTypeOK
  <2>2. next' \in [Nodes -> Nodes \cup {0}]
    BY <1>2, <1>3, <1>4 DEF ChainTypeOK
  <2>. QED  BY <1>2, <1>3, <1>4, <2>1, <2>2 DEF ChainTypeOK
<1>6. /\ path[e] \in Seq(nodes) /\ Len(path[e]) \in Nat /\ ListOf(e, path[e])
      /\ \A i \in 1 .. Len(path[e]) : path[e][i] \in nodes /\ path[e][i] \in Nodes
      /\ messagesEnd[e] = End(path[e]) /\ messages[e] = First(path[e])
  BY <1>1, <1>4, ListFacts DEF ListOf
<1>7. PICK p : p = Append(path[e], n)
  OBVIOUS
<1>8. /\ p \in Seq(nodes') /\ Len(p) = Len(path[e]) + 1 /\ p[Len(p)] = n
      /\ \A i \in 1 .. Len(path[e]) : p[i] = path[e][i]
  <2>1. path[e] \in Seq(nodes') /\ n \in nodes'
    BY <1>2, <1>6
  <2>. QED  BY <1>6, <1>7, <2>1, AppendProperties
<1>9. ListOf(e, p)'
  <2>1. IsChain(p)'
    <3>. SUFFICES ASSUME NEW i \in 1 .. Len(p)
                  PROVE  next'[p[i]] = IF i = Len(p) THEN 0 ELSE p[i + 1]
      BY DEF IsChain
    <3>1. CASE i = Len(p)
      BY <1>2, <1>3, <1>8, <3>1
    <3>2. CASE i # Len(p)
      <4>1. i \in 1 .. Len(path[e]) /\ p[i] = path[e][i] /\ p[i] \in Nodes /\ p[i] # n
        BY <1>3, <1>6, <1>8, <3>2
      <4>2. End(path[e]) = path[e][Len(path[e])] /\ Len(path[e]) \in 1 .. Len(path[e])
        BY <1>6, <4>1 DEF End
      <4>3. CASE i = Len(path[e])
        BY <1>2, <1>6, <1>8, <3>2, <4>1, <4>2, <4>3
      <4>4. CASE i # Len(path[e])
        <5>1. path[e][i] # path[e][Len(path[e])]
          BY <1>1, <4>1, <4>2, <4>4 DEF AllLists
        <5>2. next'[p[i]] = next[path[e][i]]
          BY <1>2, <1>6, <4>1, <4>2, <5>1
        <5>3. next[path[e][i]] = path[e][i + 1]
          BY <1>6, <4>1, <4>4 DEF ListOf, IsChain
        <5>4. i + 1 \in 1 .. Len(path[e])
          BY <1>6, <4>1, <4>4
        <5>. QED  BY <1>8, <3>2, <5>2, <5>3, <5>4
      <4>. QED  BY <4>3, <4>4
    <3>. QED  BY <3>1, <3>2
  <2>2. messages'[e] = First(p) /\ messagesEnd'[e] = End(p)
    <3>1. messages'[e] = (IF messages[e] = 0 THEN n ELSE messages[e]) /\ messagesEnd'[e] = n
      BY <1>2, <1>4 DEF ChainTypeOK
    <3>2. p # <<>> /\ First(p) = p[1] /\ End(p) = n
      BY <1>6, <1>8 DEF First, End
    <3>3. CASE path[e] = <<>>
      BY <1>6, <1>8, <3>1, <3>2, <3>3 DEF First
    <3>4. CASE path[e] # <<>>
      <4>1. 1 \in 1 .. Len(path[e]) /\ messages[e] = path[e][1] /\ messages[e] # 0
        BY <1>6, <3>4, CoreAssumption DEF First, Nodes, List!Nodes
      <4>. QED  BY <1>8, <3>1, <3>2, <4>1
    <3>. QED  BY <3>3, <3>4
  <2>3. /\ Len(recorded'[e]) = Len(recorded[e]) + 1 /\ recorded'[e][Len(recorded[e]) + 1] = text
        /\ \A i \in 1 .. Len(recorded[e]) : recorded'[e][i] = recorded[e][i]
    <3>1. recorded'[e] = Append(recorded[e], text)
      BY <1>2, <1>4 DEF ChainTypeOK
    <3>. QED  BY <1>4, <3>1, AppendProperties
  <2>4. Len(recorded[e]) = Len(path[e]) /\ \A i \in 1 .. Len(path[e]) : msg[path[e][i]] = recorded[e][i]
    BY <1>6 DEF ListOf
  <2>5. ASSUME NEW i \in 1 .. Len(p) PROVE msg'[p[i]] = recorded'[e][i]
    <3>1. CASE i = Len(p)
      BY <1>2, <1>3, <1>4, <1>8, <2>3, <2>4, <3>1 DEF ChainTypeOK
    <3>2. CASE i # Len(p)
      <4>1. i \in 1 .. Len(path[e]) /\ p[i] = path[e][i] /\ p[i] \in Nodes /\ p[i] # n
        BY <1>3, <1>6, <1>8, <3>2
      <4>2. msg'[p[i]] = msg[path[e][i]]
        BY <1>2, <1>4, <4>1 DEF ChainTypeOK
      <4>. QED  BY <2>3, <2>4, <4>1, <4>2
    <3>. QED  BY <3>1, <3>2
  <2>. QED  BY <1>8, <2>1, <2>2, <2>3, <2>4, <2>5 DEF ListOf, First, End
<1>10. ASSUME NEW f \in Exceptions, f # e PROVE ListOf(f, path[f])'
  <2>1. ListOf(f, path[f]) /\ \A i \in 1 .. Len(path[f]) : path[f][i] \in nodes /\ path[f][i] \in Nodes
    BY <1>1, <1>4, ListFacts
  <2>2. ASSUME NEW i \in 1 .. Len(path[f]) PROVE path[f][i] # n /\ path[f][i] # messagesEnd[e]
    <3>1. path[f][i] # n /\ path[f][i] # 0
      BY <1>3, <2>1, CoreAssumption DEF Nodes, List!Nodes
    <3>2. CASE path[e] = <<>>
      BY <1>6, <3>1, <3>2 DEF End
    <3>3. CASE path[e] # <<>>
      <4>1. Len(path[e]) \in 1 .. Len(path[e]) /\ messagesEnd[e] = path[e][Len(path[e])]
        BY <1>6, <3>3 DEF End
      <4>. QED  BY <1>1, <1>10, <3>1, <4>1 DEF AllLists
    <3>. QED  BY <3>2, <3>3
  <2>3. \A i \in 1 .. Len(path[f]) :
           next'[path[f][i]] = next[path[f][i]] /\ msg'[path[f][i]] = msg[path[f][i]]
    BY <1>2, <1>4, <2>1, <2>2 DEF ChainTypeOK
  <2>4. /\ messages'[f] = messages[f] /\ messagesEnd'[f] = messagesEnd[f]
        /\ recorded'[f] = recorded[f]
    BY <1>2, <1>4, <1>10 DEF ChainTypeOK
  <2>. QED  BY <2>1, <2>3, <2>4, ListKept
<1>11. PICK new : new = [path EXCEPT ![e] = p]
  OBVIOUS
<1>12. AllLists(new)'
  BY <1>1, <1>2, <1>3, <1>4, <1>7, <1>8, <1>9, <1>10, <1>11, ListGrows
<1>. QED  BY <1>5, <1>12 DEF ChainsHold

\* A message more at the head of the list.
LEMMA PrependStep ==
    ASSUME ChainsHold, NEW e \in Exceptions, NEW text \in Message, List!prepend_nolock(e, text)
    PROVE  ChainsHold'
<1>. DEFINE n == List!NewNode
<1>1. PICK path : AllLists(path)
  BY DEF ChainsHold
<1>2. /\ nodes # Nodes /\ nodes' = nodes \cup {n} /\ msg' = [msg EXCEPT ![n] = text]
      /\ next' = [next EXCEPT ![n] = messages[e]]
      /\ messages' = [messages EXCEPT ![e] = n]
      /\ messagesEnd' = [messagesEnd EXCEPT ![e] = IF messages[e] = 0 THEN n ELSE messagesEnd[e]]
      /\ recorded' = [recorded EXCEPT ![e] = <<text>> \o recorded[e]]
  BY DEF List!prepend_nolock, Nodes
<1>3. n \in Nodes /\ n \notin nodes /\ n # 0
  BY <1>2, NewNodeFacts DEF ChainsHold
<1>. HIDE DEF n
<1>4. ChainTypeOK /\ recorded[e] \in Seq(Message)
  BY DEF ChainsHold, ChainTypeOK
<1>5. /\ <<text>> \o recorded[e] \in Seq(Message)
      /\ Len(<<text>> \o recorded[e]) = Len(recorded[e]) + 1
      /\ (<<text>> \o recorded[e])[1] = text
      /\ \A i \in 1 .. Len(recorded[e]) : (<<text>> \o recorded[e])[i + 1] = recorded[e][i]
  <2>1. <<text>> \in Seq(Message) /\ Len(<<text>>) = 1 /\ <<text>>[1] = text
    OBVIOUS
  <2>. QED  BY <1>4, <2>1, ConcatProperties
<1>6. ChainTypeOK'
  <2>1. recorded' \in [Exceptions -> Seq(Message)]
    BY <1>2, <1>4, <1>5 DEF ChainTypeOK
  <2>. QED  BY <1>2, <1>3, <1>4, <2>1 DEF ChainTypeOK
<1>7. /\ path[e] \in Seq(nodes) /\ Len(path[e]) \in Nat /\ ListOf(e, path[e])
      /\ \A i \in 1 .. Len(path[e]) : path[e][i] \in nodes /\ path[e][i] \in Nodes
      /\ messagesEnd[e] = End(path[e]) /\ messages[e] = First(path[e])
      /\ messages[e] = 0 <=> path[e] = <<>>
  BY <1>1, <1>4, ListFacts DEF ListOf
<1>8. PICK p : p = <<n>> \o path[e]
  OBVIOUS
<1>9. /\ p \in Seq(nodes') /\ Len(p) = Len(path[e]) + 1 /\ p[1] = n
      /\ \A i \in 1 .. Len(path[e]) : p[i + 1] = path[e][i]
  <2>1. path[e] \in Seq(nodes') /\ <<n>> \in Seq(nodes') /\ Len(<<n>>) = 1 /\ <<n>>[1] = n
    BY <1>2, <1>7
  <2>. QED  BY <1>7, <1>8, <2>1, ConcatProperties
<1>10. ListOf(e, p)'
  <2>1. IsChain(p)'
    <3>. SUFFICES ASSUME NEW i \in 1 .. Len(p)
                  PROVE  next'[p[i]] = IF i = Len(p) THEN 0 ELSE p[i + 1]
      BY DEF IsChain
    <3>1. CASE i = 1
      <4>1. next'[n] = messages[e]
        BY <1>2, <1>3, <1>4 DEF ChainTypeOK
      <4>2. CASE path[e] = <<>>
        BY <1>7, <1>9, <3>1, <4>1, <4>2
      <4>3. CASE path[e] # <<>>
        <5>1. 1 \in 1 .. Len(path[e]) /\ messages[e] = path[e][1]
          BY <1>7, <4>3 DEF First
        <5>. QED  BY <1>7, <1>9, <3>1, <4>1, <5>1
      <4>. QED  BY <4>2, <4>3
    <3>2. CASE i # 1
      <4>1. PICK j \in 1 .. Len(path[e]) : i = j + 1
        <5>1. i - 1 \in 1 .. Len(path[e]) /\ i = (i - 1) + 1
          BY <1>7, <1>9, <3>2
        <5>. QED  BY <5>1
      <4>2. p[i] = path[e][j] /\ p[i] # n /\ p[i] \in Nodes
        BY <1>3, <1>7, <1>9, <4>1
      <4>3. next'[p[i]] = next[path[e][j]]
        BY <1>2, <1>4, <4>2 DEF ChainTypeOK
      <4>4. next[path[e][j]] = IF j = Len(path[e]) THEN 0 ELSE path[e][j + 1]
        BY <1>7 DEF ListOf, IsChain
      <4>5. j # Len(path[e]) => j + 1 \in 1 .. Len(path[e])
        BY <1>7
      <4>. QED  BY <1>7, <1>9, <4>1, <4>3, <4>4, <4>5
    <3>. QED  BY <3>1, <3>2
  <2>2. messages'[e] = First(p) /\ messagesEnd'[e] = End(p)
    <3>1. messagesEnd'[e] = (IF messages[e] = 0 THEN n ELSE messagesEnd[e]) /\ messages'[e] = n
      BY <1>2, <1>4 DEF ChainTypeOK
    <3>2. p # <<>> /\ First(p) = n /\ End(p) = p[Len(p)]
      BY <1>7, <1>9 DEF First, End
    <3>3. CASE path[e] = <<>>
      BY <1>7, <1>9, <3>1, <3>2, <3>3
    <3>4. CASE path[e] # <<>>
      <4>1. Len(path[e]) \in 1 .. Len(path[e]) /\ messagesEnd[e] = path[e][Len(path[e])]
        BY <1>7, <3>4 DEF End
      <4>. QED  BY <1>7, <1>9, <3>1, <3>2, <3>4, <4>1
    <3>. QED  BY <3>3, <3>4
  <2>3. recorded'[e] = <<text>> \o recorded[e]
    BY <1>2, <1>4 DEF ChainTypeOK
  <2>4. Len(recorded[e]) = Len(path[e]) /\ \A i \in 1 .. Len(path[e]) : msg[path[e][i]] = recorded[e][i]
    BY <1>7 DEF ListOf
  <2>5. ASSUME NEW i \in 1 .. Len(p) PROVE msg'[p[i]] = recorded'[e][i]
    <3>1. CASE i = 1
      BY <1>2, <1>3, <1>4, <1>5, <1>9, <2>3, <3>1 DEF ChainTypeOK
    <3>2. CASE i # 1
      <4>1. PICK j \in 1 .. Len(path[e]) : i = j + 1
        <5>1. i - 1 \in 1 .. Len(path[e]) /\ i = (i - 1) + 1
          BY <1>7, <1>9, <3>2
        <5>. QED  BY <5>1
      <4>2. p[i] = path[e][j] /\ p[i] # n /\ p[i] \in Nodes
        BY <1>3, <1>7, <1>9, <4>1
      <4>3. msg'[p[i]] = msg[path[e][j]]
        BY <1>2, <1>4, <4>2 DEF ChainTypeOK
      <4>. QED  BY <1>5, <2>3, <2>4, <4>1, <4>3
    <3>. QED  BY <3>1, <3>2
  <2>. QED  BY <1>5, <1>9, <2>1, <2>2, <2>3, <2>4, <2>5 DEF ListOf, First, End
<1>11. ASSUME NEW f \in Exceptions, f # e PROVE ListOf(f, path[f])'
  <2>1. ListOf(f, path[f]) /\ \A i \in 1 .. Len(path[f]) : path[f][i] \in nodes /\ path[f][i] \in Nodes
    BY <1>1, <1>4, ListFacts
  <2>2. \A i \in 1 .. Len(path[f]) :
           next'[path[f][i]] = next[path[f][i]] /\ msg'[path[f][i]] = msg[path[f][i]]
    BY <1>2, <1>3, <1>4, <2>1 DEF ChainTypeOK
  <2>3. /\ messages'[f] = messages[f] /\ messagesEnd'[f] = messagesEnd[f]
        /\ recorded'[f] = recorded[f]
    BY <1>2, <1>4, <1>11 DEF ChainTypeOK
  <2>. QED  BY <2>1, <2>2, <2>3, ListKept
<1>12. PICK new : new = [path EXCEPT ![e] = p]
  OBVIOUS
<1>13. AllLists(new)'
  BY <1>1, <1>2, <1>3, <1>4, <1>8, <1>9, <1>10, <1>11, <1>12, ListGrows
<1>. QED  BY <1>6, <1>13 DEF ChainsHold

LEMMA SeqIn ==
    ASSUME NEW S, NEW T, NEW s \in Seq(S), \A i \in 1 .. Len(s) : s[i] \in T
    PROVE  s \in Seq(T)
<1>1. Len(s) \in Nat /\ s = [i \in 1 .. Len(s) |-> s[i]]
  OBVIOUS
<1>. QED  BY <1>1, IsASeq

\* Reading the list from its first node gives its nodes.
LEMMA WalkOfList ==
    ASSUME ChainTypeOK, NEW path, AllLists(path), NEW e \in Exceptions
    PROVE  List!Walk(messages[e]) = path[e]
<1>1. /\ path[e] \in Seq(nodes) /\ ListOf(e, path[e])
      /\ \A i \in 1 .. Len(path[e]) : path[e][i] \in Nodes
  BY ListFacts
<1>2. path[e] \in Seq(Nodes) /\ path[e] \in Seq(1 .. MaxNodes)
  <2>1. path[e] \in Seq(Nodes)
    BY <1>1, SeqIn
  <2>. QED  BY <2>1 DEF Nodes, List!Nodes
<1>3. \A i, j \in 1 .. Len(path[e]) : path[e][i] = path[e][j] => i = j
  BY DEF AllLists
<1>4. Len(path[e]) <= MaxNodes
  BY <1>2, <1>3, ShortSequence, CoreAssumption
<1>. QED  BY <1>1, <1>2, <1>4, WalkFollows DEF ListOf

\* The nodes that are freed are those of the exception, and of no other.
LEMMA DestroyStep ==
    ASSUME ChainsHold, NEW t \in Users, NEW e \in Exceptions, List!Destroy(t, e)
    PROVE  ChainsHold'
<1>1. PICK path : AllLists(path)
  BY DEF ChainsHold
<1>2. ChainTypeOK /\ List!Walk(messages[e]) = path[e]
  BY <1>1, WalkOfList DEF ChainsHold
<1>3. /\ nodes' = nodes \ {path[e][i] : i \in 1 .. Len(path[e])}
      /\ messages' = [messages EXCEPT ![e] = 0] /\ messagesEnd' = [messagesEnd EXCEPT ![e] = 0]
      /\ recorded' = [recorded EXCEPT ![e] = <<>>] /\ next' = next /\ msg' = msg
  BY <1>2 DEF List!Destroy
<1>4. ChainTypeOK'
  <2>1. recorded' \in [Exceptions -> Seq(Message)]
    <3>1. <<>> \in Seq(Message)
      OBVIOUS
    <3>. QED  BY <1>2, <1>3, <3>1 DEF ChainTypeOK
  <2>. QED  BY <1>2, <1>3, <2>1 DEF ChainTypeOK
<1>5. PICK new : new = [path EXCEPT ![e] = <<>>]
  OBVIOUS
<1>6. path \in [Exceptions -> Seq(nodes)] /\ new[e] = <<>> /\ \A f \in Exceptions \ {e} : new[f] = path[f]
  BY <1>1, <1>5 DEF AllLists
<1>7. new \in [Exceptions -> Seq(nodes')]
  <2>1. ASSUME NEW f \in Exceptions PROVE new[f] \in Seq(nodes')
    <3>1. CASE f = e
      <4>1. <<>> \in Seq(nodes')
        OBVIOUS
      <4>. QED  BY <1>6, <3>1, <4>1
    <3>2. CASE f # e
      <4>1. ASSUME NEW i \in 1 .. Len(path[f]) PROVE path[f][i] \in nodes'
        BY <1>1, <1>2, <1>3, <3>2, ListFacts DEF AllLists
      <4>2. path[f] \in Seq(nodes)
        BY <1>6
      <4>3. path[f] \in Seq(nodes')
        BY <4>1, <4>2, SeqIn
      <4>. QED  BY <1>6, <3>2, <4>3
    <3>. QED  BY <3>1, <3>2
  <2>. QED  BY <1>5, <1>6, <2>1
<1>8. ASSUME NEW f \in Exceptions PROVE ListOf(f, new[f])'
  <2>1. CASE f = e
    BY <1>2, <1>3, <1>6, <2>1 DEF ListOf, IsChain, First, End, ChainTypeOK
  <2>2. CASE f # e
    <3>1. ListOf(f, path[f])
      BY <1>1, <1>2, ListFacts
    <3>2. messages'[f] = messages[f] /\ messagesEnd'[f] = messagesEnd[f] /\ recorded'[f] = recorded[f]
      BY <1>2, <1>3, <2>2 DEF ChainTypeOK
    <3>3. ListOf(f, path[f])'
      BY <1>3, <3>1, <3>2, ListKept
    <3>. QED  BY <1>6, <2>2, <3>3
  <2>. QED  BY <2>1, <2>2
<1>9. ASSUME NEW f \in Exceptions, NEW g \in Exceptions,
             NEW i \in 1 .. Len(new[f]), NEW j \in 1 .. Len(new[g]), new[f][i] = new[g][j]
      PROVE  f = g /\ i = j
  <2>1. f # e /\ g # e
    BY <1>6
  <2>. QED  BY <1>1, <1>6, <1>9, <2>1 DEF AllLists
<1>10. AllLists(new)'
  BY <1>7, <1>8, <1>9 DEF AllLists
<1>. QED  BY <1>4, <1>10 DEF ChainsHold

\* The steps on the lists of messages.
LEMMA MessagesStep == ASSUME kind = "messages", MessagesIInv, Step PROVE MessagesIInv'
<1>0. ChainsHold /\ ChainTypeOK /\ JobTypeOK
  BY DEF MessagesIInv, ChainsHold
<1>1. ASSUME UNCHANGED <<messages, messagesEnd, next, msg, nodes, recorded>> PROVE ChainsHold'
  BY <1>0, <1>1 DEF ChainsHold, ChainTypeOK, AllLists, ListOf, IsChain, First, End
<1>2. CASE UNCHANGED allVars
  BY <1>0, <1>1, <1>2 DEF allVars, vars, listOnly, jobVars, MessagesIInv, JobTypeOK
<1>3. ASSUME NEW t \in Users, NEW e \in Exceptions, NEW text \in Texts,
             List!append(t, e, text) \/ List!prepend(t, e, text)
      PROVE  MessagesIInv'
  <2>1. text \in Message /\ (List!append_nolock(e, text) \/ List!prepend_nolock(e, text))
    BY <1>3 DEF List!append, List!prepend, Message
  <2>2. JobTypeOK'
    BY <1>0, <1>3 DEF List!append, List!prepend, JobTypeOK
  <2>. QED  BY <1>0, <2>1, <2>2, AppendStep, PrependStep DEF MessagesIInv
<1>4. ASSUME NEW t \in Users, NEW e \in Exceptions, NEW exc \in Exceptions,
             List!copy_messages(t, e, exc)
      PROVE  MessagesIInv'
  BY <1>0, <1>1, <1>4 DEF List!copy_messages, MessagesIInv, JobTypeOK
<1>5. ASSUME NEW t \in Users, List!CopySource(t) PROVE MessagesIInv'
  <2>1. target[t] \in Exceptions /\ messages[source[t]] \in Nodes \cup {0}
    BY <1>0, <1>5 DEF List!CopySource, JobTypeOK, ChainTypeOK
  <2>. QED  BY <1>0, <1>1, <1>5, <2>1 DEF List!CopySource, MessagesIInv, JobTypeOK
<1>6. ASSUME NEW t \in Users, List!CopyMessage(t) PROVE MessagesIInv'
  <2>1. target[t] \in Exceptions /\ messagesIterator[target[t]] \in Nodes
    BY <1>0, <1>6 DEF List!CopyMessage, JobTypeOK
  <2>2. msg[messagesIterator[target[t]]] \in Message /\ next[messagesIterator[target[t]]] \in Nodes \cup {0}
    BY <1>0, <2>1 DEF ChainTypeOK
  <2>3. ChainsHold'
    BY <1>0, <1>6, <2>1, <2>2, AppendStep DEF List!CopyMessage
  <2>4. JobTypeOK'
    BY <1>0, <1>6, <2>1, <2>2 DEF List!CopyMessage, JobTypeOK
  <2>. QED  BY <2>3, <2>4 DEF MessagesIInv
<1>7. ASSUME NEW t \in Users, List!CopyEnd(t) PROVE MessagesIInv'
  BY <1>0, <1>1, <1>7 DEF List!CopyEnd, MessagesIInv, JobTypeOK
<1>8. ASSUME NEW t \in Users, NEW e \in Exceptions, List!Destroy(t, e) PROVE MessagesIInv'
  <2>1. JobTypeOK'
    BY <1>0, <1>8 DEF List!Destroy, JobTypeOK
  <2>. QED  BY <1>0, <1>8, <2>1, DestroyStep DEF MessagesIInv
<1>9. List!Next \/ UNCHANGED allVars
  BY DEF Step, CoreNext, ThreadingNext, Next, PtrNext, ContainerNext, ListNext, LockNext,
         CondNext, ConfigNext, Thread!Next, Thread!ThreadNext, Thread!ListNext, Thread!LifeNext
<1>. QED  BY <1>2, <1>3, <1>4, <1>5, <1>6, <1>7, <1>8, <1>9 DEF List!Next

\* The walk of an exception finds the messages that were recorded.
LEMMA MessagesIInvSound == MessagesIInv => List!ListIntact
<1>. SUFFICES ASSUME MessagesIInv PROVE List!ListIntact
  OBVIOUS
<1>1. ChainTypeOK /\ \E path : AllLists(path)
  BY DEF MessagesIInv, ChainsHold
<1>2. PICK path : AllLists(path)
  BY <1>1
<1>3. ASSUME NEW e \in Exceptions
      PROVE  /\ [i \in 1 .. Len(path[e]) |-> msg[path[e][i]]] = recorded[e]
             /\ messagesEnd[e] = IF path[e] = <<>> THEN 0 ELSE path[e][Len(path[e])]
             /\ recorded[e] # <<>> => List!what(e) = Head(recorded[e])
  <2>1. path[e] \in Seq(nodes) /\ ListOf(e, path[e]) /\ (messages[e] = 0 <=> path[e] = <<>>)
    BY <1>1, <1>2, ListFacts
  <2>2. recorded[e] \in Seq(Message)
    BY <1>1 DEF ChainTypeOK
  <2>3. [i \in 1 .. Len(path[e]) |-> msg[path[e][i]]] = recorded[e]
    BY <2>1, <2>2 DEF ListOf
  <2>4. recorded[e] # <<>> => List!what(e) = Head(recorded[e])
    <3>. SUFFICES ASSUME recorded[e] # <<>> PROVE List!what(e) = Head(recorded[e])
      OBVIOUS
    <3>1. 1 \in 1 .. Len(path[e]) /\ path[e] # <<>> /\ Head(recorded[e]) = recorded[e][1]
      BY <2>1, <2>2 DEF ListOf
    <3>. QED  BY <2>1, <3>1 DEF ListOf, First, List!what
  <2>. QED  BY <2>1, <2>3, <2>4 DEF ListOf, End
<1>4. \A e \in Exceptions : List!Walk(messages[e]) = path[e]
  BY <1>1, <1>2, WalkOfList
<1>5. ASSUME NEW e \in Exceptions, NEW f \in Exceptions, e # f, messagesEnd[e] # 0
      PROVE  messagesEnd[e] # messagesEnd[f]
  <2>. SUFFICES ASSUME messagesEnd[e] = messagesEnd[f] PROVE FALSE
    OBVIOUS
  <2>1. /\ path[e] # <<>> /\ path[e] \in Seq(nodes) /\ messagesEnd[e] = path[e][Len(path[e])]
        /\ path[f] # <<>> /\ path[f] \in Seq(nodes) /\ messagesEnd[f] = path[f][Len(path[f])]
    BY <1>1, <1>2, <1>3, <1>5, ListFacts
  <2>2. Len(path[e]) \in 1 .. Len(path[e]) /\ Len(path[f]) \in 1 .. Len(path[f])
    BY <2>1
  <2>. QED  BY <1>2, <1>5, <2>1, <2>2 DEF AllLists
<1>. QED  BY <1>3, <1>4, <1>5 DEF List!ListIntact

\* Where a class has an operator= of its own (lock_list.h, rwlock_vector.h and
\* their like), assigning one locked container to another copies one state of
\* the source, and the list of an exception's messages (exception.cpp) is what it was given, for any number of threads,
\* containers, exceptions and nodes.
THEOREM CopiesAreWhole == LibrariesSpec => []CopiesWhole
<1>. DEFINE Inv == /\ kind = "container" => ContainerIInv
                   /\ kind = "messages" => MessagesIInv
<1>1. AllInit => Inv
  BY ContainerInit, MessagesInit
<1>2. Inv /\ Step => Inv'
  BY KindKept, ContainerStep, MessagesStep
<1>3. Inv => CopiesWhole
  <2>1. ContainerIInv => Container!CopyIsSnapshot
    BY DEF ContainerIInv, CopiesUnlocked, LockedIInv, Container!CopyIsSnapshot
  <2>. QED  BY <2>1, MessagesIInvSound DEF CopiesWhole
<1>. QED  BY <1>1, <1>2, <1>3, PTL DEF LibrariesSpec, Step

-----------------------------------------------------------------------------
(* The configuration. *)

Paths == Config!Paths
FileNames == {"config", "inc", "host"}

Scalars == {"UINT32", "INT32", "FLOAT", "BOOL", "STRING"}
\* A node that a value was set for, or read from a file; an empty list's value is of unknown type.
HasValue(n) == n.type \in Scalars \cup {"UNKNOWN", "throws"}

\* The node is a scalar of the type its text can be read as, unless it is halfway or was a list.
Consistent(n) ==
    Config!is_scalar(n) /\ ~Config!Halfway(n) /\ ~Config!TypeOfList(n)
        => n.type = Config!determine_scalar_type(n.text)

\* A tree has every node that leads to one of its nodes.
IsTree(t) ==
    /\ DOMAIN t \subseteq Paths /\ t = [p \in DOMAIN t |-> t[p]]
    /\ \A p \in DOMAIN t : Config!Parents(p) \subseteq DOMAIN t
    /\ \A p \in DOMAIN t :
          t[p] = Config!Node(t[p].type, t[p].text, t[p].list) /\ Consistent(t[p])
SectionsUsed(t) == \A p \in DOMAIN t : t[p].type = "MAP" => Config!has_children(t, p)

FilesOK ==
    /\ files = [n \in FileNames |-> [include |-> files[n].include, doc |-> files[n].doc]]
    /\ \A n \in FileNames : IsTree(files[n].doc) /\ SectionsUsed(files[n].doc)
    /\ files["config"].include \in Config!Includes
    /\ files["inc"].include = <<>> /\ files["host"].include = <<>>
TreesOK ==
    /\ IsTree(root) /\ IsTree(host) /\ SectionsUsed(host)
    /\ writing = <<>> \/ /\ writing = <<writing[1]>> /\ hostFile = "host" /\ phase = "ready"
                         /\ IsTree(writing[1]) /\ SectionsUsed(writing[1])

\* Whether there is a host-specific file is up to config.yaml, which is read first.
HasHostFile == Config!HostOf(files["config"].include) # {}
HostFileKnown ==
    /\ hostFile \in {Nobody, "host"}
    /\ phase \in {"loading", "ready"} =>
          \/ phase = "loading" /\ hostFile = Nobody /\ queue = <<Config!Entry("config", "")>>
          \/ hostFile = "host" <=> HasHostFile

\* The tree has the values that were stored.
Keeps(t) ==
    \A p \in DOMAIN stored :
        /\ p \in DOMAIN t /\ ~Config!has_children(t, p)
        /\ HasValue(t[p]) /\ t[p].text = stored[p]
\* What a restart would find, if a write in progress is completed.
Disk == IF writing = <<>> THEN files["host"].doc ELSE writing[1]
StoredKept ==
    /\ DOMAIN stored \subseteq Paths /\ (DOMAIN stored # {} => HasHostFile)
    /\ Keeps(Disk)
    /\ phase = "ready" => Keeps(host)

\* Where the one tree has a value and the other a scalar that is not halfway, the text is the same.
SameScalars(sub, t) ==
    \A p \in DOMAIN sub :
        HasValue(sub[p]) /\ Config!is_scalar(t[p]) /\ ~Config!Halfway(t[p])
            => sub[p].text = t[p].text

\* The host tree is part of the root tree, with the same text where both have a scalar.
HostInRoot ==
    /\ phase = "loading" => DOMAIN host = {}
    /\ phase = "ready" => DOMAIN host \subseteq DOMAIN root /\ SameScalars(host, root)

ConfigIInv == FilesOK /\ TreesOK /\ HostFileKnown /\ StoredKept /\ HostInRoot

\* A section has its values directly below it.
LEMMA ParentFacts ==
    ASSUME NEW p \in Paths, NEW q \in Config!Parents(p)
    PROVE  q \in Paths /\ q # p /\ Config!Parents(q) = {}
<1>. DEFINE Section(r) == r = <<1>>
<1>1. q \in Paths /\ Len(q) < Len(p)
  BY DEF Paths, Config!Parents
<1>2. \A r \in Paths : (Section(r) /\ Len(r) = 1) \/ Len(r) = 2
  BY DEF Paths, Config!Paths
<1>3. Section(q) /\ q # p
  BY <1>1, <1>2
<1>4. \A r \in Paths : ~(Len(r) < Len(q))
  BY <1>2, <1>3
<1>. QED  BY <1>1, <1>3, <1>4 DEF Paths, Config!Parents

\* The type of a text.
LEMMA TypeFacts ==
    ASSUME NEW t
    PROVE  /\ Config!determine_scalar_type(t) \in Scalars \cup {"throws"}
           /\ Config!determine_scalar_type(t) = "throws"
                 <=> Config!convert("uint", t) /\ ~Config!convert("int", t)
           /\ Config!determine_scalar_type(t) = "UINT32" => Config!convert("uint", t) /\ t.v >= 0
           /\ Config!determine_scalar_type(t) = "INT32" => Config!convert("int", t)
           /\ Config!determine_scalar_type(t) = "FLOAT" => Config!convert("float", t)
           /\ Config!determine_scalar_type(t) = "BOOL" => Config!convert("bool", t)
<1>. DEFINE U == Config!convert("uint", t)  I == Config!convert("int", t)
            F == Config!convert("float", t)  B == Config!convert("bool", t)
            d == Config!determine_scalar_type(t)
<1>1. /\ U \in BOOLEAN /\ I \in BOOLEAN /\ F \in BOOLEAN /\ B \in BOOLEAN
      /\ U => t.k = "num"
      /\ F <=> t.k = "num"
      /\ B <=> t.k = "bool"
  BY DEF Config!convert
<1>2. CASE U /\ ~I
  <2>1. d = "throws"
    BY <1>1, <1>2 DEF Config!determine_scalar_type
  <2>. QED  BY <1>2, <2>1
<1>3. CASE U /\ I
  <2>1. d = IF t.v >= 0 THEN "UINT32" ELSE "INT32"
    BY <1>1, <1>3 DEF Config!determine_scalar_type
  <2>. QED  BY <1>3, <2>1 DEF Scalars
<1>4. CASE ~U /\ F
  <2>1. d = "FLOAT"
    BY <1>1, <1>4 DEF Config!determine_scalar_type
  <2>. QED  BY <1>4, <2>1 DEF Scalars
<1>5. CASE ~U /\ ~F /\ B
  <2>1. d = "BOOL"
    BY <1>1, <1>5 DEF Config!determine_scalar_type
  <2>. QED  BY <1>5, <2>1 DEF Scalars
<1>6. CASE ~U /\ ~F /\ ~B
  <2>1. d = "STRING"
    BY <1>1, <1>6 DEF Config!determine_scalar_type
  <2>. QED  BY <1>6, <2>1 DEF Scalars
<1>. QED  BY <1>1, <1>2, <1>3, <1>4, <1>5, <1>6

\* A node of a type that is determined from its text.
LEMMA NodeFacts ==
    ASSUME NEW type, NEW text, NEW list
    PROVE  LET n == Config!Node(type, text, list)
           IN /\ n.type = type /\ n.text = text /\ n.list = list
              /\ n = Config!Node(n.type, n.text, n.list)
              /\ Config!is_scalar(n) <=> type \in Scalars
              /\ HasValue(n) <=> type \in Scalars \cup {"UNKNOWN", "throws"}
              /\ Config!Halfway(n) <=> Config!determine_scalar_type(text) = "throws"
              /\ type = Config!determine_scalar_type(text) \/ type \notin Scalars => Consistent(n)
              /\ Config!determine_scalar_type(text) = "throws" => Consistent(n)
              /\ list # Nobody /\ type = Config!determine_scalar_type(list) => Consistent(n)
  BY TypeFacts DEF Config!Node, Config!is_scalar, Scalars, HasValue, Config!Halfway, Config!TypeOfList,
                   Consistent

\* A scalar is a value.
LEMMA ScalarFacts == ASSUME NEW n, Config!is_scalar(n) PROVE HasValue(n)
  BY DEF Config!is_scalar, HasValue, Scalars

\* The type that is set: that of the text, or of the first element of the list that was there.
LEMMA TypeForFacts ==
    ASSUME NEW n, NEW t, NEW d, d = Config!TypeFor(n, t)
    PROVE  /\ d \in Scalars \cup {"UNKNOWN", "throws"}
           /\ d = "throws" => n.type = "SEQUENCE" \/ Config!determine_scalar_type(t) = "throws"
           /\ \/ d = "throws" \/ d = "UNKNOWN" \/ d = Config!determine_scalar_type(t)
              \/ n.list # Nobody /\ d = Config!determine_scalar_type(n.list)
<1>1. CASE n.type # "SEQUENCE"
  <2>1. d = Config!determine_scalar_type(t)
    BY <1>1 DEF Config!TypeFor
  <2>. QED  BY <2>1, TypeFacts
<1>2. CASE n.type = "SEQUENCE" /\ n.list = Nobody
  <2>1. d = "UNKNOWN"
    BY <1>2 DEF Config!TypeFor
  <2>. QED  BY <2>1
<1>3. CASE n.type = "SEQUENCE" /\ n.list # Nobody
  <2>1. d = IF Config!convert("uint", n.list) THEN "throws" ELSE Config!determine_scalar_type(n.list)
    BY <1>3 DEF Config!TypeFor
  <2>. QED  BY <1>3, <2>1, TypeFacts
<1>. QED  BY <1>1, <1>2, <1>3

\* What the values of scalars are read as.
LEMMA ConsistentSound ==
    ASSUME FilesOK, TreesOK, HostInRoot, StoredKept PROVE Config!ConfigurationHolds
<1>1. Config!TypesConvert
  <2>. SUFFICES ASSUME NEW p \in Config!enum_leafs(root), Config!is_scalar(root[p]),
                       ~Config!Halfway(root[p]), ~Config!TypeOfList(root[p])
                PROVE  /\ root[p].type = "UINT32" => ~Config!GetThrows("uint", p) /\ root[p].text.v >= 0
                       /\ root[p].type = "INT32" => ~Config!GetThrows("int", p)
                       /\ root[p].type = "FLOAT" => ~Config!GetThrows("float", p)
                       /\ root[p].type = "BOOL" => ~Config!GetThrows("bool", p)
    BY DEF Config!TypesConvert
  <2>1. p \in DOMAIN root /\ ~Config!has_children(root, p)
    BY DEF Config!enum_leafs
  <2>2. root[p].type = Config!determine_scalar_type(root[p].text) /\ root[p].type # "SEQUENCE"
    BY <2>1 DEF TreesOK, IsTree, Consistent, Config!is_scalar
  <2>. QED  BY <2>1, <2>2, TypeFacts DEF Config!GetThrows
<1>2. Config!HostScalarWins
  BY ScalarFacts DEF HostInRoot, SameScalars, Config!HostScalarWins, Config!enum_leafs
<1>3. Config!NoEmptySections
  BY DEF TreesOK, SectionsUsed, Config!NoEmptySections
<1>4. Config!SetSurvivesRestart
  BY DEF HostInRoot, SameScalars, StoredKept, Keeps, Config!SetSurvivesRestart
<1>. QED  BY <1>1, <1>2, <1>3, <1>4 DEF Config!ConfigurationHolds

\* u is the tree t with the node n in place of its own at p.
NodeSet(t, p, n, u) ==
    /\ IsTree(u) /\ DOMAIN u = DOMAIN t /\ u[p] = n
    /\ \A q \in DOMAIN t \ {p} : u[q] = t[q]
    /\ SectionsUsed(t) /\ (n.type = "MAP" => t[p].type = "MAP") => SectionsUsed(u)

\* A tree with another node in place of one of its own.
LEMMA SetNode ==
    ASSUME NEW t, IsTree(t), NEW p \in DOMAIN t, NEW n, Consistent(n),
           n = Config!Node(n.type, n.text, n.list), NEW u, u = [t EXCEPT ![p] = n]
    PROVE  NodeSet(t, p, n, u)
<1>1. u = [q \in DOMAIN t |-> IF q = p THEN n ELSE t[q]]
  BY DEF IsTree
<1>2. DOMAIN u = DOMAIN t /\ u[p] = n /\ \A q \in DOMAIN t \ {p} : u[q] = t[q]
  BY <1>1
<1>3. u = [q \in DOMAIN u |-> u[q]]
  BY <1>1
<1>4. IsTree(u)
  BY <1>2, <1>3 DEF IsTree
<1>5. SectionsUsed(t) /\ (n.type = "MAP" => t[p].type = "MAP") => SectionsUsed(u)
  BY <1>2 DEF SectionsUsed, Config!has_children
<1>. QED  BY <1>2, <1>4, <1>5 DEF NodeSet

\* Changing a member of a node.
LEMMA SetMember ==
    ASSUME NEW n, n = Config!Node(n.type, n.text, n.list), NEW x
    PROVE  /\ [n EXCEPT !.type = x] = Config!Node(x, n.text, n.list)
           /\ [n EXCEPT !.text = x] = Config!Node(n.type, x, n.list)
           /\ [n EXCEPT !.list = x] = Config!Node(n.type, n.text, x)
<1>1. n = [type |-> n.type, text |-> n.text, list |-> n.list]
  BY DEF Config!Node
<1>2. [n EXCEPT !.type = x] = Config!Node(x, n.text, n.list)
  BY <1>1 DEF Config!Node
<1>3. [n EXCEPT !.text = x] = Config!Node(n.type, x, n.list)
  BY <1>1 DEF Config!Node
<1>4. [n EXCEPT !.list = x] = Config!Node(n.type, n.text, x)
  BY <1>1 DEF Config!Node
<1>. QED  BY <1>2, <1>3, <1>4

\* A tree with another node in the place of one, and with one, or two, of its members changed.
WithNode(t, p, n) == [t EXCEPT ![p] = n]
WithText(t, p, text) == [t EXCEPT ![p].text = text]
WithTextAndType(t, p, text, type) == [t EXCEPT ![p].text = text, ![p].type = type]
WithListAndType(t, p, l, type) == [t EXCEPT ![p].list = l, ![p].type = type]

\* Changing members of a node is putting another node in its place.
LEMMA SetMembers ==
    ASSUME NEW t, IsTree(t), NEW p \in DOMAIN t, NEW text, NEW type, NEW l
    PROVE  /\ WithText(t, p, text) = WithNode(t, p, Config!Node(t[p].type, text, t[p].list))
           /\ WithTextAndType(t, p, text, type) = WithNode(t, p, Config!Node(type, text, t[p].list))
           /\ WithListAndType(t, p, l, type) = WithNode(t, p, Config!Node(type, t[p].text, l))
<1>1. PICK n : n = t[p] /\ n = Config!Node(n.type, n.text, n.list)
  BY DEF IsTree
<1>2. PICK m : m = [n EXCEPT !.text = text]
  OBVIOUS
<1>3. m = Config!Node(n.type, text, n.list)
  BY <1>1, <1>2, SetMember
<1>4. PICK k : k = [n EXCEPT !.list = l]
  OBVIOUS
<1>5. k = Config!Node(n.type, n.text, l)
  BY <1>1, <1>4, SetMember
<1>6. [m EXCEPT !.type = type] = Config!Node(type, text, n.list)
  <2>1. m.text = text /\ m.list = n.list /\ m = Config!Node(m.type, m.text, m.list)
    BY <1>3, NodeFacts
  <2>2. [m EXCEPT !.type = type] = Config!Node(type, m.text, m.list)
    BY <2>1, SetMember
  <2>. QED  BY <2>1, <2>2
<1>7. [k EXCEPT !.type = type] = Config!Node(type, n.text, l)
  <2>1. k.text = n.text /\ k.list = l /\ k = Config!Node(k.type, k.text, k.list)
    BY <1>5, NodeFacts
  <2>2. [k EXCEPT !.type = type] = Config!Node(type, k.text, k.list)
    BY <2>1, SetMember
  <2>. QED  BY <2>1, <2>2
<1>8. [t EXCEPT ![p].text = text] = [t EXCEPT ![p] = m]
  BY <1>1, <1>2
<1>9. [t EXCEPT ![p].text = text, ![p].type = type] = [t EXCEPT ![p] = [m EXCEPT !.type = type]]
  BY <1>1, <1>2 DEF IsTree
<1>10. [t EXCEPT ![p].list = l, ![p].type = type] = [t EXCEPT ![p] = [k EXCEPT !.type = type]]
  BY <1>1, <1>4 DEF IsTree
<1>. QED  BY <1>1, <1>3, <1>6, <1>7, <1>8, <1>9, <1>10
     DEF WithNode, WithText, WithTextAndType, WithListAndType

\* Reading a file over what was read before.
LEMMA MergeFacts ==
    ASSUME NEW t, IsTree(t), NEW sub, IsTree(sub), ~Config!MergeThrows(t, sub),
           NEW m, m = Config!Merge(t, sub)
    PROVE  IsTree(m) /\ DOMAIN m = DOMAIN t \cup DOMAIN sub /\ SameScalars(sub, m)
<1>1. DOMAIN m = DOMAIN t \cup DOMAIN sub /\ m = [p \in DOMAIN m |-> m[p]]
  BY DEF Config!Merge
<1>2. ASSUME NEW p \in DOMAIN m
      PROVE  /\ m[p] = Config!Node(m[p].type, m[p].text, m[p].list) /\ Consistent(m[p])
             /\ p \in DOMAIN sub /\ HasValue(sub[p]) /\ Config!is_scalar(m[p]) /\ ~Config!Halfway(m[p])
                    => sub[p].text = m[p].text
  <2>1. CASE p \notin DOMAIN t
    <3>1. m[p] = sub[p] /\ p \in DOMAIN sub
      BY <1>1, <2>1 DEF Config!Merge
    <3>. QED  BY <3>1 DEF IsTree
  <2>2. CASE p \in DOMAIN t /\ p \in DOMAIN sub /\ Config!is_scalar(t[p])
    <3>. DEFINE d == Config!determine_scalar_type(sub[p].text)
                n == Config!Node(d, sub[p].text, t[p].list)
    <3>1. m[p] = [t[p] EXCEPT !.type = d, !.text = sub[p].text]
      BY <1>1, <2>2 DEF Config!Merge
    <3>2. t[p] = [type |-> t[p].type, text |-> t[p].text, list |-> t[p].list]
      BY <2>2 DEF IsTree, Config!Node
    <3>3. m[p] = n
      BY <3>1, <3>2 DEF Config!Node
    <3>. HIDE DEF d
    <3>4. n.text = sub[p].text /\ n = Config!Node(n.type, n.text, n.list)
      BY NodeFacts
    <3>5. Consistent(n)
      BY NodeFacts DEF d
    <3>. QED  BY <3>3, <3>4, <3>5
  <2>3. CASE p \in DOMAIN t /\ ~(p \in DOMAIN sub /\ Config!is_scalar(t[p]))
    <3>1. m[p] = t[p]
      BY <1>1, <2>3 DEF Config!Merge
    <3>. QED  BY <2>3, <3>1 DEF IsTree
  <2>. QED  BY <1>1, <2>1, <2>2, <2>3
<1>3. DOMAIN m \subseteq Paths /\ \A p \in DOMAIN m : Config!Parents(p) \subseteq DOMAIN m
  BY <1>1 DEF IsTree
<1>4. SameScalars(sub, m)
  BY <1>1, <1>2 DEF SameScalars
<1>. QED  BY <1>1, <1>2, <1>3, <1>4 DEF IsTree

\* i is the tree t with a node at p.
NodeInserted(t, p, i) ==
    /\ IsTree(i) /\ DOMAIN i = DOMAIN t \cup {p} \cup Config!Parents(p)
    /\ \A q \in DOMAIN t \ Config!Parents(p) : i[q] = t[q]
    /\ \A q \in DOMAIN i : HasValue(i[q]) => q \in DOMAIN t /\ i[q] = t[q]
    /\ SectionsUsed(t) => SectionsUsed(i)

\* A node is made where there is none; the nodes above it become sections.
LEMMA InsertFacts ==
    ASSUME NEW t, IsTree(t), NEW p \in Paths, NEW i, i = Config!find_or_insert(t, p)
    PROVE  NodeInserted(t, p, i)
<1>1. p \notin Config!Parents(p) /\ Config!Parents(p) \subseteq Paths
  BY ParentFacts
<1>2. DOMAIN i = DOMAIN t \cup {p} \cup Config!Parents(p) /\ i = [q \in DOMAIN i |-> i[q]]
  BY DEF Config!find_or_insert
<1>3. ASSUME NEW q \in DOMAIN i
      PROVE  \/ q \in DOMAIN t /\ i[q] = t[q]
             \/ /\ q \in Config!Parents(p)
                /\ \E text, list : i[q] = Config!Node("MAP", text, list)
             \/ q = p /\ \E text, list : i[q] = Config!Node("NONE", text, list)
  <2>1. CASE q \in Config!Parents(p)
    <3>1. CASE p \in DOMAIN t
      BY <1>2, <1>3, <2>1, <3>1 DEF Config!find_or_insert, IsTree
    <3>2. CASE p \notin DOMAIN t /\ q \in DOMAIN t
      <4>1. i[q] = [t[q] EXCEPT !.type = "MAP"]
        BY <1>2, <2>1, <3>2 DEF Config!find_or_insert
      <4>2. t[q] = [type |-> t[q].type, text |-> t[q].text, list |-> t[q].list]
        BY <3>2 DEF IsTree, Config!Node
      <4>3. i[q] = Config!Node("MAP", t[q].text, t[q].list)
        BY <4>1, <4>2 DEF Config!Node
      <4>. QED  BY <2>1, <4>3
    <3>3. CASE p \notin DOMAIN t /\ q \notin DOMAIN t
      BY <1>2, <2>1, <3>3 DEF Config!find_or_insert
    <3>. QED  BY <3>1, <3>2, <3>3
  <2>2. CASE q \notin Config!Parents(p)
    BY <1>2, <2>2 DEF Config!find_or_insert
  <2>. QED  BY <2>1, <2>2
<1>4. \A q \in DOMAIN t \ Config!Parents(p) : i[q] = t[q]
  BY <1>2 DEF Config!find_or_insert
<1>5. ASSUME NEW q \in DOMAIN i
      PROVE  /\ i[q] = Config!Node(i[q].type, i[q].text, i[q].list) /\ Consistent(i[q])
             /\ HasValue(i[q]) => q \in DOMAIN t /\ i[q] = t[q]
  BY <1>3, NodeFacts DEF IsTree, Scalars
<1>6. IsTree(i)
  <2>1. \A q \in DOMAIN i : Config!Parents(q) \subseteq DOMAIN i
    BY <1>2, ParentFacts DEF IsTree
  <2>2. DOMAIN i \subseteq Paths
    BY <1>1, <1>2 DEF IsTree
  <2>. QED  BY <1>2, <1>5, <2>1, <2>2 DEF IsTree
<1>7. ASSUME SectionsUsed(t), NEW q \in DOMAIN i, i[q].type = "MAP" PROVE Config!has_children(i, q)
  <2>1. (q \in DOMAIN t /\ i[q] = t[q]) \/ q \in Config!Parents(p)
    <3>1. ASSUME NEW text, NEW list, i[q] = Config!Node("NONE", text, list) PROVE FALSE
      BY <1>7, <3>1, NodeFacts
    <3>. QED  BY <1>3, <3>1
  <2>. QED  BY <1>2, <1>7, <2>1 DEF SectionsUsed, Config!has_children
<1>. QED  BY <1>2, <1>4, <1>5, <1>6, <1>7 DEF SectionsUsed, NodeInserted

\* u is the tree t without p and at most the sections above it.
Erased(t, p, u) ==
    /\ IsTree(u) /\ DOMAIN u \subseteq DOMAIN t /\ \A q \in DOMAIN u : u[q] = t[q]
    /\ \A q \in DOMAIN t : q # p /\ q \notin Config!Parents(p) => q \in DOMAIN u
    /\ SectionsUsed(t) => SectionsUsed(u)

\* Erasing a value, which has no children, takes it and the sections that it leaves empty, and nothing else.
LEMMA EraseFacts ==
    ASSUME NEW t, IsTree(t), NEW p \in Paths, ~Config!has_children(t, p),
           NEW u, u = Config!Erase(t, p)
    PROVE  Erased(t, p, u)
<1>. DEFINE Other(q) == \E r \in DOMAIN t \ {p} : q \in Config!Parents(r)
<1>1. /\ DOMAIN u = {q \in DOMAIN t : q # p /\ (q \in Config!Parents(p) => Other(q))}
      /\ \A q \in DOMAIN u : u[q] = t[q]
      /\ u = [q \in DOMAIN u |-> u[q]]
  BY DEF Config!Erase
<1>2. IsTree(u)
  <2>1. ASSUME NEW r \in DOMAIN u, NEW q \in Config!Parents(r) PROVE q \in DOMAIN u
    <3>1. r \in DOMAIN t /\ r # p /\ q \in DOMAIN t
      BY <1>1, <2>1 DEF IsTree
    <3>2. Other(q)
      BY <2>1, <3>1
    <3>3. q # p
      BY <2>1, <3>1 DEF Config!has_children
    <3>. QED  BY <1>1, <3>1, <3>2, <3>3
  <2>. QED  BY <1>1, <2>1 DEF IsTree
<1>3. ASSUME SectionsUsed(t), NEW q \in DOMAIN u, u[q].type = "MAP" PROVE Config!has_children(u, q)
  <2>1. PICK r \in DOMAIN t : q \in Config!Parents(r) /\ r # p
    <3>1. PICK c \in DOMAIN t : q \in Config!Parents(c)
      BY <1>1, <1>3 DEF SectionsUsed, Config!has_children
    <3>. QED  BY <1>1, <1>3, <3>1
  <2>2. r \notin Config!Parents(p)
    BY <2>1, ParentFacts
  <2>. QED  BY <1>1, <2>1, <2>2 DEF Config!has_children
<1>. QED  BY <1>1, <1>2, <1>3 DEF SectionsUsed, Erased

\* What is erased from a tree is no more than what is erased from a part of it.
LEMMA EraseMonotone ==
    ASSUME NEW t, NEW s, DOMAIN s \subseteq DOMAIN t, NEW p
    PROVE  DOMAIN Config!Erase(s, p) \subseteq DOMAIN Config!Erase(t, p)
  BY DEF Config!Erase

\* What a file holds after a tree was written to it.
LEMMA EmitFacts ==
    ASSUME NEW t, IsTree(t), NEW e, e = Config!emit(t)
    PROVE  /\ IsTree(e) /\ SectionsUsed(e) /\ DOMAIN e = DOMAIN t
           /\ \A p \in DOMAIN t :
                 ~Config!has_children(t, p) => HasValue(e[p]) /\ e[p].text = t[p].text
<1>1. DOMAIN e = DOMAIN t /\ e = [p \in DOMAIN e |-> e[p]]
  BY DEF Config!emit
<1>2. ASSUME NEW p \in DOMAIN t
      PROVE  e[p] = IF Config!has_children(t, p) THEN Config!Node("MAP", Config!Empty, Nobody)
                    ELSE Config!Node(Config!determine_scalar_type(t[p].text), t[p].text, Nobody)
  BY <1>2 DEF Config!emit, Config!Scalar
<1>3. \A p \in DOMAIN e : e[p] = Config!Node(e[p].type, e[p].text, e[p].list) /\ Consistent(e[p])
  BY <1>1, <1>2, NodeFacts DEF Scalars
<1>4. IsTree(e)
  BY <1>1, <1>3 DEF IsTree
<1>5. SectionsUsed(e)
  BY <1>1, <1>2, NodeFacts, TypeFacts DEF SectionsUsed, Config!has_children, Scalars
<1>6. ASSUME NEW p \in DOMAIN t, ~Config!has_children(t, p)
      PROVE  HasValue(e[p]) /\ e[p].text = t[p].text
  BY <1>2, <1>6, NodeFacts, TypeFacts
<1>. QED  BY <1>1, <1>4, <1>5, <1>6

\* A document with one leaf.
LEMMA LeafFacts ==
    ASSUME NEW p \in Paths, NEW n, n = Config!Node(n.type, n.text, n.list), Consistent(n),
           n.type # "MAP"
    PROVE  IsTree(Config!Leaf(p, n)) /\ SectionsUsed(Config!Leaf(p, n))
<1>. DEFINE t == Config!Leaf(p, n)
<1>1. /\ DOMAIN t = {p} \cup Config!Parents(p) /\ t = [q \in DOMAIN t |-> t[q]]
      /\ t[p] = n /\ \A q \in Config!Parents(p) : t[q] = Config!Node("MAP", Config!Empty, Nobody)
  BY ParentFacts DEF Config!Leaf
<1>2. DOMAIN t \subseteq Paths /\ \A q \in DOMAIN t : Config!Parents(q) \subseteq DOMAIN t
  BY <1>1, ParentFacts
<1>3. \A q \in DOMAIN t : t[q] = Config!Node(t[q].type, t[q].text, t[q].list) /\ Consistent(t[q])
  BY <1>1, NodeFacts DEF Scalars
<1>. QED  BY <1>1, <1>2, <1>3 DEF IsTree, SectionsUsed, Config!has_children

LEMMA EmptyTreeFacts == IsTree(Config!EmptyTree) /\ SectionsUsed(Config!EmptyTree)
  BY DEF IsTree, SectionsUsed, Config!EmptyTree

\* The documents that files begin with.
LEMMA DocFacts ==
    ASSUME NEW d \in Config!Docs \cup Config!HostDocs \cup
                     {Config!Leaf(<<1, 2>>, Config!Scalar(Config!Word))}
    PROVE  IsTree(d) /\ SectionsUsed(d)
<1>1. ASSUME NEW text, NEW n, n = Config!Scalar(text)
      PROVE  n = Config!Node(n.type, n.text, n.list) /\ Consistent(n) /\ n.type # "MAP"
  BY <1>1, NodeFacts, TypeFacts DEF Config!Scalar, Scalars
<1>2. ASSUME NEW l, NEW n, n = Config!Node("SEQUENCE", Config!Empty, l)
      PROVE  n = Config!Node(n.type, n.text, n.list) /\ Consistent(n) /\ n.type # "MAP"
  BY <1>2, NodeFacts DEF Scalars
<1>3. <<1>> \in Paths /\ <<1, 1>> \in Paths /\ <<1, 2>> \in Paths
  BY DEF Paths, Config!Paths
<1>4. \/ d = Config!EmptyTree
      \/ \E p \in Paths : \E text : d = Config!Leaf(p, Config!Scalar(text))
      \/ \E p \in Paths : \E l : d = Config!Leaf(p, Config!Node("SEQUENCE", Config!Empty, l))
  BY <1>3 DEF Config!Docs, Config!HostDocs
<1>. QED  BY <1>1, <1>2, <1>4, LeafFacts, EmptyTreeFacts

\* No file names another host-specific file.
LEMMA HostOfFacts ==
    /\ Config!HostOf(<<>>) = {}
    /\ \A include \in Config!Includes : Config!HostOf(include) \subseteq {"host"}
<1>1. ASSUME NEW include, NEW name \in Config!HostOf(include)
      PROVE  \E i \in DOMAIN include : include[i].tag = "host-specific" /\ include[i].name = name
  BY DEF Config!HostOf, Config!ToSet
<1>2. ASSUME NEW include \in Config!Includes, NEW i \in DOMAIN include,
             include[i].tag = "host-specific"
      PROVE  include[i].name = "host"
  <2>1. \A name, tag : Config!Entry(name, tag).name = name /\ Config!Entry(name, tag).tag = tag
    BY DEF Config!Entry
  <2>2. ASSUME NEW a, NEW b, include = <<a, b>>, a.tag # "host-specific", b.name = "host"
        PROVE  include[i].name = "host"
    <3>1. i = 1 \/ i = 2
      BY <1>2, <2>2
    <3>. QED  BY <1>2, <2>2, <3>1
  <2>3. ASSUME NEW a, include = <<a>>, a.tag = "host-specific" => a.name = "host"
        PROVE  include[i].name = "host"
    BY <1>2, <2>3
  <2>4. include # <<>>
    BY <1>2
  <2>5. \/ include = <<Config!Entry("host", "host-specific")>>
        \/ include = <<Config!Entry("inc", "ignore-missing"), Config!Entry("host", "host-specific")>>
        \/ include = <<Config!Entry("dir", "dir"), Config!Entry("host", "host-specific")>>
        \/ include = <<Config!Entry("config", "")>>
        \/ include = <<Config!Entry("absent", "")>>
    BY <1>2, <2>4 DEF Config!Includes
  <2>6. CASE include = <<Config!Entry("host", "host-specific")>>
    BY <2>1, <2>3, <2>6
  <2>7. CASE include = <<Config!Entry("inc", "ignore-missing"), Config!Entry("host", "host-specific")>>
    BY <2>1, <2>2, <2>7
  <2>8. CASE include = <<Config!Entry("dir", "dir"), Config!Entry("host", "host-specific")>>
    BY <2>1, <2>2, <2>8
  <2>9. ASSUME NEW name, NEW tag, include = <<Config!Entry(name, tag)>> PROVE tag = "host-specific"
    <3>1. include[1] = Config!Entry(name, tag) /\ i = 1
      BY <1>2, <2>9
    <3>. QED  BY <1>2, <2>1, <3>1
  <2>. QED  BY <2>5, <2>6, <2>7, <2>8, <2>9
<1>. QED  BY <1>1, <1>2

\* The files are as Init makes them; nothing is read yet.
LEMMA ConfigInit == AllInit /\ kind = "config" => ConfigIInv
<1>. SUFFICES ASSUME Config!Init PROVE ConfigIInv
  BY DEF AllInit, Init, Thread!Init
<1>1. PICK i \in Config!Includes, d \in Config!Docs, h \in Config!HostDocs :
         files = [n \in FileNames |->
                    CASE n = "config" -> [include |-> i, doc |-> d]
                      [] n = "inc" -> [include |-> <<>>, doc |-> Config!Leaf(<<1, 2>>, Config!Scalar(Config!Word))]
                      [] n = "host" -> [include |-> <<>>, doc |-> h]]
  BY DEF Config!Init, FileNames
<1>2. /\ DOMAIN files = FileNames /\ files["config"] = [include |-> i, doc |-> d]
      /\ files["inc"] = [include |-> <<>>, doc |-> Config!Leaf(<<1, 2>>, Config!Scalar(Config!Word))]
      /\ files["host"] = [include |-> <<>>, doc |-> h]
  BY <1>1 DEF FileNames
<1>3. FilesOK
  <2>1. files = [n \in FileNames |-> [include |-> files[n].include, doc |-> files[n].doc]]
    BY <1>1, <1>2 DEF FileNames
  <2>2. \A n \in FileNames : IsTree(files[n].doc) /\ SectionsUsed(files[n].doc)
    BY <1>2, DocFacts DEF FileNames
  <2>. QED  BY <1>2, <2>1, <2>2 DEF FilesOK
<1>4. TreesOK
  BY EmptyTreeFacts DEF Config!Init, TreesOK
<1>5. HostFileKnown /\ StoredKept /\ HostInRoot
  BY DEF Config!Init, HostFileKnown, StoredKept, Keeps, HostInRoot, Config!EmptyTree
<1>. QED  BY <1>3, <1>4, <1>5 DEF ConfigIInv

\* Reading a file of the queue: the first is config.yaml, which decides whether
\* there is a host-specific file.
LEMMA ReadFileStep == ASSUME ConfigIInv, Config!ReadFile PROVE ConfigIInv'
<1>. DEFINE e == Head(queue)  f == files[e.name]
<1>0. FilesOK /\ TreesOK /\ HostFileKnown /\ StoredKept /\ HostInRoot
  BY DEF ConfigIInv
<1>1. /\ phase = "loading" /\ UNCHANGED <<files, writing, stored>>
      /\ host' = host
      /\ \/ /\ e.tag = "dir" \/ e.name \notin DOMAIN files
            /\ phase' = phase /\ hostFile' = hostFile /\ root' = root
            /\ e.tag = "dir" \/ e.tag = "ignore-missing"
         \/ phase' = "failed" /\ hostFile' = hostFile /\ root' = root
         \/ /\ e.name \in DOMAIN files /\ ~Config!MergeThrows(root, f.doc) /\ root' = Config!Merge(root, f.doc)
            /\ phase' = phase
            /\ Config!HostOf(f.include) # {} => hostFile = Nobody
            /\ hostFile' = IF Config!HostOf(f.include) # {}
                           THEN CHOOSE h \in Config!HostOf(f.include) : TRUE ELSE hostFile
  BY DEF Config!ReadFile, Config!Fail, Config!trees
<1>2. DOMAIN files = FileNames
  BY <1>0 DEF FilesOK
<1>3. ASSUME e.name \in DOMAIN files
      PROVE  /\ IsTree(f.doc)
             /\ e.name = "config" => (Config!HostOf(f.include) # {} <=> HasHostFile)
             /\ e.name # "config" => Config!HostOf(f.include) = {}
             /\ Config!HostOf(f.include) \subseteq {"host"}
  BY <1>0, <1>2, <1>3, HostOfFacts DEF FilesOK, FileNames, HasHostFile
<1>4. hostFile' \in {hostFile, "host"} /\ Nobody # "host"
  <2>1. ASSUME NEW S, S # {}, S \subseteq {"host"} PROVE (CHOOSE h \in S : TRUE) = "host"
    BY <2>1
  <2>. QED  BY <1>1, <1>3, <2>1, CoreAssumption
<1>5. IsTree(root')
  BY <1>0, <1>1, <1>3, MergeFacts DEF TreesOK
<1>6. TreesOK'
  BY <1>0, <1>1, <1>4, <1>5 DEF TreesOK
<1>7. HostFileKnown'
  <2>. SUFFICES ASSUME phase' = "loading" PROVE hostFile' = "host" <=> HasHostFile
    BY <1>0, <1>1, <1>4 DEF HostFileKnown, HasHostFile
  <2>1. CASE hostFile = Nobody /\ queue = <<Config!Entry("config", "")>>
    <3>1. e.name = "config" /\ e.tag = "" /\ e.name \in DOMAIN files
      <4>1. e = Config!Entry("config", "")
        <5>1. PICK c : c = Config!Entry("config", "")
          OBVIOUS
        <5>2. <<c>> \in Seq({c}) /\ <<c>> # <<>>
          OBVIOUS
        <5>3. Head(<<c>>) \in {c}
          BY <5>2, HeadTailProperties
        <5>. QED  BY <2>1, <5>1, <5>3
      <4>. HIDE DEF e
      <4>2. e.name = "config" /\ e.tag = ""
        BY <4>1 DEF Config!Entry
      <4>. QED  BY <1>2, <4>2 DEF FileNames
    <3>2. hostFile' = IF Config!HostOf(f.include) # {}
                      THEN CHOOSE h \in Config!HostOf(f.include) : TRUE ELSE hostFile
      BY <1>1, <3>1
    <3>3. Config!HostOf(f.include) # {} => (CHOOSE h \in Config!HostOf(f.include) : TRUE) = "host"
      BY <1>3, <3>1
    <3>. QED  BY <1>3, <1>4, <2>1, <3>1, <3>2, <3>3
  <2>2. CASE hostFile = "host" <=> HasHostFile
    <3>1. CASE hostFile' = hostFile
      BY <2>2, <3>1
    <3>2. CASE hostFile' # hostFile
      BY <1>1, <1>3, <1>4, <2>2, <3>2
    <3>. QED  BY <3>1, <3>2
  <2>. QED  BY <1>0, <1>1, <2>1, <2>2 DEF HostFileKnown
<1>8. StoredKept' /\ HostInRoot' /\ FilesOK'
  BY <1>0, <1>1 DEF StoredKept, Keeps, Disk, HostInRoot, FilesOK, HasHostFile
<1>. QED  BY <1>6, <1>7, <1>8 DEF ConfigIInv

\* The host-specific file is read last, and what it says of a scalar wins.
LEMMA ReadHostFileStep == ASSUME ConfigIInv, Config!ReadHostFile PROVE ConfigIInv'
<1>. DEFINE doc == files["host"].doc
<1>0. FilesOK /\ TreesOK /\ HostFileKnown /\ StoredKept /\ HostInRoot
  BY DEF ConfigIInv
<1>1. /\ phase = "loading" /\ queue = <<>> /\ UNCHANGED <<files, writing, stored, hostFile>>
      /\ hostFile = "host" <=> HasHostFile
      /\ hostFile \in {Nobody, "host"} /\ Nobody # "host"
  BY <1>0, CoreAssumption DEF Config!ReadHostFile, Config!Fail, HostFileKnown
<1>2. \/ hostFile = Nobody /\ phase' = "ready" /\ UNCHANGED <<root, host>>
      \/ phase' = "failed" /\ UNCHANGED <<root, host>>
      \/ /\ hostFile = "host" /\ phase' = "ready" /\ host' = doc
         /\ ~Config!MergeThrows(root, doc) /\ root' = Config!Merge(root, doc)
  BY <1>1 DEF Config!ReadHostFile, Config!Fail, Config!trees
<1>3. IsTree(doc) /\ SectionsUsed(doc)
  BY <1>0 DEF FilesOK, FileNames
<1>4. IsTree(root') /\ IsTree(host') /\ SectionsUsed(host')
  BY <1>0, <1>2, <1>3, MergeFacts DEF TreesOK
<1>5. FilesOK' /\ HostFileKnown'
  BY <1>0, <1>1, <1>2 DEF FilesOK, HostFileKnown, HasHostFile
<1>6. TreesOK'
  BY <1>0, <1>1, <1>4 DEF TreesOK
<1>7. CASE phase' = "failed"
  BY <1>0, <1>1, <1>5, <1>6, <1>7 DEF ConfigIInv, StoredKept, Keeps, Disk, HostInRoot, HasHostFile
<1>8. CASE hostFile = "host" /\ phase' = "ready" /\ host' = doc /\ ~Config!MergeThrows(root, doc)
           /\ root' = Config!Merge(root, doc)
  <2>1. HostInRoot'
    <3>1. DOMAIN root' = DOMAIN root \cup DOMAIN doc /\ SameScalars(doc, root')
      BY <1>0, <1>3, <1>8, MergeFacts DEF TreesOK
    <3>2. phase' = "ready"
      BY <1>8
    <3>3. SameScalars(host, root)'
      BY <1>8, <3>1 DEF SameScalars
    <3>. QED  BY <1>8, <3>1, <3>2, <3>3 DEF HostInRoot
  <2>2. StoredKept'
    <3>1. Disk = doc /\ Disk' = Disk
      BY <1>0, <1>1 DEF TreesOK, Disk
    <3>. QED  BY <1>0, <1>1, <1>8, <3>1 DEF StoredKept, Keeps, HasHostFile
  <2>. QED  BY <1>5, <1>6, <2>1, <2>2 DEF ConfigIInv
<1>9. CASE hostFile = Nobody /\ phase' = "ready" /\ UNCHANGED <<root, host>>
  <2>1. DOMAIN stored = {}
    BY <1>0, <1>1, <1>9 DEF StoredKept
  <2>2. HostInRoot'
    <3>1. DOMAIN host' = {} /\ phase' = "ready"
      BY <1>0, <1>1, <1>9 DEF HostInRoot
    <3>. QED  BY <3>1 DEF HostInRoot, SameScalars
  <2>3. StoredKept'
    BY <1>1, <2>1 DEF StoredKept, Keeps
  <2>. QED  BY <1>5, <1>6, <2>2, <2>3 DEF ConfigIInv
<1>. QED  BY <1>2, <1>7, <1>8, <1>9

\* What was stored is on disk, unless the file was emptied and not written again.
LEMMA RestartStep == ASSUME ConfigIInv, Config!Restart PROVE ConfigIInv'
<1>0. FilesOK /\ TreesOK /\ HostFileKnown /\ StoredKept /\ HostInRoot
  BY DEF ConfigIInv
<1>1. /\ phase' = "loading" /\ queue' = <<Config!Entry("config", "")>> /\ hostFile' = Nobody
      /\ root' = Config!EmptyTree /\ host' = Config!EmptyTree /\ writing' = <<>>
      /\ stored' = IF writing = <<>> THEN stored ELSE Config!EmptyTree
      /\ files' = files
  BY DEF Config!Restart
<1>2. FilesOK' /\ TreesOK' /\ HostFileKnown'
  BY <1>0, <1>1, EmptyTreeFacts DEF FilesOK, TreesOK, HostFileKnown
<1>3. DOMAIN host' = {}
  BY <1>1 DEF Config!EmptyTree
<1>4. HostInRoot'
  BY <1>1, <1>3 DEF HostInRoot
<1>5. CASE writing = <<>>
  <2>1. Disk' = Disk /\ stored' = stored
    BY <1>1, <1>5 DEF Disk
  <2>2. Keeps(Disk)'
    BY <1>0, <2>1 DEF StoredKept, Keeps
  <2>3. StoredKept'
    BY <1>0, <1>1, <2>1, <2>2 DEF StoredKept, HasHostFile
  <2>. QED  BY <1>2, <1>4, <2>3 DEF ConfigIInv
<1>6. CASE writing # <<>>
  <2>1. DOMAIN stored' = {}
    BY <1>1, <1>6 DEF Config!EmptyTree
  <2>2. StoredKept'
    BY <2>1 DEF StoredKept, Keeps
  <2>. QED  BY <1>2, <1>4, <2>2 DEF ConfigIInv
<1>. QED  BY <1>5, <1>6

\* The host-specific file has new content; the others are as they were.
LEMMA FileWritten ==
    ASSUME FilesOK, NEW doc, IsTree(doc), SectionsUsed(doc),
           files' = [files EXCEPT !["host"].doc = doc]
    PROVE  /\ FilesOK' /\ files'["host"].doc = doc
           /\ files'["config"].include = files["config"].include
<1>1. /\ "host" \in FileNames /\ "config" \in FileNames /\ "inc" \in FileNames
      /\ "host" # "config" /\ "host" # "inc" /\ DOMAIN files = FileNames
  BY DEF FileNames, FilesOK
<1>. HIDE DEF FileNames
<1>2. PICK f : f = files["host"] /\ f = [include |-> f.include, doc |-> f.doc]
  BY <1>1 DEF FilesOK
<1>3. PICK g : g = [f EXCEPT !.doc = doc]
  OBVIOUS
<1>4. g = [include |-> f.include, doc |-> doc]
  BY <1>2, <1>3
<1>5. files' = [files EXCEPT !["host"] = g]
  BY <1>2, <1>3
<1>6. files' = [n \in FileNames |-> IF n = "host" THEN g ELSE files[n]]
  BY <1>1, <1>5 DEF FilesOK
<1>7. \A n \in FileNames : /\ files'[n] = [include |-> files'[n].include, doc |-> files'[n].doc]
                           /\ files'[n].include = files[n].include
                           /\ files'[n].doc = IF n = "host" THEN doc ELSE files[n].doc
  <2>. SUFFICES ASSUME NEW n \in FileNames
                PROVE  /\ files'[n] = [include |-> files'[n].include, doc |-> files'[n].doc]
                       /\ files'[n].include = files[n].include
                       /\ files'[n].doc = IF n = "host" THEN doc ELSE files[n].doc
    OBVIOUS
  <2>1. CASE n = "host"
    <3>1. files'[n] = g /\ files[n] = f
      BY <1>2, <1>6, <2>1
    <3>. QED  BY <1>4, <2>1, <3>1
  <2>2. CASE n # "host"
    <3>1. files'[n] = files[n]
      BY <1>6, <2>2
    <3>. QED  BY <2>2, <3>1 DEF FilesOK
  <2>. QED  BY <2>1, <2>2
<1>8. files' = [n \in FileNames |-> [include |-> files'[n].include, doc |-> files'[n].doc]]
  BY <1>6, <1>7
<1>. QED  BY <1>1, <1>7, <1>8 DEF FilesOK

\* The file on disk is what was to be written.
LEMMA WriteHostFileStep == ASSUME ConfigIInv, Config!WriteHostFile PROVE ConfigIInv'
<1>0. FilesOK /\ TreesOK /\ HostFileKnown /\ StoredKept /\ HostInRoot
  BY DEF ConfigIInv
<1>1. /\ writing # <<>> /\ writing' = <<>> /\ files' = [files EXCEPT ![hostFile].doc = Head(writing)]
      /\ UNCHANGED <<phase, queue, hostFile, root, host, stored>>
  BY DEF Config!WriteHostFile, Config!trees
<1>2. PICK doc : doc = writing[1]
  OBVIOUS
<1>3. /\ writing = <<doc>> /\ hostFile = "host" /\ phase = "ready"
      /\ IsTree(doc) /\ SectionsUsed(doc)
  BY <1>0, <1>1, <1>2 DEF TreesOK
<1>4. Head(writing) = doc
  <2>1. <<doc>> \in Seq({doc}) /\ <<doc>> # <<>>
    OBVIOUS
  <2>2. Head(<<doc>>) \in {doc}
    BY <2>1, HeadTailProperties
  <2>. QED  BY <1>3, <2>2
<1>5. files' = [files EXCEPT !["host"].doc = doc]
  BY <1>1, <1>3, <1>4
<1>6. FilesOK' /\ files'["host"].doc = doc /\ files'["config"].include = files["config"].include
  BY <1>0, <1>3, <1>5, FileWritten
<1>7. TreesOK'
  BY <1>0, <1>1 DEF TreesOK
<1>8. HostFileKnown'
  BY <1>0, <1>1, <1>6 DEF HostFileKnown, HasHostFile
<1>9. StoredKept'
  <2>1. Disk = doc /\ Disk' = doc
    BY <1>1, <1>2, <1>6 DEF Disk
  <2>2. Keeps(Disk)' /\ (phase' = "ready" => Keeps(host)')
    BY <1>0, <1>1, <2>1 DEF StoredKept, Keeps
  <2>. QED  BY <1>0, <1>1, <1>6, <2>2 DEF StoredKept, HasHostFile
<1>10. HostInRoot'
  BY <1>0, <1>1 DEF HostInRoot, SameScalars
<1>. QED  BY <1>6, <1>7, <1>8, <1>9, <1>10 DEF ConfigIInv

\* A step that leaves the configuration alone.
LEMMA ConfigUnchanged ==
    ASSUME ConfigIInv, UNCHANGED <<files, phase, queue, hostFile, root, host, writing, stored>>
    PROVE  ConfigIInv'
<1>0. FilesOK /\ TreesOK /\ HostFileKnown /\ StoredKept /\ HostInRoot
  BY DEF ConfigIInv
<1>1. FilesOK' /\ TreesOK' /\ HostInRoot'
  BY <1>0 DEF FilesOK, TreesOK, HostInRoot, SameScalars
<1>2. HostFileKnown' /\ StoredKept'
  BY <1>0 DEF HostFileKnown, StoredKept, Keeps, Disk, HasHostFile
<1>. QED  BY <1>1, <1>2 DEF ConfigIInv

\* The changed trees are written to the host-specific file, or the values that
\* are stored are some of those that were stored before.
LEMMA ConfigChanged ==
    ASSUME ConfigIInv, phase = "ready", writing = <<>>, UNCHANGED <<phase, queue, hostFile>>,
           IsTree(root'), IsTree(host'), SectionsUsed(host'), DOMAIN host' \subseteq DOMAIN root',
           SameScalars(host', root'), DOMAIN stored' \subseteq Paths, Keeps(host)',
           DOMAIN stored' # {} => hostFile # Nobody,
           \/ Config!OpenHostFile(host')
           \/ /\ UNCHANGED <<files, writing>>
              /\ \A p \in DOMAIN stored' : p \in DOMAIN stored /\ stored'[p] = stored[p]
    PROVE  ConfigIInv'
<1>0. FilesOK /\ TreesOK /\ HostFileKnown /\ StoredKept /\ HostInRoot
  BY DEF ConfigIInv
<1>1. /\ hostFile \in {Nobody, "host"} /\ Nobody # "host" /\ (hostFile = "host" <=> HasHostFile)
  BY <1>0, CoreAssumption DEF HostFileKnown
<1>2. HostInRoot'
  BY DEF HostInRoot
<1>3. CASE UNCHANGED <<files, writing>> /\ Keeps(Disk)'
  <2>1. FilesOK' /\ TreesOK' /\ HostFileKnown'
    BY <1>0, <1>1, <1>3 DEF FilesOK, TreesOK, HostFileKnown, HasHostFile
  <2>2. StoredKept'
    BY <1>0, <1>1, <1>3 DEF StoredKept, HasHostFile
  <2>. QED  BY <1>2, <2>1, <2>2 DEF ConfigIInv
<1>4. CASE /\ UNCHANGED <<files, writing>>
           /\ \A p \in DOMAIN stored' : p \in DOMAIN stored /\ stored'[p] = stored[p]
  <2>1. Disk' = Disk
    BY <1>4 DEF Disk
  <2>2. Keeps(Disk)'
    BY <1>0, <1>4, <2>1 DEF StoredKept, Keeps
  <2>. QED  BY <1>3, <1>4, <2>2
<1>5. CASE hostFile = Nobody /\ Config!OpenHostFile(host')
  <2>1. UNCHANGED <<files, writing>> /\ DOMAIN stored' = {}
    BY <1>5 DEF Config!OpenHostFile
  <2>2. Keeps(Disk)'
    BY <2>1 DEF Keeps
  <2>. QED  BY <1>3, <2>1, <2>2
<1>6. CASE hostFile = "host" /\ Config!OpenHostFile(host')
  <2>1. PICK e : e = Config!emit(host')
    OBVIOUS
  <2>2. writing' = <<e>> /\ files' = [files EXCEPT !["host"].doc = Config!EmptyTree]
    BY <1>1, <1>6, <2>1 DEF Config!OpenHostFile
  <2>3. FilesOK' /\ files'["config"].include = files["config"].include
    BY <1>0, <2>2, FileWritten, EmptyTreeFacts
  <2>4. /\ IsTree(e) /\ SectionsUsed(e) /\ DOMAIN e = DOMAIN host'
        /\ \A p \in DOMAIN host' :
              ~Config!has_children(host', p) => HasValue(e[p]) /\ e[p].text = host'[p].text
    BY <2>1, EmitFacts
  <2>5. writing' # <<>> /\ writing'[1] = e /\ writing' = <<writing'[1]>>
    BY <2>2
  <2>6. TreesOK'
    BY <1>6, <2>4, <2>5 DEF TreesOK
  <2>7. HostFileKnown'
    BY <1>0, <1>1, <2>3 DEF HostFileKnown, HasHostFile
  <2>8. StoredKept'
    <3>1. Disk' = e
      BY <2>5 DEF Disk
    <3>2. Keeps(Disk)'
      BY <2>4, <3>1 DEF Keeps, Config!has_children
    <3>. QED  BY <1>1, <1>6, <2>3, <3>2 DEF StoredKept, HasHostFile
  <2>. QED  BY <1>2, <2>3, <2>6, <2>7, <2>8 DEF ConfigIInv
<1>. QED  BY <1>1, <1>4, <1>5, <1>6

\* A value that was stored stays so while others, not above or below it, are changed.
LEMMA ForgetFacts ==
    ASSUME NEW p
    PROVE  \A q \in DOMAIN Config!Forget(p) :
              /\ q \in DOMAIN stored /\ q # p
              /\ q \notin Config!Parents(p) /\ p \notin Config!Parents(q)
              /\ Config!Forget(p)[q] = stored[q]
  BY DEF Config!Forget

\* u is the tree t with the node n at p, made there if there was none.
NodeChanged(t, p, n, u) ==
    /\ IsTree(u) /\ DOMAIN u = DOMAIN t \cup {p} \cup Config!Parents(p) /\ u[p] = n
    /\ \A q \in DOMAIN t : q # p /\ q \notin Config!Parents(p) => u[q] = t[q]
    /\ \A q \in DOMAIN u \ {p} : HasValue(u[q]) => q \in DOMAIN t /\ u[q] = t[q]
    /\ SectionsUsed(t) => SectionsUsed(u)

\* The tree with a node at p put in place of the one that was found or inserted.
LEMMA ChangedNode ==
    ASSUME NEW t, IsTree(t), NEW p \in Paths, NEW n, Consistent(n),
           n = Config!Node(n.type, n.text, n.list), n.type # "MAP",
           NEW u, u = [Config!find_or_insert(t, p) EXCEPT ![p] = n]
    PROVE  NodeChanged(t, p, n, u)
<1>1. PICK i : i = Config!find_or_insert(t, p)
  OBVIOUS
<1>2. /\ IsTree(i) /\ DOMAIN i = DOMAIN t \cup {p} \cup Config!Parents(p)
      /\ \A q \in DOMAIN t \ Config!Parents(p) : i[q] = t[q]
      /\ \A q \in DOMAIN i : HasValue(i[q]) => q \in DOMAIN t /\ i[q] = t[q]
      /\ SectionsUsed(t) => SectionsUsed(i)
  <2>1. NodeInserted(t, p, i)
    BY <1>1, InsertFacts
  <2>. QED  BY <2>1 DEF NodeInserted
<1>3. p \in DOMAIN i /\ u = [i EXCEPT ![p] = n]
  BY <1>1, <1>2
<1>4. /\ IsTree(u) /\ DOMAIN u = DOMAIN i /\ u[p] = n
      /\ \A q \in DOMAIN i \ {p} : u[q] = i[q]
      /\ SectionsUsed(i) => SectionsUsed(u)
  <2>1. NodeSet(i, p, n, u)
    BY <1>2, <1>3, SetNode
  <2>. QED  BY <2>1 DEF NodeSet
<1>. QED  BY <1>2, <1>4 DEF NodeChanged

\* Two trees that agree do so after a change at p, if they agree there.
LEMMA SameChanged ==
    ASSUME NEW s, NEW t, DOMAIN s \subseteq DOMAIN t, SameScalars(s, t), NEW p,
           NEW v, NEW u, DOMAIN v \subseteq DOMAIN u,
           \A q \in DOMAIN v \ {p} : HasValue(v[q]) => q \in DOMAIN s /\ v[q] = s[q],
           \A q \in DOMAIN u \ {p} : HasValue(u[q]) => q \in DOMAIN t /\ u[q] = t[q],
           p \in DOMAIN v /\ HasValue(v[p]) /\ Config!is_scalar(u[p]) /\ ~Config!Halfway(u[p])
              => v[p].text = u[p].text
    PROVE  SameScalars(v, u)
  BY ScalarFacts DEF SameScalars

\* What was stored, at other paths, is kept by a tree that is changed at p.
LEMMA KeptByChange ==
    ASSUME Keeps(host), NEW p \in Paths,
           DOMAIN host' \subseteq DOMAIN host \cup {p} \cup Config!Parents(p),
           \A q \in DOMAIN host : q # p /\ q \notin Config!Parents(p) => q \in DOMAIN host' /\ host'[q] = host[q]
    PROVE  \A q \in DOMAIN Config!Forget(p) :
              /\ q \in DOMAIN host' /\ ~Config!has_children(host', q)
              /\ HasValue(host'[q]) /\ host'[q].text = Config!Forget(p)[q]
<1>. SUFFICES ASSUME NEW q \in DOMAIN Config!Forget(p)
              PROVE  /\ q \in DOMAIN host' /\ ~Config!has_children(host', q)
                     /\ HasValue(host'[q]) /\ host'[q].text = Config!Forget(p)[q]
  OBVIOUS
<1>1. /\ q \in DOMAIN stored /\ q # p /\ q \notin Config!Parents(p) /\ Config!Forget(p)[q] = stored[q]
  BY ForgetFacts
<1>2. /\ q \in DOMAIN host /\ ~Config!has_children(host, q)
      /\ HasValue(host[q]) /\ host[q].text = stored[q]
  BY <1>1 DEF Keeps
<1>3. ASSUME NEW r \in DOMAIN host', q \in Config!Parents(r) PROVE FALSE
  BY <1>1, <1>2, <1>3, ParentFacts DEF Config!has_children
<1>. QED  BY <1>1, <1>2, <1>3 DEF Config!has_children

\* set_uint() and the like: the type of the node may make it throw, before or
\* after the root tree has been changed.
LEMMA SetValueStep ==
    ASSUME ConfigIInv, NEW p \in Paths, NEW t, Config!set_value(p, t) PROVE ConfigIInv'
<1>. DEFINE forgotten == Config!Forget(p)
<1>0. FilesOK /\ TreesOK /\ HostFileKnown /\ StoredKept /\ HostInRoot
  BY DEF ConfigIInv
<1>1. PICK r : r = Config!find_or_insert(root, p)
  OBVIOUS
<1>2. PICK h : h = Config!find_or_insert(host, p)
  OBVIOUS
<1>3. PICK d : d = Config!TypeFor(r[p], t)
  OBVIOUS
<1>4. PICK k : k = Config!TypeFor(h[p], t)
  OBVIOUS
<1>5. /\ phase = "ready" /\ writing = <<>> /\ UNCHANGED <<phase, queue, hostFile>>
      /\ \/ UNCHANGED <<root, host, files, writing, stored>>
         \/ /\ ~Config!has_children(r, p) /\ d = "throws"
            /\ root' = [r EXCEPT ![p].text = t] /\ stored' = forgotten
            /\ UNCHANGED <<host, files, writing>>
         \/ /\ ~Config!has_children(r, p) /\ d # "throws" /\ k = "throws"
            /\ root' = [r EXCEPT ![p].text = t, ![p].type = d]
            /\ host' = [h EXCEPT ![p].text = t] /\ stored' = forgotten
            /\ UNCHANGED <<files, writing>>
         \/ /\ ~Config!has_children(r, p) /\ d # "throws" /\ k # "throws"
            /\ root' = [r EXCEPT ![p].text = t, ![p].type = d]
            /\ host' = [h EXCEPT ![p].text = t, ![p].type = k]
            /\ Config!OpenHostFile(host')
            /\ stored' = IF hostFile = Nobody THEN stored
                         ELSE [q \in DOMAIN forgotten \cup {p} |-> IF q = p THEN t ELSE stored[q]]
  BY <1>1, <1>2, <1>3, <1>4 DEF Config!set_value, Config!Busy, Config!trees
<1>6. /\ IsTree(root) /\ IsTree(host) /\ SectionsUsed(host)
      /\ DOMAIN host \subseteq DOMAIN root /\ SameScalars(host, root)
      /\ Keeps(host) /\ DOMAIN stored \subseteq Paths
      /\ DOMAIN stored # {} => hostFile # Nobody
  BY <1>0, <1>5, CoreAssumption DEF TreesOK, HostInRoot, StoredKept, HostFileKnown
<1>7. \A q \in DOMAIN forgotten : /\ q \in DOMAIN stored /\ forgotten[q] = stored[q]
                                  /\ q # p /\ p \notin Config!Parents(q)
  BY ForgetFacts
<1>8. /\ IsTree(r) /\ p \in DOMAIN r /\ DOMAIN r = DOMAIN root \cup {p} \cup Config!Parents(p)
      /\ IsTree(h) /\ p \in DOMAIN h /\ DOMAIN h = DOMAIN host \cup {p} \cup Config!Parents(p)
  <2>1. NodeInserted(root, p, r) /\ NodeInserted(host, p, h)
    BY <1>1, <1>2, <1>6, InsertFacts
  <2>. QED  BY <2>1 DEF NodeInserted
<1>9. /\ d \in Scalars \cup {"UNKNOWN", "throws"}
      /\ d = "throws" => r[p].type = "SEQUENCE" \/ Config!determine_scalar_type(t) = "throws"
      /\ \/ d = "throws" \/ d = "UNKNOWN" \/ d = Config!determine_scalar_type(t)
         \/ r[p].list # Nobody /\ d = Config!determine_scalar_type(r[p].list)
      /\ k \in Scalars \cup {"UNKNOWN", "throws"}
      /\ k = "throws" => h[p].type = "SEQUENCE" \/ Config!determine_scalar_type(t) = "throws"
      /\ \/ k = "throws" \/ k = "UNKNOWN" \/ k = Config!determine_scalar_type(t)
         \/ h[p].list # Nobody /\ k = Config!determine_scalar_type(h[p].list)
  BY <1>3, <1>4, TypeForFacts
<1>. HIDE DEF forgotten
<1>10. CASE UNCHANGED <<root, host, files, writing, stored>>
  BY <1>5, <1>10, ConfigUnchanged
<1>11. CASE /\ d = "throws" /\ root' = [r EXCEPT ![p].text = t] /\ stored' = forgotten
            /\ UNCHANGED <<host, files, writing>> /\ ~Config!has_children(r, p)
  <2>1. PICK n : n = Config!Node(r[p].type, t, r[p].list)
    OBVIOUS
  <2>2. /\ n.type = r[p].type /\ n = Config!Node(n.type, n.text, n.list)
        /\ Config!is_scalar(n) => Config!Halfway(n)
        /\ Consistent(n)
    BY <1>9, <1>11, <2>1, NodeFacts DEF Scalars
  <2>3. root' = [r EXCEPT ![p] = n]
    <3>1. root' = WithText(r, p, t)
      BY <1>11 DEF WithText
    <3>2. root' = WithNode(r, p, n)
      BY <1>8, <2>1, <3>1, SetMembers
    <3>. QED  BY <3>2 DEF WithNode
  <2>4. IsTree(root') /\ DOMAIN root' = DOMAIN r /\ root'[p] = n
    BY <1>8, <2>2, <2>3, SetNode DEF NodeSet
  <2>5. \A q \in DOMAIN root' \ {p} : HasValue(root'[q]) => q \in DOMAIN root /\ root'[q] = root[q]
    <3>1. NodeInserted(root, p, r) /\ NodeSet(r, p, n, root')
      BY <1>1, <1>6, <1>8, <2>2, <2>3, InsertFacts, SetNode
    <3>. QED  BY <3>1 DEF NodeInserted, NodeSet
  <2>6. SameScalars(host', root')
    BY <1>6, <1>8, <1>11, <2>2, <2>4, <2>5, ScalarFacts DEF SameScalars
  <2>7. Keeps(host)'
    BY <1>6, <1>7, <1>11 DEF Keeps
  <2>. QED  BY <1>5, <1>6, <1>7, <1>8, <1>11, <2>4, <2>6, <2>7, ConfigChanged

<1>12. CASE /\ ~Config!has_children(r, p) /\ d # "throws"
            /\ root' = [r EXCEPT ![p].text = t, ![p].type = d]
            /\ \/ /\ k = "throws" /\ host' = [h EXCEPT ![p].text = t] /\ stored' = forgotten
                  /\ UNCHANGED <<files, writing>>
               \/ /\ k # "throws" /\ host' = [h EXCEPT ![p].text = t, ![p].type = k]
                  /\ Config!OpenHostFile(host')
                  /\ stored' = IF hostFile = Nobody THEN stored
                               ELSE [q \in DOMAIN forgotten \cup {p} |-> IF q = p THEN t ELSE stored[q]]
  <2>1. d \in Scalars \cup {"UNKNOWN"}
    BY <1>9, <1>12
  <2>2. PICK n : n = Config!Node(d, t, r[p].list)
    OBVIOUS
  <2>3. PICK m : m = IF k = "throws" THEN Config!Node(h[p].type, t, h[p].list)
                                     ELSE Config!Node(k, t, h[p].list)
    OBVIOUS
  <2>4. /\ n = Config!Node(n.type, n.text, n.list) /\ Consistent(n) /\ n.type # "MAP" /\ n.text = t
    BY <1>9, <1>12, <2>1, <2>2, NodeFacts DEF Scalars
  <2>5. h[p].type # "MAP"
    <3>1. SectionsUsed(h)
      BY <1>2, <1>6, InsertFacts DEF NodeInserted
    <3>. QED  BY <1>6, <1>8, <1>12, <3>1 DEF SectionsUsed, Config!has_children
  <2>6. Consistent(m) /\ m.type # "MAP" /\ (k # "throws" => HasValue(m))
    <3>1. CASE k = "throws"
      <4>1. m = Config!Node(h[p].type, t, h[p].list)
        BY <2>3, <3>1
      <4>2. Consistent(m)
        BY <1>9, <3>1, <4>1, NodeFacts DEF Scalars
      <4>. QED  BY <2>5, <3>1, <4>1, <4>2, NodeFacts
    <3>2. CASE k # "throws"
      <4>1. m = Config!Node(k, t, h[p].list)
        BY <2>3, <3>2
      <4>. QED  BY <1>9, <3>2, <4>1, NodeFacts DEF Scalars
    <3>. QED  BY <3>1, <3>2
  <2>7. m = Config!Node(m.type, m.text, m.list) /\ m.text = t
    BY <2>3, NodeFacts
  <2>8. root' = [r EXCEPT ![p] = n]
    <3>1. root' = WithTextAndType(r, p, t, d)
      BY <1>12 DEF WithTextAndType
    <3>2. root' = WithNode(r, p, n)
      BY <1>8, <2>2, <3>1, SetMembers
    <3>. QED  BY <3>2 DEF WithNode
  <2>9. host' = [h EXCEPT ![p] = m]
    <3>1. \/ k = "throws" /\ host' = WithText(h, p, t)
          \/ k # "throws" /\ host' = WithTextAndType(h, p, t, k)
      BY <1>12 DEF WithText, WithTextAndType
    <3>2. host' = WithNode(h, p, m)
      BY <1>8, <2>3, <3>1, SetMembers
    <3>. QED  BY <3>2 DEF WithNode
  <2>10. NodeChanged(root, p, n, root') /\ NodeChanged(host, p, m, host')
    BY <1>1, <1>2, <1>6, <2>4, <2>6, <2>7, <2>8, <2>9, ChangedNode
  <2>11. /\ IsTree(root') /\ IsTree(host') /\ SectionsUsed(host') /\ DOMAIN host' \subseteq DOMAIN root'
         /\ root'[p] = n /\ host'[p] = m /\ p \in DOMAIN host'
         /\ DOMAIN host' = DOMAIN host \cup {p} \cup Config!Parents(p)
         /\ DOMAIN root' = DOMAIN r
    BY <1>6, <1>8, <2>10 DEF NodeChanged
  <2>12. /\ \A q \in DOMAIN host' \ {p} : HasValue(host'[q]) => q \in DOMAIN host /\ host'[q] = host[q]
         /\ \A q \in DOMAIN root' \ {p} : HasValue(root'[q]) => q \in DOMAIN root /\ root'[q] = root[q]
         /\ \A q \in DOMAIN host : q # p /\ q \notin Config!Parents(p)
               => q \in DOMAIN host' /\ host'[q] = host[q]
    BY <2>10 DEF NodeChanged
  <2>13. SameScalars(host', root')
    BY <1>6, <2>4, <2>7, <2>11, <2>12, ScalarFacts DEF SameScalars
  <2>14. \A q \in DOMAIN forgotten :
            /\ q \in DOMAIN host' /\ ~Config!has_children(host', q)
            /\ HasValue(host'[q]) /\ host'[q].text = forgotten[q]
    BY <1>6, <2>11, <2>12, KeptByChange DEF forgotten
  <2>15. ~Config!has_children(host', p)
    BY <1>12, <2>11 DEF Config!has_children
  <2>16. CASE /\ k = "throws" /\ stored' = forgotten /\ UNCHANGED <<files, writing>>
    <3>1. Keeps(host)'
      BY <2>14, <2>16 DEF Keeps
    <3>. QED  BY <1>5, <1>6, <1>7, <2>11, <2>13, <2>16, <3>1, ConfigChanged
  <2>17. CASE hostFile = Nobody /\ stored' = stored /\ Config!OpenHostFile(host')
    <3>1. DOMAIN stored' = {}
      BY <1>6, <2>17
    <3>2. Keeps(host)'
      BY <3>1 DEF Keeps
    <3>. QED  BY <1>5, <2>11, <2>13, <2>17, <3>1, <3>2, ConfigChanged
  <2>18. CASE /\ k # "throws" /\ hostFile # Nobody /\ Config!OpenHostFile(host')
              /\ stored' = [q \in DOMAIN forgotten \cup {p} |-> IF q = p THEN t ELSE stored[q]]
    <3>1. /\ DOMAIN stored' = DOMAIN forgotten \cup {p} /\ stored'[p] = t
          /\ \A q \in DOMAIN forgotten : stored'[q] = forgotten[q]
      BY <1>7, <2>18
    <3>2. Keeps(host)'
      BY <2>6, <2>7, <2>11, <2>14, <2>15, <2>18, <3>1 DEF Keeps
    <3>3. DOMAIN stored' \subseteq Paths
      BY <1>6, <1>7, <3>1
    <3>. QED  BY <1>5, <2>11, <2>13, <2>18, <3>2, <3>3, ConfigChanged
  <2>. QED  BY <1>12, <2>16, <2>17, <2>18
<1>. QED  BY <1>5, <1>10, <1>11, <1>12

\* set_uints() and the like.
LEMMA SetListStep ==
    ASSUME ConfigIInv, NEW p \in Paths, NEW l, Config!set_list(p, l) PROVE ConfigIInv'
<1>. DEFINE forgotten == Config!Forget(p)
<1>0. FilesOK /\ TreesOK /\ HostFileKnown /\ StoredKept /\ HostInRoot
  BY DEF ConfigIInv
<1>1. PICK r : r = Config!find_or_insert(root, p)
  OBVIOUS
<1>2. PICK h : h = Config!find_or_insert(host, p)
  OBVIOUS
<1>3. /\ phase = "ready" /\ writing = <<>> /\ UNCHANGED <<phase, queue, hostFile>>
      /\ \/ UNCHANGED <<root, host, files, writing, stored>>
         \/ /\ root' = [r EXCEPT ![p].list = l, ![p].type = "SEQUENCE"]
            /\ host' = [h EXCEPT ![p].list = l, ![p].type = "SEQUENCE"]
            /\ Config!OpenHostFile(host') /\ stored' = forgotten
  BY <1>1, <1>2 DEF Config!set_list, Config!Busy, Config!trees
<1>4. CASE UNCHANGED <<root, host, files, writing, stored>>
  BY <1>3, <1>4, ConfigUnchanged
<1>5. CASE /\ root' = [r EXCEPT ![p].list = l, ![p].type = "SEQUENCE"]
           /\ host' = [h EXCEPT ![p].list = l, ![p].type = "SEQUENCE"]
           /\ Config!OpenHostFile(host') /\ stored' = forgotten
  <2>1. /\ IsTree(root) /\ IsTree(host) /\ SectionsUsed(host)
        /\ DOMAIN host \subseteq DOMAIN root /\ SameScalars(host, root)
        /\ Keeps(host) /\ DOMAIN stored \subseteq Paths
        /\ DOMAIN stored # {} => hostFile # Nobody
    BY <1>0, <1>3, CoreAssumption DEF TreesOK, HostInRoot, StoredKept, HostFileKnown
  <2>2. \A q \in DOMAIN forgotten : q \in DOMAIN stored /\ forgotten[q] = stored[q]
    BY ForgetFacts
  <2>. HIDE DEF forgotten
  <2>3. IsTree(r) /\ p \in DOMAIN r /\ IsTree(h) /\ p \in DOMAIN h
    <3>1. NodeInserted(root, p, r) /\ NodeInserted(host, p, h)
      BY <1>1, <1>2, <2>1, InsertFacts
    <3>. QED  BY <3>1 DEF NodeInserted
  <2>4. PICK n : n = Config!Node("SEQUENCE", r[p].text, l)
    OBVIOUS
  <2>5. PICK m : m = Config!Node("SEQUENCE", h[p].text, l)
    OBVIOUS
  <2>6. /\ n = Config!Node(n.type, n.text, n.list) /\ Consistent(n) /\ n.type # "MAP"
        /\ m = Config!Node(m.type, m.text, m.list) /\ Consistent(m) /\ m.type # "MAP"
        /\ ~HasValue(m)
    BY <2>4, <2>5, NodeFacts DEF Scalars
  <2>7. root' = [r EXCEPT ![p] = n] /\ host' = [h EXCEPT ![p] = m]
    <3>1. root' = WithListAndType(r, p, l, "SEQUENCE") /\ host' = WithListAndType(h, p, l, "SEQUENCE")
      BY <1>5 DEF WithListAndType
    <3>2. root' = WithNode(r, p, n) /\ host' = WithNode(h, p, m)
      BY <2>3, <2>4, <2>5, <3>1, SetMembers
    <3>. QED  BY <3>2 DEF WithNode
  <2>8. NodeChanged(root, p, n, root') /\ NodeChanged(host, p, m, host')
    BY <1>1, <1>2, <2>1, <2>6, <2>7, ChangedNode
  <2>9. /\ IsTree(root') /\ IsTree(host') /\ SectionsUsed(host') /\ DOMAIN host' \subseteq DOMAIN root'
        /\ host'[p] = m /\ DOMAIN host' = DOMAIN host \cup {p} \cup Config!Parents(p)
    BY <2>1, <2>8 DEF NodeChanged
  <2>10. /\ \A q \in DOMAIN host' \ {p} : HasValue(host'[q]) => q \in DOMAIN host /\ host'[q] = host[q]
         /\ \A q \in DOMAIN root' \ {p} : HasValue(root'[q]) => q \in DOMAIN root /\ root'[q] = root[q]
         /\ \A q \in DOMAIN host : q # p /\ q \notin Config!Parents(p)
               => q \in DOMAIN host' /\ host'[q] = host[q]
    BY <2>8 DEF NodeChanged
  <2>11. SameScalars(host', root')
    BY <2>1, <2>6, <2>9, <2>10, ScalarFacts DEF SameScalars
  <2>12. Keeps(host)'
    <3>1. \A q \in DOMAIN forgotten :
             /\ q \in DOMAIN host' /\ ~Config!has_children(host', q)
             /\ HasValue(host'[q]) /\ host'[q].text = forgotten[q]
      BY <2>1, <2>9, <2>10, KeptByChange DEF forgotten
    <3>. QED  BY <1>5, <3>1 DEF Keeps
  <2>. QED  BY <1>3, <1>5, <2>1, <2>2, <2>9, <2>11, <2>12, ConfigChanged
<1>. QED  BY <1>3, <1>4, <1>5

\* erase(): what the root tree has below the value keeps it there, and then the
\* host-specific file is not written.
LEMMA EraseStep ==
    ASSUME ConfigIInv, NEW p \in Paths, Config!erase(p) PROVE ConfigIInv'
<1>. DEFINE forgotten == Config!Forget(p)
<1>0. FilesOK /\ TreesOK /\ HostFileKnown /\ StoredKept /\ HostInRoot
  BY DEF ConfigIInv
<1>1. /\ phase = "ready" /\ writing = <<>> /\ UNCHANGED <<phase, queue, hostFile>>
      /\ \/ UNCHANGED <<root, host, files, writing, stored>>
         \/ /\ p \in DOMAIN host /\ ~Config!has_children(host, p)
            /\ host' = Config!Erase(host, p) /\ stored' = forgotten
            /\ \/ /\ ~Config!has_children(root, p)
                  /\ root' = Config!Erase(root, p) /\ Config!OpenHostFile(host')
               \/ UNCHANGED <<root, files, writing>>
  BY DEF Config!erase, Config!Busy, Config!trees, Config!enum_leafs
<1>2. CASE UNCHANGED <<root, host, files, writing, stored>>
  BY <1>1, <1>2, ConfigUnchanged
<1>3. CASE /\ p \in DOMAIN host /\ ~Config!has_children(host, p)
           /\ host' = Config!Erase(host, p) /\ stored' = forgotten
           /\ \/ /\ ~Config!has_children(root, p)
                 /\ root' = Config!Erase(root, p) /\ Config!OpenHostFile(host')
              \/ UNCHANGED <<root, files, writing>>
  <2>1. /\ IsTree(root) /\ IsTree(host) /\ SectionsUsed(host)
        /\ DOMAIN host \subseteq DOMAIN root /\ SameScalars(host, root)
        /\ Keeps(host) /\ DOMAIN stored \subseteq Paths
        /\ DOMAIN stored # {} => hostFile # Nobody
    BY <1>0, <1>1, CoreAssumption DEF TreesOK, HostInRoot, StoredKept, HostFileKnown
  <2>2. \A q \in DOMAIN forgotten : q \in DOMAIN stored /\ forgotten[q] = stored[q]
    BY ForgetFacts
  <2>. HIDE DEF forgotten
  <2>3. PICK v : v = Config!Erase(host, p)
    OBVIOUS
  <2>4. PICK u : u = Config!Erase(root, p)
    OBVIOUS
  <2>5. host' = v /\ ((root' = u /\ ~Config!has_children(root, p)) \/ root' = root)
    BY <1>3, <2>3, <2>4
  <2>6. /\ IsTree(v) /\ DOMAIN v \subseteq DOMAIN host /\ \A q \in DOMAIN v : v[q] = host[q]
        /\ \A q \in DOMAIN host : q # p /\ q \notin Config!Parents(p) => q \in DOMAIN v
        /\ SectionsUsed(v)
    <3>1. Erased(host, p, v)
      BY <1>3, <2>1, <2>3, EraseFacts
    <3>. QED  BY <2>1, <3>1 DEF Erased
  <2>7. /\ IsTree(root') /\ DOMAIN root' \subseteq DOMAIN root /\ \A q \in DOMAIN root' : root'[q] = root[q]
    <3>1. CASE root' = u /\ ~Config!has_children(root, p)
      <4>1. Erased(root, p, u)
        BY <2>1, <2>4, <3>1, EraseFacts
      <4>. QED  BY <3>1, <4>1 DEF Erased
    <3>. QED  BY <2>1, <2>5, <3>1
  <2>8. DOMAIN host' \subseteq DOMAIN root'
    BY <2>1, <2>3, <2>4, <2>5, <2>6, EraseMonotone
  <2>9. SameScalars(host', root')
    BY <2>1, <2>5, <2>6, <2>7, <2>8 DEF SameScalars
  <2>10. Keeps(host)'
    <3>1. \A q \in DOMAIN forgotten :
             /\ q \in DOMAIN host' /\ ~Config!has_children(host', q)
             /\ HasValue(host'[q]) /\ host'[q].text = forgotten[q]
      BY <2>1, <2>5, <2>6, KeptByChange DEF forgotten
    <3>. QED  BY <1>3, <3>1 DEF Keeps
  <2>. QED  BY <1>1, <1>3, <2>1, <2>2, <2>5, <2>6, <2>7, <2>8, <2>9, <2>10, ConfigChanged
<1>. QED  BY <1>1, <1>2, <1>3

LEMMA ConfigStep == ASSUME kind = "config", ConfigIInv, Step PROVE ConfigIInv'
<1>1. CASE UNCHANGED allVars
  BY <1>1, ConfigUnchanged DEF allVars, vars, configVars
<1>2. ASSUME NEW p \in Config!Paths, NEW t, Config!set_value(p, t) PROVE ConfigIInv'
  BY <1>2, SetValueStep DEF Paths
<1>3. ASSUME NEW p \in Config!Paths, NEW l, Config!set_list(p, l) PROVE ConfigIInv'
  BY <1>3, SetListStep DEF Paths
<1>4. ASSUME NEW p \in Config!Paths, Config!erase(p) PROVE ConfigIInv'
  BY <1>4, EraseStep DEF Paths
<1>5. CASE Config!iterator \/ Config!next
  <2>1. UNCHANGED <<files, phase, queue, hostFile, root, host, writing, stored>>
    BY <1>5 DEF Config!iterator, Config!next, Config!load, Config!trees
  <2>. QED  BY <2>1, ConfigUnchanged
<1>6. Config!Next \/ UNCHANGED allVars
  BY DEF Step, CoreNext, ThreadingNext, Next, PtrNext, ContainerNext, ListNext, LockNext,
         CondNext, ConfigNext, Thread!Next, Thread!ThreadNext, Thread!ListNext, Thread!LifeNext
<1>. QED  BY <1>1, <1>2, <1>3, <1>4, <1>5, <1>6, ReadFileStep, ReadHostFileStep, RestartStep,
              WriteHostFileStep
     DEF Config!Next

\* A scalar of the configuration has the type that its text can be read as; what
\* the host-specific file says of it is what the program sees, after every change
\* and every restart; no section stays behind empty; a value that was set and
\* written is there after a restart: what YamlConfiguration (yaml.cpp) and its
\* nodes (yaml_node.h) make of load(), set_*() and erase().
THEOREM ConfigurationIsKept == LibrariesSpec => []ConfigurationHolds
<1>. DEFINE Inv == kind = "config" => ConfigIInv
<1>1. AllInit => Inv
  BY ConfigInit
<1>2. Inv /\ Step => Inv'
  BY KindKept, ConfigStep
<1>3. Inv => ConfigurationHolds
  BY ConsistentSound DEF ConfigurationHolds, ConfigIInv
<1>. QED  BY <1>1, <1>2, <1>3, PTL DEF LibrariesSpec, Step

=============================================================================
