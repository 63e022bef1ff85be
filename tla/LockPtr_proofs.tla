--------------------------- MODULE LockPtr_proofs ---------------------------
(***************************************************************************)
(* Proofs about the pointers of modules RefPtr and LockPtr, for any number *)
(* of threads, of pointers each of them has and of objects: an object      *)
(* lives exactly as long as it is counted, and who has locked one uses it  *)
(* alone.                                                                  *)
(*                                                                         *)
(* The argument: a pointer that is not null is counted, or a thread is     *)
(* about to count it (Uncounted); such a thread still has the pointer it   *)
(* copied from (Sourced), so the object cannot be deleted in between.  A   *)
(* thread that has locked an object keeps a counted pointer to it          *)
(* (Locked).                                                               *)
(***************************************************************************)
EXTENDS LockPtr, Integers, FiniteSetTheorems, TLAPS

\* What the constants stand for: every thread has a temporary of its own, and
\* the null pointer is neither a pointer variable, nor an object or a thread.
PtrAssumption ==
    /\ IsFiniteSet(Slots)
    /\ Owner \in [Slots -> Threads]
    /\ Temp \in [Threads -> Slots]
    /\ \A t \in Threads : Owner[Temp[t]] = t
    /\ Null \notin Slots \cup Objects \cup Threads

NullPtr == P!NullPtr
To(o) == P!To(o)
\* The pointers that count for an object.
Holders(o) == {s \in counted : slot[s] = To(o)}

TypeOK ==
    /\ slot \in [Slots -> {NullPtr} \cup {To(o) : o \in Objects}]
    /\ counted \in SUBSET Slots
    /\ refCount \in [Objects -> Int]
    /\ alive \in SUBSET Objects
    /\ op \in [Threads -> {"idle", "count", "swap", "drop"}]
    /\ arg \in [Threads -> Slots]
    /\ via \in [Threads -> Slots \cup {Null}]
    /\ mutexOwner \in [Objects -> Threads \cup {Null}]

\* What a thread in the middle of an operation knows of its pointers.
Midway ==
    \A t \in Threads :
        /\ op[t] # "count" => arg[t] = Temp[t]
        /\ op[t] = "idle" => slot[Temp[t]] = NullPtr
        /\ op[t] = "swap" => Temp[t] \in counted
        /\ op[t] = "count" =>
              /\ slot[arg[t]] # NullPtr /\ arg[t] \notin counted
              /\ arg[t] = Temp[t] \/ (slot[Temp[t]] = NullPtr /\ arg[t] # Temp[Owner[arg[t]]])
              /\ \A u \in Threads \ {t} : op[u] = "count" => arg[u] # arg[t]

\* A pointer that is not counted is null, or a thread is about to count it.
Uncounted ==
    /\ \A s \in counted : slot[s] # NullPtr
    /\ \A s \in Slots \ counted :
          slot[s] # NullPtr => \E t \in Threads : op[t] = "count" /\ arg[t] = s

\* Who is about to count a copy still has the pointer it is a copy of.
Sourced ==
    \A t \in Threads : op[t] = "count" =>
        \E s \in counted : Owner[s] = t /\ s # Temp[t] /\ slot[s] = slot[arg[t]]

\* Who has locked an object has a counted pointer to it, and owns its mutex.
Locked ==
    \A t \in Threads : via[t] # Null =>
        /\ via[t] \in counted /\ Owner[via[t]] = t /\ via[t] # Temp[t]
        /\ mutexOwner[slot[via[t]].objMutex] = t

IInv == TypeOK /\ Midway /\ Uncounted /\ Sourced /\ CountExact /\ NoDangling /\ Locked

-----------------------------------------------------------------------------
(* Pointers and counts. *)

\* All members of a pointer lead to one object, and null to none.
LEMMA ToFacts ==
    ASSUME PtrAssumption, NEW o \in Objects
    PROVE  /\ To(o) # NullPtr
           /\ To(o).object = o /\ To(o).objMutex = o
           /\ \A q \in Objects : To(q) = To(o) => q = o
<1>1. To(o).object = o /\ To(o).objMutex = o
  BY DEF To, P!To
<1>2. NullPtr.object = Null
  BY DEF NullPtr, P!NullPtr
<1>3. \A q \in Objects : To(q).object = q
  BY DEF To, P!To
<1>4. o # Null
  BY DEF PtrAssumption
<1>. QED  BY <1>1, <1>2, <1>3, <1>4

\* A counted pointer leads to an object that is alive.
LEMMA CountedAlive ==
    ASSUME PtrAssumption, IInv, NEW s \in counted
    PROVE  \E o \in alive : slot[s] = To(o)
  BY DEF IInv, TypeOK, Uncounted, NoDangling, P!NoDangling, NullPtr, To

\* The pointers of an object are finitely many.
LEMMA HoldersFinite ==
    ASSUME PtrAssumption, IInv, NEW o
    PROVE  IsFiniteSet(Holders(o)) /\ Cardinality(Holders(o)) \in Nat
<1>1. Holders(o) \in SUBSET Slots
  BY DEF IInv, TypeOK, Holders
<1>. QED  BY <1>1, FS_Subset, FS_CardinalityType DEF PtrAssumption

\* The instance of RefPtr counts as FiniteSets does.
LEMMA SameCardinality == ASSUME NEW S PROVE P!Cardinality(S) = Cardinality(S)
  BY DEF P!Cardinality, Cardinality

\* CountExact, of the state before and of the state after a step, in terms of
\* Holders.
LEMMA ExactByHolders ==
    /\ CountExact <=> \A o \in alive : refCount[o] = Cardinality(Holders(o))
    /\ CountExact' <=> \A o \in alive' : refCount'[o] = Cardinality(Holders(o)')
<1>1. \A o : P!Cardinality({s \in counted : slot[s] = P!To(o)}) = Cardinality(Holders(o))
  BY SameCardinality DEF Holders, To
<1>2. \A o : P!Cardinality({s \in counted' : slot'[s] = P!To(o)}) = Cardinality(Holders(o)')
  BY SameCardinality DEF Holders, To
<1>3. CountExact <=> \A o \in alive : refCount[o] = Cardinality(Holders(o))
  BY <1>1 DEF CountExact, P!CountExact
<1>4. CountExact' <=> \A o \in alive' : refCount'[o] = Cardinality(Holders(o)')
  BY <1>2 DEF CountExact, P!CountExact
<1>. QED  BY <1>3, <1>4

-----------------------------------------------------------------------------
(* The inductive invariant, operation by operation. *)

\* At first there is no object.
LEMMA InitIInv == ASSUME PtrAssumption, Init PROVE IInv
<1>1. /\ slot = [s \in Slots |-> NullPtr] /\ counted = {}
      /\ refCount = [o \in Objects |-> 0] /\ alive = {}
      /\ op = [t \in Threads |-> "idle"] /\ arg = [t \in Threads |-> Temp[t]]
      /\ via = [t \in Threads |-> Null] /\ mutexOwner = [o \in Objects |-> Null]
  BY DEF Init, P!Init, NullPtr
<1>2. TypeOK
  <2>1. slot \in [Slots -> {NullPtr} \cup {To(o) : o \in Objects}]
    BY <1>1
  <2>2. arg \in [Threads -> Slots]
    BY <1>1 DEF PtrAssumption
  <2>. QED  BY <1>1, <2>1, <2>2 DEF TypeOK
<1>3. Midway /\ Uncounted /\ Sourced /\ Locked
  BY <1>1 DEF PtrAssumption, Midway, Uncounted, Sourced, Locked
<1>4. CountExact /\ NoDangling
  BY <1>1 DEF CountExact, P!CountExact, NoDangling, P!NoDangling, NullPtr
<1>. QED  BY <1>2, <1>3, <1>4 DEF IInv

\* RefPtr(T *) in an empty pointer of an idle thread.
LEMMA CreateIInv ==
    ASSUME PtrAssumption, IInv, NEW t \in Threads, NEW s \in Slots, Create(t, s)
    PROVE  IInv'
<1>0. TypeOK /\ Midway /\ Uncounted /\ Sourced /\ CountExact /\ NoDangling /\ Locked
  BY DEF IInv
<1>1. PICK o \in Objects \ alive :
        /\ slot' = [slot EXCEPT ![s] = To(o)]
        /\ counted' = counted \cup {s}
        /\ refCount' = [refCount EXCEPT ![o] = 1]
        /\ alive' = alive \cup {o}
  BY DEF Create, P!Create, To
<1>2. /\ op[t] = "idle" /\ Owner[s] = t /\ s # Temp[t] /\ slot[s] = NullPtr
      /\ \A u \in Threads : op[u] = "count" => arg[u] # s
      /\ UNCHANGED <<op, arg, via, mutexOwner>>
  BY DEF Create, P!Create, P!Named, P!IsNull, NullPtr, Unlocked
<1>3. s \notin counted /\ \A u \in Threads : Temp[u] # s
  BY <1>0, <1>2 DEF Uncounted, PtrAssumption
<1>4. TypeOK'
  BY <1>0, <1>1, <1>2 DEF TypeOK
<1>5. Midway'
  BY <1>0, <1>1, <1>2, <1>3 DEF TypeOK, Midway, PtrAssumption
<1>6. Uncounted'
  BY <1>0, <1>1, <1>2, ToFacts DEF TypeOK, Uncounted
<1>7. Sourced'
  BY <1>0, <1>1, <1>2, <1>3 DEF TypeOK, Sourced
<1>8. CountExact'
  <2>1. Holders(o)' = {s}
    <3>1. \A x \in counted : slot[x] # To(o)
      BY <1>1, CountedAlive, ToFacts DEF IInv, TypeOK
    <3>. QED  BY <1>0, <1>1, <1>3, <3>1 DEF TypeOK, Holders
  <2>2. \A q \in alive : Holders(q)' = Holders(q)
    BY <1>0, <1>1, <1>3, ToFacts DEF TypeOK, Holders
  <2>3. refCount'[o] = 1 /\ \A q \in alive : refCount'[q] = refCount[q]
    BY <1>0, <1>1 DEF TypeOK
  <2>4. Cardinality(Holders(o)') = 1
    BY <2>1, FS_Singleton
  <2>5. \A q \in alive' : refCount'[q] = Cardinality(Holders(q)')
    BY <1>0, <1>1, <2>2, <2>3, <2>4, ExactByHolders
  <2>. QED  BY <2>5, ExactByHolders
<1>9. NoDangling'
  BY <1>0, <1>1 DEF TypeOK, NoDangling, P!NoDangling, To, NullPtr
<1>10. Locked'
  BY <1>0, <1>1, <1>2, <1>3 DEF TypeOK, Locked
<1>. QED  BY <1>4, <1>5, <1>6, <1>7, <1>8, <1>9, <1>10 DEF IInv

\* The first step of a copy: an empty pointer is made equal to one of the
\* thread's own.
LEMMA FetchIInv ==
    ASSUME PtrAssumption, IInv, NEW t \in Threads, NEW src \in Slots, NEW dst \in Slots,
           op[t] = "idle", src \in P!Named(t), slot[src] # NullPtr,
           slot[dst] = NullPtr, dst = Temp[t] \/ dst # Temp[Owner[dst]],
           \A u \in Threads : op[u] = "count" => arg[u] # dst,
           slot' = [slot EXCEPT ![dst] = slot[src]],
           op' = [op EXCEPT ![t] = "count"], arg' = [arg EXCEPT ![t] = dst],
           UNCHANGED <<counted, refCount, alive, via, mutexOwner>>
    PROVE  IInv'
<1>0. TypeOK /\ Midway /\ Uncounted /\ Sourced /\ CountExact /\ NoDangling /\ Locked
  BY DEF IInv
<1>1. /\ Owner[src] = t /\ src # Temp[t] /\ src # dst
      /\ \A u \in Threads : op[u] = "count" => arg[u] # src
  BY DEF P!Named
<1>2. dst \notin counted /\ src \in counted
  BY <1>0, <1>1 DEF Uncounted
<1>3. \A x \in counted : slot'[x] = slot[x]
  BY <1>0, <1>2 DEF TypeOK
<1>4. slot'[dst] = slot[src]
  BY <1>0 DEF TypeOK
<1>5. TypeOK'
  BY <1>0 DEF TypeOK
<1>6. Midway'
  BY <1>0, <1>1, <1>2, <1>4 DEF TypeOK, Midway, PtrAssumption
<1>7. Uncounted'
  BY <1>0, <1>2, <1>3 DEF TypeOK, Uncounted
<1>8. Sourced'
  BY <1>0, <1>1, <1>2, <1>3, <1>4 DEF TypeOK, Sourced
<1>9. CountExact'
  <2>1. \A o \in alive : Holders(o)' = Holders(o)
    BY <1>3 DEF Holders
  <2>. QED  BY <1>0, <2>1, ExactByHolders
<1>10. NoDangling'
  BY <1>0 DEF TypeOK, NoDangling, P!NoDangling, To, NullPtr
<1>11. Locked'
  BY <1>0, <1>3 DEF TypeOK, Locked
<1>. QED  BY <1>5, <1>6, <1>7, <1>8, <1>9, <1>10, <1>11 DEF IInv

\* The copy constructors and the casts.
LEMMA CopyIInv ==
    ASSUME PtrAssumption, IInv, NEW t \in Threads, NEW src \in Slots, NEW dst \in Slots,
           Copy(t, src, dst)
    PROVE  IInv'
<1>1. /\ op[t] = "idle" /\ src \in P!Named(t) /\ slot[src] # NullPtr /\ slot[dst] = NullPtr
      /\ slot' = [slot EXCEPT ![dst] = slot[src]]
      /\ op' = [op EXCEPT ![t] = "count"] /\ arg' = [arg EXCEPT ![t] = dst]
      /\ UNCHANGED <<counted, refCount, alive, via, mutexOwner>>
  BY DEF Copy, P!Copy, P!Goto, P!IsNull, NullPtr, Unlocked
<1>2. dst # Temp[Owner[dst]] /\ \A u \in Threads : op[u] = "count" => arg[u] # dst
  BY DEF Copy, P!Copy, P!Named
<1>. QED  BY <1>1, <1>2, FetchIInv

\* The copy in the temporary of operator=.
LEMMA AssignIInv ==
    ASSUME PtrAssumption, IInv, NEW t \in Threads, NEW src \in Slots, AssignFrom(t, src)
    PROVE  IInv'
<1>0. TypeOK /\ Midway
  BY DEF IInv
<1>1. /\ op[t] = "idle" /\ src \in P!Named(t) /\ slot[src] # NullPtr
      /\ slot' = [slot EXCEPT ![Temp[t]] = slot[src]]
      /\ op' = [op EXCEPT ![t] = "count"] /\ arg' = [arg EXCEPT ![t] = Temp[t]]
      /\ UNCHANGED <<counted, refCount, alive, via, mutexOwner>>
  BY DEF AssignFrom, P!AssignFrom, P!Goto, P!IsNull, NullPtr, Unlocked
<1>2. Temp[t] \in Slots /\ slot[Temp[t]] = NullPtr
  BY <1>0, <1>1 DEF Midway, PtrAssumption
<1>3. \A u \in Threads : op[u] = "count" => arg[u] # Temp[t]
  BY <1>0, <1>2 DEF Midway
<1>. QED  BY <1>1, <1>2, <1>3, FetchIInv

\* The count of a fresh copy.
LEMMA CountIInv == ASSUME PtrAssumption, IInv, NEW t \in Threads, Count(t) PROVE IInv'
<1>0. TypeOK /\ Midway /\ Uncounted /\ Sourced /\ CountExact /\ NoDangling /\ Locked
  BY DEF IInv
<1>1. PICK o \in Objects :
        slot[arg[t]] = To(o) /\ refCount' = [refCount EXCEPT ![o] = @ + 1]
  BY DEF Count, P!Count, To
<1>2. /\ op[t] = "count"
      /\ counted' = counted \cup {arg[t]}
      /\ op' = [op EXCEPT ![t] = IF arg[t] = Temp[t] THEN "swap" ELSE "idle"]
      /\ arg' = [arg EXCEPT ![t] = Temp[t]]
      /\ UNCHANGED <<slot, alive, via, mutexOwner>>
  BY DEF Count, P!Count, P!Goto, Unlocked
<1>3. arg[t] \in Slots \ counted /\ slot[arg[t]] # NullPtr
  BY <1>0, <1>2 DEF TypeOK, Midway
<1>4. TypeOK'
  <2>1. refCount' \in [Objects -> Int]
    BY <1>0, <1>1 DEF TypeOK
  <2>. QED  BY <1>0, <1>2, <1>3, <2>1 DEF TypeOK, PtrAssumption
<1>5. Midway'
  <2>. SUFFICES ASSUME NEW u \in Threads PROVE Midway!(u)'
    BY DEF Midway
  <2>1. CASE u = t
    BY <1>0, <1>2, <1>3, <2>1 DEF TypeOK, Midway
  <2>2. CASE u # t
    BY <1>0, <1>2, <1>3, <2>2 DEF TypeOK, Midway
  <2>. QED  BY <2>1, <2>2
<1>6. Uncounted'
  BY <1>0, <1>2, <1>3 DEF TypeOK, Uncounted
<1>7. Sourced'
  BY <1>0, <1>2 DEF TypeOK, Sourced
<1>8. CountExact'
  <2>1. Holders(o)' = Holders(o) \cup {arg[t]} /\ arg[t] \notin Holders(o)
    BY <1>1, <1>2, <1>3 DEF Holders
  <2>2. Cardinality(Holders(o)') = Cardinality(Holders(o)) + 1
    BY <2>1, HoldersFinite, FS_AddElement
  <2>3. \A q \in alive \ {o} : Holders(q)' = Holders(q) /\ refCount'[q] = refCount[q]
    BY <1>0, <1>1, <1>2, ToFacts DEF TypeOK, Holders
  <2>4. refCount'[o] = refCount[o] + 1
    BY <1>0, <1>1 DEF TypeOK
  <2>5. \A q \in alive' : refCount'[q] = Cardinality(Holders(q)')
    BY <1>0, <1>2, <2>2, <2>3, <2>4, ExactByHolders
  <2>. QED  BY <2>5, ExactByHolders
<1>9. NoDangling'
  BY <1>0, <1>2 DEF NoDangling, P!NoDangling
<1>10. Locked'
  BY <1>0, <1>2 DEF Locked
<1>. QED  BY <1>4, <1>5, <1>6, <1>7, <1>8, <1>9, <1>10 DEF IInv

\* One element of a finite set is replaced by another.
LEMMA Replaced ==
    ASSUME NEW S, IsFiniteSet(S), NEW x \in S, NEW y, y \notin S
    PROVE  Cardinality((S \ {x}) \cup {y}) = Cardinality(S)
<1>1. IsFiniteSet(S \ {x}) /\ Cardinality(S \ {x}) = Cardinality(S) - 1
  BY FS_RemoveElement
<1>2. Cardinality((S \ {x}) \cup {y}) = Cardinality(S \ {x}) + 1
  BY <1>1, FS_AddElement
<1>. QED  BY <1>1, <1>2, FS_CardinalityType

\* Two pointers of a thread change places.
LEMMA ExchangeIInv ==
    ASSUME PtrAssumption, IInv, NEW t \in Threads, NEW s \in Slots,
           op[t] \in {"idle", "swap"}, s \in P!Named(t), via[t] # s,
           slot' = [slot EXCEPT ![s] = slot[Temp[t]], ![Temp[t]] = slot[s]],
           counted' = (counted \ {s, Temp[t]}) \cup
                      {x \in {s, Temp[t]} : (IF x = s THEN Temp[t] ELSE s) \in counted},
           op' = [op EXCEPT ![t] = "drop"], arg' = [arg EXCEPT ![t] = Temp[t]],
           UNCHANGED <<refCount, alive, via, mutexOwner>>
    PROVE  IInv'
<1>. DEFINE temp == Temp[t]
<1>0. TypeOK /\ Midway /\ Uncounted /\ Sourced /\ CountExact /\ NoDangling /\ Locked
  BY DEF IInv
<1>1. /\ temp \in Slots /\ Owner[temp] = t /\ Owner[s] = t /\ s # temp
      /\ \A u \in Threads : op[u] = "count" => arg[u] # s
  BY DEF P!Named, PtrAssumption
<1>2. \A u \in Threads : op[u] = "count" => u # t /\ arg[u] # temp
  BY <1>0, <1>1 DEF Midway
<1>3. \A u \in Threads \ {t} : Temp[u] \notin {s, temp}
  BY <1>1 DEF PtrAssumption
<1>4. /\ slot'[s] = slot[temp] /\ slot'[temp] = slot[s]
      /\ \A x \in Slots \ {s, temp} : slot'[x] = slot[x]
  BY <1>0, <1>1 DEF TypeOK
<1>5. /\ s \in counted' <=> temp \in counted
      /\ temp \in counted' <=> s \in counted
      /\ \A x : x \notin {s, temp} => (x \in counted' <=> x \in counted)
  BY <1>1
<1>6. TypeOK'
  <2>1. slot' \in [Slots -> {NullPtr} \cup {To(o) : o \in Objects}]
    BY <1>0, <1>1 DEF TypeOK
  <2>2. counted' \in SUBSET Slots
    BY <1>0, <1>1, <1>5 DEF TypeOK
  <2>. QED  BY <1>0, <1>1, <2>1, <2>2 DEF TypeOK
<1>. HIDE DEF temp
<1>7. Midway'
  <2>. SUFFICES ASSUME NEW u \in Threads PROVE Midway!(u)'
    BY DEF Midway
  <2>1. CASE u = t
    BY <1>0, <1>2, <2>1 DEF TypeOK, Midway
  <2>2. CASE u # t
    <3>1. op'[u] = op[u] /\ arg'[u] = arg[u]
      BY <1>0, <2>2 DEF TypeOK
    <3>2. slot'[Temp[u]] = slot[Temp[u]] /\ (Temp[u] \in counted' <=> Temp[u] \in counted)
      BY <1>3, <1>4, <1>5, <2>2 DEF PtrAssumption
    <3>3. op[u] = "count" => slot'[arg[u]] = slot[arg[u]] /\ (arg[u] \in counted' <=> arg[u] \in counted)
      BY <1>0, <1>1, <1>2, <1>4, <1>5 DEF TypeOK
    <3>4. \A v \in Threads : op'[v] = "count" => op[v] = "count" /\ arg'[v] = arg[v]
      BY <1>0 DEF TypeOK
    <3>. QED  BY <1>0, <3>1, <3>2, <3>3, <3>4 DEF Midway
  <2>. QED  BY <2>1, <2>2
<1>8. Uncounted'
  <2>1. \A x \in counted' : slot'[x] # NullPtr
    BY <1>0, <1>4, <1>5 DEF Uncounted, TypeOK
  <2>2. \A x \in Slots \ counted' :
            slot'[x] # NullPtr => \E u \in Threads : op'[u] = "count" /\ arg'[u] = x
    <3>. SUFFICES ASSUME NEW x \in Slots \ counted', slot'[x] # NullPtr
                  PROVE  \E u \in Threads : op'[u] = "count" /\ arg'[u] = x
      OBVIOUS
    <3>1. x \notin {s, temp}
      BY <1>0, <1>1, <1>2, <1>4, <1>5 DEF Uncounted
    <3>2. PICK u \in Threads : op[u] = "count" /\ arg[u] = x
      BY <1>0, <1>4, <1>5, <3>1 DEF Uncounted
    <3>. QED  BY <1>0, <1>2, <3>2 DEF TypeOK
  <2>. QED  BY <2>1, <2>2 DEF Uncounted
<1>9. Sourced'
  <2>. SUFFICES ASSUME NEW u \in Threads, op'[u] = "count"
                PROVE  \E x \in counted' : Owner[x] = u /\ x # Temp[u] /\ slot'[x] = slot'[arg'[u]]
    BY DEF Sourced
  <2>1. op[u] = "count" /\ u # t /\ arg'[u] = arg[u] /\ arg[u] \notin {s, temp}
    BY <1>0, <1>1, <1>2 DEF TypeOK
  <2>2. PICK x \in counted : Owner[x] = u /\ x # Temp[u] /\ slot[x] = slot[arg[u]]
    BY <1>0, <2>1 DEF Sourced
  <2>3. x \notin {s, temp}
    BY <1>1, <2>1, <2>2
  <2>. QED  BY <1>0, <1>4, <1>5, <2>1, <2>2, <2>3 DEF TypeOK
<1>10. CountExact'
  <2>1. ASSUME NEW o \in alive PROVE Cardinality(Holders(o)') = Cardinality(Holders(o))
    <3>1. /\ s \in Holders(o)' <=> temp \in Holders(o)
          /\ temp \in Holders(o)' <=> s \in Holders(o)
          /\ \A x : x \notin {s, temp} => (x \in Holders(o)' <=> x \in Holders(o))
      BY <1>0, <1>4, <1>5, <1>6 DEF TypeOK, Holders
    <3>2. CASE s \in Holders(o) <=> temp \in Holders(o)
      <4>1. Holders(o)' = Holders(o)
        BY <3>1, <3>2
      <4>. QED  BY <4>1
    <3>3. CASE s \in Holders(o) /\ temp \notin Holders(o)
      <4>1. Holders(o)' = (Holders(o) \ {s}) \cup {temp}
        BY <3>1, <3>3
      <4>. QED  BY <3>3, <4>1, HoldersFinite, Replaced
    <3>4. CASE s \notin Holders(o) /\ temp \in Holders(o)
      <4>1. Holders(o)' = (Holders(o) \ {temp}) \cup {s}
        BY <3>1, <3>4
      <4>. QED  BY <3>4, <4>1, HoldersFinite, Replaced
    <3>. QED  BY <3>2, <3>3, <3>4
  <2>2. \A o \in alive' : refCount'[o] = Cardinality(Holders(o)')
    BY <1>0, <2>1, ExactByHolders
  <2>. QED  BY <2>2, ExactByHolders
<1>11. NoDangling'
  BY <1>0, <1>1, <1>4 DEF NoDangling, P!NoDangling
<1>12. Locked'
  <2>. SUFFICES ASSUME NEW u \in Threads, via[u] # Null
                PROVE  /\ via[u] \in counted' /\ Owner[via[u]] = u /\ via[u] # Temp[u]
                       /\ mutexOwner[slot'[via[u]].objMutex] = u
    BY DEF Locked
  <2>1. via[u] \in counted /\ Owner[via[u]] = u /\ via[u] # Temp[u] /\ via[u] \in Slots
    BY <1>0 DEF TypeOK, Locked
  <2>2. via[u] \notin {s, temp}
    BY <1>1, <2>1 DEF temp
  <2>. QED  BY <1>0, <1>4, <1>5, <2>1, <2>2 DEF Locked
<1>. QED  BY <1>6, <1>7, <1>8, <1>9, <1>10, <1>11, <1>12 DEF IInv

\* swap(), the second half of operator=.
LEMMA SwapIInv ==
    ASSUME PtrAssumption, IInv, NEW t \in Threads, NEW s \in Slots, Swap(t, s)
    PROVE  IInv'
  BY ExchangeIInv DEF Swap, P!Swap, P!Goto, Kept, Unlocked

\* clear() and reset() swap with a temporary that is empty.
LEMMA ClearIInv ==
    ASSUME PtrAssumption, IInv, NEW t \in Threads, NEW s \in Slots, Clear(t, s)
    PROVE  IInv'
<1>1. /\ op[t] = "idle" /\ s \in P!Named(t) /\ via[t] # s
      /\ slot' = [slot EXCEPT ![s] = NullPtr, ![Temp[t]] = slot[s]]
      /\ counted' = (counted \ {s}) \cup {x \in {Temp[t]} : s \in counted}
      /\ op' = [op EXCEPT ![t] = "drop"] /\ arg' = [arg EXCEPT ![t] = Temp[t]]
      /\ UNCHANGED <<refCount, alive, via, mutexOwner>>
  BY DEF Clear, P!Clear, P!Goto, Kept, Unlocked, NullPtr
<1>2. slot[Temp[t]] = NullPtr /\ Temp[t] \notin counted /\ s # Temp[t]
  BY <1>1 DEF IInv, Midway, Uncounted, P!Named
<1>3. counted' = (counted \ {s, Temp[t]}) \cup
                 {x \in {s, Temp[t]} : (IF x = s THEN Temp[t] ELSE s) \in counted}
  BY <1>1, <1>2
<1>. QED  BY <1>1, <1>2, <1>3, ExchangeIInv

\* ~RefPtr(): the last pointer takes its object with it.  Nobody is about to
\* count a copy of it, for he would still have the pointer he copied.
LEMMA DropIInv == ASSUME PtrAssumption, IInv, NEW t \in Threads, Drop(t) PROVE IInv'
<1>. DEFINE temp == Temp[t]
<1>0. TypeOK /\ Midway /\ Uncounted /\ Sourced /\ CountExact /\ NoDangling /\ Locked
  BY DEF IInv
<1>1. op[t] = "drop" /\ arg[t] = temp /\ temp \in Slots /\ Owner[temp] = t
  BY <1>0 DEF Drop, P!Drop, Midway, PtrAssumption
<1>2. /\ slot' = [slot EXCEPT ![temp] = NullPtr]
      /\ counted' = counted \ {temp}
      /\ op' = [op EXCEPT ![t] = "idle"] /\ arg' = [arg EXCEPT ![t] = temp]
      /\ UNCHANGED <<via, mutexOwner>>
  BY <1>1 DEF Drop, P!Drop, P!Goto, NullPtr, Unlocked
<1>3. \A u \in Threads : op[u] = "count" => u # t /\ arg[u] # temp
  BY <1>0, <1>1 DEF Midway, PtrAssumption
<1>4. slot[temp] # NullPtr => temp \in counted
  BY <1>0, <1>1, <1>3 DEF Uncounted
<1>5. \A x \in Slots \ {temp} : slot'[x] = slot[x]
  BY <1>0, <1>2 DEF TypeOK
<1>. HIDE DEF temp
<1>6. CASE slot[temp] = NullPtr
  <2>1. UNCHANGED <<refCount, alive>>
    BY <1>1, <1>6 DEF Drop, P!Drop, NullPtr
  <2>2. temp \notin counted /\ slot' = slot /\ counted' = counted
    BY <1>0, <1>2, <1>6 DEF TypeOK, Uncounted
  <2>3. TypeOK'
    BY <1>0, <1>1, <1>2, <2>1, <2>2 DEF TypeOK
  <2>4. Midway'
    BY <1>0, <1>2, <1>6, <2>2 DEF TypeOK, Midway, temp
  <2>5. Uncounted' /\ Sourced'
    BY <1>0, <1>2, <1>3, <2>2 DEF TypeOK, Uncounted, Sourced
  <2>6. CountExact' /\ NoDangling'
    BY <1>0, <2>1, <2>2 DEF CountExact, P!CountExact, NoDangling, P!NoDangling
  <2>7. Locked'
    BY <1>0, <1>2, <2>2 DEF Locked
  <2>. QED  BY <2>3, <2>4, <2>5, <2>6, <2>7 DEF IInv
<1>7. CASE slot[temp] # NullPtr
  <2>1. PICK o \in Objects :
          /\ slot[temp] = To(o)
          /\ refCount' = [refCount EXCEPT ![o] = @ - 1]
          /\ alive' = IF refCount[o] = 1 THEN alive \ {o} ELSE alive
    BY <1>1, <1>7 DEF Drop, P!Drop, NullPtr, To
  <2>2. temp \in counted /\ o \in alive
    BY <1>4, <1>7, <2>1, CountedAlive, ToFacts DEF IInv, TypeOK
  <2>3. Holders(o)' = Holders(o) \ {temp} /\ temp \in Holders(o)
    BY <1>0, <1>2, <1>5, <2>1, <2>2 DEF TypeOK, Holders
  <2>4. Cardinality(Holders(o)') = Cardinality(Holders(o)) - 1
    BY <2>3, HoldersFinite, FS_RemoveElement
  <2>5. \A q \in alive \ {o} : Holders(q)' = Holders(q) /\ refCount'[q] = refCount[q]
    BY <1>0, <1>2, <1>5, <2>1, ToFacts DEF TypeOK, Holders
  <2>6. CountExact'
    <3>1. refCount'[o] = Cardinality(Holders(o)')
      BY <1>0, <2>1, <2>2, <2>4, ExactByHolders DEF TypeOK
    <3>2. \A q \in alive' : refCount'[q] = Cardinality(Holders(q)')
      BY <1>0, <2>1, <2>5, <3>1, ExactByHolders
    <3>. QED  BY <3>2, ExactByHolders
  <2>7. ASSUME refCount[o] = 1 PROVE \A x \in Slots \ {temp} : slot[x] # To(o)
    <3>1. Holders(o) = {temp}
      <4>1. Cardinality(Holders(o)) = 1 /\ IsFiniteSet(Holders(o))
        BY <1>0, <2>2, <2>7, HoldersFinite, ExactByHolders
      <4>. QED  BY <2>3, <4>1, FS_Singleton
    <3>. SUFFICES ASSUME NEW x \in Slots \ {temp}, slot[x] = To(o) PROVE FALSE
      OBVIOUS
    <3>2. x \notin counted
      BY <3>1 DEF Holders
    <3>3. PICK u \in Threads : op[u] = "count" /\ arg[u] = x
      BY <1>0, <3>2, ToFacts DEF Uncounted
    <3>4. PICK y \in counted : Owner[y] = u /\ slot[y] = To(o)
      BY <1>0, <3>3 DEF Sourced
    <3>5. y = temp
      BY <3>1, <3>4 DEF Holders
    <3>. QED  BY <1>1, <1>3, <3>3, <3>4, <3>5
  <2>8. NoDangling'
    <3>. SUFFICES ASSUME NEW x \in Slots, slot'[x] # NullPtr
                  PROVE  \E q \in alive' : slot'[x] = To(q)
      BY DEF NoDangling, P!NoDangling, To, NullPtr
    <3>1. x # temp /\ slot'[x] = slot[x]
      BY <1>0, <1>1, <1>2, <1>5 DEF TypeOK
    <3>2. PICK q \in alive : slot[x] = To(q)
      BY <1>0, <3>1 DEF NoDangling, P!NoDangling, To, NullPtr
    <3>3. q \in alive'
      BY <2>1, <2>7, <3>1, <3>2
    <3>. QED  BY <3>1, <3>2, <3>3
  <2>9. TypeOK'
    <3>1. refCount' \in [Objects -> Int] /\ alive' \in SUBSET Objects
      BY <1>0, <2>1 DEF TypeOK
    <3>. QED  BY <1>0, <1>1, <1>2, <3>1 DEF TypeOK
  <2>10. Midway'
    <3>. SUFFICES ASSUME NEW u \in Threads PROVE Midway!(u)'
      BY DEF Midway
    <3>1. CASE u = t
      BY <1>0, <1>1, <1>2, <3>1 DEF TypeOK, Midway, temp
    <3>2. CASE u # t
      <4>1. op'[u] = op[u] /\ arg'[u] = arg[u] /\ Temp[u] # temp
        BY <1>0, <1>1, <1>2, <3>2 DEF TypeOK, PtrAssumption
      <4>2. slot'[Temp[u]] = slot[Temp[u]] /\ (Temp[u] \in counted' <=> Temp[u] \in counted)
        BY <1>2, <1>5, <4>1 DEF PtrAssumption
      <4>3. op[u] = "count" => slot'[arg[u]] = slot[arg[u]] /\ (arg[u] \in counted' <=> arg[u] \in counted)
        BY <1>0, <1>2, <1>3, <1>5 DEF TypeOK
      <4>4. \A v \in Threads : op'[v] = "count" => op[v] = "count" /\ arg'[v] = arg[v]
        BY <1>0, <1>2 DEF TypeOK
      <4>. QED  BY <1>0, <4>1, <4>2, <4>3, <4>4 DEF Midway
    <3>. QED  BY <3>1, <3>2
  <2>11. Uncounted'
    <3>1. slot'[temp] = NullPtr
      BY <1>0, <1>1, <1>2 DEF TypeOK
    <3>2. \A x \in counted' : slot'[x] # NullPtr
      BY <1>0, <1>2, <1>5 DEF TypeOK, Uncounted
    <3>3. \A u \in Threads : op[u] = "count" => op'[u] = "count" /\ arg'[u] = arg[u]
      BY <1>0, <1>2, <1>3 DEF TypeOK
    <3>. QED  BY <1>0, <1>2, <1>5, <3>1, <3>2, <3>3 DEF Uncounted
  <2>12. Sourced'
    <3>. SUFFICES ASSUME NEW u \in Threads, op'[u] = "count"
                  PROVE  \E x \in counted' : Owner[x] = u /\ x # Temp[u] /\ slot'[x] = slot'[arg'[u]]
      BY DEF Sourced
    <3>1. op[u] = "count" /\ u # t /\ arg'[u] = arg[u] /\ arg[u] # temp
      BY <1>0, <1>2, <1>3 DEF TypeOK
    <3>2. PICK x \in counted : Owner[x] = u /\ x # Temp[u] /\ slot[x] = slot[arg[u]]
      BY <1>0, <3>1 DEF Sourced
    <3>. QED  BY <1>0, <1>1, <1>2, <1>5, <3>1, <3>2 DEF TypeOK
  <2>13. Locked'
    <3>. SUFFICES ASSUME NEW u \in Threads, via[u] # Null
                  PROVE  /\ via[u] \in counted' /\ Owner[via[u]] = u /\ via[u] # Temp[u]
                         /\ mutexOwner[slot'[via[u]].objMutex] = u
      BY <1>2 DEF Locked
    <3>1. via[u] \in counted /\ Owner[via[u]] = u /\ via[u] # Temp[u] /\ via[u] \in Slots
      BY <1>0 DEF TypeOK, Locked
    <3>2. via[u] # temp
      BY <1>1, <3>1 DEF temp
    <3>. QED  BY <1>0, <1>2, <1>5, <3>1, <3>2 DEF Locked
  <2>. QED  BY <2>6, <2>8, <2>9, <2>10, <2>11, <2>12, <2>13 DEF IInv
<1>. QED  BY <1>6, <1>7

\* A counted pointer's mutex is the one of the object it leads to.
LEMMA MutexOfObject ==
    ASSUME PtrAssumption, IInv, NEW s \in counted
    PROVE  /\ slot[s].objMutex \in alive /\ slot[s].objMutex \in Objects
           /\ slot[s].object = slot[s].objMutex
<1>1. PICK o \in alive : slot[s] = To(o)
  BY CountedAlive
<1>. QED  BY <1>1, ToFacts DEF IInv, TypeOK

\* lock() and unlock() change who owns the mutex of one object.
LEMMA LockIInv ==
    ASSUME PtrAssumption, IInv, NEW t \in Threads, NEW s \in Slots, Lock(t, s)
    PROVE  IInv'
<1>. DEFINE m == slot[s].objMutex
<1>0. TypeOK /\ Midway /\ Uncounted /\ Sourced /\ CountExact /\ NoDangling /\ Locked
  BY DEF IInv
<1>1. /\ op[t] = "idle" /\ via[t] = Null /\ mutexOwner[m] = Null /\ m # Null
      /\ Owner[s] = t /\ s # Temp[t]
      /\ \A u \in Threads : op[u] = "count" => arg[u] # s
      /\ via' = [via EXCEPT ![t] = s] /\ mutexOwner' = [mutexOwner EXCEPT ![m] = t]
      /\ UNCHANGED <<slot, counted, refCount, alive, op, arg>>
  BY DEF Lock, P!Named
<1>2. s \in counted
  <2>1. NullPtr.objMutex = Null
    BY DEF NullPtr, P!NullPtr
  <2>2. slot[s] # NullPtr
    BY <1>1, <2>1
  <2>. QED  BY <1>0, <1>1, <2>2 DEF Uncounted
<1>3. m \in Objects
  BY <1>2, MutexOfObject
<1>. HIDE DEF m
<1>4. TypeOK'
  BY <1>0, <1>1, <1>3 DEF TypeOK
<1>5. Midway' /\ Uncounted' /\ Sourced'
  BY <1>0, <1>1 DEF Midway, Uncounted, Sourced
<1>6. CountExact' /\ NoDangling'
  BY <1>0, <1>1 DEF CountExact, P!CountExact, NoDangling, P!NoDangling
<1>7. Locked'
  <2>. SUFFICES ASSUME NEW u \in Threads, via'[u] # Null
                PROVE  /\ via'[u] \in counted /\ Owner[via'[u]] = u /\ via'[u] # Temp[u]
                       /\ mutexOwner'[slot[via'[u]].objMutex] = u
    BY <1>1 DEF Locked
  <2>1. CASE u = t
    BY <1>0, <1>1, <1>2, <1>3, <2>1 DEF TypeOK, m
  <2>2. CASE u # t
    <3>1. via'[u] = via[u]
      BY <1>0, <1>1, <2>2 DEF TypeOK
    <3>2. mutexOwner[slot[via[u]].objMutex] = u /\ slot[via[u]].objMutex # m
      BY <1>0, <1>1, <3>1 DEF Locked, PtrAssumption
    <3>3. slot[via[u]].objMutex \in Objects
      BY <1>0, <3>1, MutexOfObject DEF Locked
    <3>. QED  BY <1>0, <1>1, <3>1, <3>2, <3>3 DEF TypeOK, Locked
  <2>. QED  BY <2>1, <2>2
<1>. QED  BY <1>4, <1>5, <1>6, <1>7 DEF IInv

LEMMA UnlockIInv == ASSUME PtrAssumption, IInv, NEW t \in Threads, Unlock(t) PROVE IInv'
<1>. DEFINE m == slot[via[t]].objMutex
<1>0. TypeOK /\ Midway /\ Uncounted /\ Sourced /\ CountExact /\ NoDangling /\ Locked
  BY DEF IInv
<1>1. /\ via[t] # Null
      /\ via' = [via EXCEPT ![t] = Null] /\ mutexOwner' = [mutexOwner EXCEPT ![m] = Null]
      /\ UNCHANGED <<slot, counted, refCount, alive, op, arg>>
  BY DEF Unlock
<1>2. mutexOwner[m] = t
  BY <1>0, <1>1 DEF Locked
<1>. HIDE DEF m
<1>3. TypeOK'
  BY <1>0, <1>1 DEF TypeOK
<1>4. Midway' /\ Uncounted' /\ Sourced'
  BY <1>0, <1>1 DEF Midway, Uncounted, Sourced
<1>5. CountExact' /\ NoDangling'
  BY <1>0, <1>1 DEF CountExact, P!CountExact, NoDangling, P!NoDangling
<1>6. Locked'
  <2>. SUFFICES ASSUME NEW u \in Threads, via'[u] # Null
                PROVE  /\ via'[u] \in counted /\ Owner[via'[u]] = u /\ via'[u] # Temp[u]
                       /\ mutexOwner'[slot[via'[u]].objMutex] = u
    BY <1>1 DEF Locked
  <2>1. u # t /\ via'[u] = via[u]
    BY <1>0, <1>1 DEF TypeOK
  <2>2. mutexOwner[slot[via[u]].objMutex] = u /\ slot[via[u]].objMutex # m
    BY <1>0, <1>2, <2>1 DEF Locked
  <2>3. slot[via[u]].objMutex \in Objects
    BY <1>0, <2>1, MutexOfObject DEF Locked
  <2>. QED  BY <1>0, <1>1, <2>1, <2>2, <2>3 DEF TypeOK, Locked
<1>. QED  BY <1>3, <1>4, <1>5, <1>6 DEF IInv

-----------------------------------------------------------------------------
(* What is proved of the pointers. *)

\* Every operation of every thread keeps the inductive invariant.
LEMMA StepIInv == ASSUME PtrAssumption, IInv, [Next]_vars PROVE IInv'
<1>1. CASE UNCHANGED vars
  BY <1>1 DEF vars, IInv, TypeOK, Midway, Uncounted, Sourced, CountExact, P!CountExact,
              NoDangling, P!NoDangling, Locked
<1>2. CASE Next
  BY <1>2, CreateIInv, CopyIInv, AssignIInv, CountIInv, SwapIInv, ClearIInv, DropIInv,
     LockIInv, UnlockIInv DEF Next
<1>. QED  BY <1>1, <1>2

\* In a state of the invariant the pointers are sound: two threads that have
\* locked pointers to one object would both own its mutex.
LEMMA IInvSound == ASSUME PtrAssumption, IInv PROVE PointersSound
<1>0. TypeOK /\ CountExact /\ NoDangling /\ Locked
  BY DEF IInv
<1>1. ObjectExclusive
  <2>. SUFFICES ASSUME NEW t \in Threads, via[t] # Null
                PROVE  /\ slot[via[t]].objMutex \in alive
                       /\ \A u \in Threads \ {t} :
                              via[u] # Null => slot[via[u]].object # slot[via[t]].object
    BY DEF ObjectExclusive
  <2>1. slot[via[t]].objMutex \in alive
    BY <1>0, MutexOfObject DEF Locked
  <2>2. ASSUME NEW u \in Threads \ {t}, via[u] # Null
        PROVE  slot[via[u]].object # slot[via[t]].object
    <3>1. /\ slot[via[t]].object = slot[via[t]].objMutex
          /\ slot[via[u]].object = slot[via[u]].objMutex
      BY <1>0, <2>2, MutexOfObject DEF Locked
    <3>2. mutexOwner[slot[via[t]].objMutex] = t /\ mutexOwner[slot[via[u]].objMutex] = u
      BY <1>0, <2>2 DEF Locked
    <3>. QED  BY <2>2, <3>1, <3>2
  <2>. QED  BY <2>1, <2>2
<1>. QED  BY <1>0, <1>1 DEF PointersSound

\* Whatever threads do with their pointers, the count of an object is exact, no
\* pointer leads to a deleted object, and a locked object has one user.
THEOREM PointersAreSound ==
    ASSUME PtrAssumption
    PROVE  Init /\ [][Next]_vars => []PointersSound
<1>1. Init => IInv
  BY InitIInv
<1>2. IInv /\ [Next]_vars => IInv'
  BY StepIInv
<1>3. IInv => PointersSound
  BY IInvSound
<1>. QED  BY <1>1, <1>2, <1>3, PTL

=============================================================================
