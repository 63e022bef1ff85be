--------------------- MODULE InterruptibleBarrier_proofs ---------------------
(***************************************************************************)
(* Proofs about the barrier of module InterruptibleBarrier, for any number *)
(* of threads, of timeouts and of interrupts: threads_left counts the      *)
(* arrivals, and the class implements Rendezvous.                          *)
(*                                                                         *)
(* ArrivalsCounted is not inductive: a thread that arrives must not be in  *)
(* __passed_threads yet, which holds because those that are there are      *)
(* still in reltimed_wait (Fresh).  The refinement needs to know in which  *)
(* phase an undisturbed round is (Phases).                                 *)
(***************************************************************************)
EXTENDS InterruptibleBarrier, FiniteSetTheorems, TLAPS

Pc == {"out", "cond", "gate", "posix", "ret", "dead"}

TypeOK ==
    /\ left \in 0 .. Count
    /\ interrupted \in BOOLEAN /\ timeout \in BOOLEAN /\ waitAt \in BOOLEAN
    /\ nulled \in BOOLEAN /\ disturbed \in BOOLEAN
    /\ passed \in SUBSET Threads
    /\ pc \in [Threads -> Pc]

\* While a round can still be joined, who has arrived is waiting.
Fresh ==
    left # 0 /\ ~interrupted /\ ~timeout =>
        \A t \in passed : pc[t] \in {"cond", "dead"}

\* The list of passed threads is cleared when no thread is in wait(), and none
\* gets past it again.
NulledIsOut == nulled => \A t \in Threads : pc[t] \in {"out", "dead"}

\* A crash ends all threads.
AllDie == (\E t \in Threads : pc[t] = "dead") => \A t \in Threads : pc[t] = "dead"

\* A round that fills: the others have left it, or are about to.
Filling ==
    /\ left # 0
    /\ \A t \in Threads : pc[t] # "dead" => /\ pc[t] \in {"out", "cond", "ret"}
                                            /\ pc[t] = "cond" <=> t \in passed
\* A round that everybody has joined and nobody has left.
Full == left = 0 /\ waitAt /\ \A t \in Threads : pc[t] \in {"cond", "gate", "posix"}
\* A round that was let go.
Leaving == left = 0 /\ \A t \in Threads : pc[t] \in {"out", "ret", "dead"}

\* A round that is neither interrupted nor times out is in one of the three.
Phases ==
    ~disturbed =>
        /\ ~timeout
        /\ interrupted => left = 0 /\ \A t \in Threads : pc[t] # "cond"
        /\ Filling \/ Full \/ Leaving

IInv == TypeOK /\ ArrivalsCounted /\ Fresh /\ NulledIsOut /\ AllDie /\ Phases

-----------------------------------------------------------------------------
(* Counting. *)

\* The barrier is sized to a finite, non-empty set of threads.
LEMMA CountFacts == IsFiniteSet(Threads) /\ Count \in Nat /\ Count # 0
  BY BarrierAssumption, FS_CardinalityType, FS_EmptySet DEF Count

\* One more thread arrives in a round that still lacks some: if it is the last,
\* every thread has arrived.
LEMMA OneMore ==
    ASSUME NEW S \in SUBSET Threads, NEW t \in Threads \ S, NEW n \in Nat,
           Cardinality(S) = Count - n
    PROVE  /\ IsFiniteSet(S \cup {t})
           /\ Cardinality(S \cup {t}) = Count - (n - 1)
           /\ n = 1 => S \cup {t} = Threads
<1>1. IsFiniteSet(S) /\ Cardinality(S) \in Nat
  BY CountFacts, FS_Subset, FS_CardinalityType
<1>2. IsFiniteSet(S \cup {t}) /\ Cardinality(S \cup {t}) = Cardinality(S) + 1
  BY <1>1, FS_AddElement
<1>3. ASSUME n = 1 PROVE S \cup {t} = Threads
  <2>1. Cardinality(Threads) = Cardinality(S \cup {t})
    BY <1>1, <1>2, <1>3, CountFacts DEF Count
  <2>. QED  BY <2>1, CountFacts, FS_Subset
<1>. QED  BY <1>1, <1>2, <1>3, CountFacts

\* The first thread of a round is the only one that has arrived.
LEMMA FirstOne ==
    ASSUME NEW t \in Threads
    PROVE  Cardinality({t}) = 1 /\ (Count = 1 => Threads = {t})
<1>1. IsFiniteSet({}) /\ Cardinality({}) = 0
  BY FS_EmptySet
<1>2. Cardinality({t}) = 1
  BY <1>1, FS_AddElement, {} \cup {t} = {t}
<1>3. ASSUME Count = 1 PROVE Threads = {t}
  BY <1>2, <1>3, CountFacts, FS_Subset DEF Count
<1>. QED  BY <1>2, <1>3

-----------------------------------------------------------------------------
(* The inductive invariant. *)

\* The initial barrier satisfies the inductive invariant.
LEMMA InitIInv == Init => IInv
<1>. SUFFICES ASSUME Init PROVE IInv
  OBVIOUS
<1>1. TypeOK
  <2>1. left \in 0 .. Count
    BY CountFacts DEF Init
  <2>2. pc \in [Threads -> Pc]
    BY DEF Init, Pc
  <2>. QED  BY <2>1, <2>2 DEF Init, TypeOK
<1>2. ArrivalsCounted /\ Fresh /\ NulledIsOut /\ AllDie
  BY DEF Init, ArrivalsCounted, Fresh, NulledIsOut, AllDie
<1>3. Phases
  BY DEF Init, Phases, Leaving
<1>. QED  BY <1>1, <1>2, <1>3 DEF IInv

\* Arrive: the counters, and the round that fills or is complete.
LEMMA ArriveIInv == ASSUME IInv, NEW t \in Threads, Arrive(t) PROVE IInv'
<1>. DEFINE n == IF FirstToCome THEN Count ELSE left
            S == IF FirstToCome THEN {} ELSE passed
<1>0. TypeOK /\ ArrivalsCounted /\ Fresh /\ NulledIsOut /\ AllDie /\ Phases
  BY DEF IInv
<1>1. /\ pc[t] = "out" /\ ~nulled /\ nulled' = nulled
      /\ left' = n - 1
      /\ passed' = S \cup {t}
      /\ waitAt' = ((n - 1 = 0) \/ (waitAt /\ ~FirstToCome))
      /\ pc' = [pc EXCEPT ![t] = IF n - 1 = 0 THEN "gate" ELSE "cond"]
      /\ interrupted' = (interrupted /\ ~FirstToCome)
      /\ timeout' = (timeout /\ ~FirstToCome)
      /\ disturbed' = disturbed
  BY DEF Arrive
<1>2. n \in Nat /\ n # 0 /\ n <= Count
  BY <1>0, CountFacts DEF TypeOK, FirstToCome
<1>3. interrupted' = FALSE /\ timeout' = FALSE
  BY <1>0, <1>1 DEF Arrive, TypeOK
<1>4. S \in SUBSET Threads /\ t \notin S /\ \A u \in S : pc[u] = "cond"
  BY <1>0, <1>1 DEF Arrive, TypeOK, Fresh, AllDie, FirstToCome
<1>5. Cardinality(S) = Count - n
  BY <1>0, <1>2, CountFacts, FS_EmptySet DEF ArrivalsCounted, FirstToCome, TypeOK
<1>6. /\ Cardinality(S \cup {t}) = Count - (n - 1)
      /\ n = 1 => S \cup {t} = Threads
  BY <1>2, <1>4, <1>5, OneMore
<1>. HIDE DEF n, S
<1>7. TypeOK'
  <2>1. left' \in 0 .. Count
    BY <1>1, <1>2, CountFacts
  <2>2. waitAt' \in BOOLEAN /\ nulled' \in BOOLEAN /\ disturbed' \in BOOLEAN
    BY <1>0, <1>1 DEF TypeOK
  <2>3. passed' \in SUBSET Threads /\ pc' \in [Threads -> Pc]
    BY <1>0, <1>1, <1>4 DEF TypeOK, Pc
  <2>. QED  BY <1>3, <2>1, <2>2, <2>3 DEF TypeOK
<1>8. ArrivalsCounted'
  BY <1>1, <1>6 DEF ArrivalsCounted, Count
<1>9. Fresh'
  BY <1>0, <1>1, <1>2, <1>4 DEF Fresh, TypeOK
<1>10. NulledIsOut'
  BY <1>1 DEF NulledIsOut
<1>11. AllDie'
  BY <1>0, <1>1 DEF AllDie, TypeOK
<1>12. Phases'
  <2>. SUFFICES ASSUME ~disturbed PROVE (Filling \/ Full \/ Leaving)'
    BY <1>1, <1>3 DEF Phases
  <2>0. \A u \in Threads : pc[u] # "dead"
    BY <1>0, <1>1 DEF AllDie
  <2>1. Filling \/ Leaving
    BY <1>0, <1>1 DEF Phases, Full
  <2>2. \A u \in Threads \ {t} : pc[u] \in {"out", "cond", "ret"} /\ (pc[u] = "cond" <=> u \in S)
    BY <2>0, <2>1, <1>4 DEF Filling, Leaving, S, FirstToCome
  <2>3. CASE n = 1
    <3>1. \A u \in Threads \ {t} : pc[u] = "cond"
      BY <1>4, <1>6, <2>3
    <3>2. left' = 0 /\ waitAt'
      <4>1. n - 1 = 0
        BY <2>3
      <4>2. waitAt' = TRUE
        BY <1>1, <4>1, Zenon
      <4>. QED  BY <1>1, <4>1, <4>2
    <3>3. \A u \in Threads : pc'[u] \in {"cond", "gate", "posix"}
      BY <1>0, <1>1, <2>3, <3>1 DEF TypeOK
    <3>. QED  BY <3>2, <3>3 DEF Full
  <2>4. CASE n # 1
    BY <1>0, <1>1, <1>2, <2>2, <2>4 DEF TypeOK, Filling
  <2>. QED  BY <2>3, <2>4
<1>. QED  BY <1>7, <1>8, <1>9, <1>10, <1>11, <1>12 DEF IInv

\* Every other step of a thread, interrupt(), reset() and the POSIX barrier.
LEMMA OtherIInv ==
    ASSUME IInv, NEW t \in Threads,
           \/ ArriveSpent(t) \/ ArriveNull(t) \/ Woken(t) \/ TimedOut(t) \/ Gate(t) \/ Return(t)
           \/ interrupt \/ reset \/ PosixRelease \/ UNCHANGED vars
    PROVE  IInv'
<1>0. TypeOK /\ ArrivalsCounted /\ Fresh /\ NulledIsOut /\ AllDie /\ Phases
  BY DEF IInv
<1>. USE DEF TypeOK, Pc
<1>1. CASE ArriveSpent(t)
  <2>1. TypeOK'
    BY <1>0, <1>1, CountFacts DEF ArriveSpent, Finish, shared
  <2>2. ArrivalsCounted'
    BY <1>0, <1>1, CountFacts, FS_EmptySet DEF ArriveSpent, Finish, shared, ArrivalsCounted
  <2>3. Fresh' /\ NulledIsOut' /\ AllDie'
    BY <1>0, <1>1 DEF ArriveSpent, Finish, shared, Fresh, NulledIsOut, AllDie
  <2>4. Phases'
    BY <1>0, <1>1, CountFacts DEF ArriveSpent, Finish, shared, Phases, Filling, Full, Leaving
  <2>. QED  BY <2>1, <2>2, <2>3, <2>4 DEF IInv
<1>2. CASE ArriveNull(t)
  <2>1. TypeOK'
    BY <1>0, <1>2, CountFacts DEF ArriveNull, shared
  <2>2. ArrivalsCounted'
    BY <1>0, <1>2, CountFacts, FS_EmptySet DEF ArriveNull, shared, ArrivalsCounted
  <2>3. Fresh' /\ NulledIsOut' /\ AllDie'
    BY <1>0, <1>2 DEF ArriveNull, shared, Fresh, NulledIsOut, AllDie
  <2>4. Phases'
    BY <1>0, <1>2, CountFacts DEF ArriveNull, shared, Phases, Filling, Full, Leaving
  <2>. QED  BY <2>1, <2>2, <2>3, <2>4 DEF IInv
<1>3. CASE Woken(t)
  <2>1. TypeOK'
    BY <1>0, <1>3, CountFacts DEF Woken, Finish, shared
  <2>2. ArrivalsCounted'
    BY <1>0, <1>3, CountFacts, FS_EmptySet DEF Woken, Finish, shared, ArrivalsCounted
  <2>3. Fresh' /\ NulledIsOut' /\ AllDie'
    BY <1>0, <1>3 DEF Woken, Finish, shared, Fresh, NulledIsOut, AllDie
  <2>4. Phases'
    BY <1>0, <1>3, CountFacts DEF Woken, Finish, shared, Phases, Filling, Full, Leaving
  <2>. QED  BY <2>1, <2>2, <2>3, <2>4 DEF IInv
<1>4. CASE TimedOut(t)
  <2>1. TypeOK'
    BY <1>0, <1>4, CountFacts DEF TimedOut, Finish
  <2>2. ArrivalsCounted'
    BY <1>0, <1>4, CountFacts, FS_EmptySet DEF TimedOut, Finish, ArrivalsCounted
  <2>3. Fresh' /\ NulledIsOut' /\ AllDie'
    BY <1>0, <1>4 DEF TimedOut, Finish, Fresh, NulledIsOut, AllDie
  <2>4. Phases'
    BY <1>0, <1>4, CountFacts DEF TimedOut, Finish, Phases, Filling, Full, Leaving
  <2>. QED  BY <2>1, <2>2, <2>3, <2>4 DEF IInv
<1>5. CASE Gate(t)
  <2>1. TypeOK'
    BY <1>0, <1>5, CountFacts DEF Gate, shared
  <2>2. ArrivalsCounted'
    BY <1>0, <1>5, CountFacts, FS_EmptySet DEF Gate, shared, ArrivalsCounted
  <2>3. Fresh' /\ NulledIsOut' /\ AllDie'
    BY <1>0, <1>5 DEF Gate, shared, Fresh, NulledIsOut, AllDie
  <2>4. Phases'
    BY <1>0, <1>5, CountFacts DEF Gate, shared, Phases, Filling, Full, Leaving
  <2>. QED  BY <2>1, <2>2, <2>3, <2>4 DEF IInv
<1>6. CASE Return(t)
  <2>1. TypeOK'
    BY <1>0, <1>6, CountFacts DEF Return, Finish, shared
  <2>2. ArrivalsCounted'
    BY <1>0, <1>6, CountFacts, FS_EmptySet DEF Return, Finish, shared, ArrivalsCounted
  <2>3. Fresh' /\ NulledIsOut' /\ AllDie'
    BY <1>0, <1>6 DEF Return, Finish, shared, Fresh, NulledIsOut, AllDie
  <2>4. Phases'
    BY <1>0, <1>6, CountFacts DEF Return, Finish, shared, Phases, Filling, Full, Leaving
  <2>. QED  BY <2>1, <2>2, <2>3, <2>4 DEF IInv
<1>7. CASE interrupt
  <2>1. TypeOK'
    BY <1>0, <1>7, CountFacts DEF interrupt
  <2>2. ArrivalsCounted'
    BY <1>0, <1>7, CountFacts, FS_EmptySet DEF interrupt, ArrivalsCounted
  <2>3. Fresh' /\ NulledIsOut' /\ AllDie'
    BY <1>0, <1>7 DEF interrupt, Fresh, NulledIsOut, AllDie
  <2>4. Phases'
    BY <1>0, <1>7, CountFacts DEF interrupt, Phases, Filling, Full, Leaving
  <2>. QED  BY <2>1, <2>2, <2>3, <2>4 DEF IInv
<1>8. CASE reset
  <2>1. TypeOK'
    <3>1. left' \in 0 .. Count
      BY <1>8, CountFacts DEF reset
    <3>. QED  BY <1>0, <1>8, <3>1 DEF reset
  <2>2. ArrivalsCounted'
    BY <1>0, <1>8, CountFacts, FS_EmptySet DEF reset, ArrivalsCounted
  <2>3. Fresh' /\ NulledIsOut' /\ AllDie'
    BY <1>0, <1>8 DEF reset, Fresh, NulledIsOut, AllDie
  <2>4. Phases'
    BY <1>0, <1>8, CountFacts DEF reset, Phases, Filling, Full, Leaving
  <2>. QED  BY <2>1, <2>2, <2>3, <2>4 DEF IInv
<1>9. CASE PosixRelease
  <2>1. TypeOK'
    BY <1>0, <1>9, CountFacts DEF PosixRelease, shared
  <2>2. ArrivalsCounted'
    BY <1>0, <1>9, CountFacts, FS_EmptySet DEF PosixRelease, shared, ArrivalsCounted
  <2>3. Fresh' /\ NulledIsOut' /\ AllDie'
    BY <1>0, <1>9 DEF PosixRelease, shared, Fresh, NulledIsOut, AllDie
  <2>4. Phases'
    BY <1>0, <1>9, CountFacts DEF PosixRelease, shared, Phases, Filling, Full, Leaving
  <2>. QED  BY <2>1, <2>2, <2>3, <2>4 DEF IInv
<1>10. CASE UNCHANGED vars
  <2>1. TypeOK'
    BY <1>0, <1>10, CountFacts DEF vars, shared
  <2>2. ArrivalsCounted'
    BY <1>0, <1>10, CountFacts, FS_EmptySet DEF vars, shared, ArrivalsCounted
  <2>3. Fresh' /\ NulledIsOut' /\ AllDie'
    BY <1>0, <1>10 DEF vars, shared, Fresh, NulledIsOut, AllDie
  <2>4. Phases'
    BY <1>0, <1>10, CountFacts DEF vars, shared, Phases, Filling, Full, Leaving
  <2>. QED  BY <2>1, <2>2, <2>3, <2>4 DEF IInv
<1>. QED  BY <1>1, <1>2, <1>3, <1>4, <1>5, <1>6, <1>7, <1>8, <1>9, <1>10

\* The inductive step.
LEMMA StepIInv == ASSUME IInv, [Next]_vars PROVE IInv'
<1>1. PICK t \in Threads : TRUE
  BY BarrierAssumption
<1>2. CASE interrupt \/ reset \/ PosixRelease \/ UNCHANGED vars
  BY <1>1, <1>2, OtherIInv
<1>3. ASSUME NEW u \in Threads, Wait(u) PROVE IInv'
  BY <1>3, ArriveIInv, OtherIInv DEF Wait
<1>. QED  BY <1>2, <1>3 DEF Next

-----------------------------------------------------------------------------
(* What is proved of the barrier. *)

\* Every state of the barrier satisfies the inductive invariant.
THEOREM Invariance == Spec => []IInv
  BY InitIInv, StepIInv, PTL DEF Spec

\* The variables of the barrier keep their types; threads_left never passes
\* below zero or above the number of threads.
THEOREM TypeCorrect == Spec => []TypeOK
<1>1. IInv => TypeOK
  BY DEF IInv
<1>. QED  BY <1>1, Invariance, PTL

\* Whatever timeouts and interrupts do, threads_left and __passed_threads agree
\* on how many threads have arrived in the round.
THEOREM ArrivalsAreCounted == Spec => []ArrivalsCounted
<1>1. IInv => ArrivalsCounted
  BY DEF IInv
<1>. QED  BY <1>1, Invariance, PTL

\* The initial barrier is an empty rendezvous.
LEMMA InitRefines == Init => Abstract!Init
  BY DEF Init, Abstract!Init

\* Every step of wait(), interrupt() and reset() is a step of the rendezvous or
\* none: a thread enters with its arrival, all are released together by the
\* POSIX barrier, and each leaves with its return.
LEMMA StepRefines == ASSUME IInv, IInv', [Next]_vars PROVE [Abstract!Next]_(Abstract!vars)
<1>. DEFINE Inside == {t \in Threads : pc[t] \in {"cond", "gate", "posix"}}
            Released == {t \in Threads : pc[t] = "ret"}
<1>0. TypeOK /\ NulledIsOut /\ AllDie /\ Phases /\ TypeOK' /\ Phases'
  BY DEF IInv
<1>1. ASSUME disturbed' PROVE Abstract!Broken
  <2>1. disturbed' = TRUE
    BY <1>0, <1>1 DEF TypeOK
  <2>. QED  BY <2>1 DEF Abstract!Broken
<1>2. ASSUME ~disturbed' PROVE disturbed = FALSE /\ disturbed' = FALSE
  BY <1>0, <1>2 DEF TypeOK, Next, Wait, vars, shared, ArriveSpent, Arrive, ArriveNull, Woken,
     TimedOut, Gate, Return, interrupt, reset, PosixRelease
<1>3. ASSUME ~disturbed', UNCHANGED <<Inside, Released>> PROVE UNCHANGED Abstract!vars
  BY <1>2, <1>3 DEF Abstract!vars
<1>4. ASSUME ~disturbed', NEW t \in Threads, Wait(t)
      PROVE  UNCHANGED Abstract!vars \/ Abstract!Enter(t) \/ Abstract!Leave(t)
  <2>0. ~disturbed
    BY <1>2, <1>4
  <2>1. CASE ArriveSpent(t)
    BY <1>0, <1>3, <1>4, <2>1 DEF ArriveSpent, Finish, TypeOK
  <2>2. CASE Arrive(t)
    <3>1. pc[t] = "out" /\ \E p \in {"gate", "cond"} : pc' = [pc EXCEPT ![t] = p]
      BY <2>2 DEF Arrive
    <3>2. Inside' = Inside \cup {t} /\ Released' = Released /\ t \notin Inside \cup Released
      BY <1>0, <3>1 DEF TypeOK
    <3>. QED  BY <1>2, <1>4, <3>2 DEF Abstract!Enter
  <2>3. CASE ArriveNull(t)
    <3>1. \A u \in Threads : pc[u] \in {"out", "dead"} /\ pc'[u] = "dead"
      BY <1>0, <2>3 DEF ArriveNull, NulledIsOut, TypeOK
    <3>. QED  BY <1>3, <1>4, <3>1
  <2>4. CASE Woken(t)
    <3>1. ~interrupted /\ pc[t] = "cond" /\ pc' = [pc EXCEPT ![t] = "gate"]
      BY <1>0, <2>0, <2>4 DEF Woken, Phases
    <3>. QED  BY <1>0, <1>3, <1>4, <3>1 DEF TypeOK
  <2>5. CASE TimedOut(t)
    BY <1>4, <2>5 DEF TimedOut
  <2>6. CASE Gate(t)
    <3>1. pc[t] = "gate" /\ waitAt
      BY <1>0, <2>0, <2>6 DEF Gate, Phases, Filling, Full, Leaving
    <3>2. pc' = [pc EXCEPT ![t] = "posix"]
      BY <2>6, <3>1 DEF Gate
    <3>. QED  BY <1>0, <1>3, <1>4, <3>1, <3>2 DEF TypeOK
  <2>7. CASE Return(t)
    <3>1. Inside' = Inside /\ Released' = Released \ {t} /\ t \in Released
      BY <1>0, <2>7 DEF Return, Finish, TypeOK
    <3>. QED  BY <1>2, <1>4, <3>1 DEF Abstract!Leave
  <2>. QED  BY <1>4, <2>1, <2>2, <2>3, <2>4, <2>5, <2>6, <2>7 DEF Wait
<1>5. ASSUME ~disturbed', PosixRelease PROVE Abstract!Release
  <2>1. Inside = Threads /\ Inside' = {} /\ Released' = Threads
    BY <1>0, <1>5 DEF PosixRelease, TypeOK
  <2>. QED  BY <1>2, <1>5, <2>1, BarrierAssumption DEF Abstract!Release
<1>6. ASSUME ~disturbed', interrupt \/ reset \/ UNCHANGED vars PROVE UNCHANGED Abstract!vars
  BY <1>3, <1>6 DEF interrupt, reset, vars, shared
<1>. QED  BY <1>1, <1>4, <1>5, <1>6 DEF Next, Abstract!Next

\* InterruptibleBarrier is a barrier until a round is interrupted or times out:
\* the safety part of ImplementsBarrier, for any number of threads.
THEOREM IsARendezvous == Spec => Abstract!Init /\ [][Abstract!Next]_(Abstract!vars)
<1>1. Init => Abstract!Init
  BY InitRefines
<1>2. IInv /\ IInv' /\ [Next]_vars => [Abstract!Next]_(Abstract!vars)
  BY StepRefines
<1>. QED  BY <1>1, <1>2, Invariance, PTL DEF Spec

=============================================================================
