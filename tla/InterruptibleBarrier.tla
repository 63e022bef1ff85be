------------------------ MODULE InterruptibleBarrier ------------------------
(***************************************************************************)
(* core/threading/interruptible_barrier.cpp: a barrier for Count threads   *)
(* made of a mutex, a wait condition and the POSIX barrier of the base     *)
(* class, whose wait() can time out or be interrupted.                     *)
(*                                                                         *)
(* A step is what runs between two releases of the mutex, or one read of a *)
(* member outside of it.  A thread that calls wait() is at                 *)
(*    "cond"    blocked in reltimed_wait                                   *)
(*    "gate"    past the mutex, about to read __wait_at_barrier            *)
(*    "posix"   in Barrier::wait                                           *)
(*    "ret"     about to return !__timeout                                 *)
(* "out" otherwise, and "dead" once the process has crashed.               *)
(***************************************************************************)
EXTENDS Naturals, FiniteSets

CONSTANTS Threads,        \* the threads that use the barrier
          Timed,          \* those of them that call wait() with a timeout
          MaxInterrupts   \* bound: calls of interrupt()

ASSUME BarrierAssumption ==
    /\ IsFiniteSet(Threads) /\ Threads # {}
    /\ Timed \subseteq Threads
    /\ MaxInterrupts \in Nat

Count == Cardinality(Threads)   \* ThreadList sizes the barrier to its threads

VARIABLES
    left,           \* __data->threads_left
    interrupted,    \* __interrupted
    timeout,        \* __timeout
    waitAt,         \* __wait_at_barrier
    passed,         \* the threads in *__passed_threads
    nulled,         \* __passed_threads is a null RefPtr
    pc,             \* per thread
    interrupts,     \* how often interrupt() was called
    disturbed       \* history: a round was interrupted or has timed out

shared == <<left, interrupted, timeout, waitAt, passed, nulled>>
vars == <<shared, pc, interrupts, disturbed>>

Init ==
    /\ left = 0 /\ interrupted = FALSE /\ timeout = FALSE /\ waitAt = FALSE
    /\ passed = {} /\ nulled = FALSE
    /\ pc = [t \in Threads |-> "out"]
    /\ interrupts = 0 /\ disturbed = FALSE

\* wait() returns or throws InterruptedException.
Finish(t) == pc' = [pc EXCEPT ![t] = "out"]

-----------------------------------------------------------------------------
(* wait() *)

\* The first thread of a round re-arms the barrier, whatever its state.
FirstToCome == left = 0

\* A barrier that was interrupted or has timed out is not waited for.
ArriveSpent(t) ==
    /\ pc[t] = "out"
    /\ ~FirstToCome /\ (interrupted \/ timeout)
    /\ Finish(t)
    /\ UNCHANGED <<shared, interrupts, disturbed>>

\* Mutant: the first thread does not empty the list of passed threads.
ArriveKeepPassed(t) ==
    /\ pc[t] = "out"
    /\ FirstToCome \/ ~(interrupted \/ timeout)
    /\ ~nulled
    /\ LET rest == (IF FirstToCome THEN Count ELSE left) - 1
           waker == rest = 0
       IN /\ left' = rest
          /\ waitAt' = (waker \/ (waitAt /\ ~FirstToCome))
          /\ pc' = [pc EXCEPT ![t] = IF waker THEN "gate" ELSE "cond"]
    /\ passed' = passed \cup {t}
    /\ interrupted' = (interrupted /\ ~FirstToCome)
    /\ timeout' = (timeout /\ ~FirstToCome)
    /\ UNCHANGED <<nulled, interrupts, disturbed>>

\* The last thread of a round is the waker: it opens the gate and passes on.
Arrive(t) ==
    /\ pc[t] = "out"
    /\ FirstToCome \/ ~(interrupted \/ timeout)
    /\ ~nulled
    /\ LET rest == (IF FirstToCome THEN Count ELSE left) - 1
           waker == rest = 0
       IN /\ left' = rest
          /\ waitAt' = (waker \/ (waitAt /\ ~FirstToCome))
          /\ pc' = [pc EXCEPT ![t] = IF waker THEN "gate" ELSE "cond"]
    /\ passed' = (IF FirstToCome THEN {} ELSE passed) \cup {t}
    /\ interrupted' = (interrupted /\ ~FirstToCome)
    /\ timeout' = (timeout /\ ~FirstToCome)
    /\ UNCHANGED <<nulled, interrupts, disturbed>>

\* __passed_threads-> through a null RefPtr: the process ends.
ArriveNull(t) ==
    /\ pc[t] = "out"
    /\ FirstToCome \/ ~(interrupted \/ timeout)
    /\ nulled
    /\ pc' = [u \in Threads |-> "dead"]
    /\ UNCHANGED <<shared, interrupts, disturbed>>

\* Mutant: the loop does not test __interrupted.
WokenUninterrupted(t) ==
    /\ pc[t] = "cond"
    /\ left = 0 \/ timeout
    /\ pc' = [pc EXCEPT ![t] = "gate"]
    /\ UNCHANGED <<shared, interrupts, disturbed>>

\* reltimed_wait returns and the loop ends.  Everything that ends the loop
\* is followed by wake_all under the mutex.
Woken(t) ==
    /\ pc[t] = "cond"
    /\ left = 0 \/ interrupted \/ timeout
    /\ IF interrupted THEN Finish(t) ELSE pc' = [pc EXCEPT ![t] = "gate"]
    /\ UNCHANGED <<shared, interrupts, disturbed>>

\* reltimed_wait reports the timeout, which it may also do when the last
\* thread has arrived in the meantime: the gate is closed again.
TimedOut(t) ==
    /\ t \in Timed
    /\ pc[t] = "cond"
    /\ timeout' = TRUE /\ disturbed' = TRUE
    /\ IF interrupted
       THEN Finish(t) /\ UNCHANGED waitAt
       ELSE waitAt' = FALSE /\ pc' = [pc EXCEPT ![t] = "gate"]
    /\ UNCHANGED <<left, interrupted, passed, nulled, interrupts>>

\* Mutant: nobody waits at the POSIX barrier.
GateOpen(t) ==
    /\ pc[t] = "gate"
    /\ pc' = [pc EXCEPT ![t] = "ret"]
    /\ UNCHANGED <<shared, interrupts, disturbed>>

\* if (__wait_at_barrier) Barrier::wait(), read without the mutex.
Gate(t) ==
    /\ pc[t] = "gate"
    /\ pc' = [pc EXCEPT ![t] = IF waitAt THEN "posix" ELSE "ret"]
    /\ UNCHANGED <<shared, interrupts, disturbed>>

\* The POSIX barrier lets Count threads go at once.
PosixRelease ==
    /\ \A t \in Threads : pc[t] = "posix"
    /\ pc' = [t \in Threads |-> "ret"]
    /\ UNCHANGED <<shared, interrupts, disturbed>>

\* return !__timeout, read without the mutex.
Return(t) ==
    /\ pc[t] = "ret"
    /\ Finish(t)
    /\ UNCHANGED <<shared, interrupts, disturbed>>

-----------------------------------------------------------------------------
interrupt ==
    /\ interrupts < MaxInterrupts
    /\ \A t \in Threads : pc[t] # "dead"
    /\ interrupted' = TRUE
    /\ interrupts' = interrupts + 1
    /\ disturbed' = (disturbed \/ left # 0 \/ \E t \in Threads : pc[t] = "cond")
    /\ UNCHANGED <<left, timeout, waitAt, passed, nulled, pc>>

\* reset(), called as its comment demands: after an interrupt or a timeout,
\* when all threads have passed.  __passed_threads.clear() clears the RefPtr.
reset ==
    /\ interrupted \/ timeout
    /\ \A t \in Threads : pc[t] = "out"
    /\ interrupted' = FALSE /\ timeout' = FALSE
    /\ left' = Count
    /\ passed' = {} /\ nulled' = TRUE
    /\ UNCHANGED <<waitAt, pc, interrupts, disturbed>>

-----------------------------------------------------------------------------
Wait(t) ==
    \/ ArriveSpent(t) \/ Arrive(t) \/ ArriveNull(t)
    \/ Woken(t) \/ TimedOut(t) \/ Gate(t) \/ Return(t)

Next ==
    \/ interrupt \/ reset \/ PosixRelease
    \/ \E t \in Threads : Wait(t)

Spec == Init /\ [][Next]_vars

\* A thread in wait() is scheduled and a timeout expires.  No thread is
\* obliged to call wait().
Running(t) == Woken(t) \/ TimedOut(t) \/ Gate(t) \/ Return(t)

FairSpec ==
    /\ Spec
    /\ WF_vars(PosixRelease)
    /\ \A t \in Threads : WF_vars(Running(t))

-----------------------------------------------------------------------------
(* Properties. *)

\* The class is a barrier until a round is interrupted or times out: the
\* two-stage wait, with its re-arming by the first thread of the next round and
\* its unlocked read of __wait_at_barrier, implements Rendezvous.  interrupt()
\* between two rounds does not harm.
Abstract == INSTANCE Rendezvous
    WITH inside <- {t \in Threads : pc[t] \in {"cond", "gate", "posix"}},
         released <- {t \in Threads : pc[t] = "ret"},
         broken <- disturbed
ImplementsBarrier == Abstract!Spec

\* Whatever timeouts and interrupts do, threads_left and the list of passed
\* threads agree on how many have arrived in this round.
ArrivalsCounted == left # 0 \/ passed # {} => Cardinality(passed) = Count - left

\* An interrupt that finds the round incomplete frees every thread that waits
\* for it.
InterruptFreesWaiters ==
    \A t \in Threads : (interrupted /\ left # 0 /\ pc[t] = "cond") ~> (pc[t] = "out")

\* interruptible_barrier.cpp:74 "can be given a timeout after which the waiting
\* is aborted.": no thread stays in wait() forever.
TimeoutAborts == \A t \in Threads : (pc[t] # "out") ~> (pc[t] \in {"out", "dead"})

=============================================================================
