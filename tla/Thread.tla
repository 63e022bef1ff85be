------------------------------- MODULE Thread -------------------------------
(***************************************************************************)
(* core/threading/thread.cpp: the life of one Thread object.  Three actors *)
(* use it:                                                                 *)
(*   the worker   entry() and run(), the thread itself;                    *)
(*   the manager  start(), prepare_finalize(), cancel_finalize(), cancel(),*)
(*                join(), detach() and the setters;                        *)
(*   the clients  wakeup(), wakeup(Barrier), set_prepfin_hold().           *)
(*                                                                         *)
(* A section under a mutex that cannot block inside is one step that waits *)
(* for the mutex to be free; the variables below hold the owner of a mutex *)
(* that is kept from one step to the next.  The worker is at               *)
(*   "none"    not created, joined, or detached and gone                   *)
(*   "entry"   created, about to take the sleep mutex                      *)
(*   "startup" at the start-up barrier, if start(true) was called          *)
(*   "once"    about to call once() under loop_mutex                       *)
(*   "sleep"   holding the sleep mutex, about to test __pending_wakeups    *)
(*   "asleep"  in __sleep_condition->wait()                                *)
(*   "top"     at loopinterrupt_antistarve_mutex->stopby()                 *)
(*   "enter"   about to lock loop_mutex                                    *)
(*   "loop"    in loop(), holding loop_mutex                               *)
(*   "after"   loop_mutex released, about to publish __loop_done           *)
(*   "barrier" in b->wait()                                                *)
(*   "relock"  about to take the sleep mutex                               *)
(*   "dead"    ended and not yet joined; it keeps what it had locked.      *)
(***************************************************************************)
EXTENDS Naturals

CONSTANT MaxWakeups      \* bound: wake-ups pending at a time

VARIABLES
    opMode,          \* __op_mode, "continuous" or "wakeup"
    concLoop,        \* __prepfin_conc_loop
    coalesce,        \* __coalesce_wakeups
    started, cancelled, detached,
    pending,         \* __pending_wakeups
    waiting,         \* __waiting_for_wakeup
    barrier,         \* __barrier # NULL
    finPrepared,     \* finalize_prepared
    hold,            \* __prepfin_hold
    loopDone,        \* __loop_done
    pc,              \* the worker
    signalled,       \* the worker's wait on the sleep condition was ended
    sleepM, loopM,   \* "free" or the owner, "worker" or "manager"
    antiM, holdM,
    mgr,             \* the manager: "idle", "startup", "hold", "anti", "loopm", "user"
    released         \* the manager's wait for the hold to end was ended

settings == <<opMode, concLoop, coalesce>>
life == <<started, cancelled, detached>>
wake == <<pending, waiting, barrier, signalled>>
fin == <<finPrepared, hold, released>>
mutexes == <<sleepM, loopM, antiM, holdM>>
vars == <<settings, life, wake, fin, loopDone, pc, mutexes, mgr>>

\* The constructor.
Init ==
    /\ opMode \in {"continuous", "wakeup"}
    /\ waiting = (opMode = "wakeup")
    /\ concLoop = FALSE /\ coalesce = FALSE
    /\ started = FALSE /\ cancelled = FALSE /\ detached = FALSE
    /\ pending = 0 /\ barrier = FALSE /\ signalled = FALSE
    /\ finPrepared = FALSE /\ hold = FALSE /\ released = FALSE
    /\ loopDone = TRUE
    /\ pc = "none" /\ mgr = "idle"
    /\ sleepM = "free" /\ loopM = "free" /\ antiM = "free" /\ holdM = "free"

-----------------------------------------------------------------------------
(* The worker. *)

\* entry(): a thread in wake-up mode starts with the sleep mutex locked.
Entry ==
    /\ pc = "entry"
    /\ opMode = "wakeup" => sleepM = "free"
    /\ sleepM' = IF opMode = "wakeup" THEN "worker" ELSE sleepM
    /\ pc' = "startup"
    /\ UNCHANGED <<settings, life, wake, fin, loopDone, loopM, antiM, holdM, mgr>>

\* notify_of_startup(), then the start-up barrier that start(true) waits at.
Startup ==
    /\ pc = "startup"
    /\ pc' = "once" /\ mgr' = IF mgr = "startup" THEN "idle" ELSE mgr
    /\ UNCHANGED <<settings, life, wake, fin, loopDone, mutexes>>

\* once(), then the beginning of run().
Once ==
    /\ pc = "once" /\ loopM = "free"
    /\ pc' = IF opMode = "wakeup" THEN "sleep" ELSE "top"
    /\ UNCHANGED <<settings, life, wake, fin, loopDone, mutexes, mgr>>

\* while (__pending_wakeups == 0) wait(): the wait releases the sleep mutex.
FallAsleep ==
    /\ pc = "sleep" /\ pending = 0
    /\ waiting' = TRUE /\ signalled' = FALSE
    /\ sleepM' = "free" /\ pc' = "asleep"
    /\ UNCHANGED <<settings, life, pending, barrier, fin, loopDone, loopM, antiM, holdM, mgr>>

TakeWakeup ==
    /\ pc = "sleep" /\ pending > 0
    /\ pending' = pending - 1
    /\ sleepM' = "free" /\ pc' = "top"
    /\ UNCHANGED <<settings, life, waiting, barrier, signalled, fin, loopDone, loopM, antiM, holdM, mgr>>

\* The wait ends with the mutex locked again.  POSIX allows spurious wake-ups.
Wake ==
    /\ pc = "asleep" /\ sleepM = "free"
    /\ sleepM' = "worker" /\ pc' = "sleep"
    /\ UNCHANGED <<settings, life, wake, fin, loopDone, loopM, antiM, holdM, mgr>>
WakeSignalled == signalled /\ Wake
WakeSpurious == ~signalled /\ Wake

\* Mutant: the loop does not stop by the antistarve mutex.
StopByNone ==
    /\ pc = "top"
    /\ pc' = "enter"
    /\ UNCHANGED <<settings, life, wake, fin, loopDone, mutexes, mgr>>

StopBy ==
    /\ pc = "top" /\ antiM = "free"
    /\ pc' = "enter"
    /\ UNCHANGED <<settings, life, wake, fin, loopDone, mutexes, mgr>>

\* Mutant: finalize_prepared is not tested under the loop mutex.
EnterLoopUnprepared ==
    /\ pc = "enter" /\ loopM = "free"
    /\ loopM' = "worker" /\ loopDone' = FALSE /\ pc' = "loop"
    /\ UNCHANGED <<settings, life, wake, fin, sleepM, antiM, holdM, mgr>>

EnterLoop ==
    /\ pc = "enter" /\ loopM = "free" /\ ~finPrepared
    /\ loopM' = "worker" /\ loopDone' = FALSE /\ pc' = "loop"
    /\ UNCHANGED <<settings, life, wake, fin, sleepM, antiM, holdM, mgr>>

SkipLoop ==
    /\ pc = "enter" /\ loopM = "free" /\ finPrepared
    /\ pc' = "after"
    /\ UNCHANGED <<settings, life, wake, fin, loopDone, mutexes, mgr>>

LoopReturns ==
    /\ pc = "loop"
    /\ loopM' = "free" /\ pc' = "after"
    /\ UNCHANGED <<settings, life, wake, fin, loopDone, sleepM, antiM, holdM, mgr>>

\* exit() called by loop(), which is also what the default loop() amounts to.
Exit ==
    /\ pc = "loop"
    /\ cancelled' = TRUE /\ pc' = "dead"
    /\ UNCHANGED <<settings, started, detached, wake, fin, loopDone, mutexes, mgr>>

\* __loop_done is published and test_cancel() passed; the barrier that came
\* with the wake-up is taken under the sleep mutex.
AfterLoop ==
    /\ pc = "after" /\ ~cancelled
    /\ loopDone' = TRUE
    /\ \/ opMode = "continuous" /\ pc' = "top" /\ UNCHANGED barrier
       \/ opMode = "wakeup" /\ ~barrier /\ pc' = "relock" /\ UNCHANGED barrier
       \/ opMode = "wakeup" /\ barrier /\ sleepM = "free" /\ pc' = "barrier" /\ barrier' = FALSE
    /\ UNCHANGED <<settings, life, pending, waiting, signalled, fin, mutexes, mgr>>

\* b->wait() returns when the others have come: external.
BarrierReturns ==
    /\ pc = "barrier"
    /\ pc' = "relock"
    /\ UNCHANGED <<settings, life, wake, fin, loopDone, mutexes, mgr>>

Relock ==
    /\ pc = "relock" /\ sleepM = "free"
    /\ sleepM' = "worker" /\ pc' = "sleep"
    /\ UNCHANGED <<settings, life, wake, fin, loopDone, loopM, antiM, holdM, mgr>>

\* pthread_cancel takes effect in loop(), at test_cancel(), or in the wait for
\* a wake-up, which first locks the sleep mutex again.
Cancelled ==
    /\ cancelled
    /\ \/ pc = "loop" /\ UNCHANGED <<loopDone, sleepM>>
       \/ pc = "after" /\ loopDone' = TRUE /\ UNCHANGED sleepM
       \/ pc = "asleep" /\ sleepM = "free" /\ sleepM' = "worker" /\ UNCHANGED loopDone
    /\ pc' = "dead"
    /\ UNCHANGED <<settings, life, wake, fin, loopM, antiM, holdM, mgr>>

Worker ==
    \/ Entry \/ Startup \/ Once \/ FallAsleep \/ TakeWakeup \/ WakeSignalled
    \/ StopBy \/ EnterLoop \/ SkipLoop \/ LoopReturns \/ AfterLoop \/ BarrierReturns
    \/ Relock \/ Cancelled

-----------------------------------------------------------------------------
(* The clients. *)

\* The worker is only signalled when it is known to wait.
Rouse ==
    /\ waiting' = FALSE
    /\ signalled' = (signalled \/ (waiting /\ pc = "asleep"))

\* wakeup(), which throws while a barrier is set.
Wakeup ==
    /\ opMode = "wakeup" /\ sleepM = "free" /\ ~barrier
    /\ pending < MaxWakeups
    /\ pending' = IF coalesce THEN 1 ELSE pending + 1
    /\ Rouse
    /\ UNCHANGED <<settings, life, barrier, fin, loopDone, pc, mutexes, mgr>>

\* wakeup(Barrier), which throws while the thread runs with a barrier.
WakeupBarrier ==
    /\ opMode = "wakeup" /\ sleepM = "free"
    /\ waiting \/ ~barrier
    /\ pending < MaxWakeups
    /\ pending' = pending + 1 /\ barrier' = TRUE
    /\ Rouse
    /\ UNCHANGED <<settings, life, fin, loopDone, pc, mutexes, mgr>>

\* set_prepfin_hold(), not called from loop(); a hold after prepare_finalize()
\* throws.
SetPrepfinHold(h) ==
    /\ holdM = "free"
    /\ ~(h /\ finPrepared)
    /\ hold' = h
    /\ released' = (released \/ (~h /\ mgr = "hold"))
    /\ UNCHANGED <<settings, life, wake, finPrepared, loopDone, pc, mutexes, mgr>>

-----------------------------------------------------------------------------
(* The manager. *)

\* set_opmode() throws for a thread that runs.  The other two settings are made
\* before the start, as their users do.
SetOpMode(m) ==
    /\ mgr = "idle" /\ ~started
    /\ opMode' = m
    /\ UNCHANGED <<concLoop, coalesce, life, wake, fin, loopDone, pc, mutexes, mgr>>

SetPrepfinConcLoop ==
    /\ mgr = "idle" /\ ~started
    /\ concLoop' = ~concLoop
    /\ UNCHANGED <<opMode, coalesce, life, wake, fin, loopDone, pc, mutexes, mgr>>

SetCoalesceWakeups ==
    /\ mgr = "idle" /\ ~started
    /\ opMode = "wakeup" => sleepM = "free"
    /\ coalesce' = ~coalesce
    /\ UNCHANGED <<opMode, concLoop, life, wake, fin, loopDone, pc, mutexes, mgr>>

\* start() throws for a started thread.
Start(wait) ==
    /\ mgr = "idle" /\ ~started /\ pc = "none"
    /\ started' = TRUE /\ cancelled' = FALSE /\ detached' = FALSE
    /\ pc' = "entry" /\ mgr' = IF wait THEN "startup" ELSE "idle"
    /\ UNCHANGED <<settings, wake, fin, loopDone, mutexes>>

\* prepare_finalize() up to the first mutex it has to wait for with the hold
\* mutex locked; it throws unless the thread was started and not yet prepared.
HoldTested ==
    IF hold
    THEN mgr' = "hold" /\ released' = FALSE /\ holdM' = "free" /\ UNCHANGED finPrepared
    ELSE /\ holdM' = "manager" /\ UNCHANGED released
         /\ IF concLoop
            THEN mgr' = "user" /\ finPrepared' = TRUE
            ELSE mgr' = "anti" /\ UNCHANGED finPrepared

PrepareFinalize ==
    /\ mgr = "idle" /\ started /\ ~finPrepared /\ holdM = "free"
    /\ HoldTested
    /\ UNCHANGED <<settings, life, wake, hold, loopDone, pc, sleepM, loopM, antiM>>

HoldWaited ==
    /\ mgr = "hold" /\ released /\ holdM = "free"
    /\ HoldTested
    /\ UNCHANGED <<settings, life, wake, hold, loopDone, pc, sleepM, loopM, antiM>>

LockAntistarve ==
    /\ mgr = "anti" /\ antiM = "free"
    /\ antiM' = "manager" /\ mgr' = "loopm"
    /\ UNCHANGED <<settings, life, wake, fin, loopDone, pc, sleepM, loopM, holdM>>

LockLoop ==
    /\ mgr = "loopm" /\ loopM = "free"
    /\ loopM' = "manager" /\ finPrepared' = TRUE /\ mgr' = "user"
    /\ UNCHANGED <<settings, life, wake, hold, released, loopDone, pc, sleepM, antiM, holdM>>

\* prepare_finalize_user() returns; whatever it says, the mutexes are released.
UserPrepared ==
    /\ mgr = "user"
    /\ IF concLoop THEN UNCHANGED <<loopM, antiM>> ELSE loopM' = "free" /\ antiM' = "free"
    /\ holdM' = "free" /\ mgr' = "idle"
    /\ UNCHANGED <<settings, life, wake, fin, loopDone, pc, sleepM>>

CancelFinalize ==
    /\ mgr = "idle" /\ started /\ loopM = "free"
    /\ finPrepared' = FALSE
    /\ UNCHANGED <<settings, life, wake, hold, released, loopDone, pc, mutexes, mgr>>

Cancel ==
    /\ mgr = "idle" /\ started /\ ~cancelled
    /\ cancelled' = TRUE
    /\ UNCHANGED <<settings, started, detached, wake, fin, loopDone, pc, mutexes, mgr>>

\* join(): "We HAVE to release this sleep mutex under any circumstances".
Join ==
    /\ mgr = "idle" /\ started /\ ~detached /\ pc = "dead"
    /\ started' = FALSE /\ pc' = "none"
    /\ sleepM' = (IF opMode = "wakeup" THEN "free" ELSE sleepM) /\ loopM' = "free"
    /\ UNCHANGED <<settings, cancelled, detached, wake, fin, loopDone, antiM, holdM, mgr>>

Detach ==
    /\ mgr = "idle" /\ started /\ ~detached
    /\ detached' = TRUE
    /\ UNCHANGED <<settings, started, cancelled, wake, fin, loopDone, pc, mutexes, mgr>>

Manager ==
    \/ \E m \in {"continuous", "wakeup"} : SetOpMode(m)
    \/ SetPrepfinConcLoop \/ SetCoalesceWakeups
    \/ \E w \in BOOLEAN : Start(w)
    \/ PrepareFinalize \/ HoldWaited \/ LockAntistarve \/ LockLoop \/ UserPrepared
    \/ CancelFinalize \/ Cancel \/ Join \/ Detach

Next ==
    \/ Worker \/ Exit \/ WakeSpurious
    \/ Wakeup \/ WakeupBarrier
    \/ \E h \in BOOLEAN : SetPrepfinHold(h)
    \/ Manager

Spec == Init /\ [][Next]_vars

-----------------------------------------------------------------------------
(* Properties. *)

TypeOK ==
    /\ opMode \in {"continuous", "wakeup"} /\ concLoop \in BOOLEAN /\ coalesce \in BOOLEAN
    /\ started \in BOOLEAN /\ cancelled \in BOOLEAN /\ detached \in BOOLEAN
    /\ pending \in Nat /\ waiting \in BOOLEAN /\ barrier \in BOOLEAN /\ signalled \in BOOLEAN
    /\ finPrepared \in BOOLEAN /\ hold \in BOOLEAN /\ released \in BOOLEAN
    /\ loopDone \in BOOLEAN
    /\ pc \in {"none", "entry", "startup", "once", "sleep", "asleep", "top", "enter",
               "loop", "after", "barrier", "relock", "dead"}
    /\ mgr \in {"idle", "startup", "hold", "anti", "loopm", "user"}
    /\ sleepM \in {"free", "worker"} /\ loopM \in {"free", "worker", "manager"}
    /\ antiM \in {"free", "manager"} /\ holdM \in {"free", "manager"}

\* No wake-up is lost: run() only stays in the wait for the sleep condition
\* while there is no pending wake-up, or its wait has been ended.
NoLostWakeup == pc = "asleep" => signalled \/ (waiting /\ pending = 0)

\* prepare_finalize() promises that loop() does not run until the finalization
\* is cancelled, unless the thread asked for the two to be concurrent.
FinalizedIsQuiet == finPrepared /\ ~concLoop => pc # "loop"

\* A thread that was joined holds none of its mutexes, wherever it was
\* cancelled: it can be started or reconfigured.
JoinedHoldsNothing == pc = "none" => sleepM = "free" /\ loopM = "free"

\* What the users of a thread rely on, in every state.
ThreadSound == NoLostWakeup /\ FinalizedIsQuiet /\ JoinedHoldsNothing

=============================================================================
