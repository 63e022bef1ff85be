------------------------------ MODULE Threading ------------------------------
(***************************************************************************)
(* core/threading: a thread, a list of threads that runs in rounds, and    *)
(* the operations on all threads of a list.  kind says which of the three  *)
(* a behaviour is about; the variables of the others are unused.           *)
(***************************************************************************)
EXTENDS Naturals

CONSTANTS MaxWakeups, Threads, Main, MaxPending, MaxBad, ListLength

VARIABLES kind,
    opMode, concLoop, coalesce, started, cancelled, detached, pending, waiting, barrier,
    finPrepared, loopDone, pc, signalled, sleepM, loopM, antiM, holdM, mgr, released,
    members, bad, badBars, count, inside, wpc, pend, bar, at, plain, mpc, entry, changed, did, crashed,
    op, pos, last, aspects, inited, running, prepared, held, result, leftover, holdPos,
    hold

threadOnly == <<opMode, concLoop, coalesce, started, cancelled, detached, pending, waiting, barrier,
                finPrepared, loopDone, pc, signalled, sleepM, loopM, antiM, holdM, mgr, released>>
listOnly == <<members, bad, badBars, count, inside, wpc, pend, bar, at, plain, mpc, entry, changed,
              did, crashed>>
lifeOnly == <<op, pos, last, aspects, inited, running, prepared, held, result, leftover, holdPos>>
threadVars == <<threadOnly, hold>>
vars == <<kind, threadOnly, listOnly, lifeOnly, hold>>

Thr == INSTANCE Thread
List == INSTANCE ThreadList
Life == INSTANCE ThreadLifecycle

Unused == "unused"
NoThread == /\ opMode = Unused /\ concLoop = Unused /\ coalesce = Unused /\ started = Unused
            /\ cancelled = Unused /\ detached = Unused /\ pending = Unused /\ waiting = Unused
            /\ barrier = Unused /\ finPrepared = Unused /\ loopDone = Unused /\ pc = Unused
            /\ signalled = Unused /\ sleepM = Unused /\ loopM = Unused /\ antiM = Unused
            /\ holdM = Unused /\ mgr = Unused /\ released = Unused
NoList == /\ members = Unused /\ bad = Unused /\ badBars = Unused /\ count = Unused
          /\ inside = Unused /\ wpc = Unused /\ pend = Unused /\ bar = Unused /\ at = Unused
          /\ plain = Unused /\ mpc = Unused /\ entry = Unused /\ changed = Unused /\ did = Unused /\ crashed = Unused
NoLife == /\ op = Unused /\ pos = Unused /\ last = Unused /\ aspects = Unused /\ inited = Unused
          /\ running = Unused /\ prepared = Unused /\ held = Unused /\ result = Unused
          /\ leftover = Unused /\ holdPos = Unused

Init ==
    \/ kind = "thread" /\ Thr!Init /\ NoList /\ NoLife
    \/ kind = "list" /\ List!Init /\ NoThread /\ NoLife /\ hold = Unused
    \/ kind = "lifecycle" /\ Life!Init /\ NoThread /\ NoList

ThreadNext == kind = "thread" /\ Thr!Next /\ UNCHANGED <<kind, listOnly, lifeOnly>>
ListNext == kind = "list" /\ List!Next /\ UNCHANGED <<kind, threadOnly, lifeOnly, hold>>
LifeNext == kind = "lifecycle" /\ Life!Next /\ UNCHANGED <<kind, threadOnly, listOnly>>

Next == ThreadNext \/ ListNext \/ LifeNext

\* The scheduler runs the worker and a manager inside of prepare_finalize();
\* loop() and prepare_finalize_user() return.  Nobody is obliged to call.
Fairness ==
    /\ WF_threadVars(kind = "thread" /\ Thr!Worker)
    /\ WF_threadVars(kind = "thread"
                       /\ (Thr!HoldWaited \/ Thr!LockAntistarve \/ Thr!LockLoop \/ Thr!UserPrepared))

-----------------------------------------------------------------------------
(* Properties: those of the components. *)

\* No wake-up of a thread is lost, a thread prepared for finalization is quiet,
\* a joined thread holds none of its mutexes.
ThreadSound == kind = "thread" => Thr!ThreadSound
\* prepare_finalize() gets between two runs of loop() of a thread that never sleeps.
PrepareCompletes ==
    (kind = "thread" /\ mgr \in {"anti", "loopm", "user"})
        ~> (kind = "thread" /\ (mgr = "idle" \/ pc = "dead"))
\* The next round is for the threads that are not flagged, and those that are
\* can be recovered.
RoundFits == kind = "list" => List!RoundFits
\* init(), set_prepfin_hold() and force_stop() do not leave a list halfway.
ListIsOne == kind = "lifecycle" => Life!ListIsOne

=============================================================================
