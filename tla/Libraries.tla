------------------------------ MODULE Libraries ------------------------------
(***************************************************************************)
(* The library under the plugins: CoreLibs and Threading side by side.  A  *)
(* behaviour is about one class of one of the two; pending, at, op and     *)
(* result belong to whichever that is.                                     *)
(***************************************************************************)
EXTENDS CoreLibs, FiniteSets

CONSTANTS MaxWakeups, Threads, Main, MaxPending, MaxBad, ListLength

\* A list has a length; finitely many threads, but not the main thread, may be on one.
ASSUME ListAssumption == ListLength \in Nat /\ IsFiniteSet(Threads) /\ Main \notin Threads

VARIABLES
    opMode, concLoop, coalesce, started, cancelled, detached, waiting, barrier,
    finPrepared, loopDone, pc, signalled, sleepM, loopM, antiM, holdM, mgr, released,
    members, bad, badBars, count, inside, wpc, pend, bar, plain, mpc, entry, changed, did, crashed,
    pos, last, aspects, inited, running, prepared, held, leftover, holdPos, hold

Thread == INSTANCE Threading

threadingOnly ==
    <<opMode, concLoop, coalesce, started, cancelled, detached, waiting, barrier,
      finPrepared, loopDone, pc, signalled, sleepM, loopM, antiM, holdM, mgr, released,
      members, bad, badBars, count, inside, wpc, pend, bar, plain, mpc, entry, changed, did, crashed,
      pos, last, aspects, inited, running, prepared, held, leftover, holdPos, hold>>
coreOnly ==
    <<ptrOnly, containerOnly, listOnly, jobVars, rwVars, configVars, owner,
      kindOfLock, policy, preference, scope, own, deadline, asked>>
allVars == <<vars, threadingOnly>>

NoThreading ==
    /\ opMode = Unused /\ concLoop = Unused /\ coalesce = Unused /\ started = Unused
    /\ cancelled = Unused /\ detached = Unused /\ waiting = Unused /\ barrier = Unused
    /\ finPrepared = Unused /\ loopDone = Unused /\ pc = Unused /\ signalled = Unused
    /\ sleepM = Unused /\ loopM = Unused /\ antiM = Unused /\ holdM = Unused
    /\ mgr = Unused /\ released = Unused /\ members = Unused /\ bad = Unused
    /\ badBars = Unused /\ count = Unused /\ inside = Unused /\ wpc = Unused /\ pend = Unused
    /\ bar = Unused /\ plain = Unused /\ mpc = Unused /\ entry = Unused /\ changed = Unused /\ did = Unused
    /\ crashed = Unused /\ pos = Unused /\ last = Unused /\ aspects = Unused
    /\ inited = Unused /\ running = Unused /\ prepared = Unused /\ held = Unused
    /\ leftover = Unused /\ holdPos = Unused /\ hold = Unused
NoCore ==
    /\ NoPtr /\ NoContainer /\ NoList /\ NoJobs /\ NoRw /\ NoConfig /\ owner = Unused
    /\ kindOfLock = Unused /\ policy = Unused /\ preference = Unused /\ scope = Unused
    /\ own = Unused /\ deadline = Unused /\ asked = Unused

AllInit == (Init /\ NoThreading) \/ (Thread!Init /\ NoCore)

CoreNext == Next /\ UNCHANGED threadingOnly
ThreadingNext == Thread!Next /\ UNCHANGED coreOnly

LibrariesSpec ==
    AllInit /\ [][CoreNext \/ ThreadingNext]_allVars /\ Fairness /\ Thread!Fairness

-----------------------------------------------------------------------------
(* Properties: those of CoreLibs, and those of Threading. *)

\* A thread: no lost wake-up, quiet once prepared, no mutex held once joined.
ThreadSound == Thread!ThreadSound
\* prepare_finalize() ends, also for a thread that never sleeps.
PrepareCompletes == Thread!PrepareCompletes
\* The next round of a list is for the threads that are not flagged.
RoundFits == Thread!RoundFits
\* "The method will return when all threads have finished one loop() iteration"
\* (wakeup_and_wait): also after timeouts and recoveries, for every member that
\* only the list wakes.  A plain wake-up breaks it: the barrier of the next round
\* may be set between the return of loop() and the test of __barrier, and then the
\* thread comes to the barrier without another loop().
RoundComplete ==
    [][kind = "list" => (Thread!List!RoundEnds => members \ (bad \cup plain) \subseteq did)]_allVars
\* The operations on a list of threads leave none of them halfway.
ListIsOne == Thread!ListIsOne

=============================================================================
