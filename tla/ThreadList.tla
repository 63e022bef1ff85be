----------------------------- MODULE ThreadList -----------------------------
(***************************************************************************)
(* core/threading/thread_list.cpp: a list of threads in wake-up mode that  *)
(* the main loop runs in rounds, wakeup_and_wait(), with an internally     *)
(* maintained InterruptibleBarrier.  A thread that misses the timeout of a *)
(* round is flagged bad and left out until try_recover() finds it waiting. *)
(*                                                                         *)
(* A barrier is what the run "barrier" shows InterruptibleBarrier to be: a *)
(* rendezvous of "count" parties until a timeout spends it.  The member    *)
(* threads are Thread objects (see Thread), reduced to what wakeup() and   *)
(* run() do with the barrier pointer:                                      *)
(*   "asleep"  waiting for a wake-up     "sleep"  about to test pend       *)
(*   "loop"    in loop()                 "done"   about to test __barrier  *)
(*   "go"      about to call b->wait()   "in"     waiting inside of it     *)
(*   "out"     let go, about to return from it                             *)
(*   "stuck"   left behind at the POSIX barrier by a timeout that raced    *)
(*             the last arrival.                                           *)
(* A barrier pointer of a thread is Null, Cur (__wnw_barrier), Left (that  *)
(* one, in a round that has ended), Bad(i) (the i-th of                    *)
(* __wnw_bad_barriers) or Gone (deleted).                                  *)
(* The list mutex is held by the main thread whenever it is not "idle".    *)
(***************************************************************************)
EXTENDS Naturals, Sequences, FiniteSets, SequencesExt

CONSTANTS Threads,     \* threads that may be members
          Main,        \* the thread that calls wakeup_and_wait()
          MaxPending,  \* bound: pending wake-ups of a thread
          MaxBad       \* bound: rounds that timed out and are not recovered

VARIABLES
    members,   \* the threads in the list
    bad,       \* the threads with FLAG_BAD
    badBars,   \* __wnw_bad_barriers: the bad threads of each
    count,     \* the count of __wnw_barrier
    inside,    \* the threads that wait at it in this round
    wpc, pend, bar, at,   \* per thread; bar is __barrier, at the barrier it waits for
    plain,     \* history: the threads woken by wakeup() since they last waited for it
    mpc,       \* the main thread: "idle", "wait", or "recover" and
    entry,     \*   the entry of badBars it looks at, whether one was recovered
    changed,
    did,       \* history: the threads whose loop() returned in this round
    crashed    \* a deleted barrier was used

list == <<members, bad, badBars>>
barriers == <<count, inside>>
wakeups == <<pend, plain>>
worker == <<wpc, wakeups, bar, at>>
main == <<mpc, entry, changed>>
vars == <<list, barriers, worker, main, did, crashed>>

Null == 0
Cur == 1
Gone == 2
Left == 3
Bad(i) == Left + i
IsSpent(b) == b > Left

\* A barrier is put aside, deleted, or moves up in the list of bad barriers.
Rename(f) ==
    LET to(b) == IF b \in DOMAIN f THEN f[b] ELSE b
    IN /\ bar' = [t \in Threads |-> to(bar[t])]
       /\ at' = [t \in Threads |-> to(at[t])]

\* update_barrier(): the new barrier is for the unflagged members and the main
\* thread.  "old" is what becomes of the one it replaces.
NewBarrier(ms, flagged, old) ==
    /\ count' = 1 + Cardinality(ms \ flagged) /\ inside' = {}
    /\ Rename([b \in {Cur, Left} |-> old])

\* ThreadList(true) with a member that was started and waits.
Init ==
    /\ \E t \in Threads : members = {t}
    /\ bad = {} /\ badBars = <<>>
    /\ count = 2 /\ inside = {}
    /\ wpc = [t \in Threads |-> "asleep"] /\ pend = [t \in Threads |-> 0]
    /\ bar = [t \in Threads |-> Null] /\ at = [t \in Threads |-> Null] /\ plain = {}
    /\ mpc = "idle" /\ entry = 0 /\ changed = FALSE
    /\ did = {} /\ crashed = FALSE

-----------------------------------------------------------------------------
(* The member threads. *)

Rouse(S) == wpc' = [t \in Threads |-> IF t \in S /\ wpc[t] = "asleep" THEN "sleep" ELSE wpc[t]]

TestPending(t) ==
    /\ wpc[t] = "sleep"
    /\ IF pend[t] > 0
       THEN /\ pend' = [pend EXCEPT ![t] = @ - 1] /\ wpc' = [wpc EXCEPT ![t] = "loop"]
            /\ UNCHANGED plain
       ELSE /\ wpc' = [wpc EXCEPT ![t] = "asleep"] /\ plain' = plain \ {t}
            /\ UNCHANGED pend
    /\ UNCHANGED <<list, barriers, bar, at, main, did>>

LoopReturns(t) ==
    /\ wpc[t] = "loop"
    /\ did' = IF mpc = "wait" THEN did \cup {t} ELSE did
    /\ wpc' = [wpc EXCEPT ![t] = "done"]
    /\ UNCHANGED <<list, barriers, wakeups, bar, at, main>>

\* Later the thread tests __barrier and takes it: it may be one that a wake-up
\* has set since loop() returned.
TakeBarrier(t) ==
    /\ wpc[t] = "done"
    /\ at' = [at EXCEPT ![t] = bar[t]] /\ bar' = [bar EXCEPT ![t] = Null]
    /\ wpc' = [wpc EXCEPT ![t] = IF bar[t] = Null THEN "sleep" ELSE "go"]
    /\ UNCHANGED <<list, barriers, wakeups, main, did>>

\* b->wait(): a spent barrier is not waited for.
Arrive(t) ==
    /\ wpc[t] = "go" /\ at[t] # Gone
    /\ IF IsSpent(at[t])
       THEN /\ wpc' = [wpc EXCEPT ![t] = "sleep"] /\ at' = [at EXCEPT ![t] = Null]
            /\ UNCHANGED inside
       ELSE /\ wpc' = [wpc EXCEPT ![t] = "in"]
            /\ inside' = inside \cup {t} /\ UNCHANGED at
    /\ UNCHANGED <<list, count, wakeups, bar, main, did>>

\* A thread gets out of wait(): the round has ended, or the timeout of the main
\* thread frees whoever waits.
Leave(t) ==
    /\ \/ wpc[t] = "out" /\ at[t] # Gone
       \/ wpc[t] = "in" /\ IsSpent(at[t])
    /\ wpc' = [wpc EXCEPT ![t] = "sleep"] /\ at' = [at EXCEPT ![t] = Null]
    /\ UNCHANGED <<list, barriers, wakeups, bar, main, did>>

\* A thread calls or is about to leave wait() of a barrier that was deleted.
UseDeleted(t) ==
    /\ wpc[t] \in {"go", "in", "out"} /\ at[t] = Gone
    /\ crashed' = TRUE
    /\ UNCHANGED <<list, barriers, worker, main, did>>

\* wakeup() of one thread, which throws while its barrier is set.
Wakeup(t) ==
    /\ bar[t] = Null /\ pend[t] < MaxPending - 1
    /\ pend' = [pend EXCEPT ![t] = @ + 1] /\ plain' = plain \cup {t}
    /\ Rouse({t})
    /\ UNCHANGED <<list, barriers, bar, at, main, did>>

-----------------------------------------------------------------------------
(* The operations on the list, with its mutex locked. *)

\* push_back, push_front and their locked forms; remove, pop, erase likewise.
AddThread(t) ==
    /\ mpc = "idle" /\ t \notin members
    /\ members' = members \cup {t}
    /\ NewBarrier(members', bad, Gone)
    /\ UNCHANGED <<bad, badBars, wpc, wakeups, main, did>>

RemoveThread(t) ==
    /\ mpc = "idle" /\ t \in members
    /\ members' = members \ {t}
    /\ NewBarrier(members', bad, Gone)
    /\ UNCHANGED <<bad, badBars, wpc, wakeups, main, did>>

\* Mutant: bad threads are woken too.
WakeupAllAndWait ==
    /\ mpc = "idle" /\ Len(badBars) < MaxBad
    /\ \A t \in members : (bar[t] = Null \/ wpc[t] = "asleep") /\ pend[t] < MaxPending
    /\ bar' = [t \in Threads |-> IF t \in members THEN Cur ELSE bar[t]]
    /\ pend' = [t \in Threads |-> IF t \in members THEN pend[t] + 1 ELSE pend[t]]
    /\ Rouse(members)
    /\ inside' = inside \cup {Main}
    /\ mpc' = "wait" /\ did' = {}
    /\ UNCHANGED <<list, count, at, plain, entry, changed>>

\* wakeup_and_wait(): the unflagged members are woken with the barrier and the
\* main thread waits at it.  A member that still has a barrier would throw.
WakeupAndWait ==
    LET woken == members \ bad
    IN /\ mpc = "idle" /\ Len(badBars) < MaxBad
       /\ \A t \in woken : (bar[t] = Null \/ wpc[t] = "asleep") /\ pend[t] < MaxPending
       /\ bar' = [t \in Threads |-> IF t \in woken THEN Cur ELSE bar[t]]
       /\ pend' = [t \in Threads |-> IF t \in woken THEN pend[t] + 1 ELSE pend[t]]
       /\ Rouse(woken)
       /\ inside' = inside \cup {Main}
       /\ mpc' = "wait" /\ did' = {}
       /\ UNCHANGED <<list, count, at, plain, entry, changed>>

Complete == Cardinality(inside) = count

\* Everybody has come: wakeup_and_wait() returns, the others return one by one.
RoundEnds ==
    /\ mpc = "wait" /\ Complete
    /\ inside' = {}
    /\ wpc' = [t \in Threads |-> IF t \in inside THEN "out" ELSE wpc[t]]
    /\ at' = [t \in Threads |-> IF t \in inside THEN Left ELSE at[t]]
    /\ mpc' = "idle" /\ did' = {}
    /\ UNCHANGED <<list, count, wakeups, bar, entry, changed>>

\* The timeout: whoever has not passed is flagged bad, those that were bad
\* already included, and the barrier is put aside.  If it has come after the
\* last arrival, threads may be left behind at the POSIX barrier.
TimedOut(late, stuck) ==
    /\ mpc = "wait"
    /\ bad' = bad \cup late
    /\ badBars' = Append(badBars, late)
    /\ NewBarrier(members, bad', Bad(Len(badBars')))
    /\ wpc' = [t \in Threads |-> IF t \in stuck THEN "stuck" ELSE wpc[t]]
    /\ mpc' = "idle" /\ did' = {}
    /\ UNCHANGED <<members, wakeups, entry, changed>>

RoundTimesOut ==
    \E stuck \in IF Complete THEN SUBSET (inside \ {Main}) ELSE {{}} :
        TimedOut(members \ inside, stuck)

\* try_recover()
TryRecover ==
    /\ mpc = "idle" /\ badBars # <<>>
    /\ mpc' = "recover" /\ entry' = 1 /\ changed' = FALSE
    /\ UNCHANGED <<list, barriers, worker, did>>

\* Mutant: a bad barrier is dropped as soon as one of its threads is back.
RecoverEntryEarly ==
    /\ mpc = "recover" /\ entry <= Len(badBars)
    /\ LET back == {t \in badBars[entry] : wpc[t] = "asleep"}
       IN /\ bad' = bad \ back
          /\ changed' = (changed \/ back # {})
          /\ IF back # {} \/ badBars[entry] = {}
             THEN badBars' = RemoveAt(badBars, entry) /\ UNCHANGED entry
             ELSE entry' = entry + 1 /\ UNCHANGED badBars
    /\ UNCHANGED <<members, barriers, worker, mpc, did>>

\* One bad barrier: the threads that wait for a wake-up are unflagged and
\* struck out; a barrier without bad threads is deleted.
RecoverEntry ==
    /\ mpc = "recover" /\ entry <= Len(badBars)
    /\ LET back == {t \in badBars[entry] : wpc[t] = "asleep"}
           rest == badBars[entry] \ back
       IN /\ bad' = bad \ back
          /\ changed' = (changed \/ back # {})
          /\ IF rest = {}
             THEN /\ badBars' = RemoveAt(badBars, entry) /\ UNCHANGED entry
                  /\ Rename([b \in {Bad(i) : i \in entry .. Len(badBars)} |->
                               IF b = Bad(entry) THEN Gone ELSE b - 1])
             ELSE /\ badBars' = [badBars EXCEPT ![entry] = rest] /\ entry' = entry + 1
                  /\ UNCHANGED <<bar, at>>
    /\ UNCHANGED <<members, barriers, wpc, wakeups, mpc, did>>

RecoverEnds ==
    /\ mpc = "recover" /\ entry > Len(badBars)
    /\ IF changed THEN NewBarrier(members, bad, Gone) ELSE UNCHANGED <<barriers, bar, at>>
    /\ mpc' = "idle" /\ entry' = 0 /\ changed' = FALSE
    /\ UNCHANGED <<list, wpc, wakeups, did>>

-----------------------------------------------------------------------------
Step(t) == TestPending(t) \/ LoopReturns(t) \/ TakeBarrier(t) \/ Arrive(t) \/ Leave(t)
Recovery == TryRecover \/ RecoverEntry \/ RecoverEnds

Next ==
    /\ ~crashed
    /\ \/ /\ UNCHANGED crashed
          /\ \/ \E t \in Threads : Step(t) \/ Wakeup(t) \/ AddThread(t) \/ RemoveThread(t)
             \/ WakeupAndWait \/ RoundEnds \/ RoundTimesOut \/ Recovery
       \/ \E t \in Threads : UseDeleted(t)

-----------------------------------------------------------------------------
(* Properties. *)

\* A flagged thread is listed with a bad barrier, where try_recover() looks for
\* it, and the barrier of the next round is for exactly the threads that will be
\* woken: no round waits for a thread that was left out, or goes on without one.
RoundFits ==
    /\ \A t \in bad : \E i \in DOMAIN badBars : t \in badBars[i]
    /\ mpc = "idle" => count = 1 + Cardinality(members \ bad)

=============================================================================
