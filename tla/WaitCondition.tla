--------------------------- MODULE WaitCondition ---------------------------
(***************************************************************************)
(* core/threading/wait_condition.cpp: a condition variable with a mutex of *)
(* its own or one given by the user, who holds it around wait().           *)
(* Absolute times are [sec, nsec] with NsPerSec nanoseconds to a second.   *)
(*                                                                         *)
(* at[t]: "idle", "locking" (own mutex, before the wait), "waiting",       *)
(* "woken" and "late" (pthread is taking the mutex again), "failed"        *)
(* (pthread refused the time, the mutex is still held).                    *)
(***************************************************************************)
EXTENDS Naturals

CONSTANTS Users, Nobody,
          NsPerSec,    \* 1000000000 in the code
          MaxSec       \* bound: seconds of the clock and of a timeout

VARIABLES own,         \* __own_mutex
          owner,       \* the owner of __mutex
          at, deadline,
          asked,       \* history: the clock and the timeout of a reltimed_wait()
          result       \* what the last wait returned: "none", "true", "false", "threw"

Forever == [sec |-> MaxSec + MaxSec + 2, nsec |-> 0]
Times == [sec : 0 .. MaxSec, nsec : 0 .. NsPerSec - 1]
\* unsigned int nanosec may exceed a second.
Timeouts == [sec : 0 .. MaxSec, nsec : 0 .. 2 * NsPerSec]
NoTime == [sec |-> 0, nsec |-> 0]
Total(time) == time.sec * NsPerSec + time.nsec

NotAsked == [now |-> NoTime, rel |-> NoTime]

Init ==
    /\ own \in BOOLEAN /\ owner = Nobody
    /\ at = [t \in Users |-> "idle"] /\ deadline = [t \in Users |-> Forever]
    /\ asked = [t \in Users |-> NotAsked]
    /\ result = [t \in Users |-> "none"]

\* The user locks and unlocks a mutex it has given to the condition.
UserLock(t) ==
    /\ ~own /\ at[t] = "idle" /\ owner = Nobody
    /\ owner' = t
    /\ UNCHANGED <<own, at, deadline, asked, result>>
UserUnlock(t) ==
    /\ ~own /\ at[t] = "idle" /\ owner = t
    /\ owner' = Nobody
    /\ UNCHANGED <<own, at, deadline, asked, result>>

\* pthread_cond_timedwait() refuses a time that is not normalised.
Valid(time) == time.nsec < NsPerSec
\* pthread_cond_wait() gives the mutex back and waits, in one step.
CondWait(t, until) ==
    IF Valid(until)
    THEN at' = [at EXCEPT ![t] = "waiting"] /\ owner' = Nobody
    ELSE at' = [at EXCEPT ![t] = "failed"] /\ owner' = t

\* A wait until a given time, with a mutex of its own locked first.
BeginWait(t, until) ==
    /\ at[t] = "idle" /\ (~own => owner = t)
    /\ deadline' = [deadline EXCEPT ![t] = until]
    /\ result' = [result EXCEPT ![t] = "none"]
    /\ IF own THEN at' = [at EXCEPT ![t] = "locking"] /\ UNCHANGED owner
       ELSE CondWait(t, until)
    /\ UNCHANGED own

LockOwn(t) ==
    /\ at[t] = "locking" /\ owner = Nobody
    /\ CondWait(t, deadline[t])
    /\ UNCHANGED <<own, deadline, asked, result>>

wait(t) == BeginWait(t, Forever) /\ asked' = [asked EXCEPT ![t] = NotAsked]
abstimed_wait(t, until) == BeginWait(t, until) /\ asked' = [asked EXCEPT ![t] = NotAsked]

\* The time at which a relative timeout ends.
AddTimeout(now, rel) ==
    LET ns == now.nsec + rel.nsec
    IN IF ns >= NsPerSec THEN [sec |-> now.sec + rel.sec + 1, nsec |-> ns - NsPerSec]
       ELSE [sec |-> now.sec + rel.sec, nsec |-> ns]

\* A timeout of zero is a wait().
reltimed_wait(t, now, rel) ==
    /\ BeginWait(t, IF rel = NoTime THEN Forever ELSE AddTimeout(now, rel))
    /\ asked' = [asked EXCEPT ![t] = [now |-> now, rel |-> rel]]

\* pthread_cond_timedwait() comes back when signalled, at the time or spuriously.
TimesOut(t) ==
    /\ at[t] = "waiting" /\ deadline[t] # Forever
    /\ at' = [at EXCEPT ![t] = "late"]
    /\ UNCHANGED <<own, owner, deadline, asked, result>>
Spurious(t) ==
    /\ at[t] = "waiting"
    /\ at' = [at EXCEPT ![t] = "woken"]
    /\ UNCHANGED <<own, owner, deadline, asked, result>>

\* wake_one() and wake_all() take the condition's own mutex around the signal.
CanSignal(t) == at[t] = "idle" /\ (own => owner = Nobody)
wake_one(t) ==
    /\ CanSignal(t)
    /\ IF \E u \in Users : at[u] = "waiting"
       THEN \E u \in Users : at[u] = "waiting" /\ at' = [at EXCEPT ![u] = "woken"]
       ELSE UNCHANGED at
    /\ UNCHANGED <<own, owner, deadline, asked, result>>
wake_all(t) ==
    /\ CanSignal(t)
    /\ at' = [u \in Users |-> IF at[u] = "waiting" THEN "woken" ELSE at[u]]
    /\ UNCHANGED <<own, owner, deadline, asked, result>>

EndWait(t) ==
    /\ deadline' = [deadline EXCEPT ![t] = Forever]
    /\ asked' = [asked EXCEPT ![t] = NotAsked]
    /\ UNCHANGED own

\* The mutex is taken again and, when it is the condition's own, released.
Return(t) ==
    \/ /\ at[t] \in {"woken", "late"} /\ owner = Nobody
       /\ owner' = IF own THEN Nobody ELSE t
       /\ at' = [at EXCEPT ![t] = "idle"]
       /\ result' = [result EXCEPT ![t] = IF at[t] = "woken" THEN "true" ELSE "false"]
       /\ EndWait(t)
    \/ /\ at[t] = "failed"
       /\ owner' = IF own THEN Nobody ELSE owner
       /\ at' = [at EXCEPT ![t] = "idle"]
       /\ result' = [result EXCEPT ![t] = "threw"]
       /\ EndWait(t)

Next ==
    \E t \in Users :
        \/ UserLock(t) \/ UserUnlock(t)
        \/ wait(t) \/ \E until \in Times : abstimed_wait(t, until)
        \/ \E now \in Times, rel \in Timeouts : reltimed_wait(t, now, rel)
        \/ LockOwn(t) \/ TimesOut(t) \/ Spurious(t) \/ Return(t) \/ wake_one(t) \/ wake_all(t)

-----------------------------------------------------------------------------
(* Properties. *)

\* A wait gives its caller back exactly the mutex it came with, however it
\* ends: none if the condition has its own, the caller's own mutex otherwise.
MutexGivenBack ==
    /\ own => \A t \in Users : at[t] \in {"idle", "locking"} => owner # t
    /\ \A t \in Users : ~own /\ at[t] = "failed" => owner = t

\* A thread in a reltimed_wait() waits exactly as long as it asked for; only a
\* nanosecond part of a second or more can be refused with an exception.
TimeoutExact ==
    \A t \in Users : asked[t].rel # NoTime =>
        /\ at[t] = "waiting" =>
               Total(deadline[t]) = Total(asked[t].now) + Total(asked[t].rel)
        /\ at[t] = "failed" => asked[t].rel.nsec >= NsPerSec

=============================================================================
