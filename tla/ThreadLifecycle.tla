-------------------------- MODULE ThreadLifecycle --------------------------
(***************************************************************************)
(* core/threading/thread_list.cpp: the operations that take a whole list   *)
(* of threads through its life.  Each goes over the list thread by thread  *)
(* and deals with the failure of one of them.  The list is 1 .. ListLength. *)
(*                                                                         *)
(* A manager thread runs one operation at a time (op, pos: what it does    *)
(* and the thread it is about to do it to); meanwhile another thread may   *)
(* call set_prepfin_hold() on the list (hold, holdPos).                    *)
(***************************************************************************)
EXTENDS Naturals, FiniteSets

CONSTANT ListLength       \* the length of the list

VARIABLES op, pos,
          last,      \* the last complete operation and how it ended: [op, end]
          aspects,   \* threads the initializer has prepared
          inited, running,
          prepared,  \* __finalize_prepared
          held,      \* __prepfin_hold
          result,    \* of a prepare_finalize() in progress: "true", "false", "threw"
          leftover,  \* history: threads the finalizer could not finalize
          hold, holdPos
workVars == <<aspects, inited, running, prepared, held, result, leftover>>

List == 1 .. ListLength
Idle == op = "none"

Init ==
    /\ op = "none" /\ pos = 0 /\ last = [op |-> "none", end |-> "ok"]
    /\ aspects = {} /\ inited = {} /\ running = {} /\ prepared = {} /\ held = {}
    /\ result = "true" /\ leftover = {}
    /\ hold = "none" /\ holdPos = 0

Begin(name, first) == op' = name /\ pos' = first
Continue(name, p) == op' = name /\ pos' = p /\ UNCHANGED last
End(name, end) == op' = "none" /\ pos' = 0 /\ last' = [op |-> name, end |-> end]

(* init(): forward; a failure undoes what was done, backward. *)
BeginInit ==
    /\ Idle /\ inited = {} /\ leftover = {}
    /\ Begin("init", 1)
    /\ UNCHANGED <<last, workVars, hold, holdPos>>

\* Mutant: the aspects of the thread that failed are not finalised.
InitOneKeeps ==
    /\ op = "init" /\ pos <= ListLength
    /\ aspects' = aspects \cup {pos}
    /\ \/ inited' = inited \cup {pos} /\ Continue("init", pos + 1)
       \/ UNCHANGED inited /\ Continue("undo", pos - 1)
    /\ UNCHANGED <<running, prepared, held, result, leftover, hold, holdPos>>

InitOne ==
    /\ op = "init" /\ pos <= ListLength
    /\ \/ /\ aspects' = aspects \cup {pos} /\ inited' = inited \cup {pos}
          /\ Continue("init", pos + 1) /\ UNCHANGED leftover
       \/ \* initializer->init() fails, or init() of the thread fails and the
          \* finalizer has undone what the initializer did
          /\ UNCHANGED <<aspects, inited, leftover>>
          /\ Continue("undo", pos - 1)
       \/ \* init() of the thread fails, and in the handler the finalizer throws:
          \* the exception leaves init() before those before it are finalised
          /\ aspects' = aspects \cup {pos} /\ leftover' = leftover \cup {pos}
          /\ End("init", "escaped") /\ UNCHANGED inited
    /\ UNCHANGED <<running, prepared, held, result, hold, holdPos>>

EndInit ==
    /\ op = "init" /\ pos > ListLength
    /\ End("init", "ok")
    /\ UNCHANGED <<workVars, hold, holdPos>>

(* finalize(): backward, whatever fails. *)
BeginFinalize ==
    /\ Idle /\ inited # {} /\ running = {}
    /\ Begin("finalize", ListLength)
    /\ UNCHANGED <<last, workVars, hold, holdPos>>

FinalizeOne ==
    /\ op \in {"finalize", "undo", "force_finalize"} /\ pos >= 1
    /\ inited' = inited \ {pos}
    /\ \/ aspects' = aspects \ {pos} /\ UNCHANGED leftover
       \/ \* finalizer->finalize() throws
          UNCHANGED aspects /\ leftover' = leftover \cup {pos}
    /\ Continue(op, pos - 1)
    /\ UNCHANGED <<running, prepared, held, result, hold, holdPos>>

EndFinalize ==
    /\ op \in {"finalize", "undo", "force_finalize"} /\ pos < 1
    /\ CASE op = "finalize" -> End("finalize", IF leftover = {} THEN "ok" ELSE "threw")
         [] op = "undo" -> End("init", "threw")
         [] op = "force_finalize" -> End("force_stop", "ok")
    /\ UNCHANGED <<workVars, hold, holdPos>>

(* start(), and cancel() with join(): forward. *)
Start ==
    /\ Idle /\ inited = List /\ running = {}
    /\ running' = List
    /\ End("start", "ok")
    /\ UNCHANGED <<aspects, inited, prepared, held, result, leftover, hold, holdPos>>
CancelAndJoin ==
    /\ Idle /\ running # {}
    /\ running' = {}
    /\ End("join", "ok")
    /\ UNCHANGED <<aspects, inited, prepared, held, result, leftover, hold, holdPos>>

(* stop(): backward, each thread is cancelled and joined. *)
BeginStop ==
    /\ Idle /\ running # {}
    /\ Begin("stop", ListLength)
    /\ UNCHANGED <<last, workVars, hold, holdPos>>

StopOne ==
    /\ op \in {"stop", "force_stop"} /\ pos >= 1
    /\ running' = running \ {pos}
    /\ Continue(op, pos - 1)
    /\ UNCHANGED <<aspects, inited, prepared, held, result, leftover, hold, holdPos>>

EndStop ==
    /\ op \in {"stop", "force_stop"} /\ pos < 1
    /\ IF op = "stop" THEN End("stop", "ok") ELSE Continue("force_finalize", ListLength)
    /\ UNCHANGED <<workVars, hold, holdPos>>

(* prepare_finalize(), alone or as the first part of force_stop(): backward.
   It asks every thread, also after one has refused or thrown. *)
BeginPrepare(name) ==
    /\ Idle /\ running # {}
    /\ Begin(name, ListLength)
    /\ result' = "true"
    /\ UNCHANGED <<last, aspects, inited, running, prepared, held, leftover, hold, holdPos>>

Refused == result' = IF result = "threw" THEN "threw" ELSE "false"
PrepareOne ==
    /\ op \in {"prepare", "force_prepare"} /\ pos >= 1
    /\ \/ \* Thread::prepare_finalize() waits while the thread is held
          /\ pos \notin held /\ pos \notin prepared
          /\ prepared' = prepared \cup {pos}
          /\ UNCHANGED result \/ Refused      \* Refused: the finalizer or the thread said no
       \/ \* the finalizer throws, or the thread because it is prepared already
          result' = "threw" /\ UNCHANGED prepared
    /\ Continue(op, pos - 1)
    /\ UNCHANGED <<aspects, inited, running, held, leftover, hold, holdPos>>

\* force_stop() stops the threads whatever they answered, unless one has thrown.
EndPrepare ==
    /\ op \in {"prepare", "force_prepare"} /\ pos < 1
    /\ CASE op = "prepare" -> End("prepare", result)
         [] op = "force_prepare" /\ result = "threw" -> End("force_stop", "threw")
         [] OTHER -> Continue("force_stop", ListLength)
    /\ UNCHANGED <<workVars, hold, holdPos>>

cancel_finalize ==
    /\ Idle /\ prepared # {}
    /\ prepared' = {}
    /\ End("cancel_finalize", "ok")
    /\ UNCHANGED <<aspects, inited, running, held, result, leftover, hold, holdPos>>

(* set_prepfin_hold(), of another thread: forward. *)
BeginHold(value) ==
    /\ hold = "none"
    /\ hold' = IF value THEN "hold" ELSE "release"
    /\ holdPos' = 1
    /\ UNCHANGED <<op, pos, last, workVars>>

\* Thread::set_prepfin_hold(true) throws if the thread is prepared already.
HoldOne ==
    /\ hold \in {"hold", "release"} /\ holdPos <= ListLength
    /\ IF hold = "hold" /\ holdPos \in prepared
       THEN hold' = "undo" /\ holdPos' = 1 /\ UNCHANGED held
       ELSE /\ held' = IF hold = "hold" THEN held \cup {holdPos} ELSE held \ {holdPos}
            /\ holdPos' = holdPos + 1 /\ UNCHANGED hold
    /\ UNCHANGED <<op, pos, last, aspects, inited, running, prepared, result, leftover>>

UndoHold ==
    /\ hold = "undo" /\ holdPos <= ListLength
    /\ held' = held \ {holdPos} /\ holdPos' = holdPos + 1
    /\ UNCHANGED <<op, pos, last, aspects, inited, running, prepared, result, leftover, hold>>

EndHold ==
    /\ hold # "none" /\ holdPos > ListLength
    /\ hold' = "none" /\ holdPos' = 0
    /\ UNCHANGED <<op, pos, last, workVars>>

Next ==
    \/ BeginInit \/ InitOne \/ EndInit
    \/ BeginFinalize \/ FinalizeOne \/ EndFinalize
    \/ Start \/ CancelAndJoin \/ BeginStop \/ StopOne \/ EndStop
    \/ \E name \in {"prepare", "force_prepare"} : BeginPrepare(name)
    \/ PrepareOne \/ EndPrepare \/ cancel_finalize
    \/ \E value \in BOOLEAN : BeginHold(value)
    \/ HoldOne \/ UndoHold \/ EndHold

-----------------------------------------------------------------------------
(* Properties. *)

\* A list is initialised as a whole or not at all: when one thread fails, those
\* before it are finalised again, with the exception of what the finalizer
\* itself could not finalise.  There is one way to a list that is initialised in
\* part: the finalizer throws for the thread whose init() has failed, and then it
\* is those before that thread, and no other, that are left initialised.
HalfInitialised ==
    \E k \in leftover : inited = 1 .. k - 1 /\ aspects = inited \cup {k}
InitAllOrNothing ==
    Idle => \/ inited = List /\ aspects = List
            \/ inited = {} /\ aspects \subseteq leftover
            \/ HalfInitialised

\* Threads are held together: a set_prepfin_hold(true) that comes too late for
\* one of them, because prepare_finalize() was there first, holds none.
HoldAllOrNothing == hold = "none" => held \in {{}, List}

\* After a force_stop() that is not cut short by an exception no thread runs
\* and all are finalised, whatever they answered to prepare_finalize().
ForceStopStops ==
    Idle /\ last = [op |-> "force_stop", end |-> "ok"] => running = {} /\ inited = {}

\* None of the three leaves a list halfway.
ListIsOne == InitAllOrNothing /\ HoldAllOrNothing /\ ForceStopStops

=============================================================================
