-------------------------------- MODULE Mps --------------------------------
(***************************************************************************)
(* The base class Mps of the simulated machines of the RoboCup Logistics   *)
(* League (plugins/mps/mps.cpp).  Three threads share one machine:         *)
(*                                                                         *)
(*   - the worker thread (worker_loop), woken through a condition variable *)
(*     without a predicate, executes the command it finds in the ActionId  *)
(*     register;                                                           *)
(*   - the transport thread of Gazebo delivers the poses of the workpieces *)
(*     to on_puck_msg, which tracks what lies on the input and the output; *)
(*   - the simulator's thread runs the destructor.                         *)
(*                                                                         *)
(* A worker step is a run of statements between two points where another   *)
(* thread can tell the difference.  on_puck_msg is two or three steps: it  *)
(* tests wp_in_input_ and reads it again later, without a lock.  The OPC   *)
(* UA client (the referee box), the subscription that reports a change of  *)
(* the register, the pose publisher and the robots are the environment.    *)
(***************************************************************************)
EXTENDS Naturals, Sequences

CONSTANTS Wp,            \* the workpieces
          NoWp,          \* the null ModelPtr
          Station,       \* station_: 100 (base) .. 500 (storage)
          ActionIds,     \* the ActionId values the client may write
          Payloads,      \* the Payload1 values the client may write
          MaxCommands,   \* bound: commands the client writes
          MaxPoses       \* bound: poses in flight or being handled per workpiece

ASSUME MpsAssumption ==
    /\ NoWp \notin Wp
    /\ Station \in {100, 200, 300, 400, 500}
    /\ ActionIds \subseteq Nat \ {0}
    /\ Payloads \subseteq Nat
    /\ MaxCommands \in Nat
    /\ MaxPoses \in Nat \ {0}

VARIABLES
    actionId, payload1, busy, ready,  \* the OPC UA nodes below In
    notice,         \* a change of ActionId is yet to be reported
    inp, mid, out,  \* wp_in_input_, wp_in_middle_, wp_in_output_
    loc,            \* where each workpiece really is
    poses,          \* per workpiece, the poses published and not delivered
    pc,             \* where the worker thread is
    wp, side,       \* locals of move_conveyor
    callback,       \* on_puck_msg: the message it handles and how far it has come
    dtor,           \* how far ~Mps has come; shutdown_ is dtor # "alive"
    sent, moves     \* history: commands written, teleports made

nodes == <<actionId, payload1, busy, ready>>
slots == <<inp, mid, out>>
world == <<loc, poses>>
locals == <<wp, side, callback>>
history == <<sent, moves>>
mpsVars == <<nodes, notice, slots, world, pc, locals, dtor, history>>

OPERATION_MOVE_CONVEYOR == 2
INPUT == 1
MIDDLE == 2
OUTPUT == 3

\* "unborn": not spawned yet; "away": in the hall or in a gripper.
Place == {"unborn", "away", "input", "middle", "output", "slide", "stack", "gate"}

\* Places a robot reaches: the middle is inside the machine.
Reachable == {"input", "output"}

\* A pose as far as the callbacks tell places apart.
Seen(place) == IF place \in {"input", "output", "slide"} THEN place ELSE "away"

\* What on_puck_msg knows: the workpiece, where the message says it is, and how
\* far the callback has come.
Callback == [wp : Wp \cup {NoWp}, at : Place,
             step : {"idle", "assign", "log", "compare", "crashed"}]

\* No message is being handled.
Idle == [wp |-> NoWp, at |-> "away", step |-> "idle"]

\* The callback has dereferenced a null pointer, which ends the process.
Crashed == callback.step = "crashed"

shutdown == dtor # "alive"

-----------------------------------------------------------------------------
(* Commands. *)

calculate_station_type_from_command(value) == value - (value % 100)

\* The command is for this station and asks for operation op.
IsOperation(value, op) ==
    /\ value # 0
    /\ calculate_station_type_from_command(value) = Station
    /\ value - Station = op

\* The slot move_conveyor takes the workpiece from, and where it puts it.
SourceSlot(s) == IF s = MIDDLE THEN inp
                 ELSE IF s \in {INPUT, OUTPUT} THEN mid ELSE NoWp

TargetPlace(s) == IF s = INPUT THEN "input"
                  ELSE IF s = MIDDLE THEN "middle" ELSE "output"

-----------------------------------------------------------------------------
\* A machine whose server has been started, in a world where l says where the
\* workpieces are.
InitWith(l) ==
    /\ actionId = 0 /\ payload1 = 0 /\ busy = FALSE /\ ready = FALSE
    /\ notice \in BOOLEAN      \* a new subscription may report the first value
    /\ inp = NoWp /\ mid = NoWp /\ out = NoWp
    /\ loc = l
    /\ poses = [w \in Wp |-> <<>>]
    /\ pc = "check" /\ wp = NoWp /\ side = 0 /\ callback = Idle
    /\ dtor = "alive"
    /\ sent = 0 /\ moves = 0

Init == InitWith([w \in Wp |-> "away"])

-----------------------------------------------------------------------------
(* The worker thread. *)

\* while (!shutdown_): the flag is read without the mutex.
CheckShutdown ==
    /\ pc = "check"
    /\ pc' = IF shutdown THEN "done" ELSE "lock"
    /\ UNCHANGED <<nodes, notice, slots, world, locals, dtor, history>>

\* worker_condition_.wait(lock): the worker is on the condition's wait list.
EnterWait ==
    /\ pc = "lock"
    /\ pc' = "wait"
    /\ UNCHANGED <<nodes, notice, slots, world, locals, dtor, history>>

\* The wait has no predicate: a spurious wake-up, or a change of the Basic
\* ActionId (process_command_base is empty), makes the worker look as well.
Wake ==
    /\ pc = "wait"
    /\ pc' = "cmd"
    /\ UNCHANGED <<nodes, notice, slots, world, locals, dtor, history>>

\* Mps::process_command_in up to the sleep of move_conveyor.  "op" is where
\* the virtual override of a station goes on after the call of the base.
ProcessCommandIn ==
    /\ pc = "cmd"
    /\ IF IsOperation(actionId, OPERATION_MOVE_CONVEYOR)
       THEN /\ pc' = "moving"
            /\ side' = payload1
            /\ busy' = TRUE
       ELSE /\ pc' = "op"
            /\ UNCHANGED <<side, busy>>
    /\ UNCHANGED <<actionId, payload1, ready, notice, slots, world, wp, callback, dtor, history>>

\* After the sleep: pick up the pointer, or give up and leave Busy and
\* ActionId as they are.
MoveTake ==
    /\ pc = "moving"
    /\ wp' = SourceSlot(side)
    /\ pc' = IF SourceSlot(side) = NoWp THEN "op" ELSE "teleport"
    /\ UNCHANGED <<nodes, notice, slots, world, side, callback, dtor, history>>

\* wp->SetWorldPose(target_pose)
MoveTeleport ==
    /\ pc = "teleport"
    /\ loc' = [loc EXCEPT ![wp] = TargetPlace(side)]
    /\ moves' = moves + 1
    /\ pc' = "ack"
    /\ UNCHANGED <<nodes, notice, slots, poses, locals, dtor, sent>>

\* Mutant: there is no acknowledgement.
MoveAckForgotten ==
    /\ pc = "ack"
    /\ pc' = "release"
    /\ UNCHANGED <<nodes, notice, slots, world, locals, dtor, history>>

\* ActionId and Payload1 are cleared; the subscription sees the change.
MoveAck ==
    /\ pc = "ack"
    /\ actionId' = 0
    /\ payload1' = 0
    /\ notice' = TRUE
    /\ pc' = "release"
    /\ UNCHANGED <<busy, ready, slots, world, locals, dtor, history>>

\* Mutant: wp_in_middle_ is not reset when its workpiece leaves.
MoveReleaseInputOnly ==
    /\ pc = "release"
    /\ inp' = IF side = MIDDLE THEN NoWp ELSE inp
    /\ pc' = "store"
    /\ UNCHANGED <<nodes, notice, mid, out, world, locals, dtor, history>>

\* The slot the workpiece came from is reset.
MoveRelease ==
    /\ pc = "release"
    /\ inp' = IF side = MIDDLE THEN NoWp ELSE inp
    /\ mid' = IF side = MIDDLE THEN mid ELSE NoWp
    /\ pc' = "store"
    /\ UNCHANGED <<nodes, notice, out, world, locals, dtor, history>>

\* The slot it went to takes the pointer.
MoveStore ==
    /\ pc = "store"
    /\ inp' = IF side = INPUT THEN wp ELSE inp
    /\ mid' = IF side = MIDDLE THEN wp ELSE mid
    /\ out' = IF side = OUTPUT THEN wp ELSE out
    /\ pc' = IF side = MIDDLE THEN "free" ELSE "ready"
    /\ UNCHANGED <<nodes, notice, world, locals, dtor, history>>

MoveReady ==
    /\ pc = "ready"
    /\ ready' = TRUE
    /\ pc' = "free"
    /\ UNCHANGED <<actionId, payload1, busy, notice, slots, world, locals, dtor, history>>

\* Mutant: Busy is not cleared.
MoveFreeStaysBusy ==
    /\ pc = "free"
    /\ pc' = "op"
    /\ UNCHANGED <<nodes, notice, slots, world, locals, dtor, history>>

MoveFree ==
    /\ pc = "free"
    /\ busy' = FALSE
    /\ pc' = "op"
    /\ UNCHANGED <<actionId, payload1, ready, notice, slots, world, locals, dtor, history>>

MoveConveyor ==
    \/ MoveTake \/ MoveTeleport \/ MoveAck
    \/ MoveRelease \/ MoveStore \/ MoveReady \/ MoveFree

\* process_command_in of the base class returns to worker_loop.
ReturnToLoop ==
    /\ pc = "op"
    /\ pc' = "check"
    /\ UNCHANGED <<nodes, notice, slots, world, locals, dtor, history>>

WorkerLoop == CheckShutdown \/ EnterWait \/ ProcessCommandIn \/ MoveConveyor

-----------------------------------------------------------------------------
(* The transport thread: a pose of workpiece w arrives.  The branches of     *)
(* on_puck_msg test wp_in_input_ first and read it again when they compare   *)
(* names, assign and log; the worker writes it meanwhile.                    *)

\* Mutant: a workpiece that has left the output is not forgotten.
KeepOutput(w, seen) == UNCHANGED <<out, ready>>

\* The last branch: the workpiece tracked on the output has left; Ready falls.
LeaveOutput(w, seen) ==
    LET left == out = w /\ seen # "output"
    IN /\ out' = IF left THEN NoWp ELSE out
       /\ ready' = (ready /\ ~left)

\* The test of wp_in_input_: a null pointer is set if the workpiece lies on the
\* input, any other is compared with the workpiece.
TestInput(w) ==
    /\ poses[w] # <<>> /\ callback = Idle
    /\ poses' = [poses EXCEPT ![w] = Tail(@)]
    /\ LET seen == Head(poses[w])
       IN IF inp = NoWp /\ seen # "input"
          THEN LeaveOutput(w, seen) /\ UNCHANGED callback
          ELSE /\ callback' = [wp |-> w, at |-> seen,
                               step |-> IF inp = NoWp THEN "assign" ELSE "compare"]
               /\ UNCHANGED <<out, ready>>
    /\ UNCHANGED <<actionId, payload1, busy, notice, inp, mid, pc, wp, side, dtor, history>>

\* wp_in_input_ = ModelByName(...), whatever the worker has stored there since.
AssignInput ==
    /\ callback.step = "assign"
    /\ inp' = callback.wp
    /\ callback' = [callback EXCEPT !.step = "log"]
    /\ UNCHANGED <<out, ready>>

\* wp_in_input_->GetName() of a pointer that the worker has reset since.
NameOfNull ==
    /\ callback.step \in {"log", "compare"} /\ inp = NoWp
    /\ callback' = [callback EXCEPT !.step = "crashed"]
    /\ UNCHANGED <<inp, out, ready>>

LogInput ==
    /\ callback.step = "log" /\ inp # NoWp
    /\ callback' = Idle
    /\ UNCHANGED <<inp, out, ready>>

\* The workpiece has left the input, or else perhaps the output.
CompareInput ==
    /\ callback.step = "compare" /\ inp # NoWp
    /\ callback' = Idle
    /\ IF inp = callback.wp /\ callback.at # "input"
       THEN inp' = NoWp /\ ready' = FALSE /\ UNCHANGED out
       ELSE LeaveOutput(callback.wp, callback.at) /\ UNCHANGED inp

UseInput ==
    /\ AssignInput \/ NameOfNull \/ LogInput \/ CompareInput
    /\ UNCHANGED <<actionId, payload1, busy, notice, mid, poses, pc, wp, side, dtor, history>>

OnPuckMsg(w) == (TestInput(w) \/ (callback.wp = w /\ UseInput)) /\ UNCHANGED loc

-----------------------------------------------------------------------------
(* ~Mps, on the simulator's thread. *)

\* shutdown_ = true under worker_mutex_.
SetShutdown ==
    /\ dtor = "alive"
    /\ dtor' = "flagged"
    /\ UNCHANGED <<nodes, notice, slots, world, pc, locals, history>>

\* Mutant: the destructor joins without notifying.
JoinWithoutNotify ==
    /\ dtor = "flagged"
    /\ dtor' = "joining"
    /\ UNCHANGED <<nodes, notice, slots, world, pc, locals, history>>

\* notify_worker(): nobody is woken unless the worker is on the wait list.
NotifyShutdown ==
    /\ dtor = "flagged"
    /\ dtor' = "joining"
    /\ pc' = IF pc = "wait" THEN "cmd" ELSE pc
    /\ UNCHANGED <<nodes, notice, slots, world, locals, history>>

\* worker.join() returns, opcua_server_.Stop().
JoinAndStop ==
    /\ dtor = "joining"
    /\ pc = "done"
    /\ dtor' = "stopped"
    /\ UNCHANGED <<nodes, notice, slots, world, pc, locals, history>>

Destructor == SetShutdown \/ NotifyShutdown \/ JoinAndStop

-----------------------------------------------------------------------------
(* The environment. *)

\* Mutant: the subscription does not notify the worker.
DataChangeUnnoticed ==
    /\ notice
    /\ dtor # "stopped"
    /\ notice' = FALSE
    /\ UNCHANGED <<nodes, slots, world, pc, locals, dtor, history>>

\* The subscription reports the change: SubscriptionClient::DataChange calls
\* notify_worker, whose notify_one is lost unless the worker waits.
DataChange ==
    /\ notice
    /\ dtor # "stopped"
    /\ notice' = FALSE
    /\ pc' = IF pc = "wait" THEN "cmd" ELSE pc
    /\ UNCHANGED <<nodes, slots, world, locals, dtor, history>>

\* The client writes Payload1, then ActionId, once the machine has taken the
\* last command and is not busy.
SendCommand(a, p) ==
    /\ actionId = 0 /\ ~busy
    /\ dtor # "stopped"
    /\ sent < MaxCommands
    /\ actionId' = a
    /\ payload1' = p
    /\ notice' = TRUE
    /\ sent' = sent + 1
    /\ UNCHANGED <<busy, ready, slots, world, pc, locals, dtor, moves>>

\* A robot puts a workpiece on the empty input or takes one from a side.
RobotPlace(w) ==
    /\ loc[w] = "away"
    /\ \A v \in Wp : loc[v] # "input"
    /\ loc' = [loc EXCEPT ![w] = "input"]
    /\ UNCHANGED <<nodes, notice, slots, poses, pc, locals, dtor, history>>

RobotTake(w) ==
    /\ loc[w] \in Reachable
    /\ loc' = [loc EXCEPT ![w] = "away"]
    /\ UNCHANGED <<nodes, notice, slots, poses, pc, locals, dtor, history>>

\* The localization plugin of the workpiece publishes its pose.
PublishPose(w) ==
    /\ loc[w] # "unborn"
    /\ Len(poses[w]) + (IF callback.wp = w THEN 1 ELSE 0) < MaxPoses
    /\ poses' = [poses EXCEPT ![w] = Append(@, Seen(loc[w]))]
    /\ UNCHANGED <<nodes, notice, slots, loc, pc, locals, dtor, history>>

Environment ==
    \/ DataChange
    \/ \E a \in ActionIds, p \in Payloads : SendCommand(a, p)
    \/ \E w \in Wp : RobotPlace(w) \/ RobotTake(w) \/ PublishPose(w)

-----------------------------------------------------------------------------
Next ==
    /\ ~Crashed
    /\ \/ WorkerLoop \/ Wake \/ ReturnToLoop
       \/ \E w \in Wp : OnPuckMsg(w)
       \/ Destructor
       \/ Environment

Spec == Init /\ [][Next]_mpsVars

\* The operating system runs the worker, the transport thread and the
\* destructor, the subscription publishes every 100 ms, poses are published
\* again and again, and the transport thread serves its queue in order, so that
\* no workpiece waits for ever behind the poses of the others.  Nobody is
\* obliged to send a command, to move a workpiece, to destroy the machine or to
\* wake the worker for no reason.
Fairness ==
    /\ WF_mpsVars(~Crashed /\ (WorkerLoop \/ ReturnToLoop))
    /\ WF_mpsVars(~Crashed /\ (NotifyShutdown \/ JoinAndStop))
    /\ WF_mpsVars(~Crashed /\ DataChange)
    /\ WF_mpsVars(~Crashed /\ UseInput /\ UNCHANGED loc)
    /\ \A w \in Wp : /\ WF_mpsVars(~Crashed /\ PublishPose(w))
                    /\ SF_mpsVars(~Crashed /\ TestInput(w) /\ UNCHANGED loc)

FairSpec == Spec /\ Fairness

-----------------------------------------------------------------------------
(* Properties. *)

WorkerPc == {"check", "lock", "wait", "cmd", "op", "done", "moving", "teleport",
             "ack", "release", "store", "ready", "free"}

TypeOK ==
    /\ actionId \in ActionIds \cup {0}
    /\ payload1 \in Payloads \cup {0}
    /\ busy \in BOOLEAN /\ ready \in BOOLEAN /\ notice \in BOOLEAN
    /\ inp \in Wp \cup {NoWp} /\ mid \in Wp \cup {NoWp} /\ out \in Wp \cup {NoWp}
    /\ loc \in [Wp -> Place]
    /\ poses \in [Wp -> Seq(Place)]
    /\ pc \in WorkerPc
    /\ wp \in Wp \cup {NoWp}
    /\ side \in Payloads \cup {0}
    /\ callback \in Callback
    /\ dtor \in {"alive", "flagged", "joining", "stopped"}
    /\ sent \in Nat /\ moves \in Nat

\* move_conveyor has moved the workpiece and has yet to update the pointers.
Moved == pc \in {"ack", "release"} /\ side # MIDDLE

\* wp_in_middle_ tells the truth: whatever robots, stale poses and the order
\* of the worker's assignments do, the workpiece it names lies in the middle,
\* except while move_conveyor has teleported that very workpiece out and not
\* yet reset the pointer.
MiddleIsTrue == mid # NoWp => loc[mid] = "middle" \/ (Moved /\ mid = wp)

\* When the worker is not executing anything and Busy is still set, the
\* command that set it has not been consumed: it failed for want of a
\* workpiece, and ActionId still holds it.
BusyHoldsCommand ==
    busy /\ pc \in {"check", "lock", "wait", "cmd", "op", "done"} => actionId # 0

\* However often the worker is woken, a command moves at most one workpiece.
AtMostOnce == moves <= sent

\* A destructor that sets shutdown_ while the worker is anywhere but between
\* its test of the flag and the wait gets its thread joined, unless a callback
\* ends the process before.
ShutdownJoins == (dtor = "flagged" /\ pc # "lock") ~> (dtor = "stopped" \/ Crashed)

\* A command to the conveyor that is reported to a worker on the wait list is
\* executed: its Busy shows.  (A report that finds the worker elsewhere is
\* lost, and with it the command until something else wakes the worker.)
ReportedCommandRuns ==
    (IsOperation(actionId, OPERATION_MOVE_CONVEYOR) /\ notice /\ pc = "wait")
        ~> (busy \/ Crashed)

\* A workpiece that has been carried away for good is tracked no more, neither
\* on the input nor on the output: the poses that follow reset both pointers,
\* one after the other if need be, also when a late command has moved a stale
\* pointer from slot to slot, or a callback has overwritten what the worker has
\* just stored.
TrackingCatchesUp ==
    \A w \in Wp : <>[](loc[w] = "away" /\ ~Crashed) => <>[](inp # w /\ out # w)

-----------------------------------------------------------------------------
(* The inductive invariant behind MiddleIsTrue, BusyHoldsCommand and        *)
(* AtMostOnce (proved in Mps_proofs).                                       *)

\* From MoveTake on the worker holds a workpiece.
HoldsWp == pc \in {"teleport", "ack", "release", "store", "ready", "free"} => wp \in Wp

\* The workpiece on its way in stays in the middle until wp_in_middle_ has it.
ArrivedInMiddle == pc \in {"ack", "release", "store"} /\ side = MIDDLE => loc[wp] = "middle"

\* The command stays in its register until MoveAck.
CommandInRegister == pc \in {"moving", "teleport", "ack"} => actionId # 0

\* A command that is in the register and has not moved anything is one of
\* those sent and not yet counted.
Unmoved == IF actionId # 0 /\ pc # "ack" THEN 1 ELSE 0
Accounted == moves + Unmoved <= sent

IInv ==
    /\ TypeOK
    /\ HoldsWp
    /\ ArrivedInMiddle
    /\ CommandInRegister
    /\ MiddleIsTrue
    /\ BusyHoldsCommand
    /\ Accounted

=============================================================================
