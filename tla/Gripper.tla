------------------------------- MODULE Gripper -------------------------------
(***************************************************************************)
(* plugins/gripper/gripper.cpp, one gripper for each robot, and what a     *)
(* station keeps of it (Mps::on_joint_msg and is_puck_hold in              *)
(* plugins/mps/mps.cpp).  Commands wait in message_queue_ until the next   *)
(* world update; the holding is told to the stations by messages.          *)
(***************************************************************************)
EXTENDS Naturals, Sequences, FiniteSets

CONSTANTS Robots,
          Workpieces,
          Linkless,      \* workpieces whose model has no link "cylinder"
          NoPuck,        \* the null pointer, and the empty name in a message
          MaxOrders      \* bound: commands sent to a gripper

VARIABLES
    queue,        \* per robot: message_queue_
    orders,       \* per robot: commands received so far
    gripped,      \* per robot: grippedPuck
    joint,        \* per robot: what grabJoint is attached to
    joints,       \* per robot: joint messages on their way to the station
    hasPuck,      \* per robot: the last message on TOPIC_HOLDS_PUCK
    holdPucks     \* the station's hold_pucks: joint -> name of the child

Init ==
    /\ queue = [r \in Robots |-> <<>>] /\ orders = [r \in Robots |-> 0]
    /\ gripped = [r \in Robots |-> NoPuck] /\ joint = [r \in Robots |-> NoPuck]
    /\ joints = [r \in Robots |-> <<>>] /\ hasPuck = [r \in Robots |-> FALSE]
    /\ holdPucks = [r \in {} |-> NoPuck]

\* on_set_gripper_msg(): 0 closes, 1 opens, 2 moves; other numbers are dropped.
on_set_gripper_msg(r) ==
    /\ orders[r] < MaxOrders /\ orders' = [orders EXCEPT ![r] = @ + 1]
    /\ \E action \in {"CLOSE", "OPEN", "MOVE"} : queue' = [queue EXCEPT ![r] = Append(@, action)]
    /\ UNCHANGED <<gripped, joint, joints, hasPuck, holdPucks>>

\* sendHasPuck(): to the robot's software and to the stations.
sendHasPuck(r, has) ==
    /\ hasPuck' = [hasPuck EXCEPT ![r] = has]
    /\ joints' = [joints EXCEPT ![r] = Append(@, IF has THEN gripped'[r] ELSE NoPuck)]

\* close(), with the workpiece that getNearestPuck() finds in the grab area.  It
\* is kept as gripped also when the model has no link to attach to.
close(r) ==
    IF gripped[r] # NoPuck
    THEN /\ UNCHANGED <<gripped, joint>> /\ sendHasPuck(r, TRUE)
    ELSE \E p \in Workpieces \cup {NoPuck} :
            /\ gripped' = [gripped EXCEPT ![r] = p]
            /\ IF p \in Linkless \cup {NoPuck}
               THEN UNCHANGED <<joint, joints, hasPuck>>
               ELSE joint' = [joint EXCEPT ![r] = p] /\ sendHasPuck(r, TRUE)

\* Mutant: the gripper is opened and nobody is told.
openSilent(r) ==
    /\ gripped' = [gripped EXCEPT ![r] = NoPuck]
    /\ joint' = [joint EXCEPT ![r] = NoPuck]
    /\ UNCHANGED <<joints, hasPuck>>

open(r) ==
    IF gripped[r] = NoPuck
    THEN UNCHANGED <<gripped, joint, joints, hasPuck>>
    ELSE /\ gripped' = [gripped EXCEPT ![r] = NoPuck]
         /\ joint' = [joint EXCEPT ![r] = NoPuck]
         /\ sendHasPuck(r, FALSE)

\* OnUpdate() takes one command a step.
OnUpdate(r) ==
    /\ queue[r] # <<>>
    /\ queue' = [queue EXCEPT ![r] = Tail(@)]
    /\ CASE Head(queue[r]) = "CLOSE" -> close(r)
         [] Head(queue[r]) = "OPEN" -> open(r)
         [] OTHER -> UNCHANGED <<gripped, joint, joints, hasPuck>>
    /\ UNCHANGED <<orders, holdPucks>>

\* Reset() opens the gripper and leaves the queue.
Reset(r) ==
    /\ gripped[r] # NoPuck /\ open(r)
    /\ UNCHANGED <<queue, orders, holdPucks>>

\* Mps::on_joint_msg(): the joint's id is the key.
on_joint_msg(r) ==
    /\ joints[r] # <<>>
    /\ joints' = [joints EXCEPT ![r] = Tail(@)]
    /\ holdPucks' = [j \in DOMAIN holdPucks \cup {r} |->
                        IF j = r THEN Head(joints[r]) ELSE holdPucks[j]]
    /\ UNCHANGED <<queue, orders, gripped, joint, hasPuck>>

is_puck_hold(p) == \E j \in DOMAIN holdPucks : holdPucks[j] = p

Next == \E r \in Robots : on_set_gripper_msg(r) \/ OnUpdate(r) \/ Reset(r) \/ on_joint_msg(r)

-----------------------------------------------------------------------------
(* Properties. *)

\* Once the messages have arrived, a station takes a workpiece for held exactly
\* if some gripper holds it (two may hold the same one), whatever the order of
\* commands, resets and messages; the robots are told the same.  Only a
\* workpiece that could not be attached may be kept without being reported.
HeldIsReported ==
    (\A r \in Robots : joints[r] = <<>>) =>
        /\ \A p \in Workpieces \ Linkless : is_puck_hold(p) <=> \E r \in Robots : joint[r] = p
        /\ \A r \in Robots : hasPuck[r] /\ gripped[r] \notin Linkless => joint[r] # NoPuck

=============================================================================
