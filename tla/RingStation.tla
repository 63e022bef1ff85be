---------------------------- MODULE RingStation ----------------------------
(***************************************************************************)
(* The ring station (plugins/mps/ring_station.cpp).  MOUNT_RING publishes  *)
(* ADD_RING to the workpiece in the middle; bases put on the slide are     *)
(* counted in the SlideCnt register and piled up out of the way.           *)
(***************************************************************************)
EXTENDS Mps, FiniteSets

CONSTANTS Payloads2,      \* the Payload2 values the client may write
          Uninitialised   \* what an unassigned gazsim_msgs::Color may hold

VARIABLES
    payload2,       \* the OPC UA node In/Data/Payload2
    feeder, color,  \* locals of process_command_in
    onSlide,        \* wps_on_slide_
    slidecount,     \* the SlideCnt register
    rings           \* history: the ADD_RING commands published, in order

rsVars == <<payload2, feeder, color, onSlide, slidecount, rings>>
vars == <<mpsVars, rsVars>>

OPERATION_MOUNT_RING == 3
Colors == 1 .. 4    \* BLUE, GREEN, ORANGE, YELLOW as Payload2 numbers them

RSFresh ==
    /\ payload2 = 0 /\ feeder = 0 /\ color = 0
    /\ onSlide = {} /\ slidecount = 0
    /\ rings = <<>>

RSInit == Init /\ RSFresh

-----------------------------------------------------------------------------
(* The worker: RingStation::process_command_in after the call of the base. *)

\* Both payloads are read; a Payload2 out of range leaves the colour unset.
RingRead ==
    /\ pc = "op" /\ IsOperation(actionId, OPERATION_MOUNT_RING)
    /\ feeder' = payload1
    /\ color' \in IF payload2 \in Colors THEN {payload2} ELSE Uninitialised
    /\ pc' = "ringAction"
    /\ UNCHANGED <<nodes, notice, slots, world, locals, dtor, history>>
    /\ UNCHANGED <<payload2, onSlide, slidecount, rings>>

\* The three registers are cleared before Busy is raised.
RingClearAction ==
    /\ pc = "ringAction"
    /\ actionId' = 0 /\ notice' = TRUE
    /\ pc' = "ringPayload1"
    /\ UNCHANGED <<payload1, busy, ready, slots, world, locals, dtor, history, rsVars>>

RingClearPayload1 ==
    /\ pc = "ringPayload1"
    /\ payload1' = 0
    /\ pc' = "ringPayload2"
    /\ UNCHANGED <<actionId, busy, ready, notice, slots, world, locals, dtor, history, rsVars>>

RingClearPayload2 ==
    /\ pc = "ringPayload2"
    /\ payload2' = 0
    /\ pc' = "ringMount"
    /\ UNCHANGED <<nodes, notice, slots, world, locals, dtor, history>>
    /\ UNCHANGED <<feeder, color, onSlide, slidecount, rings>>

CanMountRing == feeder \in {1, 2} /\ mid # NoWp /\ loc[mid] = "middle"

\* mount_ring up to its sleep; without a feeder or a workpiece the command,
\* already consumed, is dropped.
MountRing ==
    /\ pc = "ringMount"
    /\ IF CanMountRing
       THEN /\ busy' = TRUE
            /\ rings' = Append(rings, [wp |-> mid, color |-> color])
            /\ pc' = "ringSleep"
       ELSE pc' = "check" /\ UNCHANGED <<busy, rings>>
    /\ UNCHANGED <<actionId, payload1, ready, notice, slots, world, locals, dtor, history>>
    /\ UNCHANGED <<payload2, feeder, color, onSlide, slidecount>>

RingDone ==
    /\ pc = "ringSleep"
    /\ busy' = FALSE
    /\ pc' = "check"
    /\ UNCHANGED <<actionId, payload1, ready, notice, slots, world, locals, dtor, history, rsVars>>

RingRefuse ==
    /\ ~IsOperation(actionId, OPERATION_MOUNT_RING)
    /\ ReturnToLoop
    /\ UNCHANGED rsVars

RingOperation ==
    \/ RingRead \/ RingClearAction \/ RingClearPayload1 \/ RingClearPayload2
    \/ MountRing \/ RingDone \/ RingRefuse

-----------------------------------------------------------------------------
(* The transport thread: Mps::on_puck_msg, and when it has returned, the     *)
(* slide.  The counted base is moved to the pile.                            *)

\* Mutant: the base is moved to the pile before it is inserted in the set.
PileUncounted(w, seen) ==
    /\ UNCHANGED <<onSlide, slidecount>>
    /\ loc' = IF seen = "slide" /\ w \notin onSlide THEN [loc EXCEPT ![w] = "stack"] ELSE loc

CountOnSlide(w, seen) ==
    IF seen = "slide" /\ w \notin onSlide
    THEN /\ onSlide' = onSlide \cup {w}
         /\ slidecount' = Cardinality(onSlide') % 65536
         /\ loc' = [loc EXCEPT ![w] = "stack"]
    ELSE UNCHANGED <<onSlide, slidecount, loc>>

RSOnPuckMsg(w) ==
    /\ \/ TestInput(w) /\ callback' = Idle /\ CountOnSlide(w, Head(poses[w]))
       \/ TestInput(w) /\ callback' # Idle /\ UNCHANGED <<onSlide, slidecount, loc>>
       \/ callback.wp = w /\ UseInput /\ callback' = Idle /\ CountOnSlide(w, callback.at)
       \/ callback.wp = w /\ UseInput /\ callback' # Idle /\ UNCHANGED <<onSlide, slidecount, loc>>
    /\ UNCHANGED <<payload2, feeder, color, rings>>

-----------------------------------------------------------------------------
(* The environment. *)

\* A robot drops a base on the slide.
RobotSlide(w) ==
    /\ loc[w] = "away"
    /\ loc' = [loc EXCEPT ![w] = "slide"]
    /\ UNCHANGED <<nodes, notice, slots, poses, pc, locals, dtor, history, rsVars>>

RSSendCommand ==
    \E a \in ActionIds, p \in Payloads, q \in Payloads2 :
        /\ SendCommand(a, p)
        /\ payload2' = q
        /\ UNCHANGED <<feeder, color, onSlide, slidecount, rings>>

RSEnvironment ==
    \/ RSSendCommand
    \/ DataChange /\ UNCHANGED rsVars
    \/ \E w \in Wp : (RobotPlace(w) \/ RobotTake(w) \/ PublishPose(w)) /\ UNCHANGED rsVars

RSNext ==
    /\ ~Crashed
    /\ \/ RingOperation
       \/ \E w \in Wp : RSOnPuckMsg(w) \/ RobotSlide(w)
       \/ (WorkerLoop \/ Wake) /\ UNCHANGED rsVars
       \/ Destructor /\ UNCHANGED rsVars
       \/ RSEnvironment

-----------------------------------------------------------------------------
(* Properties. *)

=============================================================================
