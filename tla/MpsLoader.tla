------------------------------ MODULE MpsLoader ------------------------------
(***************************************************************************)
(* plugins/mps/mps_loader.cpp: MpsLoader::Load makes a machine of the type *)
(* that the name of the model tells.  The machine is one of the stations,  *)
(* over one set of registers, pointers and workpieces; what only another   *)
(* type has stays as it is.  What every machine promises is stated here    *)
(* once for all types.                                                     *)
(***************************************************************************)
EXTENDS Naturals, Sequences, FiniteSets

CONSTANTS
    Wp, NoWp, MaxPoses,
    Brought,        \* the workpieces robots bring to the other stations
    Types,          \* the types of machine to load
    Caps, NoCap,
    BaseIds, RingIds, CapIds, DeliveryIds,
    BasePayloads, RingPayloads, RingPayloads2, CapPayloads, DeliveryPayloads,
    BaseCommands, RingCommands, CapCommands, DeliveryCommands
                    \* what the client of each type writes, and how often

ASSUME LoaderAssumption ==
    /\ Types \subseteq {"base", "ring", "cap", "delivery"}
    /\ Brought \subseteq Wp /\ IsFiniteSet(Brought)
    /\ NoWp \notin Wp /\ NoCap \notin Caps
    /\ BaseIds \cup RingIds \cup CapIds \cup DeliveryIds \subseteq Nat \ {0}

VARIABLES
    type,           \* the class Load has chosen
    actionId, payload1, busy, ready, notice, inp, mid, out, loc, poses,
    pc, wp, side, callback, dtor, sent, moves,
    spawning, spawnClr, newName, requested, news, subscribed, spawns,
    stored, cap, cmds, results,
    payload2, feeder, color, onSlide, slidecount, rings,
    delivered

B == INSTANCE BaseStation WITH
        Station <- 100, ActionIds <- BaseIds, Colors <- 1 .. 3,
        Payloads <- BasePayloads, MaxCommands <- BaseCommands
R == INSTANCE RingStation WITH
        Wp <- Brought, Station <- 200, ActionIds <- RingIds, Uninitialised <- {1, 99},
        Payloads <- RingPayloads, Payloads2 <- RingPayloads2, MaxCommands <- RingCommands
C == INSTANCE CapStation WITH
        Wp <- Brought, Station <- 300, ActionIds <- CapIds,
        Payloads <- CapPayloads, MaxCommands <- CapCommands
D == INSTANCE DeliveryStation WITH
        Wp <- Brought, Station <- 400, ActionIds <- DeliveryIds,
        Payloads <- DeliveryPayloads, MaxCommands <- DeliveryCommands

mpsVars == <<actionId, payload1, busy, ready, notice, inp, mid, out, loc, poses,
             pc, wp, side, callback, dtor, sent, moves>>
bsVars == <<spawning, spawnClr, newName, requested, news, subscribed, spawns>>
csVars == <<stored, cap, cmds, results>>
rsVars == <<payload2, feeder, color, onSlide, slidecount, rings>>
vars == <<type, mpsVars, bsVars, csVars, rsVars, delivered>>

\* The members of the other classes.
NotBase == UNCHANGED <<type, rsVars, csVars, delivered>>
NotRing == UNCHANGED <<type, bsVars, csVars, delivered>>
NotCap == UNCHANGED <<type, bsVars, rsVars, delivered>>
NotDelivery == UNCHANGED <<type, bsVars, rsVars, csVars>>

Load ==
    /\ type \in Types
    /\ B!BSFresh /\ R!RSFresh /\ D!DSFresh
    /\ \/ type = "base" /\ B!BSInit /\ C!CSFresh({})
       \/ type = "ring" /\ R!RSInit /\ C!CSFresh({})
       \/ type = "cap" /\ C!CSInit
       \/ type = "delivery" /\ D!DSInit /\ C!CSFresh({})

Next ==
    \/ type = "base" /\ B!BSNext /\ NotBase
    \/ type = "ring" /\ R!RSNext /\ NotRing
    \/ type = "cap" /\ C!CSNext /\ NotCap
    \/ type = "delivery" /\ D!DSNext /\ NotDelivery

Spec == Load /\ [][Next]_vars

\* The simulator does its part for workpiece w: the factory inserts it, its
\* pose is published, it executes its commands.
Simulate(w) ==
    /\ ~B!Crashed
    /\ \/ type = "base" /\ B!InsertModel(w) /\ NotBase
       \/ type = "ring" /\ w \in Brought /\ R!PublishPose(w) /\ UNCHANGED rsVars /\ NotRing
       \/ type = "cap" /\ w \in Brought /\ C!OnCommandMsg(w) /\ NotCap

\* The transport thread delivers what w has published to the machine, in order.
Deliver(w) ==
    /\ ~B!Crashed
    /\ \/ type = "base" /\ B!BSOnNewPuck(w) /\ NotBase
       \/ type = "ring" /\ w \in Brought /\ R!RSOnPuckMsg(w) /\ NotRing
       \/ type = "cap" /\ w \in Brought /\ C!OnPuckResult(w) /\ NotCap

\* The transport thread goes on with the pose it is handling.
HandlePose ==
    /\ ~B!Crashed /\ callback # B!Idle
    /\ \/ type = "base" /\ (\E w \in subscribed : B!OnPuckMsg(w)) /\ UNCHANGED bsVars /\ NotBase
       \/ type = "ring" /\ (\E w \in Brought : R!RSOnPuckMsg(w)) /\ NotRing
       \/ type = "cap" /\ (\E w \in Brought : C!OnPuckMsg(w)) /\ UNCHANGED csVars /\ NotCap

\* The worker of a base station runs; the simulator and the transport go on.
FairSpec ==
    /\ Spec
    /\ WF_vars(type = "base" /\ ~B!Crashed /\ B!BSWorker /\ NotBase)
    /\ WF_vars(HandlePose)
    /\ \A w \in Wp : SF_vars(Simulate(w)) /\ SF_vars(Deliver(w))

-----------------------------------------------------------------------------
(* Properties. *)

\* The workpiece wp_in_middle_ names lies in the middle of the machine, also
\* when the announcement of a dispensed base overwrites the pointer while the
\* worker is moving an earlier one.  It lies elsewhere only while the worker
\* moves it out, or when a stale wp_in_input_ named it too: the ring station
\* then finds it on its slide after all and puts it on the pile, the delivery
\* station delivers it and it stays at the gate.
MiddleIsTrue ==
    mid # NoWp =>
        \/ loc[mid] = "middle"
        \/ B!Moved /\ mid = wp
        \/ type = "ring" /\ mid \in onSlide
        \/ type = "delivery" /\ loc[mid] = "gate"

\* A command is executed at most once on every type of machine: it moves,
\* dispenses or delivers one workpiece or mounts one ring, although the worker
\* is woken for nothing, reads the register twice per wake-up, and some
\* stations clear the register long before or long after they act.
AtMostOnce == moves + spawns + Len(rings) + Len(delivered) <= sent

\* What the base class promises of a bare machine (MiddleIsTrue and AtMostOnce of
\* Mps) also holds for its subclasses, whose handlers write the same pointers
\* and registers from two threads.
StationsKeepPromises == MiddleIsTrue /\ AtMostOnce

\* A cap is never in two places: no order of commands, late results and
\* deliveries mounts one cap on two workpieces or keeps a mounted cap stored.
CapsNotDuplicated == \A c \in Caps : C!AtMostOneHolder(c)

\* A base the station waits for and that is yet to be inserted gets tracked in
\* the middle, unless a further GET_BASE makes the station wait for another or
\* a callback ends the process.
AwaitedBaseIsTracked ==
    \A w \in Wp : (spawning = w /\ w \in requested)
                     ~> (mid = w \/ spawning \notin {w, NoWp} \/ B!Crashed)

\* Busy says nothing about the answer of the workpiece, but while the
\* workpiece stays in the middle and the process lives, its cap does reach the
\* cap station.
RetrievedCapArrives ==
    \A w \in Brought : (mid = w /\ cap[w] # NoCap /\ cmds[w] # <<>> /\ Head(cmds[w]) = C!REMOVE_CAP)
                    ~> (stored # NoCap \/ mid # w \/ B!Crashed)

\* A base on the slide of a ring station is counted, whatever the station is
\* doing meanwhile, unless a stale wp_in_input_ makes the conveyor pull it into
\* the machine before the station has seen it there, or a callback ends the
\* process.
SlideIsCounted ==
    \A w \in Brought : loc[w] = "slide" ~> (w \in onSlide \/ loc[w] = "middle" \/ B!Crashed)

=============================================================================
