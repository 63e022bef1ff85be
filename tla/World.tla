-------------------------------- MODULE World --------------------------------
(***************************************************************************)
(* The plugins of the simulated world side by side: kind says which one a  *)
(* behaviour is about (the shelf of a cap station, the stock of a storage  *)
(* station, the grippers, a machine's lights, what a robot sees of lights, *)
(* the placement of machines, the other plugins of a robot); the variables *)
(* of the others are unused.                                               *)
(***************************************************************************)
EXTENDS Integers, Sequences, FiniteSets

CONSTANTS Wp, NoWp, MaxReturns,
          Slots, Pucks,
          Robots, MaxOrders,
          MaxInstructs, MaxTime,
          Names, Strangers,
          Tags, MaxTicks, MaxEvents

\* The names that are made up are new, and enough to fill the shelf and the slots.
ASSUME WorldAssumption ==
    /\ IsFiniteSet(Wp) /\ Cardinality(Wp) >= 3 /\ NoWp \notin Wp
    /\ NoWp \notin Pucks
    /\ \E f \in [Slots -> Pucks] : \A i, j \in Slots : i # j => f[i] # f[j]
    /\ IsFiniteSet(Names) /\ Names \cap Strangers = {}

VARIABLES kind,
    shelf, loc, ordered, news, due, capped, returned,
    listing, spawned, puckName, puck, cmds, delivered,
    queue, orders, gripped, joint, joints, hasPuck, holdPucks,
    state, prevState, shown, second, updating, writing, written, instructs, fresh, raced,
    clock, lastSent, visible, history, since, lamp, handler, update, alone, seen, told,
    zoneOf, simTime, isGameStarted, machinesPlaced, placedMachines, models,
    tick, last, watched, listening, heard, lastSearch, tagPoses, inWorld, inView, viewSince, sighted,
    motor, moving, command, writes, resets, obeyed, omega, angle, mirrored, events

LightOrder == <<"RED", "GREEN">>
Lit(r, g) == [c \in {"RED", "GREEN"} |-> IF c = "RED" THEN r ELSE g]

Shelf == INSTANCE CapShelf
Storage == INSTANCE StorageStation WITH NoName <- NoWp
Grip == INSTANCE Gripper WITH Workpieces <- Pucks, Linkless <- {CHOOSE w \in Pucks : TRUE}, NoPuck <- NoWp
\* Messages for this machine, for another one, and for this one about something else.
Lights == INSTANCE LightControl WITH Color <- LightOrder, None <- NoWp, Messages <-
    {[set |-> "SIGNAL_LIGHT", mine |-> m, light |-> Lit(r, g)] :
        m \in BOOLEAN, r \in {"OFF", "ON", "BLINK"}, g \in {"OFF", "ON"}}
    \cup {[set |-> "OTHER", mine |-> m, light |-> Lit("OFF", "OFF")] : m \in BOOLEAN}
Detect == INSTANCE LightSignalDetection WITH
    Lamps <- LightOrder, Machines <- {"C-BS"}, NoMachine <- "none",
    Signals <- {Lit("OFF", "OFF"), Lit("ON", "OFF"), Lit("ON", "BLINK")}
Placement == INSTANCE MpsPlacement WITH Columns <- {1, 2}, Rows <- {1}
Robot == INSTANCE RobotPlugins WITH
    Interval <- [p \in {"gyro", "gps", "conveyor", "time_sync", "tag_vision", "odometry"} |->
                    IF p \in {"gyro", "conveyor"} THEN 0 ELSE IF p = "time_sync" THEN 2 ELSE 1],
    SearchInterval <- 1, Machine <- "C-BS",
    Commands <- {<<1, 0, 1>>, <<0, 1, -1>>}

shelfOnly == <<shelf, loc, ordered, due, capped, returned>>
storageOnly == <<listing, spawned, puckName, puck, cmds, delivered>>
gripVars == <<queue, orders, gripped, joint, joints, hasPuck, holdPucks>>
shelfVars == <<shelfOnly, news>>
storageVars == <<storageOnly, news>>
lightVars == <<state, prevState, shown, second, updating, writing, written, instructs, fresh, raced>>
detectVars == <<clock, lastSent, visible, history, since, lamp, handler, update, alone, seen, told>>
placeVars == <<zoneOf, simTime, isGameStarted, machinesPlaced, placedMachines, models>>
robotVars == <<tick, last, watched, listening, heard, lastSearch, tagPoses, inWorld, inView, viewSince,
              sighted, motor, moving, command, writes, resets, obeyed, omega, angle, mirrored, events>>
vars == <<kind, shelfOnly, news, storageOnly, gripVars, lightVars, detectVars, placeVars, robotVars>>
Unused == "unused"
NoShelf == /\ shelf = Unused /\ loc = Unused /\ ordered = Unused /\ due = Unused
           /\ capped = Unused /\ returned = Unused
NoStorage == /\ listing = Unused /\ spawned = Unused /\ puckName = Unused /\ puck = Unused
             /\ cmds = Unused /\ delivered = Unused
NoGrip == /\ queue = Unused /\ orders = Unused /\ gripped = Unused /\ joint = Unused
          /\ joints = Unused /\ hasPuck = Unused /\ holdPucks = Unused
NoLight == /\ state = Unused /\ prevState = Unused /\ shown = Unused /\ second = Unused
           /\ updating = Unused /\ writing = Unused /\ written = Unused /\ instructs = Unused
           /\ fresh = Unused /\ raced = Unused
NoDetect == /\ clock = Unused /\ lastSent = Unused /\ visible = Unused /\ history = Unused
            /\ since = Unused /\ lamp = Unused /\ handler = Unused /\ update = Unused
            /\ alone = Unused /\ seen = Unused /\ told = Unused
NoPlace == /\ zoneOf = Unused /\ simTime = Unused /\ isGameStarted = Unused
           /\ machinesPlaced = Unused /\ placedMachines = Unused /\ models = Unused
NoRobot == /\ tick = Unused /\ last = Unused /\ watched = Unused /\ listening = Unused
           /\ heard = Unused /\ lastSearch = Unused /\ tagPoses = Unused /\ inWorld = Unused /\ inView = Unused
           /\ viewSince = Unused /\ sighted = Unused /\ motor = Unused /\ moving = Unused
           /\ command = Unused /\ writes = Unused /\ resets = Unused /\ obeyed = Unused /\ omega = Unused
           /\ angle = Unused /\ mirrored = Unused /\ events = Unused

Init ==
    \/ /\ kind = "shelf" /\ Shelf!Init
       /\ NoStorage /\ NoGrip /\ NoLight /\ NoDetect /\ NoPlace /\ NoRobot
    \/ /\ kind = "storage" /\ Storage!Init
       /\ NoShelf /\ NoGrip /\ NoLight /\ NoDetect /\ NoPlace /\ NoRobot
    \/ /\ kind = "gripper" /\ Grip!Init /\ news = Unused
       /\ NoShelf /\ NoStorage /\ NoLight /\ NoDetect /\ NoPlace /\ NoRobot
    \/ /\ kind = "lights" /\ Lights!Init /\ news = Unused
       /\ NoShelf /\ NoStorage /\ NoGrip /\ NoDetect /\ NoPlace /\ NoRobot
    \/ /\ kind = "detection" /\ Detect!Init /\ news = Unused
       /\ NoShelf /\ NoStorage /\ NoGrip /\ NoLight /\ NoPlace /\ NoRobot
    \/ /\ kind = "placement" /\ Placement!Init /\ news = Unused
       /\ NoShelf /\ NoStorage /\ NoGrip /\ NoLight /\ NoDetect /\ NoRobot
    \/ /\ kind = "robot" /\ Robot!Init /\ news = Unused
       /\ NoShelf /\ NoStorage /\ NoGrip /\ NoLight /\ NoDetect /\ NoPlace

ShelfNext ==
    /\ kind = "shelf" /\ Shelf!Next
    /\ UNCHANGED <<kind, storageOnly, gripVars, lightVars, detectVars, placeVars, robotVars>>
StorageNext ==
    /\ kind = "storage" /\ Storage!Next
    /\ UNCHANGED <<kind, shelfOnly, gripVars, lightVars, detectVars, placeVars, robotVars>>
GripNext ==
    /\ kind = "gripper" /\ Grip!Next
    /\ UNCHANGED <<kind, news, shelfOnly, storageOnly, lightVars, detectVars, placeVars, robotVars>>
LightNext ==
    /\ kind = "lights" /\ Lights!Next
    /\ UNCHANGED <<kind, news, shelfOnly, storageOnly, gripVars, detectVars, placeVars, robotVars>>
DetectNext ==
    /\ kind = "detection" /\ Detect!Next
    /\ UNCHANGED <<kind, news, shelfOnly, storageOnly, gripVars, lightVars, placeVars, robotVars>>
PlaceNext ==
    /\ kind = "placement" /\ Placement!Next
    /\ UNCHANGED <<kind, news, shelfOnly, storageOnly, gripVars, lightVars, detectVars, robotVars>>
RobotNext ==
    /\ kind = "robot" /\ Robot!Next
    /\ UNCHANGED <<kind, news, shelfOnly, storageOnly, gripVars, lightVars, detectVars, placeVars>>

Next == ShelfNext \/ StorageNext \/ GripNext \/ LightNext \/ DetectNext \/ PlaceNext \/ RobotNext

\* The world is updated, time advances, the factory and the transport deliver,
\* and the referee box repeats what it knows of the machines.
Fairness ==
    /\ WF_shelfVars(kind = "shelf" /\ Shelf!OnUpdate)
    /\ WF_shelfVars(kind = "shelf" /\ Shelf!Elapse)
    /\ \A w \in Wp : /\ WF_shelfVars(kind = "shelf" /\ Shelf!on_new_puck(w))
                     /\ WF_shelfVars(kind = "shelf" /\ \E s \in Shelf!Slot : Shelf!InsertModel(w, s))
    /\ WF_placeVars(kind = "placement" /\ Placement!on_machine_info_msg(Placement!Complete))

Spec == Init /\ [][Next]_vars /\ Fairness

\* The lights alone: the world is updated for ever and a callback ends.
LightSpec ==
    /\ Init /\ kind = "lights"
    /\ [][Next]_vars
    /\ WF_lightVars(Lights!Updating) /\ WF_lightVars(Lights!WriteLight)

-----------------------------------------------------------------------------
(* Properties: those of the parts. *)

\* The shelf holds one workpiece with a cap in each place, the stock of the
\* storage station is delivered as it was configured, and every machine stands
\* once, in its zone.
ThingsInPlace ==
    /\ kind = "shelf" => Shelf!OnePerPlace /\ Shelf!ShelfHasCaps
    /\ kind = "storage" => Storage!StockAsConfigured
    /\ kind = "placement" => Placement!MachinesStandOnce

\* An emptied shelf is filled again.
ShelfIsRefilled ==
    (kind = "shelf" /\ Shelf!Emptied) ~> (kind = "shelf" /\ Shelf!Refilled)

\* What the plugins tell others is what is: who holds a workpiece (once the
\* messages have arrived), and which machine's lights are seen (unless the
\* report and a message to its plugin cross).
ReportsTrue ==
    /\ kind = "gripper" => Grip!HeldIsReported
    /\ kind = "detection" => Detect!DetectionTrue

\* The lights of a machine look as the last message that its plugin let through
\* has them, whoever that was for; LightsShown names what is left out.
LightsFollow == kind = "lights" => Lights!LightsShown

\* A robot is told what it listens to in time, sees the tags, moves as told and
\* knows its heading.
RobotServed == kind = "robot" => Robot!RobotServed

\* All machines of a game stand at last, if the referee box goes on telling zones.
AllStand ==
    (kind = "placement" /\ isGameStarted /\ simTime = "ready") ~> (kind = "placement" /\ Placement!AllStand)

\* "Machines Blink at 2Hz" (light_control.cpp:152): a light that is asked to
\* blink, and is not told otherwise, goes on and off for ever.
BlinkBlinks ==
    \A c \in {"RED", "GREEN"} :
        <>[]Lights!AskedToBlink(c) => []<>Lights!On(c) /\ []<>Lights!Off(c)

=============================================================================
