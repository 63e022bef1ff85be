---------------------------- MODULE RobotPlugins ----------------------------
(***************************************************************************)
(* The plugins that move a robot and tell it about the world: motor,       *)
(* odometry, gyro, gps, conveyor vision, tag vision and the time.  All run *)
(* in the world update, one after the other; what the motor and the        *)
(* odometry are told arrives in other threads.                             *)
(***************************************************************************)
EXTENDS Integers, Sequences, FiniteSets

CONSTANTS Interval,        \* per publisher: more than this must pass between messages
          SearchInterval,  \* SEARCH_FOR_TAGS_INTERVAL of tag vision
          Tags,
          Machine,         \* a station, which conveyor vision looks for
          Commands,        \* what is asked of the motor: <<vx, vy, vomega>>
          MaxTicks,        \* bound: the clock
          MaxEvents        \* bound: messages to the robot and changes of the view

Publishers == DOMAIN Interval
HalfTurn == 2   \* pi, in the units of angles

VARIABLES
    tick,         \* simulation time
    last,         \* per publisher: last_sent_time_
    watched,      \* the publisher whose messages someone counts
    listening,    \* it has connections
    heard,        \* when it sent the last message, or when someone came to listen
    lastSearch,   \* last_searched_for_new_tags_time_
    tagPoses,     \* tag_poses_: the tags found
    inWorld,      \* the tags that have been spawned
    inView,       \* what the cameras could see
    viewSince,    \* since when it is, or is not, in view
    sighted,      \* the tags in the last PosesStamped
    motor,        \* vx_, vy_, vomega_
    moving,       \* the velocity of the model
    command,      \* the last MotorMove message, less what was reset since
    writes,       \* on_motor_move_msg: how many members are written
    resets,       \* Motor::Reset: how many members are written
    obeyed,       \* Motor::OnUpdate has run since they were
    omega,        \* estimate_omega
    angle,        \* history: the heading, from what was added up
    mirrored,     \* history: the estimate went below -pi
    events        \* messages and changes so far
robotVars == <<tick, last, watched, listening, heard, lastSearch, tagPoses, inWorld, inView, viewSince, sighted,
               motor, moving, command, writes, resets, obeyed, omega, angle, mirrored, events>>
publishVars == <<last, watched, listening, heard>>
viewVars == <<lastSearch, tagPoses, inWorld, inView, viewSince, sighted>>
motorVars == <<motor, moving, command, writes, resets, obeyed>>
odometryVars == <<omega, angle, mirrored>>

Still == <<0, 0, 0>>

Init ==
    /\ tick = 0 /\ last = [s \in Publishers |-> 0]
    /\ watched \in Publishers /\ listening = FALSE /\ heard = 0
    /\ inWorld \in SUBSET Tags /\ lastSearch = 0 /\ tagPoses = {} /\ inView = {} /\ sighted = {}
    /\ viewSince = [t \in Tags \cup {Machine} |-> 0]
    /\ motor = Still /\ moving = Still /\ command = Still
    /\ writes = 3 /\ resets = 3 /\ obeyed = FALSE
    /\ omega = 0 /\ angle = 0 /\ mirrored = FALSE /\ events = 0

-----------------------------------------------------------------------------
(* The publishers' part of one world update.  The time of a message is noted *)
(* whether or not anyone listens.                                            *)

Due(s) == tick' - last[s] > Interval[s]
HasConnections(s) == watched = s /\ listening

Gyro == Due("gyro") /\ HasConnections("gyro")
Gps == Due("gps") /\ HasConnections("gps")
TimeSync == Due("time_sync") /\ HasConnections("time_sync")

\* send_conveyor_result(): only if a station is in the detection area.
ConveyorVision == Due("conveyor") /\ HasConnections("conveyor") /\ Machine \in inView

\* Mutant: the tags are looked for only once.
TagVisionOnce ==
    LET search == lastSearch = 0 /\ tick' - lastSearch > SearchInterval
    IN /\ lastSearch' = IF search THEN tick' ELSE lastSearch
       /\ tagPoses' = IF search THEN tagPoses \cup inWorld ELSE tagPoses
       /\ sighted' = IF Due("tag_vision") THEN tagPoses' \cap inView ELSE sighted

\* TagVision::OnUpdate(): a search among all models now and then, then the tags
\* found and in view are sent.
TagVision ==
    LET search == tick' - lastSearch > SearchInterval
    IN /\ lastSearch' = IF search THEN tick' ELSE lastSearch
       /\ tagPoses' = IF search THEN tagPoses \cup inWorld ELSE tagPoses
       /\ sighted' = IF Due("tag_vision") THEN tagPoses' \cap inView ELSE sighted

\* Odometry::send_position(): the turn since the last message, with the velocity
\* of now, is added; below -pi the estimate is mirrored.
Odometry ==
    IF ~Due("odometry") THEN UNCHANGED odometryVars
    ELSE LET turn == moving[3] * (tick' - last["odometry"])
             sum == omega + turn
         IN /\ omega' = IF sum < -HalfTurn THEN 2 * HalfTurn - sum
                        ELSE IF sum > HalfTurn THEN sum - 2 * HalfTurn ELSE sum
            /\ angle' = (angle + turn) % (2 * HalfTurn)
            /\ mirrored' = (mirrored \/ sum < -HalfTurn)

\* Motor::OnUpdate(): the model gets the velocity, turned by its yaw.
Motor == moving' = motor /\ obeyed' = (writes = 3)

\* Gazebo resets the plugins in the thread that updates the world.
WorldUpdate ==
    /\ resets = 3
    /\ tick < MaxTicks /\ tick' = tick + 1
    /\ last' = [s \in Publishers |-> IF Due(s) THEN tick' ELSE last[s]]
    /\ heard' = IF \/ Gyro \/ Gps \/ TimeSync \/ ConveyorVision
                   \/ \E s \in {"tag_vision", "odometry"} : Due(s) /\ HasConnections(s)
                THEN tick' ELSE heard
    /\ TagVision /\ Odometry /\ Motor
    /\ UNCHANGED <<watched, listening, inWorld, inView, viewSince, motor, command, writes, resets, events>>

-----------------------------------------------------------------------------
(* Subscribers and the environment. *)

Event == events < MaxEvents /\ events' = events + 1

\* on_motor_move_msg() writes the three members one after the other.
on_motor_move_msg(v) ==
    /\ Event
    /\ writes = 3 /\ writes' = 0
    /\ command' = v /\ obeyed' = FALSE
    /\ UNCHANGED <<tick, publishVars, viewVars, odometryVars, motor, moving, resets>>

WriteMember ==
    /\ writes < 3 /\ writes' = writes + 1
    /\ motor' = [motor EXCEPT ![writes + 1] = command[writes + 1]]
    /\ UNCHANGED <<tick, publishVars, viewVars, odometryVars, moving, command, resets, obeyed, events>>

\* Motor::Reset() clears the three members one after the other, too; of a command
\* that is being written what was not yet there, or not yet cleared, will be left.
Reset ==
    /\ Event
    /\ resets = 3 /\ resets' = 0
    /\ obeyed' = FALSE
    /\ UNCHANGED <<tick, publishVars, viewVars, odometryVars, motor, moving, command, writes>>

ResetMember ==
    /\ resets < 3 /\ resets' = resets + 1
    /\ motor' = [motor EXCEPT ![resets + 1] = 0]
    /\ command' = [command EXCEPT ![resets + 1] = IF resets + 1 <= writes THEN 0 ELSE @]
    /\ UNCHANGED <<tick, publishVars, viewVars, odometryVars, moving, writes, obeyed, events>>

\* on_set_odometry_msg(): the interval begins anew.
on_set_odometry_msg ==
    /\ Event
    /\ omega' = 0 /\ angle' = 0 /\ mirrored' = FALSE
    /\ last' = [last EXCEPT !["odometry"] = tick]
    /\ UNCHANGED <<tick, watched, listening, heard, viewVars, motorVars>>

Subscribe ==
    /\ ~listening /\ listening' = TRUE
    /\ heard' = tick
    /\ UNCHANGED <<tick, last, watched, viewVars, motorVars, odometryVars, events>>

\* A tag or a station comes into view, or leaves it; the tag may be a new one.
See(t) ==
    /\ Event
    /\ inWorld' = inWorld \cup ({t} \cap Tags)
    /\ inView' = IF t \in inView THEN inView \ {t} ELSE inView \cup {t}
    /\ viewSince' = [viewSince EXCEPT ![t] = tick]
    /\ UNCHANGED <<tick, publishVars, motorVars, odometryVars, lastSearch, tagPoses, sighted>>

Next ==
    \/ WorldUpdate \/ WriteMember \/ Reset \/ ResetMember \/ on_set_odometry_msg \/ Subscribe
    \/ \E v \in Commands : on_motor_move_msg(v)
    \/ \E t \in Tags \cup {Machine} : See(t)

-----------------------------------------------------------------------------
(* Properties. *)

\* Who listens is never left without a message for longer than the interval,
\* up to the next update.  (The odometry's interval begins again whenever it is set, and
\* conveyor vision speaks only near a station.)
Heard ==
    listening /\ watched # "odometry" =>
        \/ tick - heard <= Interval[watched]
        \/ /\ watched = "conveyor"
           /\ Machine \notin inView \/ tick - viewSince[Machine] <= Interval["conveyor"]

\* A tag that has stayed in view for a search and a message is among the tags
\* reported, and one that left longer ago than a message is not.
TagsSighted ==
    \A t \in Tags :
        /\ t \in inView /\ tick - viewSince[t] > SearchInterval + Interval["tag_vision"]
               => t \in sighted
        /\ t \notin inView /\ tick - viewSince[t] > Interval["tag_vision"] => t \notin sighted

\* Once a command is written and an update has run, the robot moves as it was
\* told, also if updates saw the command half written or a reset cleared part of it.
Obeys == obeyed => moving = command

\* The estimated heading is the heading, between -pi and pi, as long as it was
\* not mirrored.
HeadingTrue == mirrored \/ (omega \in -HalfTurn .. HalfTurn /\ (omega - angle) % (2 * HalfTurn) = 0)

\* The robot is told in time, and does what it is told.
RobotServed == Heard /\ TagsSighted /\ Obeys /\ HeadingTrue

=============================================================================
