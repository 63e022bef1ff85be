------------------------ MODULE LightSignalDetection ------------------------
(***************************************************************************)
(* plugins/light-signal-detection/light-signal-detection.cpp: what a robot *)
(* sees of the nearest machine's lights.  The callback of the referee      *)
(* box's machine info and the world update share all members, unlocked.    *)
(***************************************************************************)
EXTENDS Integers, Sequences

CONSTANTS Lamps,       \* the lights of a machine, in order
          Machines,
          NoMachine,
          Signals,     \* what machines may show
          MaxTime      \* bound: the clock

VARIABLES
    clock,        \* simulation time
    lastSent,     \* last_sent_time_
    visible,      \* visible_
    history,      \* visibility_history_
    since,        \* visible_since_
    lamp,         \* per light: state_red_ ...
    handler,      \* on_light_msg: where it is, and what it has read
    update,       \* OnUpdate: where it is
    alone,        \* history: no other thread took a step since the last report was begun
    seen,         \* history: whether the last message had a machine in range, and its lights
    told          \* what send_light_detection() published last, and the two above at that time

Lamp == {Lamps[n] : n \in DOMAIN Lamps}
Dark == [c \in Lamp |-> "OFF"]
Detection == [visible |-> visible, history |-> history, lamp |-> lamp, alone |-> alone, seen |-> seen]
OutOfSight == [near |-> FALSE, lamp |-> Dark]
Waiting == [at |-> "idle", signal |-> Dark, old |-> Dark]

Init ==
    /\ clock = 0 /\ lastSent = 0
    /\ visible = FALSE /\ history = -1 /\ since = 0
    /\ lamp = Dark /\ seen = OutOfSight /\ alone = FALSE
    /\ handler = Waiting /\ update = "idle"
    /\ told = Detection

-----------------------------------------------------------------------------
(* on_light_msg(), called by one transport thread.  The handler gives up if   *)
(* a machine of the message is not in the world yet; near is the machine      *)
(* closest to the robot, if that is in the detection area.                    *)

on_light_msg(near, signal) ==
    /\ handler.at = "idle"
    /\ IF near = NoMachine
       THEN handler' = [Waiting EXCEPT !.at = "away"] /\ seen' = OutOfSight
       ELSE /\ handler' = [at |-> "clear", signal |-> signal, old |-> lamp]
            /\ seen' = [near |-> TRUE, lamp |-> signal]
    /\ alone' = FALSE
    /\ UNCHANGED <<clock, lastSent, visible, history, since, lamp, update, told>>

\* save_light_signal() puts the lights out and then sets those of the machine.
Clear ==
    /\ handler.at = "clear"
    /\ lamp' = Dark
    /\ handler' = [handler EXCEPT !.at = "save"]
    /\ UNCHANGED <<clock, lastSent, visible, history, since, update, alone, seen, told>>

Save ==
    /\ handler.at = "save"
    /\ lamp' = handler.signal
    /\ handler' = IF ~visible \/ handler.old # handler.signal
                  THEN [handler EXCEPT !.at = "appear"] ELSE Waiting
    /\ UNCHANGED <<clock, lastSent, visible, history, since, update, alone, seen, told>>

Appear ==
    /\ handler.at = "appear"
    /\ visible' = TRUE /\ history' = 0
    /\ handler' = [handler EXCEPT !.at = "since"]
    /\ UNCHANGED <<clock, lastSent, since, lamp, update, alone, seen, told>>

Since ==
    /\ handler.at = "since"
    /\ since' = clock
    /\ handler' = Waiting
    /\ UNCHANGED <<clock, lastSent, visible, history, lamp, update, alone, seen, told>>

Away ==
    /\ handler.at = "away"
    /\ visible' = FALSE /\ history' = -1
    /\ handler' = [handler EXCEPT !.at = "report"]
    /\ alone' = (update = "idle")
    /\ UNCHANGED <<clock, lastSent, since, lamp, update, seen, told>>

Report ==
    /\ handler.at = "report"
    /\ told' = Detection
    /\ handler' = Waiting
    /\ UNCHANGED <<clock, lastSent, visible, history, since, lamp, update, alone, seen>>

-----------------------------------------------------------------------------
\* OnUpdate(): the test and what follows it.
OnUpdate ==
    /\ update = "idle" /\ clock > lastSent /\ visible
    /\ lastSent' = clock
    /\ update' = "count"
    /\ alone' = (handler.at = "idle")
    /\ UNCHANGED <<clock, visible, history, since, lamp, handler, seen, told>>

Count ==
    /\ update = "count"
    /\ history' = clock - since
    /\ update' = "send"
    /\ UNCHANGED <<clock, lastSent, visible, since, lamp, handler, alone, seen, told>>

Send ==
    /\ update = "send"
    /\ told' = Detection
    /\ update' = "idle"
    /\ UNCHANGED <<clock, lastSent, visible, history, since, lamp, handler, alone, seen>>

Pass ==
    /\ clock < MaxTime /\ update = "idle"
    /\ clock' = clock + 1
    /\ UNCHANGED <<lastSent, visible, history, since, lamp, handler, update, alone, seen, told>>

Next ==
    \/ \E near \in Machines \cup {NoMachine}, signal \in Signals :
           on_light_msg(near, signal)
    \/ Clear \/ Save \/ Appear \/ Since \/ Away \/ Report
    \/ OnUpdate \/ Count \/ Send \/ Pass

-----------------------------------------------------------------------------
(* Properties. *)

\* When no message is being handled, a machine is called visible exactly if the last
\* message had one in range; then the lights are that machine's and the history has
\* begun, also after any number of updates ran between the writes of the handler.
RestTrue ==
    handler.at = "idle" =>
        /\ visible = seen.near
        /\ visible => history >= 0 /\ lamp = seen.lamp

\* What is told is the truth when it is told, unless a message was being handled
\* while the world update reported, or the other way round: then a machine may be
\* told with its lights out, or one that is no longer there.
ToldTrue ==
    told.alone =>
        /\ told.visible = told.seen.near
        /\ IF told.visible THEN told.history >= 0 /\ told.lamp = told.seen.lamp
                           ELSE told.history = -1

DetectionTrue == RestTrue /\ ToldTrue

=============================================================================
