---------------------------- MODULE LightControl ----------------------------
(***************************************************************************)
(* plugins/light-control/light_control.cpp: the lights of one machine.  A  *)
(* transport thread writes the state of the lights while the world update  *)
(* compares each with what it showed last and publishes what has changed;  *)
(* nothing is locked.                                                      *)
(***************************************************************************)
EXTENDS Naturals, Sequences

CONSTANTS Color,          \* the lights, in the order they are read and written
          Messages,       \* the InstructMachine messages: [set, mine, light]
          None,
          MaxInstructs    \* bound: messages

VARIABLES
    state,       \* per light: state_red_, state_yellow_, state_green_
    prevState,   \* per light: prev_state_red_ ...
    shown,       \* per light: what was published last
    second,      \* fmod(time, 1) >= 0.5
    updating,    \* where OnUpdate is: the lights left and its place in change_light()
    writing,     \* on_light_msg: the lights left, and the message
    written,     \* history, per light: what was last written into its state by a message
    instructs,   \* messages so far
    fresh,       \* history: lights written since change_light() looked at them
    raced        \* history: lights written after change_light() had remembered them, before
                 \* it had published them, until it remembers what was last written
lightVars == <<state, prevState, shown, second, updating, writing, written, instructs, fresh, raced>>

Lights == {Color[n] : n \in DOMAIN Color}
Idle == [left |-> <<>>, at |-> "idle"]

\* Load(): the lights differ from what was shown, so that they are turned off.
Init ==
    /\ state = [c \in Lights |-> "OFF"] /\ prevState = [c \in Lights |-> "ON"]
    /\ shown = [c \in Lights |-> None] /\ second = FALSE
    /\ updating = Idle
    /\ writing = [left |-> <<>>, msg |-> None]
    /\ written = [c \in Lights |-> "OFF"] /\ instructs = 0 /\ fresh = Lights /\ raced = {}

\* on_light_msg(): as the conditions are joined, a message is dropped only if it
\* is neither about lights nor for this machine.  One without lights reads as OFF.
on_light_msg(m) ==
    /\ writing.left = <<>> /\ instructs < MaxInstructs
    /\ instructs' = instructs + 1
    /\ m.set = "SIGNAL_LIGHT" \/ m.mine
    /\ writing' = [left |-> Color, msg |-> m]
    /\ UNCHANGED <<state, prevState, shown, second, updating, written, fresh, raced>>

WriteLight ==
    /\ writing.left # <<>>
    /\ LET c == Head(writing.left)
       IN /\ state' = [state EXCEPT ![c] = writing.msg.light[c]]
          /\ written' = [written EXCEPT ![c] = writing.msg.light[c]]
          /\ fresh' = fresh \cup {c}
          /\ raced' = IF updating.at \in {"resolve", "publish"} /\ c = Head(updating.left)
                      THEN raced \cup {c} ELSE raced
    /\ writing' = [writing EXCEPT !.left = Tail(@)]
    /\ UNCHANGED <<prevState, shown, second, updating, instructs>>

-----------------------------------------------------------------------------
\* OnUpdate(), twice a second once the world is loaded.
OnUpdate ==
    /\ updating.at = "idle"
    /\ updating' = [left |-> Color, at |-> "compare"]
    /\ second' = ~second
    /\ UNCHANGED <<state, prevState, shown, writing, written, instructs, fresh, raced>>

Light == Head(updating.left)
NextLight == IF Len(updating.left) = 1 THEN Idle ELSE [left |-> Tail(updating.left), at |-> "compare"]

(* change_light() *)

\* Mutant: every light is compared with what the first one was.
CompareFirst ==
    /\ updating.at = "compare"
    /\ updating' = IF state[Light] # "BLINK" /\ state[Light] = prevState[Color[1]]
                   THEN NextLight ELSE [updating EXCEPT !.at = "remember"]
    /\ fresh' = fresh \ {Light}
    /\ UNCHANGED <<state, prevState, shown, second, writing, written, instructs, raced>>

Compare ==
    /\ updating.at = "compare"
    /\ updating' = IF state[Light] # "BLINK" /\ state[Light] = prevState[Light]
                   THEN NextLight ELSE [updating EXCEPT !.at = "remember"]
    /\ fresh' = fresh \ {Light}
    /\ UNCHANGED <<state, prevState, shown, second, writing, written, instructs, raced>>

Remember ==
    /\ updating.at = "remember"
    /\ prevState' = [prevState EXCEPT ![Light] = state[Light]]
    /\ updating' = [updating EXCEPT !.at = IF state[Light] = "BLINK" THEN "resolve" ELSE "publish"]
    /\ raced' = IF state[Light] = written[Light] THEN raced \ {Light} ELSE raced
    /\ UNCHANGED <<state, shown, second, writing, written, instructs, fresh>>

\* BLINK is replaced in the state itself.
Resolve ==
    /\ updating.at = "resolve"
    /\ state' = [state EXCEPT ![Light] = IF second THEN "OFF" ELSE "ON"]
    /\ updating' = [updating EXCEPT !.at = "publish"]
    /\ UNCHANGED <<prevState, shown, second, writing, written, instructs, fresh, raced>>

\* The visual is on, or off for every other value.
Publish ==
    /\ updating.at = "publish"
    /\ shown' = [shown EXCEPT ![Light] = IF state[Light] = "ON" THEN "ON" ELSE "OFF"]
    /\ updating' = NextLight
    /\ UNCHANGED <<state, prevState, second, writing, written, instructs, fresh, raced>>

\* The steps of the world update.
Updating == OnUpdate \/ Compare \/ Remember \/ Resolve \/ Publish

Next ==
    \/ \E m \in Messages : on_light_msg(m)
    \/ WriteLight \/ Updating

-----------------------------------------------------------------------------
(* Properties. *)

\* Between updates, a light that was not written since the last one looks as the
\* last message written says, which may be another machine's (light_control.cpp:127
\* lets all messages about lights through).  Two kinds of lights are left out.  One
\* was asked to blink.  The state of the other was written between the setting of
\* prev_state and the publication: such a message is lost if BLINK is being
\* resolved, and one back to prev_state is taken for no change; a later message
\* ends that.  A light that is on before it was ever shown stays as it was
\* (Load() takes it for on).
LightsShown ==
    updating.at = "idle" /\ writing.left = <<>> =>
        \A c \in Lights \ (raced \cup fresh) :
            written[c] # "BLINK" => \/ shown[c] = written[c]
                                    \/ shown[c] = None /\ written[c] = "ON"

\* A light that was asked to blink, and one that goes on and off for ever.
AskedToBlink(c) == written[c] = "BLINK"
On(c) == shown[c] = "ON"
Off(c) == shown[c] = "OFF"

=============================================================================
