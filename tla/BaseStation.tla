---------------------------- MODULE BaseStation ----------------------------
(***************************************************************************)
(* The base station (plugins/mps/base_station.cpp): GET_BASE spawns a      *)
(* workpiece through Gazebo's factory topic.  The new model announces      *)
(* itself on ~/new_puck to every machine, some time after the request, and *)
(* only then is Busy cleared.  Other machines spawn workpieces too.        *)
(***************************************************************************)
EXTENDS Mps

CONSTANT Colors     \* BaseColor values that spawn_puck supports: 1 .. 3

VARIABLES
    spawning,       \* the name of the workpiece waited for, NoWp for ""
    spawnClr,       \* spawn_clr, 0 while uninitialised
    newName,        \* what spawn_puck returned, before it is assigned
    requested,      \* workpieces asked from the factory and not inserted yet
    news,           \* announcements on ~/new_puck not delivered yet
    subscribed,     \* workpieces whose poses the station receives
    spawns          \* history: requests to the factory

bsVars == <<spawning, spawnClr, newName, requested, news, subscribed, spawns>>
vars == <<mpsVars, bsVars>>

OPERATION_GET_BASE == 1

BSFresh ==
    /\ spawning = NoWp /\ spawnClr = 0 /\ newName = NoWp
    /\ requested = {} /\ news = {} /\ subscribed = {} /\ spawns = 0

BSInit == InitWith([w \in Wp |-> "unborn"]) /\ BSFresh

-----------------------------------------------------------------------------
(* The worker: BaseStation::process_command_in after the call of the base. *)

\* The register is read again; dispense_base raises Busy, keeps the colour of
\* the last base when the payload names none, and sleeps.
BSProcessCommandIn ==
    /\ pc = "op"
    /\ IF IsOperation(actionId, OPERATION_GET_BASE)
       THEN /\ pc' = "dispense"
            /\ busy' = TRUE
            /\ spawnClr' = IF payload1 \in Colors THEN payload1 ELSE spawnClr
       ELSE pc' = "check" /\ UNCHANGED <<busy, spawnClr>>
    /\ UNCHANGED <<actionId, payload1, ready, notice, slots, world, locals, dtor, history>>
    /\ UNCHANGED <<spawning, newName, requested, news, subscribed, spawns>>

\* spawn_puck publishes the request and returns the name; with an unsupported
\* colour, which an uninitialised spawn_clr may or may not be, it returns "".
SpawnPuck ==
    /\ pc = "dispense"
    /\ \/ \E w \in Wp : /\ loc[w] = "unborn" /\ w \notin requested
                        /\ requested' = requested \cup {w}
                        /\ newName' = w
                        /\ spawns' = spawns + 1
       \/ spawnClr = 0 /\ newName' = NoWp /\ UNCHANGED <<requested, spawns>>
    /\ pc' = "assign"
    /\ UNCHANGED <<nodes, notice, slots, world, locals, dtor, history>>
    /\ UNCHANGED <<spawning, spawnClr, news, subscribed>>

\* spawning = ...: on the worker's thread, after the request is out.
AssignSpawning ==
    /\ pc = "assign"
    /\ spawning' = newName
    /\ pc' = "clearAction"
    /\ UNCHANGED <<nodes, notice, slots, world, locals, dtor, history>>
    /\ UNCHANGED <<spawnClr, newName, requested, news, subscribed, spawns>>

\* action_id_in_ and payload1_in_ are cleared one after the other; Busy may
\* be down by now, so a client may write between the two.
ClearAction ==
    /\ pc = "clearAction"
    /\ actionId' = 0
    /\ notice' = TRUE
    /\ pc' = "clearPayload"
    /\ UNCHANGED <<payload1, busy, ready, slots, world, locals, dtor, history, bsVars>>

ClearPayload ==
    /\ pc = "clearPayload"
    /\ payload1' = 0
    /\ pc' = "check"
    /\ UNCHANGED <<actionId, busy, ready, notice, slots, world, locals, dtor, history, bsVars>>

Dispense == SpawnPuck \/ AssignSpawning \/ ClearAction \/ ClearPayload

BSWorker == BSProcessCommandIn \/ Dispense \/ (WorkerLoop /\ UNCHANGED bsVars)

-----------------------------------------------------------------------------
(* The transport thread and the simulator. *)

\* Mutant: whatever is announced while waiting is taken for the base.
BSOnAnyPuck(w) ==
    /\ w \in news /\ callback = Idle
    /\ news' = news \ {w}
    /\ IF spawning = NoWp
       THEN UNCHANGED <<subscribed, mid, spawning, busy>>
       ELSE subscribed' = subscribed \cup {w} /\ mid' = w /\ spawning' = NoWp /\ busy' = FALSE
    /\ UNCHANGED <<actionId, payload1, ready, notice, inp, out, world, pc, locals, dtor, history>>
    /\ UNCHANGED <<spawnClr, newName, requested, spawns>>

\* Mutant: whatever is announced ends the waiting.
BSForgetOnNewPuck(w) ==
    /\ w \in news /\ callback = Idle
    /\ news' = news \ {w}
    /\ IF spawning = NoWp
       THEN UNCHANGED <<subscribed, mid, busy>>
       ELSE /\ subscribed' = subscribed \cup {w}
            /\ mid' = IF spawning = w THEN w ELSE mid
            /\ busy' = FALSE
    /\ spawning' = NoWp
    /\ UNCHANGED <<actionId, payload1, ready, notice, inp, out, world, pc, locals, dtor, history>>
    /\ UNCHANGED <<spawnClr, newName, requested, spawns>>

BSOnNewPuck(w) ==
    /\ w \in news /\ callback = Idle
    /\ news' = news \ {w}
    /\ IF spawning = NoWp
       THEN UNCHANGED <<subscribed, mid, spawning, busy>>
       ELSE /\ subscribed' = subscribed \cup {w}
            /\ IF spawning = w /\ loc[w] = "middle"
               THEN mid' = w /\ spawning' = NoWp
               ELSE UNCHANGED <<mid, spawning>>
            /\ busy' = FALSE
    /\ UNCHANGED <<actionId, payload1, ready, notice, inp, out, world, pc, locals, dtor, history>>
    /\ UNCHANGED <<spawnClr, newName, requested, spawns>>

\* The factory inserts a requested model, which announces itself
\* (Puck::OnUpdate).
InsertModel(w) ==
    /\ w \in requested
    /\ requested' = requested \ {w}
    /\ loc' = [loc EXCEPT ![w] = "middle"]
    /\ news' = news \cup {w}
    /\ UNCHANGED <<nodes, notice, slots, poses, pc, locals, dtor, history>>
    /\ UNCHANGED <<spawning, spawnClr, newName, subscribed, spawns>>

\* A workpiece spawned by another machine announces itself.
ForeignPuck(w) ==
    /\ loc[w] = "unborn" /\ w \notin requested
    /\ loc' = [loc EXCEPT ![w] = "away"]
    /\ news' = news \cup {w}
    /\ UNCHANGED <<nodes, notice, slots, poses, pc, locals, dtor, history>>
    /\ UNCHANGED <<spawning, spawnClr, newName, requested, subscribed, spawns>>

-----------------------------------------------------------------------------
BSNext ==
    /\ ~Crashed
    /\ \/ BSWorker
       \/ \E w \in Wp : BSOnNewPuck(w) \/ InsertModel(w) \/ ForeignPuck(w)
       \/ Wake /\ UNCHANGED bsVars
       \/ \E w \in subscribed : OnPuckMsg(w) /\ UNCHANGED bsVars
       \/ Destructor /\ UNCHANGED bsVars
       \/ Environment /\ UNCHANGED bsVars

-----------------------------------------------------------------------------
(* Properties. *)

=============================================================================
