---------------------------- MODULE MpsPlacement ----------------------------
(***************************************************************************)
(* plugins/mps-placement/mps_placement.cpp: the machines are spawned where *)
(* the referee box says, once the game has begun.  Messages may be early,  *)
(* incomplete, repeated, or name machines of a type nobody knows.          *)
(***************************************************************************)
EXTENDS Integers, Sequences, FiniteSets, FiniteSetsExt

CONSTANTS Names,         \* the machines of the game: MPS_COUNT is their number
          Strangers,     \* names with none of the types BS, CS, RS, DS, SS in them
          Columns,       \* the columns and rows of the field's zones
          Rows

NoZone == <<>>
Zones == {"C", "M"} \X Columns \X Rows

VARIABLES
    zoneOf,           \* the referee box: the zone it has drawn for each machine
    simTime,          \* "loading" until WAIT_TIME_BEFORE_PLACEMENT has passed
    isGameStarted,    \* is_game_started_
    machinesPlaced,   \* machines_placed_
    placedMachines,   \* placed_machines, which mps_is_placed() keeps free of repetitions
    models            \* the world: for each name where models were spawned

\* The middle of a zone, in halves of its width and height; magenta is mirrored.
Position(zone) ==
    <<IF zone[1] = "C" THEN 2 * zone[2] - 1 ELSE 1 - 2 * zone[2], 2 * zone[3] - 1>>

Init ==
    /\ zoneOf \in {f \in [Names -> Zones] : \A a, b \in Names : f[a] = f[b] => a = b}
    /\ simTime = "loading"
    /\ isGameStarted = FALSE /\ machinesPlaced = FALSE
    /\ placedMachines = {}
    /\ models = [n \in Names |-> <<>>]

\* The loop of on_machine_info_msg() over the machines of the message passes over
\* those that are placed and those without a name or a zone; one of an unknown
\* type ends the handler.  Stop is where that happens.
\* Mutant: a machine that stands already ends the handler, too.
StopAtPlaced(info) ==
    Min({i \in DOMAIN info : /\ info[i].name \in Strangers \cup placedMachines
                             /\ info[i].zone # NoZone} \cup {Len(info) + 1})

Stop(info) ==
    Min({i \in DOMAIN info : info[i].name \in Strangers /\ info[i].zone # NoZone} \cup {Len(info) + 1})

on_machine_info_msg(info) ==
    /\ ~machinesPlaced /\ isGameStarted /\ simTime = "ready"
    /\ LET mine(n) == {i \in 1 .. (Stop(info) - 1) : info[i].name = n /\ info[i].zone # NoZone}
           new == {n \in Names \ placedMachines : mine(n) # {}}
       IN /\ placedMachines' = placedMachines \cup new
          /\ models' = [n \in Names |->
                 IF n \in new THEN Append(models[n], Position(info[Min(mine(n))].zone)) ELSE models[n]]
          /\ machinesPlaced' = (Stop(info) > Len(info) /\ placedMachines' = Names)
    /\ UNCHANGED <<zoneOf, simTime, isGameStarted>>

\* on_game_state_msg() of a phase other than PRE_GAME.
on_game_state_msg ==
    /\ ~isGameStarted /\ isGameStarted' = TRUE
    /\ UNCHANGED <<zoneOf, simTime, machinesPlaced, placedMachines, models>>

Reset ==
    /\ machinesPlaced' = FALSE
    /\ UNCHANGED <<zoneOf, simTime, isGameStarted, placedMachines, models>>

WorldLoaded ==
    /\ simTime = "loading" /\ simTime' = "ready"
    /\ UNCHANGED <<zoneOf, isGameStarted, machinesPlaced, placedMachines, models>>

\* What the referee box sends: machines of the game with their zones or, before
\* they are drawn, without; and now and then one that is no MPS.
Entry(n, known) == [name |-> n, zone |-> IF known THEN zoneOf[n] ELSE NoZone]
Stranger(n) == [name |-> n, zone |-> CHOOSE z \in Zones : TRUE]
Infos ==
    LET entries == {Entry(n, k) : n \in Names, k \in BOOLEAN} \cup {Stranger(n) : n \in Strangers}
    IN {<<a>> : a \in entries} \cup {<<a, b>> : a \in entries, b \in entries}
Complete == LET order == CHOOSE s \in [1 .. Cardinality(Names) -> Names] : \A n \in Names : \E i \in DOMAIN s : s[i] = n
            IN [i \in DOMAIN order |-> Entry(order[i], TRUE)]

Next ==
    \/ \E info \in Infos \cup {Complete} : on_machine_info_msg(info)
    \/ on_game_state_msg \/ Reset \/ WorldLoaded

-----------------------------------------------------------------------------
(* Properties. *)

\* Every machine stands once, in its zone, and machines of different zones never
\* stand in each other, whatever was sent, repeated, left out or reset.
MachinesStandOnce ==
    /\ \A n \in Names : Len(models[n]) <= 1 /\ (n \in placedMachines <=> Len(models[n]) = 1)
    /\ \A a, b \in Names : a # b /\ models[a] # <<>> /\ models[b] # <<>> => models[a] # models[b]
    /\ \A n \in Names : models[n] # <<>> =>
           \E z \in Zones : models[n][1] = Position(z) /\ z = zoneOf[n]

\* The machines of a game that has begun all stand at last, also when some came
\* with earlier messages, if the referee box keeps telling all zones.
AllStand == \A n \in Names : models[n] # <<>>

=============================================================================
