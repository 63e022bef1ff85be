------------------------------ MODULE CapShelf ------------------------------
(***************************************************************************)
(* The shelf of the cap station (plugins/mps/cap_station.cpp, OnUpdate and *)
(* on_new_puck).  Its three places are filled by spawning workpieces; the  *)
(* station knows one only from the moment it is announced, and forgets it  *)
(* when it finds it elsewhere.  A refill is due when all are forgotten.    *)
(***************************************************************************)
EXTENDS Naturals, FiniteSets

CONSTANTS Wp,       \* the workpieces that can be spawned
          NoWp,     \* the null ModelPtr
          MaxReturns  \* bound: workpieces that robots put back

VARIABLES
    shelf,          \* puck_in_shelf_left_, _middle_, _right_
    loc,            \* where each workpiece is
    ordered,        \* per place: the workpieces asked from the factory for it
    news,           \* announcements on ~/new_puck not delivered yet
    due,            \* SPAWN_PUCK_TIME has passed since puck_spawned_time_
    capped,         \* history: the workpieces ADD_CAP was published to
    returned        \* history: the workpieces a robot has put back

vars == <<shelf, loc, ordered, news, due, capped, returned>>

Slot == {"left", "middle", "right"}
Ordered == UNION {ordered[s] : s \in Slot}

\* Three workpieces out of S, one for each place: the names that spawn_puck
\* makes up do not matter, as long as they are new.
Fresh(S) == CHOOSE f \in [Slot -> S] : \A s, t \in Slot : f[s] = f[t] => s = t

\* spawn_puck for each place of the shelf.
Refill ==
    LET unborn == {w \in Wp : loc[w] = "unborn" /\ w \notin Ordered}
    IN /\ Cardinality(unborn) >= 3
       /\ ordered' = [s \in Slot |-> ordered[s] \cup {Fresh(unborn)[s]}]

\* The constructor has ordered the first three workpieces.
Init ==
    /\ shelf = [s \in Slot |-> NoWp]
    /\ loc = [w \in Wp |-> "unborn"]
    /\ ordered = [s \in Slot |-> {Fresh(Wp)[s]}]
    /\ news = {} /\ due = FALSE
    /\ capped = {} /\ returned = {}

-----------------------------------------------------------------------------
\* The pointers that are left once those to workpieces elsewhere are dropped.
StillThere == [s \in Slot |-> IF shelf[s] # NoWp /\ loc[shelf[s]] = s THEN shelf[s] ELSE NoWp]

\* Mutant: a pointer on the right is kept.
OnUpdateForgetsRight ==
    /\ due
    /\ shelf' = [StillThere EXCEPT !["right"] = shelf["right"]]
    /\ IF \A s \in Slot : shelf'[s] = NoWp
       THEN Refill /\ due' = FALSE
       ELSE UNCHANGED <<ordered, due>>
    /\ UNCHANGED <<loc, news, capped, returned>>

OnUpdate ==
    /\ due
    /\ shelf' = StillThere
    /\ IF \A s \in Slot : shelf'[s] = NoWp
       THEN Refill /\ due' = FALSE
       ELSE UNCHANGED <<ordered, due>>
    /\ UNCHANGED <<loc, news, capped, returned>>

on_new_puck(w) ==
    /\ w \in news
    /\ news' = news \ {w}
    /\ IF loc[w] \in Slot
       THEN shelf' = [shelf EXCEPT ![loc[w]] = w] /\ capped' = capped \cup {w}
       ELSE UNCHANGED <<shelf, capped>>
    /\ UNCHANGED <<loc, ordered, due, returned>>

-----------------------------------------------------------------------------
(* The environment. *)

\* The factory inserts an ordered workpiece, which announces itself.
InsertModel(w, s) ==
    /\ w \in ordered[s]
    /\ ordered' = [ordered EXCEPT ![s] = @ \ {w}]
    /\ loc' = [loc EXCEPT ![w] = s]
    /\ news' = news \cup {w}
    /\ UNCHANGED <<shelf, capped, due, returned>>

\* SPAWN_PUCK_TIME is 20 s: by then the factory has inserted what was ordered
\* and the announcements have come.
Elapse ==
    /\ ~due
    /\ Ordered \cup news = {}
    /\ due' = TRUE
    /\ UNCHANGED <<shelf, loc, ordered, news, capped, returned>>

RobotTake(w) ==
    /\ loc[w] \in Slot
    /\ loc' = [loc EXCEPT ![w] = "away"]
    /\ UNCHANGED <<shelf, ordered, news, capped, due, returned>>

\* A robot that has carried a workpiece off may bring it back, once a refill
\* under way is complete.
RobotReturn(w, s) ==
    /\ Ordered \cup news = {}
    /\ Cardinality(returned \cup {w}) <= MaxReturns
    /\ loc[w] = "away" /\ \A v \in Wp : loc[v] # s
    /\ loc' = [loc EXCEPT ![w] = s]
    /\ returned' = returned \cup {w}
    /\ UNCHANGED <<shelf, ordered, news, capped, due>>

-----------------------------------------------------------------------------
Next ==
    \/ OnUpdate \/ Elapse
    \/ \E w \in Wp : on_new_puck(w) \/ RobotTake(w)
    \/ \E w \in Wp, s \in Slot : InsertModel(w, s) \/ RobotReturn(w, s)

-----------------------------------------------------------------------------
(* Properties. *)

On(s) == {w \in Wp : loc[w] = s}
Unborn == {w \in Wp : loc[w] = "unborn" /\ w \notin Ordered}

\* Two workpieces never stand in each other: a place gets a new one only when
\* the old one has gone, also if the old one is taken before it is announced.
\* (One that a robot puts back is not on the station's list.)
OnePerPlace == \A s \in Slot : Cardinality((On(s) \cup ordered[s]) \ returned) <= 1

\* Every workpiece that waits on the shelf after its announcement has a cap,
\* unless it was carried away before the announcement came.
ShelfHasCaps == \A s \in Slot : On(s) \subseteq capped \cup news \cup returned

\* A shelf that is emptied does not stay so, also when workpieces leave it
\* before they are announced or while a refill is under way: Emptied leads to
\* Refilled.
Emptied == Ordered = {} /\ (\A s \in Slot : On(s) = {}) /\ Cardinality(Unborn) >= 3
Refilled == Ordered # {} \/ \E s \in Slot : On(s) # {}

=============================================================================
