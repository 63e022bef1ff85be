--------------------------- MODULE StorageStation ---------------------------
(***************************************************************************)
(* plugins/mps/storage_station.cpp with plugins/puck/puck.cpp: the stock   *)
(* of the storage station.  The configuration says for each slot a base,   *)
(* rings and a cap; the station has the bases spawned, and when a workpiece*)
(* announces itself it sends it the commands that put on the rest.         *)
(* process_command_in() is empty, and nobody calls retrieve_puck().        *)
(***************************************************************************)
EXTENDS Naturals, Sequences, FiniteSets, SequencesExt

CONSTANTS Slots,     \* the configured slots
          Pucks,     \* the workpieces of the world, the stock and one of another machine
          NoName

\* What plugins/mps/storage-station/slot<n> may list; "empty" is the empty word.
Listings == {<<"RED", "BLACK">>, <<"BLACK", "BLUE", "GRAY">>,
             <<"SILVER", "BLUE", "GREEN", "BLACK">>, <<"RED", "empty">>, <<"PINK", "GRAY">>,
             <<"RED", "BLUE">>, <<"BLACK">>}

VARIABLES
    listing,    \* the configuration
    spawned,    \* pucks_spawned
    puckName,   \* storage_[i].puck_name
    puck,       \* per workpiece: "none", "ordered", "loaded" or "announced", and its parts
    news,       \* announcements that have not been delivered
    cmds,       \* per workpiece: commands that have not been delivered
    delivered   \* per workpiece: the delivery it has reported
storageVars == <<listing, spawned, puckName, puck, news, cmds, delivered>>

(* init_storage(): a colour that is not known leaves the member of the slot *)
(* uninitialised: it may be read as any colour.                            *)

BaseColors == {"RED", "BLACK", "SILVER"}
BaseColor(l) == IF l[1] \in BaseColors THEN {l[1]} ELSE BaseColors \cup {"unsupported"}
\* The loop over the words between base and cap; those that are no ring are left out.
RingsRead(l) ==
    LET read[j \in 1 .. Len(l)] ==
            IF j = 1 THEN <<>>
            ELSE IF l[j] \in {"YELLOW", "ORANGE", "GREEN", "BLUE"} THEN Append(read[j - 1], l[j])
            ELSE read[j - 1]
    IN read[Len(l) - 1]

\* Mutant: a single ring is not read.
RingColorsTwo(l) == IF Len(l) > 3 THEN RingsRead(l) ELSE <<>>

RingColors(l) == IF Len(l) > 2 THEN RingsRead(l) ELSE <<>>
CapColor(l) ==
    CASE Last(l) = "BLACK" -> {"BLACK"} [] Last(l) = "GRAY" -> {"GREY"} [] Last(l) = "empty" -> {"NONE"}
      [] OTHER -> {"BLACK", "GREY", "NONE"}

Bare == [life |-> "none", base |-> NoName, rings |-> <<>>, haveCap |-> FALSE, cap |-> NoName]

Init ==
    /\ listing \in [Slots -> Listings]
    /\ spawned = FALSE
    /\ puckName = [i \in Slots |-> NoName]
    /\ puck = [w \in Pucks |-> Bare]
    /\ news = <<>> /\ cmds = [w \in Pucks |-> <<>>]
    /\ delivered = [w \in Pucks |-> <<>>]

\* OnUpdate(), ten seconds after the station was made: spawn_puck() for every
\* slot, which gives no name for a colour it does not support.
OnUpdate ==
    /\ ~spawned /\ spawned' = TRUE
    /\ \E base \in [Slots -> BaseColors \cup {"unsupported"}] :
        /\ \A i \in Slots : base[i] \in BaseColor(listing[i])
        /\ LET new == CHOOSE f \in [Slots -> Pucks] : \A i, j \in Slots : i # j => f[i] # f[j]
               made == {i \in Slots : base[i] \in BaseColors}
           IN /\ puckName' = [i \in Slots |-> IF i \in made THEN new[i] ELSE NoName]
              /\ puck' = [w \in Pucks |->
                     IF \E i \in made : new[i] = w
                     THEN [Bare EXCEPT !.life = "ordered",
                                       !.base = base[CHOOSE i \in made : new[i] = w]]
                     ELSE puck[w]]
    /\ UNCHANGED <<listing, news, cmds, delivered>>

\* Puck::Load(), for the stock and for a workpiece of another machine.
Load(w) ==
    /\ \/ puck[w].life = "ordered" /\ puck' = [puck EXCEPT ![w].life = "loaded"]
       \/ /\ puck[w].life = "none" /\ spawned
          /\ puck' = [puck EXCEPT ![w].life = "loaded", ![w].base = "RED"]
    /\ UNCHANGED <<listing, spawned, puckName, news, cmds, delivered>>

\* Puck::OnUpdate() announces the workpiece once.
Announce(w) ==
    /\ puck[w].life = "loaded"
    /\ puck' = [puck EXCEPT ![w].life = "announced"]
    /\ news' = Append(news, w)
    /\ UNCHANGED <<listing, spawned, puckName, cmds, delivered>>

Command(name, color) == [command |-> name, color |-> color]

\* on_new_puck(): addRings(), addCap(); store_puck() finds the name stored already.
on_new_puck ==
    /\ news # <<>>
    /\ news' = Tail(news)
    /\ LET mine == {i \in Slots : puckName[i] = Head(news)}
       IN IF mine = {} THEN UNCHANGED cmds
          ELSE LET l == listing[CHOOSE i \in mine : TRUE]
                   rings == RingColors(l)
               IN \E cap \in CapColor(l) :
                      cmds' = [cmds EXCEPT ![Head(news)] =
                          @ \o [n \in 1 .. Len(rings) |-> Command("ADD_RING", rings[n])]
                            \o <<Command("ADD_CAP", cap)>>]
    /\ UNCHANGED <<listing, spawned, puckName, puck, delivered>>

(* Puck::on_command_msg() *)

add_ring(w, color) == puck' = [puck EXCEPT ![w].rings = Append(@, color)] /\ UNCHANGED delivered
add_cap(w, color) == puck' = [puck EXCEPT ![w].haveCap = TRUE, ![w].cap = color] /\ UNCHANGED delivered

\* The product as SetOrderDeliveredByColor reports it: colours that are none of
\* the rulebook's are left out.
deliver(w) ==
    /\ delivered' = [delivered EXCEPT ![w] =
           <<"BASE", puck[w].base>> \o puck[w].rings
               \o IF puck[w].haveCap /\ puck[w].cap \in {"GREY", "BLACK"} THEN <<"CAP", puck[w].cap>> ELSE <<>>]
    /\ UNCHANGED puck

on_command_msg(w) ==
    /\ cmds[w] # <<>>
    /\ LET c == Head(cmds[w])
       IN CASE c.command = "ADD_RING" -> add_ring(w, c.color)
            [] c.command = "ADD_CAP" -> add_cap(w, c.color)
            [] c.command = "DELIVER" -> deliver(w)
    /\ cmds' = [cmds EXCEPT ![w] = Tail(@)]
    /\ UNCHANGED <<listing, spawned, puckName, news>>

\* A robot has brought the workpiece to a delivery station (see DeliveryStation).
Bring(w) ==
    /\ puck[w].life = "announced" /\ \A n \in DOMAIN news : news[n] # w
    /\ delivered[w] = <<>> /\ \A n \in DOMAIN cmds[w] : cmds[w][n].command # "DELIVER"
    /\ cmds' = [cmds EXCEPT ![w] = Append(@, Command("DELIVER", NoName))]
    /\ UNCHANGED <<listing, spawned, puckName, puck, news, delivered>>

Next == OnUpdate \/ on_new_puck
        \/ \E w \in Pucks : Load(w) \/ Announce(w) \/ on_command_msg(w) \/ Bring(w)

-----------------------------------------------------------------------------
(* Properties. *)

\* What the words of a listing mean: base, rings from the lowest up, cap.
Product(l) ==
    <<"BASE", Head(l)>> \o SubSeq(l, 2, Len(l) - 1)
        \o CASE Last(l) = "empty" -> <<>> [] Last(l) = "GRAY" -> <<"CAP", "GREY">> [] OTHER -> <<"CAP", Last(l)>>

\* A workpiece of the stock is delivered as the product its slot was configured
\* with, and nothing is put on the workpieces of other machines, whatever the
\* order in which workpieces are made, announced and commanded.  (A listing of
\* one word is read as base and cap; one with other words promises nothing.)
StockAsConfigured ==
    \A w \in Pucks : delivered[w] # <<>> =>
        LET mine == {i \in Slots : puckName[i] = w}
        IN IF mine = {} THEN delivered[w] = <<"BASE", "RED">>
           ELSE LET l == listing[CHOOSE i \in mine : TRUE]
                IN Len(l) > 1 /\ Head(l) \in BaseColors /\ Last(l) \in {"BLACK", "GRAY", "empty"}
                       => delivered[w] = Product(l)

=============================================================================
