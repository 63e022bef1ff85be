-------------------------- MODULE MpsLoader_proofs --------------------------
(***************************************************************************)
(* Proofs about the machines that module MpsLoader loads, of whatever type,*)
(* with any number of workpieces, commands and caps.  What the steps of    *)
(* the four classes have in common is stated once, as MoveStep (what they  *)
(* do to the workpieces and the pointers) and CountStep (what they do to   *)
(* the commands); the invariants rest on these two.                        *)
(***************************************************************************)
EXTENDS MpsLoader, Integers, FiniteSetTheorems, SequenceTheorems, TLAPS

\* The workpieces of the machine.
W == IF type = "base" THEN Wp ELSE Brought

MIDDLE == B!MIDDLE

-----------------------------------------------------------------------------
(* The inductive invariant. *)

\* move_conveyor holds a workpiece, or has the register still to read.
Carrying == {"teleport", "ack", "release", "store"}

MachineTypeOK ==
    /\ type \in {"base", "ring", "cap", "delivery"}
    /\ inp \in W \cup {NoWp} /\ mid \in W \cup {NoWp}
    /\ loc \in [W -> B!Place] /\ subscribed \subseteq Wp
    /\ pc \in Carrying => wp \in W
    /\ sent \in Nat /\ moves \in Nat /\ spawns \in Nat
    /\ color \in Nat /\ rings \in Seq([wp : W, color : Nat])
    /\ delivered \in Seq(W)

\* A workpiece on its way in stays in the middle until wp_in_middle_ has it,
\* or until its pose on the slide comes after all.
Arrived ==
    pc \in {"ack", "release", "store"} /\ side = MIDDLE =>
        loc[wp] = "middle" \/ (type = "ring" /\ wp \in onSlide)

\* The command that is being executed is in its register.
Reading == {"moving", "teleport", "dispense", "ringAction"}
InRegister == pc \in Reading => actionId # 0

\* A command in the register that is yet to be executed, and one that has left
\* the register before it is executed, are among those sent.
Executed == {"ack", "assign", "clearAction"}
Owing == {"ringPayload1", "ringPayload2", "ringMount", "deliver", "announce"}

Credit ==
    (IF actionId # 0 /\ pc \notin Executed THEN 1 ELSE 0) + (IF pc \in Owing THEN 1 ELSE 0)

Count == moves + spawns + Len(rings) + Len(delivered)
Accounted == Count + Credit <= sent

CapTypeOK ==
    /\ stored \in Caps \cup {NoCap}
    /\ cap \in [Brought -> Caps \cup {NoCap}]
    /\ cmds \in [Brought -> Seq([command : {"ADD_CAP", "REMOVE_CAP"}, color : Caps \cup {NoCap}])]
    /\ results \in [Brought -> Seq(Caps \cup {NoCap})]
    /\ type # "cap" => stored = NoCap

\* All the places where cap c is are one.
OneHolder(c) == \A x, y \in C!Holders(c) : x = y

MachineIInv == MachineTypeOK /\ Arrived /\ MiddleIsTrue /\ InRegister /\ Accounted
CapIInv == CapTypeOK /\ \A c \in Caps : OneHolder(c)
IInv == MachineIInv /\ CapIInv

-----------------------------------------------------------------------------
(* What a step of a machine may do to the workpieces and the pointers. *)

\* Between two commands, or while an operation of a station is executed there;
\* the delivery station moves what is on its input to the gate.
Elsewhere ==
    /\ pc \notin Carrying /\ pc' \notin Carrying
    /\ inp' \in {inp, NoWp} /\ mid' = mid
    /\ \/ loc' = loc
       \/ type = "delivery" /\ \E w \in W : loc' = [loc EXCEPT ![w] = "gate"]

Take ==
    /\ pc = "moving" /\ pc' = "teleport"
    /\ wp' \in {inp, mid} \ {NoWp}
    /\ UNCHANGED <<inp, mid, loc>>

Teleport ==
    /\ pc = "teleport" /\ pc' = "ack"
    /\ loc' = [loc EXCEPT ![wp] = B!TargetPlace(side)]
    /\ UNCHANGED <<inp, mid, wp, side>>

Acknowledge ==
    /\ pc = "ack" /\ pc' = "release"
    /\ UNCHANGED <<inp, mid, loc, wp, side>>

Release ==
    /\ pc = "release" /\ pc' = "store"
    /\ inp' \in {inp, NoWp}
    /\ mid' = IF side = MIDDLE THEN mid ELSE NoWp
    /\ UNCHANGED <<loc, wp, side>>

Store ==
    /\ pc = "store" /\ pc' \notin Carrying
    /\ inp' \in {inp, wp}
    /\ mid' = IF side = MIDDLE THEN wp ELSE mid
    /\ UNCHANGED loc

\* Another thread or a robot: it may wake the worker, and takes nothing from the
\* middle or the gate but what the ring station has on its slide.
Beside ==
    /\ pc' = pc \/ (pc = "wait" /\ pc' = "cmd")
    /\ inp' \in {inp, NoWp} \/ \E w \in W : inp' = w
    /\ \/ loc' = loc
       \/ \E w \in W, place \in B!Place :
            /\ loc' = [loc EXCEPT ![w] = place]
            /\ \/ place = "middle" \/ loc[w] \notin {"middle", "gate"}
               \/ type = "ring" /\ w \in onSlide'
    /\ UNCHANGED <<mid, wp, side>>

\* A dispensed base announces itself.
Announced ==
    /\ mid' \in W /\ loc[mid'] = "middle"
    /\ UNCHANGED <<inp, loc, pc, wp, side>>

MoveStep ==
    /\ type' = type /\ onSlide \subseteq onSlide' /\ subscribed' \subseteq Wp
    /\ \/ Elsewhere \/ Take \/ Teleport \/ Acknowledge \/ Release \/ Store
       \/ Beside \/ Announced

\* What a step may do to the commands.
Stays == UNCHANGED <<moves, spawns, rings, delivered>>

NothingCounts ==
    /\ Stays /\ sent' = sent /\ actionId' \in {actionId, 0}
    /\ pc \in Executed /\ actionId' # 0 => pc' \in Executed
    /\ pc' \in Owing => pc \in Owing
    /\ pc' \in Reading => actionId' = actionId /\ (pc \in Reading \/ actionId # 0)

Sends ==
    /\ actionId = 0 /\ actionId' # 0 /\ sent' = sent + 1 /\ pc' = pc
    /\ Stays

Moves ==
    /\ pc = "teleport" /\ pc' = "ack" /\ moves' = moves + 1
    /\ UNCHANGED <<actionId, sent, spawns, rings, delivered>>

Spawns ==
    /\ pc = "dispense" /\ pc' = "assign" /\ spawns' = spawns + 1
    /\ UNCHANGED <<actionId, sent, moves, rings, delivered>>

Clears ==
    /\ actionId # 0 /\ actionId' = 0 /\ pc \notin Executed \cup Owing /\ pc' \in Owing
    /\ Stays /\ sent' = sent

MountsRing ==
    /\ pc = "ringMount" /\ pc' \notin Owing \cup Reading \cup Executed
    /\ mid \in W /\ rings' = Append(rings, [wp |-> mid, color |-> color])
    /\ UNCHANGED <<actionId, sent, moves, spawns, delivered>>

Delivers ==
    /\ pc = "announce" /\ pc' \notin Owing \cup Reading \cup Executed
    /\ inp \in W /\ delivered' = Append(delivered, inp)
    /\ UNCHANGED <<actionId, sent, moves, spawns, rings>>

CountStep ==
    /\ type' = type /\ color' \in Nat
    /\ \/ NothingCounts \/ Sends \/ Moves \/ Spawns \/ Clears \/ MountsRing \/ Delivers

-----------------------------------------------------------------------------
(* Such steps keep the invariant. *)

\* The pointers keep their types.
LEMMA MoveTypes ==
    ASSUME MachineTypeOK, MoveStep
    PROVE  /\ inp' \in W \cup {NoWp} /\ mid' \in W \cup {NoWp} /\ W' = W
           /\ loc' \in [W -> B!Place] /\ subscribed' \subseteq Wp
           /\ pc' \in Carrying => wp' \in W
<1>1. W' = W /\ subscribed' \subseteq Wp
  BY DEF MoveStep, W
<1>2. B!TargetPlace(side) \in B!Place
  BY DEF B!TargetPlace, B!Place
<1>3. CASE Elsewhere
  <2>1. "gate" \in B!Place /\ loc \in [W -> B!Place]
    BY DEF B!Place, MachineTypeOK
  <2>2. loc' \in [W -> B!Place]
    BY <1>3, <2>1 DEF Elsewhere
  <2>. QED  BY <1>1, <1>3, <2>2 DEF MachineTypeOK, Elsewhere
<1>4. CASE Take  BY <1>1, <1>4 DEF MachineTypeOK, Take, Carrying
<1>5. CASE Teleport  BY <1>1, <1>2, <1>5 DEF MachineTypeOK, Teleport, Carrying
<1>6. CASE Acknowledge  BY <1>1, <1>6 DEF MachineTypeOK, Acknowledge, Carrying
<1>7. CASE Release  BY <1>1, <1>7 DEF MachineTypeOK, Release, Carrying
<1>8. CASE Store  BY <1>1, <1>8 DEF MachineTypeOK, Store, Carrying
<1>9. CASE Beside  BY <1>1, <1>9 DEF MachineTypeOK, Beside, Carrying
<1>10. CASE Announced  BY <1>1, <1>10 DEF MachineTypeOK, Announced, Carrying
<1>. QED  BY <1>3, <1>4, <1>5, <1>6, <1>7, <1>8, <1>9, <1>10 DEF MoveStep

\* The middle: only the worker takes a workpiece out of it, and then the
\* pointer still names it until it is reset.
LEMMA MiddleStep ==
    ASSUME MachineTypeOK, Arrived, MiddleIsTrue, MoveStep
    PROVE  Arrived' /\ MiddleIsTrue'
<1>. USE DEF MIDDLE, B!MIDDLE, Arrived, MiddleIsTrue, B!Moved
<1>0. NoWp \notin W /\ type' = type /\ onSlide \subseteq onSlide'
  BY LoaderAssumption DEF W, MoveStep
<1>1. loc \in [W -> B!Place] /\ mid \in W \cup {NoWp}
  BY DEF MachineTypeOK
<1>3. CASE Elsewhere
  <2>1. CASE loc' = loc  BY <1>0, <1>3, <2>1 DEF Elsewhere, Carrying
  <2>2. ASSUME type = "delivery", NEW w \in W, loc' = [loc EXCEPT ![w] = "gate"]
        PROVE  Arrived' /\ MiddleIsTrue'
    <3>1. \A v \in W : loc'[v] = loc[v] \/ loc'[v] = "gate"
      BY <1>1, <2>2
    <3>. QED  BY <1>0, <1>1, <1>3, <2>2, <3>1 DEF Elsewhere, Carrying
  <2>. QED  BY <1>3, <2>1, <2>2 DEF Elsewhere
<1>4. CASE Take  BY <1>0, <1>4 DEF Take
<1>5. CASE Teleport
  <2>1. wp \in W /\ loc \in [W -> B!Place] /\ mid \in W \cup {NoWp}
    BY <1>5 DEF MachineTypeOK, Teleport, Carrying
  <2>2. side = MIDDLE => loc'[wp] = "middle"
    BY <1>5, <2>1 DEF Teleport, B!TargetPlace, B!INPUT
  <2>3. mid # NoWp /\ mid # wp => loc'[mid] = loc[mid]
    BY <1>5, <2>1 DEF Teleport
  <2>. QED  BY <1>0, <1>5, <2>2, <2>3 DEF Teleport
<1>6. CASE Acknowledge  BY <1>0, <1>6 DEF Acknowledge
<1>7. CASE Release  BY <1>0, <1>7 DEF Release
<1>8. CASE Store  BY <1>0, <1>8 DEF Store, Carrying
<1>9. CASE Beside
  <2>1. \A v \in W : loc[v] \in {"middle", "gate"} =>
            loc'[v] \in {loc[v], "middle"} \/ (type = "ring" /\ v \in onSlide')
    BY <1>1, <1>9 DEF Beside
  <2>2. pc \in Carrying => wp \in W
    BY DEF MachineTypeOK
  <2>3. mid \in W \cup {NoWp}
    BY DEF MachineTypeOK
  <2>. QED  BY <1>0, <1>9, <2>1, <2>2, <2>3 DEF Beside, Carrying
<1>10. CASE Announced  BY <1>0, <1>10 DEF Announced
<1>. QED  BY <1>3, <1>4, <1>5, <1>6, <1>7, <1>8, <1>9, <1>10 DEF MoveStep

\* Commands: the sum of what was executed and what still will be grows only
\* when the client sends one.
LEMMA AccountStep ==
    ASSUME MachineTypeOK, InRegister, Accounted, CountStep, W' = W
    PROVE  /\ sent' \in Nat /\ moves' \in Nat /\ spawns' \in Nat /\ type' = type
           /\ color' \in Nat /\ rings' \in Seq([wp : W, color : Nat]) /\ delivered' \in Seq(W)
           /\ InRegister' /\ Accounted'
<1>. DEFINE U == IF actionId # 0 /\ pc \notin Executed THEN 1 ELSE 0
            P == IF pc \in Owing THEN 1 ELSE 0
<1>0. /\ sent \in Nat /\ moves \in Nat /\ spawns \in Nat /\ color \in Nat
      /\ rings \in Seq([wp : W, color : Nat]) /\ delivered \in Seq(W)
      /\ Len(rings) \in Nat /\ Len(delivered) \in Nat
      /\ type' = type /\ color' \in Nat
  BY DEF MachineTypeOK, CountStep
<1>a. moves + spawns + Len(rings) + Len(delivered) + (U + P) <= sent
  BY DEF Accounted, Count, Credit
<1>b. U \in {0, 1} /\ P \in {0, 1} /\ U' \in {0, 1} /\ P' \in {0, 1}
  OBVIOUS
<1>c. SUFFICES /\ sent' \in Nat /\ moves' \in Nat /\ spawns' \in Nat
               /\ rings' \in Seq([wp : W, color : Nat]) /\ delivered' \in Seq(W)
               /\ InRegister'
               /\ moves' + spawns' + Len(rings') + Len(delivered') + (U' + P') <= sent'
  BY <1>0 DEF Accounted, Count, Credit
<1>1. CASE NothingCounts
  <2>1. U' <= U /\ P' <= P
    BY <1>1 DEF NothingCounts
  <2>2. InRegister'
    BY <1>1 DEF NothingCounts, InRegister
  <2>. HIDE DEF U, P
  <2>3. UNCHANGED <<sent, moves, spawns, rings, delivered>>
    BY <1>1 DEF NothingCounts, Stays
  <2>. QED  BY <1>0, <1>a, <1>b, <2>1, <2>2, <2>3
<1>2. CASE Sends
  <2>1. U = 0 /\ P' = P
    BY <1>2 DEF Sends
  <2>2. InRegister'
    BY <1>2 DEF Sends, InRegister
  <2>. HIDE DEF U, P
  <2>3. UNCHANGED <<moves, spawns, rings, delivered>> /\ sent' = sent + 1
    BY <1>2 DEF Sends, Stays
  <2>. QED  BY <1>0, <1>a, <1>b, <2>1, <2>2, <2>3
<1>3. CASE Moves
  <2>1. U = 1 /\ U' = 0 /\ P' = 0
    BY <1>3 DEF Moves, InRegister, Reading, Executed, Owing
  <2>2. InRegister'
    BY <1>3 DEF Moves, InRegister, Reading
  <2>. HIDE DEF U, P
  <2>3. UNCHANGED <<sent, spawns, rings, delivered>> /\ moves' = moves + 1
    BY <1>3 DEF Moves
  <2>. QED  BY <1>0, <1>a, <1>b, <2>1, <2>2, <2>3
<1>4. CASE Spawns
  <2>1. U = 1 /\ U' = 0 /\ P' = 0
    BY <1>4 DEF Spawns, InRegister, Reading, Executed, Owing
  <2>2. InRegister'
    BY <1>4 DEF Spawns, InRegister, Reading
  <2>. HIDE DEF U, P
  <2>3. UNCHANGED <<sent, moves, rings, delivered>> /\ spawns' = spawns + 1
    BY <1>4 DEF Spawns
  <2>. QED  BY <1>0, <1>a, <1>b, <2>1, <2>2, <2>3
<1>5. CASE Clears
  <2>1. U = 1 /\ U' = 0 /\ P = 0
    BY <1>5 DEF Clears
  <2>2. InRegister'
    BY <1>5 DEF Clears, InRegister, Owing, Reading
  <2>. HIDE DEF U, P
  <2>3. UNCHANGED <<sent, moves, spawns, rings, delivered>>
    BY <1>5 DEF Clears, Stays
  <2>. QED  BY <1>0, <1>a, <1>b, <2>1, <2>2, <2>3
<1>6. CASE MountsRing
  <2>1. U' <= U /\ P = 1 /\ P' = 0
    BY <1>6 DEF MountsRing, Owing, Executed
  <2>2. InRegister'
    BY <1>6 DEF MountsRing, InRegister
  <2>. HIDE DEF U, P
  <2>3. UNCHANGED <<sent, moves, spawns, delivered>>
    BY <1>6 DEF MountsRing
  <2>4. [wp |-> mid, color |-> color] \in [wp : W, color : Nat]
    BY <1>0, <1>6 DEF MountsRing
  <2>5. rings' \in Seq([wp : W, color : Nat]) /\ Len(rings') = Len(rings) + 1
    BY <1>0, <1>6, <2>4 DEF MountsRing
  <2>. QED  BY <1>0, <1>a, <1>b, <2>1, <2>2, <2>3, <2>5
<1>7. CASE Delivers
  <2>1. U' <= U /\ P = 1 /\ P' = 0
    BY <1>7 DEF Delivers, Owing, Executed
  <2>2. InRegister'
    BY <1>7 DEF Delivers, InRegister
  <2>. HIDE DEF U, P
  <2>3. UNCHANGED <<sent, moves, spawns, rings>>
    BY <1>7 DEF Delivers
  <2>5. delivered' \in Seq(W) /\ Len(delivered') = Len(delivered) + 1
    BY <1>0, <1>7 DEF Delivers
  <2>. QED  BY <1>0, <1>a, <1>b, <2>1, <2>2, <2>3, <2>5
<1>. QED  BY <1>1, <1>2, <1>3, <1>4, <1>5, <1>6, <1>7 DEF CountStep

\* Both together.
LEMMA MachineStep ==
    ASSUME MachineIInv, MoveStep, CountStep  PROVE MachineIInv'
<1>1. W' = W
  BY DEF MoveStep, W
<1>2. MachineTypeOK'
  BY <1>1, MoveTypes, AccountStep DEF MachineIInv, MachineTypeOK
<1>. QED  BY <1>1, <1>2, MiddleStep, AccountStep DEF MachineIInv

-----------------------------------------------------------------------------
(* The steps of the four types are such steps. *)

\* What the base class leaves alone.
Framed == UNCHANGED <<type, spawns, rings, delivered, color, onSlide, subscribed>>

\* The base station: the steps of its base class.
LEMMA BaseShared ==
    ASSUME MachineIInv, type = "base", Framed, B!Next
    PROVE  MoveStep /\ CountStep
<1>. USE DEF Stays, Carrying, Executed, Owing, Reading, B!nodes, B!slots, B!world, B!locals, B!history
<1>0. /\ W = Wp /\ MachineTypeOK
      /\ UNCHANGED <<type, spawns, rings, delivered, color, onSlide, subscribed>> /\ subscribed \subseteq Wp
      /\ color \in Nat
  BY DEF MachineIInv, MachineTypeOK, W, Framed
<1>f. SUFFICES
        /\ Elsewhere \/ Take \/ Teleport \/ Acknowledge \/ Release \/ Store \/ Beside \/ Announced
        /\ NothingCounts \/ Sends \/ Moves \/ Spawns \/ Clears \/ MountsRing \/ Delivers
  BY <1>0 DEF MoveStep, CountStep
<1>1. CASE B!CheckShutdown
  BY <1>0, <1>1 DEF B!CheckShutdown, Elsewhere, NothingCounts
<1>2. CASE B!EnterWait
  BY <1>0, <1>2 DEF B!EnterWait, Elsewhere, NothingCounts
<1>3. CASE B!Wake
  BY <1>0, <1>3 DEF B!Wake, Elsewhere, NothingCounts
<1>4. CASE B!ProcessCommandIn
  BY <1>0, <1>4 DEF B!ProcessCommandIn, Elsewhere, NothingCounts, B!IsOperation
<1>5. CASE B!MoveTake
  <2>1. B!SourceSlot(side) \in {inp, mid, NoWp}
    BY DEF B!SourceSlot
  <2>2. Elsewhere \/ Take
    BY <1>5, <2>1 DEF B!MoveTake, Elsewhere, Take
  <2>. QED  BY <1>0, <1>5, <2>2 DEF B!MoveTake, NothingCounts
<1>6. CASE B!MoveTeleport
  BY <1>0, <1>6 DEF B!MoveTeleport, Teleport, Moves
<1>7. CASE B!MoveAck
  BY <1>0, <1>7 DEF B!MoveAck, Acknowledge, NothingCounts
<1>8. CASE B!MoveRelease
  BY <1>0, <1>8 DEF B!MoveRelease, Release, NothingCounts, MIDDLE, B!MIDDLE
<1>9. CASE B!MoveStore
  BY <1>0, <1>9 DEF B!MoveStore, Store, NothingCounts, MIDDLE, B!MIDDLE, B!INPUT, B!OUTPUT
<1>10. CASE B!MoveReady
  BY <1>0, <1>10 DEF B!MoveReady, Elsewhere, NothingCounts
<1>11. CASE B!MoveFree
  BY <1>0, <1>11 DEF B!MoveFree, Elsewhere, NothingCounts
<1>12. CASE B!ReturnToLoop
  BY <1>0, <1>12 DEF B!ReturnToLoop, Elsewhere, NothingCounts
<1>13. ASSUME NEW w \in Wp, B!OnPuckMsg(w)
      PROVE  Beside /\ NothingCounts
  BY <1>0, <1>13 DEF B!OnPuckMsg, B!TestInput, B!UseInput, B!AssignInput, B!NameOfNull,
                     B!LogInput, B!CompareInput, Beside, NothingCounts
<1>14. ASSUME B!Destructor
      PROVE  Beside /\ NothingCounts
  BY <1>0, <1>14 DEF B!Destructor, B!SetShutdown, B!NotifyShutdown, B!JoinAndStop, Beside, NothingCounts
<1>15. ASSUME B!DataChange
      PROVE  Beside /\ NothingCounts
  BY <1>0, <1>15 DEF B!DataChange, Beside, NothingCounts
<1>16. ASSUME NEW a \in BaseIds, NEW p, B!SendCommand(a, p)
      PROVE  Beside /\ Sends
  BY <1>0, <1>16, LoaderAssumption DEF B!SendCommand, Beside, Sends
<1>17. ASSUME NEW w \in Wp, B!RobotPlace(w) \/ B!RobotTake(w)
      PROVE  Beside /\ NothingCounts
  <2>1. \E place \in B!Place :
            loc' = [loc EXCEPT ![w] = place] /\ loc[w] \notin {"middle", "gate"}
    BY <1>17 DEF B!RobotPlace, B!RobotTake, B!Reachable, B!Place
  <2>. QED  BY <1>0, <1>17, <2>1 DEF B!RobotPlace, B!RobotTake, Beside, NothingCounts
<1>18. ASSUME NEW w \in Wp, B!PublishPose(w)
      PROVE  Beside /\ NothingCounts
  BY <1>0, <1>18 DEF B!PublishPose, Beside, NothingCounts
<1>. QED
  BY <1>1, <1>2, <1>3, <1>4, <1>5, <1>6, <1>7, <1>8, <1>9, <1>10, <1>11, <1>12, <1>13, <1>14,
     <1>15, <1>16, <1>17, <1>18
  DEF B!Next, B!WorkerLoop, B!MoveConveyor, B!Environment

\* The ring station: the steps of its base class.
LEMMA RingShared ==
    ASSUME MachineIInv, type = "ring", Framed, R!Next
    PROVE  MoveStep /\ CountStep
<1>. USE DEF Stays, Carrying, Executed, Owing, Reading, R!nodes, R!slots, R!world, R!locals, R!history
<1>0. /\ W = Brought /\ MachineTypeOK
      /\ UNCHANGED <<type, spawns, rings, delivered, color, onSlide, subscribed>> /\ subscribed \subseteq Wp
      /\ color \in Nat
  BY DEF MachineIInv, MachineTypeOK, W, Framed
<1>f. SUFFICES
        /\ Elsewhere \/ Take \/ Teleport \/ Acknowledge \/ Release \/ Store \/ Beside \/ Announced
        /\ NothingCounts \/ Sends \/ Moves \/ Spawns \/ Clears \/ MountsRing \/ Delivers
  BY <1>0 DEF MoveStep, CountStep
<1>1. CASE R!CheckShutdown
  BY <1>0, <1>1 DEF R!CheckShutdown, Elsewhere, NothingCounts
<1>2. CASE R!EnterWait
  BY <1>0, <1>2 DEF R!EnterWait, Elsewhere, NothingCounts
<1>3. CASE R!Wake
  BY <1>0, <1>3 DEF R!Wake, Elsewhere, NothingCounts
<1>4. CASE R!ProcessCommandIn
  BY <1>0, <1>4 DEF R!ProcessCommandIn, Elsewhere, NothingCounts, R!IsOperation
<1>5. CASE R!MoveTake
  <2>1. R!SourceSlot(side) \in {inp, mid, NoWp}
    BY DEF R!SourceSlot
  <2>2. Elsewhere \/ Take
    BY <1>5, <2>1 DEF R!MoveTake, Elsewhere, Take
  <2>. QED  BY <1>0, <1>5, <2>2 DEF R!MoveTake, NothingCounts
<1>6. CASE R!MoveTeleport
  <2>1. R!TargetPlace(side) = B!TargetPlace(side)
    BY DEF R!TargetPlace, B!TargetPlace, R!MIDDLE, R!INPUT, B!MIDDLE, B!INPUT
  <2>. QED  BY <1>0, <1>6, <2>1 DEF R!MoveTeleport, Teleport, Moves
<1>7. CASE R!MoveAck
  BY <1>0, <1>7 DEF R!MoveAck, Acknowledge, NothingCounts
<1>8. CASE R!MoveRelease
  BY <1>0, <1>8 DEF R!MoveRelease, Release, NothingCounts, MIDDLE, R!MIDDLE, B!MIDDLE
<1>9. CASE R!MoveStore
  BY <1>0, <1>9 DEF R!MoveStore, Store, NothingCounts, MIDDLE, R!INPUT, R!OUTPUT, R!MIDDLE, B!MIDDLE
<1>10. CASE R!MoveReady
  BY <1>0, <1>10 DEF R!MoveReady, Elsewhere, NothingCounts
<1>11. CASE R!MoveFree
  BY <1>0, <1>11 DEF R!MoveFree, Elsewhere, NothingCounts
<1>12. CASE R!ReturnToLoop
  BY <1>0, <1>12 DEF R!ReturnToLoop, Elsewhere, NothingCounts
<1>13. ASSUME NEW w \in Brought, R!OnPuckMsg(w)
      PROVE  Beside /\ NothingCounts
  BY <1>0, <1>13 DEF R!OnPuckMsg, R!TestInput, R!UseInput, R!AssignInput, R!NameOfNull,
                     R!LogInput, R!CompareInput, Beside, NothingCounts
<1>14. ASSUME R!Destructor
      PROVE  Beside /\ NothingCounts
  BY <1>0, <1>14 DEF R!Destructor, R!SetShutdown, R!NotifyShutdown, R!JoinAndStop, Beside, NothingCounts
<1>15. ASSUME R!DataChange
      PROVE  Beside /\ NothingCounts
  BY <1>0, <1>15 DEF R!DataChange, Beside, NothingCounts
<1>16. ASSUME NEW a \in RingIds, NEW p, R!SendCommand(a, p)
      PROVE  Beside /\ Sends
  BY <1>0, <1>16, LoaderAssumption DEF R!SendCommand, Beside, Sends
<1>17. ASSUME NEW w \in Brought, R!RobotPlace(w) \/ R!RobotTake(w)
      PROVE  Beside /\ NothingCounts
  <2>1. \E place \in B!Place :
            loc' = [loc EXCEPT ![w] = place] /\ loc[w] \notin {"middle", "gate"}
    BY <1>17 DEF R!RobotPlace, R!RobotTake, R!Reachable, B!Place
  <2>. QED  BY <1>0, <1>17, <2>1 DEF R!RobotPlace, R!RobotTake, Beside, NothingCounts
<1>18. ASSUME NEW w \in Brought, R!PublishPose(w)
      PROVE  Beside /\ NothingCounts
  BY <1>0, <1>18 DEF R!PublishPose, Beside, NothingCounts
<1>. QED
  BY <1>1, <1>2, <1>3, <1>4, <1>5, <1>6, <1>7, <1>8, <1>9, <1>10, <1>11, <1>12, <1>13, <1>14,
     <1>15, <1>16, <1>17, <1>18
  DEF R!Next, R!WorkerLoop, R!MoveConveyor, R!Environment

\* The cap station: the steps of its base class.
LEMMA CapShared ==
    ASSUME MachineIInv, type = "cap", Framed, C!Next
    PROVE  MoveStep /\ CountStep
<1>. USE DEF Stays, Carrying, Executed, Owing, Reading, C!nodes, C!slots, C!world, C!locals, C!history
<1>0. /\ W = Brought /\ MachineTypeOK
      /\ UNCHANGED <<type, spawns, rings, delivered, color, onSlide, subscribed>> /\ subscribed \subseteq Wp
      /\ color \in Nat
  BY DEF MachineIInv, MachineTypeOK, W, Framed
<1>f. SUFFICES
        /\ Elsewhere \/ Take \/ Teleport \/ Acknowledge \/ Release \/ Store \/ Beside \/ Announced
        /\ NothingCounts \/ Sends \/ Moves \/ Spawns \/ Clears \/ MountsRing \/ Delivers
  BY <1>0 DEF MoveStep, CountStep
<1>1. CASE C!CheckShutdown
  BY <1>0, <1>1 DEF C!CheckShutdown, Elsewhere, NothingCounts
<1>2. CASE C!EnterWait
  BY <1>0, <1>2 DEF C!EnterWait, Elsewhere, NothingCounts
<1>3. CASE C!Wake
  BY <1>0, <1>3 DEF C!Wake, Elsewhere, NothingCounts
<1>4. CASE C!ProcessCommandIn
  BY <1>0, <1>4 DEF C!ProcessCommandIn, Elsewhere, NothingCounts, C!IsOperation
<1>5. CASE C!MoveTake
  <2>1. C!SourceSlot(side) \in {inp, mid, NoWp}
    BY DEF C!SourceSlot
  <2>2. Elsewhere \/ Take
    BY <1>5, <2>1 DEF C!MoveTake, Elsewhere, Take
  <2>. QED  BY <1>0, <1>5, <2>2 DEF C!MoveTake, NothingCounts
<1>6. CASE C!MoveTeleport
  <2>1. C!TargetPlace(side) = B!TargetPlace(side)
    BY DEF C!TargetPlace, B!TargetPlace, C!MIDDLE, C!INPUT, B!MIDDLE, B!INPUT
  <2>. QED  BY <1>0, <1>6, <2>1 DEF C!MoveTeleport, Teleport, Moves
<1>7. CASE C!MoveAck
  BY <1>0, <1>7 DEF C!MoveAck, Acknowledge, NothingCounts
<1>8. CASE C!MoveRelease
  BY <1>0, <1>8 DEF C!MoveRelease, Release, NothingCounts, MIDDLE, C!MIDDLE, B!MIDDLE
<1>9. CASE C!MoveStore
  BY <1>0, <1>9 DEF C!MoveStore, Store, NothingCounts, MIDDLE, C!INPUT, C!OUTPUT, C!MIDDLE, B!MIDDLE
<1>10. CASE C!MoveReady
  BY <1>0, <1>10 DEF C!MoveReady, Elsewhere, NothingCounts
<1>11. CASE C!MoveFree
  BY <1>0, <1>11 DEF C!MoveFree, Elsewhere, NothingCounts
<1>12. CASE C!ReturnToLoop
  BY <1>0, <1>12 DEF C!ReturnToLoop, Elsewhere, NothingCounts
<1>13. ASSUME NEW w \in Brought, C!OnPuckMsg(w)
      PROVE  Beside /\ NothingCounts
  BY <1>0, <1>13 DEF C!OnPuckMsg, C!TestInput, C!UseInput, C!AssignInput, C!NameOfNull,
                     C!LogInput, C!CompareInput, Beside, NothingCounts
<1>14. ASSUME C!Destructor
      PROVE  Beside /\ NothingCounts
  BY <1>0, <1>14 DEF C!Destructor, C!SetShutdown, C!NotifyShutdown, C!JoinAndStop, Beside, NothingCounts
<1>15. ASSUME C!DataChange
      PROVE  Beside /\ NothingCounts
  BY <1>0, <1>15 DEF C!DataChange, Beside, NothingCounts
<1>16. ASSUME NEW a \in CapIds, NEW p, C!SendCommand(a, p)
      PROVE  Beside /\ Sends
  BY <1>0, <1>16, LoaderAssumption DEF C!SendCommand, Beside, Sends
<1>17. ASSUME NEW w \in Brought, C!RobotPlace(w) \/ C!RobotTake(w)
      PROVE  Beside /\ NothingCounts
  <2>1. \E place \in B!Place :
            loc' = [loc EXCEPT ![w] = place] /\ loc[w] \notin {"middle", "gate"}
    BY <1>17 DEF C!RobotPlace, C!RobotTake, C!Reachable, B!Place
  <2>. QED  BY <1>0, <1>17, <2>1 DEF C!RobotPlace, C!RobotTake, Beside, NothingCounts
<1>18. ASSUME NEW w \in Brought, C!PublishPose(w)
      PROVE  Beside /\ NothingCounts
  BY <1>0, <1>18 DEF C!PublishPose, Beside, NothingCounts
<1>. QED
  BY <1>1, <1>2, <1>3, <1>4, <1>5, <1>6, <1>7, <1>8, <1>9, <1>10, <1>11, <1>12, <1>13, <1>14,
     <1>15, <1>16, <1>17, <1>18
  DEF C!Next, C!WorkerLoop, C!MoveConveyor, C!Environment

\* The delivery station: the steps of its base class.
LEMMA DeliveryShared ==
    ASSUME MachineIInv, type = "delivery", Framed, D!Next
    PROVE  MoveStep /\ CountStep
<1>. USE DEF Stays, Carrying, Executed, Owing, Reading, D!nodes, D!slots, D!world, D!locals, D!history
<1>0. /\ W = Brought /\ MachineTypeOK
      /\ UNCHANGED <<type, spawns, rings, delivered, color, onSlide, subscribed>> /\ subscribed \subseteq Wp
      /\ color \in Nat
  BY DEF MachineIInv, MachineTypeOK, W, Framed
<1>f. SUFFICES
        /\ Elsewhere \/ Take \/ Teleport \/ Acknowledge \/ Release \/ Store \/ Beside \/ Announced
        /\ NothingCounts \/ Sends \/ Moves \/ Spawns \/ Clears \/ MountsRing \/ Delivers
  BY <1>0 DEF MoveStep, CountStep
<1>1. CASE D!CheckShutdown
  BY <1>0, <1>1 DEF D!CheckShutdown, Elsewhere, NothingCounts
<1>2. CASE D!EnterWait
  BY <1>0, <1>2 DEF D!EnterWait, Elsewhere, NothingCounts
<1>3. CASE D!Wake
  BY <1>0, <1>3 DEF D!Wake, Elsewhere, NothingCounts
<1>4. CASE D!ProcessCommandIn
  BY <1>0, <1>4 DEF D!ProcessCommandIn, Elsewhere, NothingCounts, D!IsOperation
<1>5. CASE D!MoveTake
  <2>1. D!SourceSlot(side) \in {inp, mid, NoWp}
    BY DEF D!SourceSlot
  <2>2. Elsewhere \/ Take
    BY <1>5, <2>1 DEF D!MoveTake, Elsewhere, Take
  <2>. QED  BY <1>0, <1>5, <2>2 DEF D!MoveTake, NothingCounts
<1>6. CASE D!MoveTeleport
  <2>1. D!TargetPlace(side) = B!TargetPlace(side)
    BY DEF D!TargetPlace, B!TargetPlace, D!MIDDLE, D!INPUT, B!MIDDLE, B!INPUT
  <2>. QED  BY <1>0, <1>6, <2>1 DEF D!MoveTeleport, Teleport, Moves
<1>7. CASE D!MoveAck
  BY <1>0, <1>7 DEF D!MoveAck, Acknowledge, NothingCounts
<1>8. CASE D!MoveRelease
  BY <1>0, <1>8 DEF D!MoveRelease, Release, NothingCounts, MIDDLE, D!MIDDLE, B!MIDDLE
<1>9. CASE D!MoveStore
  BY <1>0, <1>9 DEF D!MoveStore, Store, NothingCounts, MIDDLE, D!INPUT, D!OUTPUT, D!MIDDLE, B!MIDDLE
<1>10. CASE D!MoveReady
  BY <1>0, <1>10 DEF D!MoveReady, Elsewhere, NothingCounts
<1>11. CASE D!MoveFree
  BY <1>0, <1>11 DEF D!MoveFree, Elsewhere, NothingCounts
<1>12. CASE D!ReturnToLoop
  BY <1>0, <1>12 DEF D!ReturnToLoop, Elsewhere, NothingCounts
<1>13. ASSUME NEW w \in Brought, D!OnPuckMsg(w)
      PROVE  Beside /\ NothingCounts
  BY <1>0, <1>13 DEF D!OnPuckMsg, D!TestInput, D!UseInput, D!AssignInput, D!NameOfNull,
                     D!LogInput, D!CompareInput, Beside, NothingCounts
<1>14. ASSUME D!Destructor
      PROVE  Beside /\ NothingCounts
  BY <1>0, <1>14 DEF D!Destructor, D!SetShutdown, D!NotifyShutdown, D!JoinAndStop, Beside, NothingCounts
<1>15. ASSUME D!DataChange
      PROVE  Beside /\ NothingCounts
  BY <1>0, <1>15 DEF D!DataChange, Beside, NothingCounts
<1>16. ASSUME NEW a \in DeliveryIds, NEW p, D!SendCommand(a, p)
      PROVE  Beside /\ Sends
  BY <1>0, <1>16, LoaderAssumption DEF D!SendCommand, Beside, Sends
<1>17. ASSUME NEW w \in Brought, D!RobotPlace(w) \/ D!RobotTake(w)
      PROVE  Beside /\ NothingCounts
  <2>1. \E place \in B!Place :
            loc' = [loc EXCEPT ![w] = place] /\ loc[w] \notin {"middle", "gate"}
    BY <1>17 DEF D!RobotPlace, D!RobotTake, D!Reachable, B!Place
  <2>. QED  BY <1>0, <1>17, <2>1 DEF D!RobotPlace, D!RobotTake, Beside, NothingCounts
<1>18. ASSUME NEW w \in Brought, D!PublishPose(w)
      PROVE  Beside /\ NothingCounts
  BY <1>0, <1>18 DEF D!PublishPose, Beside, NothingCounts
<1>. QED
  BY <1>1, <1>2, <1>3, <1>4, <1>5, <1>6, <1>7, <1>8, <1>9, <1>10, <1>11, <1>12, <1>13, <1>14,
     <1>15, <1>16, <1>17, <1>18
  DEF D!Next, D!WorkerLoop, D!MoveConveyor, D!Environment

\* The base station dispenses: a base is inserted in the middle and may announce
\* itself while the worker is moving another.
LEMMA BaseStep ==
    ASSUME MachineIInv, type = "base", B!BSNext, NotBase
    PROVE  MoveStep /\ CountStep
<1>. USE DEF Stays, Carrying, Executed, Owing, Reading, B!nodes, B!slots, B!world, B!locals,
             B!history
<1>0. /\ W = Wp /\ MachineTypeOK /\ InRegister
      /\ UNCHANGED <<type, rings, delivered, color, onSlide>>
      /\ subscribed \subseteq Wp /\ color \in Nat /\ ~B!Crashed
  BY DEF MachineIInv, MachineTypeOK, W, NotBase, rsVars, B!BSNext
<1>1. CASE UNCHANGED bsVars /\ B!Next
  BY <1>0, <1>1, BaseShared DEF bsVars, Framed
<1>2. CASE B!BSProcessCommandIn
  BY <1>0, <1>2 DEF B!BSProcessCommandIn, B!IsOperation, Elsewhere, NothingCounts, MoveStep, CountStep
<1>3. CASE B!SpawnPuck
  <2>1. Spawns \/ NothingCounts
    BY <1>0, <1>3 DEF B!SpawnPuck, Spawns, NothingCounts
  <2>. QED  BY <1>0, <1>3, <2>1 DEF B!SpawnPuck, Elsewhere, MoveStep, CountStep
<1>4. CASE B!AssignSpawning
  BY <1>0, <1>4 DEF B!AssignSpawning, Elsewhere, NothingCounts, MoveStep, CountStep
<1>5. CASE B!ClearAction
  BY <1>0, <1>5 DEF B!ClearAction, B!bsVars, Elsewhere, NothingCounts, MoveStep, CountStep
<1>6. CASE B!ClearPayload
  BY <1>0, <1>6 DEF B!ClearPayload, B!bsVars, Elsewhere, NothingCounts, MoveStep, CountStep
<1>7. ASSUME NEW w \in Wp, B!BSOnNewPuck(w)  PROVE MoveStep /\ CountStep
  <2>1. Beside \/ Announced
    BY <1>0, <1>7 DEF B!BSOnNewPuck, Beside, Announced
  <2>2. subscribed' \subseteq Wp
    BY <1>0, <1>7 DEF B!BSOnNewPuck
  <2>. QED  BY <1>0, <1>7, <2>1, <2>2 DEF B!BSOnNewPuck, NothingCounts, MoveStep, CountStep
<1>8. ASSUME NEW w \in Wp, B!InsertModel(w) \/ B!ForeignPuck(w)  PROVE MoveStep /\ CountStep
  <2>1. Beside
    BY <1>0, <1>8 DEF B!InsertModel, B!ForeignPuck, Beside, B!Place
  <2>. QED  BY <1>0, <1>8, <2>1 DEF B!InsertModel, B!ForeignPuck, NothingCounts, MoveStep, CountStep
<1>. QED
  <2>1. ASSUME NEW w \in subscribed, B!OnPuckMsg(w), UNCHANGED bsVars
        PROVE  MoveStep /\ CountStep
    BY <1>0, <1>1, <2>1 DEF B!Next
  <2>2. (B!WorkerLoop \/ B!Wake \/ B!Destructor \/ B!Environment) /\ UNCHANGED bsVars
            => MoveStep /\ CountStep
    BY <1>0, <1>1 DEF B!Next
  <2>. QED
    BY <1>2, <1>3, <1>4, <1>5, <1>6, <1>7, <1>8, <2>1, <2>2
    DEF B!BSNext, B!BSWorker, B!Dispense, B!bsVars, bsVars

\* The ring station clears the command before it mounts the ring; what is on its
\* slide goes to the pile.
LEMMA RingStep ==
    ASSUME MachineIInv, type = "ring", R!RSNext, NotRing
    PROVE  MoveStep /\ CountStep
<1>. USE DEF Stays, Carrying, Executed, Owing, Reading, R!nodes, R!slots, R!world, R!locals,
             R!history
<1>0. /\ W = Brought /\ MachineTypeOK /\ InRegister
      /\ UNCHANGED <<type, spawns, delivered, subscribed>>
      /\ subscribed \subseteq Wp /\ color \in Nat /\ mid \in Brought \cup {NoWp}
      /\ ~R!Crashed
  BY DEF MachineIInv, MachineTypeOK, W, NotRing, bsVars, R!RSNext
<1>1. CASE UNCHANGED rsVars /\ R!Next
  BY <1>0, <1>1, RingShared DEF rsVars, Framed
<1>2. CASE R!RingRead
  <2>1. color' \in Nat
    BY <1>2 DEF R!RingRead, R!Colors
  <2>2. Elsewhere /\ NothingCounts
    BY <1>0, <1>2 DEF R!RingRead, R!IsOperation, Elsewhere, NothingCounts
  <2>. QED  BY <1>0, <1>2, <2>1, <2>2 DEF R!RingRead, MoveStep, CountStep
<1>3. CASE R!RingClearAction
  BY <1>0, <1>3 DEF R!RingClearAction, R!rsVars, InRegister, Elsewhere, Clears, MoveStep, CountStep
<1>4. CASE R!RingClearPayload1
  BY <1>0, <1>4 DEF R!RingClearPayload1, R!rsVars, Elsewhere, NothingCounts, MoveStep, CountStep
<1>5. CASE R!RingClearPayload2
  BY <1>0, <1>5 DEF R!RingClearPayload2, Elsewhere, NothingCounts, MoveStep, CountStep
<1>6. CASE R!MountRing
  <2>1. MountsRing \/ NothingCounts
    BY <1>0, <1>6 DEF R!MountRing, R!CanMountRing, MountsRing, NothingCounts
  <2>. QED  BY <1>0, <1>6, <2>1 DEF R!MountRing, Elsewhere, MoveStep, CountStep
<1>7. CASE R!RingDone
  BY <1>0, <1>7 DEF R!RingDone, R!rsVars, Elsewhere, NothingCounts, MoveStep, CountStep
<1>8. ASSUME NEW w \in Brought, R!RSOnPuckMsg(w)  PROVE MoveStep /\ CountStep
  <2>1. inp' \in {inp, NoWp, w} /\ UNCHANGED <<pc, mid, wp, side, sent, moves, actionId>>
    BY <1>8 DEF R!RSOnPuckMsg, R!TestInput, R!UseInput, R!AssignInput, R!NameOfNull, R!LogInput,
                R!CompareInput
  <2>2. \/ UNCHANGED <<loc, onSlide>>
        \/ loc' = [loc EXCEPT ![w] = "stack"] /\ w \in onSlide' /\ onSlide \subseteq onSlide'
    BY <1>8 DEF R!RSOnPuckMsg, R!CountOnSlide
  <2>3. "stack" \in B!Place
    BY DEF B!Place
  <2>4. Beside
    BY <1>0, <2>1, <2>2, <2>3 DEF Beside
  <2>5. UNCHANGED <<color, rings>>
    BY <1>8 DEF R!RSOnPuckMsg
  <2>. QED  BY <1>0, <2>1, <2>2, <2>4, <2>5 DEF NothingCounts, MoveStep, CountStep
<1>9. ASSUME NEW w \in Brought, R!RobotSlide(w)  PROVE MoveStep /\ CountStep
  <2>1. Beside
    BY <1>0, <1>9 DEF R!RobotSlide, Beside, B!Place
  <2>. QED  BY <1>0, <1>9, <2>1 DEF R!RobotSlide, R!rsVars, NothingCounts, MoveStep, CountStep
<1>10. CASE R!RSSendCommand
  <2>1. R!Next /\ Framed
    BY <1>0, <1>10 DEF R!RSSendCommand, R!Next, R!Environment, Framed
  <2>. QED  BY <2>1, RingShared
<1>. QED
  <2>1. R!RingRefuse => UNCHANGED rsVars /\ R!Next
    BY <1>0 DEF R!RingRefuse, R!rsVars, rsVars, R!Next
  <2>2. ASSUME UNCHANGED rsVars,
               \/ R!WorkerLoop \/ R!Wake \/ R!Destructor \/ R!DataChange
               \/ \E w \in Brought : R!RobotPlace(w) \/ R!RobotTake(w) \/ R!PublishPose(w)
        PROVE  MoveStep /\ CountStep
    BY <1>0, <1>1, <2>2 DEF R!Next, R!Environment
  <2>. QED
    BY <1>1, <1>2, <1>3, <1>4, <1>5, <1>6, <1>7, <1>8, <1>9, <1>10, <2>1, <2>2
    DEF R!RSNext, R!RingOperation, R!RSEnvironment, R!rsVars, rsVars

\* The cap station only publishes to the workpiece.
LEMMA CapStep ==
    ASSUME MachineIInv, type = "cap", C!CSNext, NotCap
    PROVE  MoveStep /\ CountStep
<1>. USE DEF Stays, Carrying, Executed, Owing, Reading, C!nodes, C!slots, C!world, C!locals,
             C!history
<1>0. /\ W = Brought /\ MachineTypeOK
      /\ Framed /\ subscribed \subseteq Wp /\ color \in Nat /\ ~C!Crashed
  BY DEF MachineIInv, MachineTypeOK, W, NotCap, bsVars, rsVars, Framed, C!CSNext
<1>f. UNCHANGED <<type, spawns, rings, delivered, color, onSlide, subscribed>>
  BY <1>0 DEF Framed
<1>1. CASE C!Next
  BY <1>0, <1>1, CapShared
<1>2. CASE C!RetrieveCap
  BY <1>0, <1>f, <1>2 DEF C!RetrieveCap, Elsewhere, NothingCounts, MoveStep, CountStep
<1>3. CASE C!MountCap
  BY <1>0, <1>f, <1>3 DEF C!MountCap, Elsewhere, NothingCounts, MoveStep, CountStep
<1>4. CASE C!ResetStored
  BY <1>0, <1>f, <1>4 DEF C!ResetStored, Elsewhere, NothingCounts, MoveStep, CountStep
<1>5. CASE C!CapAck
  BY <1>0, <1>f, <1>5 DEF C!CapAck, Elsewhere, NothingCounts, MoveStep, CountStep
<1>6. CASE C!CapDone
  BY <1>0, <1>f, <1>6 DEF C!CapDone, Elsewhere, NothingCounts, MoveStep, CountStep
<1>7. CASE UNCHANGED C!mpsVars
  BY <1>0, <1>f, <1>7 DEF C!mpsVars, Beside, NothingCounts, MoveStep, CountStep
<1>. QED
  <2>1. ASSUME NEW w \in Brought, C!OnCommandMsg(w) \/ C!OnPuckResult(w)
        PROVE  MoveStep /\ CountStep
    BY <1>7, <2>1 DEF C!OnCommandMsg, C!OnPuckResult
  <2>2. (\E w \in Brought : C!OnPuckMsg(w)) \/ C!WorkerLoop \/ C!Wake \/ C!CapRefuse
          \/ C!Destructor \/ C!Environment => C!Next
    BY <1>0 DEF C!Next, C!CapRefuse
  <2>. QED
    BY <1>1, <1>2, <1>3, <1>4, <1>5, <1>6, <2>1, <2>2 DEF C!CSNext, C!CapOperation

\* The delivery station clears the command before it delivers, and may crash
\* before it announces.
LEMMA DeliveryStep ==
    ASSUME MachineIInv, type = "delivery", D!DSNext, NotDelivery
    PROVE  MoveStep /\ CountStep
<1>. USE DEF Stays, Carrying, Executed, Owing, Reading, D!nodes, D!slots, D!world, D!locals,
             D!history
<1>0. /\ W = Brought /\ MachineTypeOK
      /\ UNCHANGED <<type, spawns, rings, color, onSlide, subscribed>>
      /\ subscribed \subseteq Wp /\ color \in Nat /\ inp \in Brought \cup {NoWp}
      /\ loc \in [Brought -> B!Place] /\ ~D!Crashed
  BY DEF MachineIInv, MachineTypeOK, W, NotDelivery, bsVars, rsVars, D!DSNext
<1>1. CASE UNCHANGED delivered /\ D!Next
  BY <1>0, <1>1, DeliveryShared DEF Framed
<1>2. CASE D!DeliverStart
  BY <1>0, <1>2 DEF D!DeliverStart, D!CanDeliver, D!IsOperation, Elsewhere, Clears, MoveStep, CountStep
<1>3. CASE D!DeliverMove
  <2>1. loc' = loc \/ \E w \in W : loc' = [loc EXCEPT ![w] = "gate"]
    BY <1>0, <1>3 DEF D!DeliverMove
  <2>. QED
    BY <1>0, <1>3, <2>1 DEF D!DeliverMove, Elsewhere, NothingCounts, MoveStep, CountStep
<1>4. CASE D!DeliverAnnounce
  <2>1. Delivers \/ NothingCounts
    BY <1>0, <1>4 DEF D!DeliverAnnounce, Delivers, NothingCounts
  <2>. QED  BY <1>0, <1>4, <2>1 DEF D!DeliverAnnounce, Elsewhere, MoveStep, CountStep
<1>5. CASE D!DeliverReset
  BY <1>0, <1>5 DEF D!DeliverReset, Elsewhere, NothingCounts, MoveStep, CountStep
<1>6. CASE D!DeliverDone
  BY <1>0, <1>6 DEF D!DeliverDone, Elsewhere, NothingCounts, MoveStep, CountStep
<1>. QED
  <2>1. ASSUME UNCHANGED delivered,
               \/ D!WorkerLoop \/ D!Wake \/ D!Destructor \/ D!Environment \/ D!ReturnToLoop
               \/ \E w \in Brought : D!OnPuckMsg(w)
        PROVE  MoveStep /\ CountStep
    BY <1>0, <1>1, <2>1 DEF D!Next
  <2>. QED
    BY <1>2, <1>3, <1>4, <1>5, <1>6, <2>1 DEF D!DSNext, D!Deliver, D!DeliverRefuse

-----------------------------------------------------------------------------
(* Caps. *)

CapCommand == [command : {"ADD_CAP", "REMOVE_CAP"}, color : Caps \cup {NoCap}]

\* Where a cap can be.
LEMMA HolderFacts ==
    ASSUME NEW c, NEW x
    PROVE  x \in C!Holders(c) <=>
            \/ \E w \in Brought : x = <<w, "cap", 0>> /\ cap[w] = c
            \/ x = <<NoWp, "stored", 0>> /\ stored = c /\ pc # "capMounted"
            \/ \E w \in Brought : \E i \in DOMAIN cmds[w] :
                    x = <<w, "cmd", i>> /\ cmds[w][i] = C!ADD_CAP(c)
            \/ \E w \in Brought : \E i \in DOMAIN results[w] :
                    x = <<w, "result", i>> /\ results[w][i] = c
<1>. DEFINE Cmds(w) == {<<w, "cmd", i>> : i \in {j \in DOMAIN cmds[w] : cmds[w][j] = C!ADD_CAP(c)}}
            Results(w) == {<<w, "result", i>> : i \in {j \in DOMAIN results[w] : results[w][j] = c}}
            Worn == {<<w, "cap", 0>> : w \in {v \in Brought : cap[v] = c}}
            AllCmds == UNION {Cmds(w) : w \in Brought}
            AllResults == UNION {Results(w) : w \in Brought}
            Stored == IF stored = c /\ pc # "capMounted" THEN {<<NoWp, "stored", 0>>} ELSE {}
<1>1. C!Holders(c) = Worn \cup Stored \cup AllCmds \cup AllResults
  BY DEF C!Holders
<1>2. x \in Worn <=> \E w \in Brought : x = <<w, "cap", 0>> /\ cap[w] = c
  OBVIOUS
<1>3. x \in Stored <=> x = <<NoWp, "stored", 0>> /\ stored = c /\ pc # "capMounted"
  OBVIOUS
<1>4. \A w : x \in Cmds(w) <=> \E i \in DOMAIN cmds[w] :
                                    x = <<w, "cmd", i>> /\ cmds[w][i] = C!ADD_CAP(c)
  OBVIOUS
<1>5. \A w : x \in Results(w) <=> \E i \in DOMAIN results[w] :
                                    x = <<w, "result", i>> /\ results[w][i] = c
  OBVIOUS
<1>6. x \in AllCmds <=> \E w \in Brought : x \in Cmds(w)
  OBVIOUS
<1>7. x \in AllResults <=> \E w \in Brought : x \in Results(w)
  OBVIOUS
<1>. HIDE DEF Cmds, Results, Worn, Stored, AllCmds, AllResults
<1>8. x \in C!Holders(c) <=> \/ x \in Worn \/ x \in Stored
                            \/ (\E w \in Brought : x \in Cmds(w))
                            \/ (\E w \in Brought : x \in Results(w))
  BY <1>1, <1>6, <1>7
<1>. QED  BY <1>2, <1>3, <1>4, <1>5, <1>8, Zenon

\* The same after a step.
LEMMA HolderFactsNext ==
    ASSUME NEW c, NEW x
    PROVE  x \in (C!Holders(c))' <=>
            \/ \E w \in Brought : x = <<w, "cap", 0>> /\ cap'[w] = c
            \/ x = <<NoWp, "stored", 0>> /\ stored' = c /\ pc' # "capMounted"
            \/ \E w \in Brought : \E i \in DOMAIN cmds'[w] :
                    x = <<w, "cmd", i>> /\ cmds'[w][i] = C!ADD_CAP(c)
            \/ \E w \in Brought : \E i \in DOMAIN results'[w] :
                    x = <<w, "result", i>> /\ results'[w][i] = c
<1>. DEFINE Cmds(w) == {<<w, "cmd", i>> : i \in {j \in DOMAIN cmds'[w] : cmds'[w][j] = C!ADD_CAP(c)}}
            Results(w) == {<<w, "result", i>> : i \in {j \in DOMAIN results'[w] : results'[w][j] = c}}
            Worn == {<<w, "cap", 0>> : w \in {v \in Brought : cap'[v] = c}}
            AllCmds == UNION {Cmds(w) : w \in Brought}
            AllResults == UNION {Results(w) : w \in Brought}
            Stored == IF stored' = c /\ pc' # "capMounted" THEN {<<NoWp, "stored", 0>>} ELSE {}
<1>1. (C!Holders(c))' = Worn \cup Stored \cup AllCmds \cup AllResults
  BY DEF C!Holders
<1>2. x \in Worn <=> \E w \in Brought : x = <<w, "cap", 0>> /\ cap'[w] = c
  OBVIOUS
<1>3. x \in Stored <=> x = <<NoWp, "stored", 0>> /\ stored' = c /\ pc' # "capMounted"
  OBVIOUS
<1>4. \A w : x \in Cmds(w) <=> \E i \in DOMAIN cmds'[w] :
                                    x = <<w, "cmd", i>> /\ cmds'[w][i] = C!ADD_CAP(c)
  OBVIOUS
<1>5. \A w : x \in Results(w) <=> \E i \in DOMAIN results'[w] :
                                    x = <<w, "result", i>> /\ results'[w][i] = c
  OBVIOUS
<1>6. x \in AllCmds <=> \E w \in Brought : x \in Cmds(w)
  OBVIOUS
<1>7. x \in AllResults <=> \E w \in Brought : x \in Results(w)
  OBVIOUS
<1>. HIDE DEF Cmds, Results, Worn, Stored, AllCmds, AllResults
<1>8. x \in (C!Holders(c))' <=> \/ x \in Worn \/ x \in Stored
                            \/ (\E w \in Brought : x \in Cmds(w))
                            \/ (\E w \in Brought : x \in Results(w))
  BY <1>1, <1>6, <1>7
<1>. QED  BY <1>2, <1>3, <1>4, <1>5, <1>8, Zenon

\* Nobody new has the cap: it stays with the one who has it.
LEMMA StaysOne ==
    ASSUME NEW c, OneHolder(c), (C!Holders(c))' \subseteq C!Holders(c)
    PROVE  OneHolder(c)'
  BY DEF OneHolder

\* The caps do not change and the worker is not at the publication of one.
LEMMA CapsUntouched ==
    ASSUME NEW c, UNCHANGED csVars, pc' # "capMounted" => pc # "capMounted"
    PROVE  (C!Holders(c))' \subseteq C!Holders(c)
  BY DEF C!Holders, csVars

\* The first of a sequence is taken off: the others move up by one.
LEMMA TailFacts ==
    ASSUME NEW S, NEW s \in Seq(S), s # <<>>
    PROVE  /\ Head(s) \in S /\ Tail(s) \in Seq(S) /\ 1 \in DOMAIN s /\ s[1] = Head(s)
           /\ \A i \in DOMAIN Tail(s) : i \in Nat /\ i + 1 \in DOMAIN s /\ Tail(s)[i] = s[i + 1]
  BY HeadTailProperties

\* One is added: the others stay where they are.
LEMMA AppendFacts ==
    ASSUME NEW S, NEW s \in Seq(S), NEW e \in S
    PROVE  /\ Append(s, e) \in Seq(S)
           /\ \A i \in DOMAIN Append(s, e) :
                \/ i \in DOMAIN s /\ Append(s, e)[i] = s[i]
                \/ i = Len(s) + 1 /\ Append(s, e)[i] = e
  BY AppendProperties

\* The types of what concerns caps.
LEMMA CapTypeStep ==
    ASSUME CapTypeOK, MachineTypeOK, type = "cap", C!CSNext, NotCap
    PROVE  CapTypeOK'
<1>0. /\ stored \in Caps \cup {NoCap} /\ cap \in [Brought -> Caps \cup {NoCap}]
      /\ cmds \in [Brought -> Seq(CapCommand)] /\ results \in [Brought -> Seq(Caps \cup {NoCap})]
      /\ mid \in Brought \cup {NoWp} /\ type' = type /\ type = "cap"
  BY DEF CapTypeOK, MachineTypeOK, W, NotCap, CapCommand
<1>c. ASSUME NEW cmd \in CapCommand, mid # NoWp, C!Publish(mid, cmd)
      PROVE  cmds' \in [Brought -> Seq(CapCommand)]
  BY <1>0, <1>c, AppendFacts DEF C!Publish
<1>s. SUFFICES /\ stored' \in Caps \cup {NoCap} /\ cap' \in [Brought -> Caps \cup {NoCap}]
               /\ cmds' \in [Brought -> Seq(CapCommand)]
               /\ results' \in [Brought -> Seq(Caps \cup {NoCap})]
  BY <1>0 DEF CapTypeOK, CapCommand
<1>1. CASE UNCHANGED csVars
  BY <1>0, <1>1 DEF csVars
<1>2. CASE C!RetrieveCap
  <2>1. C!REMOVE_CAP \in CapCommand
    BY DEF C!REMOVE_CAP, CapCommand
  <2>. QED  BY <1>0, <1>2, <1>c, <2>1 DEF C!RetrieveCap, C!CanRetrieve
<1>3. CASE C!MountCap
  <2>1. C!ADD_CAP(stored) \in CapCommand
    BY <1>0 DEF C!ADD_CAP, CapCommand
  <2>. QED  BY <1>0, <1>3, <1>c, <2>1 DEF C!MountCap, C!CanMount
<1>4. CASE C!ResetStored
  BY <1>0, <1>4 DEF C!ResetStored
<1>5. ASSUME NEW w \in Brought, C!OnCommandMsg(w)
      PROVE  /\ stored' \in Caps \cup {NoCap} /\ cap' \in [Brought -> Caps \cup {NoCap}]
             /\ cmds' \in [Brought -> Seq(CapCommand)]
             /\ results' \in [Brought -> Seq(Caps \cup {NoCap})]
  <2>1. Head(cmds[w]) \in CapCommand /\ Tail(cmds[w]) \in Seq(CapCommand)
    BY <1>0, <1>5, TailFacts DEF C!OnCommandMsg
  <2>2. Head(cmds[w]).color \in Caps \cup {NoCap}
    BY <2>1 DEF CapCommand
  <2>3. Append(results[w], cap[w]) \in Seq(Caps \cup {NoCap})
    BY <1>0, AppendFacts
  <2>. QED  BY <1>0, <1>5, <2>1, <2>2, <2>3 DEF C!OnCommandMsg
<1>6. ASSUME NEW w \in Brought, C!OnPuckResult(w)
      PROVE  /\ stored' \in Caps \cup {NoCap} /\ cap' \in [Brought -> Caps \cup {NoCap}]
             /\ cmds' \in [Brought -> Seq(CapCommand)]
             /\ results' \in [Brought -> Seq(Caps \cup {NoCap})]
  <2>1. Head(results[w]) \in Caps \cup {NoCap} /\ Tail(results[w]) \in Seq(Caps \cup {NoCap})
    BY <1>0, <1>6, TailFacts DEF C!OnPuckResult
  <2>. QED  BY <1>0, <1>6, <2>1 DEF C!OnPuckResult
<1>. QED
  BY <1>1, <1>2, <1>3, <1>4, <1>5, <1>6
  DEF C!CSNext, C!CapOperation, C!CapAck, C!CapDone, C!CapRefuse, C!csVars, csVars

\* The worker publishes the cap it stores: the command is where the station was.
LEMMA MountStep ==
    ASSUME CapTypeOK, MachineTypeOK, type = "cap", C!MountCap, NEW c \in Caps, OneHolder(c)
    PROVE  OneHolder(c)'
<1>0. /\ mid \in Brought /\ cmds \in [Brought -> Seq(CapCommand)] /\ pc = "op"
      /\ UNCHANGED <<stored, cap, results>> /\ stored \in Caps \cup {NoCap}
  BY DEF CapTypeOK, MachineTypeOK, W, C!MountCap, C!CanMount, CapCommand
<1>1. CASE stored = NoCap
  <2>1. UNCHANGED csVars /\ pc' # "capMounted"
    BY <1>0, <1>1 DEF C!MountCap, csVars
  <2>. QED  BY <1>0, <2>1, CapsUntouched, StaysOne
<1>2. CASE stored # NoCap
  <2>. DEFINE After(y) == IF y = <<NoWp, "stored", 0>>
                          THEN <<mid, "cmd", Len(cmds[mid]) + 1>> ELSE y
  <2>1. /\ cmds' = [cmds EXCEPT ![mid] = Append(@, C!ADD_CAP(stored))]
        /\ pc' = "capMounted" /\ C!ADD_CAP(stored) \in CapCommand
    BY <1>0, <1>2 DEF C!MountCap, C!Publish, C!ADD_CAP, CapCommand
  <2>2. \A x \in (C!Holders(c))' : \E y \in C!Holders(c) : x = After(y)
    <3>1. SUFFICES ASSUME NEW x \in (C!Holders(c))'
                   PROVE  \E y \in C!Holders(c) : x = After(y)
      OBVIOUS
    <3>2. CASE \E w \in Brought : x = <<w, "cap", 0>> /\ cap'[w] = c
      <4>1. x \in C!Holders(c) /\ x # <<NoWp, "stored", 0>>
        BY <1>0, <3>2, HolderFacts
      <4>. QED  BY <4>1
    <3>3. ASSUME NEW w \in Brought, NEW i \in DOMAIN cmds'[w], x = <<w, "cmd", i>>,
                 cmds'[w][i] = C!ADD_CAP(c)
          PROVE  \E y \in C!Holders(c) : x = After(y)
      <4>1. CASE i \in DOMAIN cmds[w] /\ cmds[w][i] = cmds'[w][i]
        <5>1. x \in C!Holders(c) /\ x # <<NoWp, "stored", 0>>
          BY <3>3, <4>1, HolderFacts
        <5>. QED  BY <5>1
      <4>2. CASE w = mid /\ i = Len(cmds[mid]) + 1 /\ cmds'[w][i] = C!ADD_CAP(stored)
        <5>1. stored = c
          BY <3>3, <4>2 DEF C!ADD_CAP
        <5>2. <<NoWp, "stored", 0>> \in C!Holders(c)
          BY <1>0, <5>1, HolderFacts
        <5>. QED  BY <3>3, <4>2, <5>2
      <4>. QED  BY <1>0, <2>1, <3>3, <4>1, <4>2, AppendFacts
    <3>4. CASE \E w \in Brought : \E i \in DOMAIN results'[w] :
                    x = <<w, "result", i>> /\ results'[w][i] = c
      <4>1. x \in C!Holders(c) /\ x # <<NoWp, "stored", 0>>
        BY <1>0, <3>4, HolderFacts
      <4>. QED  BY <4>1
    <3>. QED  BY <1>0, <2>1, <3>1, <3>2, <3>3, <3>4, HolderFactsNext
  <2>. HIDE DEF After
  <2>. QED  BY <2>2 DEF OneHolder
<1>. QED  BY <1>1, <1>2

\* A command is delivered: the cap is on the workpiece that was to have it, or
\* in the answer of the one that had it.
LEMMA CommandMsgStep ==
    ASSUME CapTypeOK, NEW w \in Brought, C!OnCommandMsg(w), NEW c \in Caps, OneHolder(c)
    PROVE  OneHolder(c)'
<1>0. /\ cmds \in [Brought -> Seq(CapCommand)] /\ cap \in [Brought -> Caps \cup {NoCap}]
      /\ results \in [Brought -> Seq(Caps \cup {NoCap})]
      /\ cmds[w] # <<>> /\ cmds' = [cmds EXCEPT ![w] = Tail(@)]
      /\ UNCHANGED <<stored, pc>> /\ c # NoCap
  BY LoaderAssumption DEF CapTypeOK, CapCommand, C!OnCommandMsg, C!mpsVars
<1>t. /\ Head(cmds[w]) \in CapCommand /\ 1 \in DOMAIN cmds[w] /\ cmds[w][1] = Head(cmds[w])
      /\ \A i \in DOMAIN Tail(cmds[w]) :
            i \in Nat /\ i + 1 \in DOMAIN cmds[w] /\ Tail(cmds[w])[i] = cmds[w][i + 1]
  BY <1>0, TailFacts
<1>. DEFINE Up(y) == IF y[1] = w /\ y[2] = "cmd"
                     THEN IF y[3] = 1 THEN <<w, "cap", 0>> ELSE <<w, "cmd", y[3] - 1>>
                     ELSE y
<1>. DEFINE After(y) == IF y = <<w, "cap", 0>> THEN <<w, "result", Len(results[w]) + 1>>
                        ELSE Up(y)
\* Commands that wait, and what the command does not touch.
<1>1. ASSUME NEW v \in Brought, NEW i \in DOMAIN cmds'[v], cmds'[v][i] = C!ADD_CAP(c)
      PROVE  \E y \in C!Holders(c) :
                Up(y) = <<v, "cmd", i>> /\ y # <<w, "cap", 0>>
  <2>1. CASE v # w
    <3>1. <<v, "cmd", i>> \in C!Holders(c)
      BY <1>0, <1>1, <2>1, HolderFacts
    <3>. QED  BY <2>1, <3>1
  <2>2. CASE v = w
    <3>1. i \in Nat /\ i + 1 \in DOMAIN cmds[w] /\ cmds[w][i + 1] = C!ADD_CAP(c) /\ i # 0
      BY <1>0, <1>1, <1>t, <2>2
    <3>2. <<w, "cmd", i + 1>> \in C!Holders(c)
      BY <3>1, HolderFacts
    <3>3. Up(<<w, "cmd", i + 1>>) = <<w, "cmd", i>>
      BY <3>1
    <3>. QED  BY <2>2, <3>2, <3>3
  <2>. QED  BY <2>1, <2>2
<1>2. ASSUME NEW x \in (C!Holders(c))'
      PROVE  \/ \E v \in Brought : x = <<v, "cap", 0>> /\ cap'[v] = c
             \/ x = <<NoWp, "stored", 0>> /\ x \in C!Holders(c)
             \/ \E v \in Brought : \E i \in DOMAIN cmds'[v] :
                    x = <<v, "cmd", i>> /\ cmds'[v][i] = C!ADD_CAP(c)
             \/ \E v \in Brought : \E i \in DOMAIN results'[v] :
                    x = <<v, "result", i>> /\ results'[v][i] = c
  BY <1>0, <1>2, HolderFactsNext, HolderFacts
<1>3. CASE Head(cmds[w]).command = "ADD_CAP" /\ cap' = [cap EXCEPT ![w] = Head(cmds[w]).color]
           /\ UNCHANGED results
  <2>1. ASSUME NEW x \in (C!Holders(c))'
        PROVE  \E y \in C!Holders(c) : x = Up(y)
    <3>1. ASSUME NEW v \in Brought, x = <<v, "cap", 0>>, cap'[v] = c
          PROVE  \E y \in C!Holders(c) : x = Up(y)
      <4>1. CASE v # w
        <5>1. x \in C!Holders(c)
          BY <1>0, <1>3, <3>1, <4>1, HolderFacts
        <5>. QED  BY <3>1, <4>1, <5>1
      <4>2. CASE v = w
        <5>1. Head(cmds[w]) = C!ADD_CAP(c)
          BY <1>0, <1>3, <1>t, <3>1, <4>2 DEF CapCommand, C!ADD_CAP
        <5>2. <<w, "cmd", 1>> \in C!Holders(c)
          BY <1>t, <5>1, HolderFacts
        <5>. QED  BY <3>1, <4>2, <5>2
      <4>. QED  BY <4>1, <4>2
    <3>2. ASSUME NEW v \in Brought, NEW i \in DOMAIN results'[v], x = <<v, "result", i>>,
                 results'[v][i] = c
          PROVE  \E y \in C!Holders(c) : x = Up(y)
      <4>1. x \in C!Holders(c)
        BY <1>3, <3>2, HolderFacts
      <4>. QED  BY <3>2, <4>1
    <3>3. CASE x = <<NoWp, "stored", 0>> /\ x \in C!Holders(c)
      BY <3>3
    <3>4. ASSUME NEW v \in Brought, NEW i \in DOMAIN cmds'[v], x = <<v, "cmd", i>>,
                 cmds'[v][i] = C!ADD_CAP(c)
          PROVE  \E y \in C!Holders(c) : x = Up(y)
      BY <1>1, <3>4
    <3>. QED  BY <1>2, <2>1, <3>1, <3>2, <3>3, <3>4
  <2>. HIDE DEF Up
  <2>. QED  BY <2>1 DEF OneHolder
<1>4. CASE /\ Head(cmds[w]).command = "REMOVE_CAP" /\ cap' = [cap EXCEPT ![w] = NoCap]
           /\ results' = [results EXCEPT ![w] = Append(@, cap[w])]
  <2>1. ASSUME NEW x \in (C!Holders(c))'
        PROVE  \E y \in C!Holders(c) : x = After(y)
    <3>1. ASSUME NEW v \in Brought, x = <<v, "cap", 0>>, cap'[v] = c
          PROVE  \E y \in C!Holders(c) : x = After(y)
      <4>1. v # w /\ x \in C!Holders(c)
        BY <1>0, <1>4, <3>1, HolderFacts
      <4>. QED  BY <3>1, <4>1
    <3>2. ASSUME NEW v \in Brought, NEW i \in DOMAIN results'[v], x = <<v, "result", i>>,
                 results'[v][i] = c
          PROVE  \E y \in C!Holders(c) : x = After(y)
      <4>1. CASE i \in DOMAIN results[v] /\ results[v][i] = c
        <5>1. x \in C!Holders(c)
          BY <3>2, <4>1, HolderFacts
        <5>. QED  BY <3>2, <5>1
      <4>2. CASE v = w /\ i = Len(results[w]) + 1 /\ cap[w] = c
        <5>1. <<w, "cap", 0>> \in C!Holders(c)
          BY <4>2, HolderFacts
        <5>. QED  BY <3>2, <4>2, <5>1
      <4>3. CASE v = w
        <5>1. results'[w] = Append(results[w], cap[w]) /\ cap[w] \in Caps \cup {NoCap}
              /\ results[w] \in Seq(Caps \cup {NoCap})
          BY <1>0, <1>4
        <5>2. \A j \in DOMAIN results'[w] :
                \/ j \in DOMAIN results[w] /\ results'[w][j] = results[w][j]
                \/ j = Len(results[w]) + 1 /\ results'[w][j] = cap[w]
          BY <5>1, AppendFacts
        <5>. QED  BY <3>2, <4>1, <4>2, <4>3, <5>2
      <4>. QED  BY <1>0, <1>4, <3>2, <4>1, <4>3
    <3>3. CASE x = <<NoWp, "stored", 0>> /\ x \in C!Holders(c)
      BY <3>3
    <3>4. ASSUME NEW v \in Brought, NEW i \in DOMAIN cmds'[v], x = <<v, "cmd", i>>,
                 cmds'[v][i] = C!ADD_CAP(c)
          PROVE  \E y \in C!Holders(c) : x = After(y)
      BY <1>1, <3>4
    <3>. QED  BY <1>2, <2>1, <3>1, <3>2, <3>3, <3>4
  <2>. HIDE DEF After
  <2>. QED  BY <2>1 DEF OneHolder
<1>. QED  BY <1>3, <1>4 DEF C!OnCommandMsg

\* An answer is delivered: the station has what was in it, or nobody.
LEMMA ResultStep ==
    ASSUME CapTypeOK, NEW w \in Brought, C!OnPuckResult(w), NEW c \in Caps, OneHolder(c)
    PROVE  OneHolder(c)'
<1>0. /\ results \in [Brought -> Seq(Caps \cup {NoCap})]
      /\ results[w] # <<>> /\ results' = [results EXCEPT ![w] = Tail(@)]
      /\ UNCHANGED <<cap, cmds, pc>> /\ c # NoCap
      /\ stored' = stored \/ stored' = Head(results[w])
  BY LoaderAssumption DEF CapTypeOK, C!OnPuckResult, C!mpsVars
<1>t. /\ 1 \in DOMAIN results[w] /\ results[w][1] = Head(results[w])
      /\ \A i \in DOMAIN Tail(results[w]) :
            i \in Nat /\ i + 1 \in DOMAIN results[w] /\ Tail(results[w])[i] = results[w][i + 1]
  BY <1>0, TailFacts
<1>. DEFINE After(y) == IF y[1] = w /\ y[2] = "result"
                        THEN IF y[3] = 1 THEN <<NoWp, "stored", 0>> ELSE <<w, "result", y[3] - 1>>
                        ELSE y
<1>1. ASSUME NEW x \in (C!Holders(c))'
      PROVE  \E y \in C!Holders(c) : x = After(y)
  <2>1. CASE x = <<NoWp, "stored", 0>> /\ stored' = c /\ pc # "capMounted"
    <3>1. CASE stored = c
      <4>1. x \in C!Holders(c)
        BY <2>1, <3>1, HolderFacts
      <4>. QED  BY <2>1, <4>1
    <3>2. CASE stored # c
      <4>1. <<w, "result", 1>> \in C!Holders(c)
        BY <1>0, <1>t, <2>1, <3>2, HolderFacts
      <4>. QED  BY <2>1, <4>1
    <3>. QED  BY <3>1, <3>2
  <2>2. ASSUME NEW v \in Brought, NEW i \in DOMAIN results'[v], x = <<v, "result", i>>,
               results'[v][i] = c
        PROVE  \E y \in C!Holders(c) : x = After(y)
    <3>1. CASE v # w
      <4>1. x \in C!Holders(c)
        BY <1>0, <2>2, <3>1, HolderFacts
      <4>. QED  BY <2>2, <3>1, <4>1
    <3>2. CASE v = w
      <4>1. i \in Nat /\ i + 1 \in DOMAIN results[w] /\ results[w][i + 1] = c /\ i # 0
        BY <1>0, <1>t, <2>2, <3>2
      <4>2. <<w, "result", i + 1>> \in C!Holders(c)
        BY <4>1, HolderFacts
      <4>3. After(<<w, "result", i + 1>>) = <<w, "result", i>>
        BY <4>1
      <4>. QED  BY <2>2, <3>2, <4>2, <4>3
    <3>. QED  BY <3>1, <3>2
  <2>3. CASE \/ \E v \in Brought : x = <<v, "cap", 0>> /\ cap[v] = c
             \/ \E v \in Brought : \E i \in DOMAIN cmds[v] :
                    x = <<v, "cmd", i>> /\ cmds[v][i] = C!ADD_CAP(c)
    <3>1. x \in C!Holders(c)
      BY <2>3, HolderFacts
    <3>. QED  BY <2>3, <3>1
  <2>. QED  BY <1>0, <1>1, <2>1, <2>2, <2>3, HolderFactsNext
<1>. HIDE DEF After
<1>. QED  BY <1>1 DEF OneHolder

\* No step makes a second holder of a cap.
LEMMA OneHolderStep ==
    ASSUME CapTypeOK, MachineTypeOK, type = "cap", C!CSNext, NotCap, NEW c \in Caps, OneHolder(c)
    PROVE  OneHolder(c)'
<1>0. c # NoCap
  BY LoaderAssumption
<1>1. CASE UNCHANGED csVars /\ (pc' # "capMounted" => pc # "capMounted")
  BY <1>1, CapsUntouched, StaysOne
<1>2. CASE C!MountCap  BY <1>2, MountStep
<1>3. ASSUME NEW w \in Brought, C!OnCommandMsg(w) \/ C!OnPuckResult(w)  PROVE OneHolder(c)'
  BY <1>3, CommandMsgStep, ResultStep
<1>4. CASE C!ResetStored
  <2>1. (C!Holders(c))' \subseteq C!Holders(c)
    <3>1. UNCHANGED <<cap, cmds, results>> /\ stored' # c
      BY <1>0, <1>4 DEF C!ResetStored
    <3>. QED  BY <3>1, HolderFacts, HolderFactsNext
  <2>. QED  BY <2>1, StaysOne
<1>5. CASE C!RetrieveCap
  <2>1. (C!Holders(c))' \subseteq C!Holders(c)
    <3>1. /\ mid \in Brought /\ cmds \in [Brought -> Seq(CapCommand)]
          /\ cmds' = [cmds EXCEPT ![mid] = Append(@, C!REMOVE_CAP)]
          /\ UNCHANGED <<stored, cap, results>> /\ pc = "op"
      BY <1>5 DEF C!RetrieveCap, C!CanRetrieve, C!Publish, CapTypeOK, MachineTypeOK, W, CapCommand
    <3>2. C!REMOVE_CAP \in CapCommand /\ C!REMOVE_CAP # C!ADD_CAP(c)
      BY DEF C!REMOVE_CAP, C!ADD_CAP, CapCommand
    <3>3. ASSUME NEW w \in Brought, NEW i \in DOMAIN cmds'[w], cmds'[w][i] = C!ADD_CAP(c)
          PROVE  i \in DOMAIN cmds[w] /\ cmds[w][i] = C!ADD_CAP(c)
      <4>1. CASE w # mid  BY <3>1, <3>3, <4>1
      <4>2. CASE w = mid
        <5>1. cmds'[w] = Append(cmds[w], C!REMOVE_CAP) /\ cmds[w] \in Seq(CapCommand)
          BY <3>1, <4>2
        <5>2. \/ i \in DOMAIN cmds[w] /\ cmds'[w][i] = cmds[w][i]
              \/ cmds'[w][i] = C!REMOVE_CAP
          BY <3>2, <3>3, <5>1, AppendFacts
        <5>. QED  BY <3>2, <3>3, <5>2
      <4>. QED  BY <4>1, <4>2
    <3>. QED  BY <3>1, <3>3, HolderFacts, HolderFactsNext
  <2>. QED  BY <2>1, StaysOne
<1>. QED
  <2>1. C!WorkerLoop \/ C!Wake \/ C!Destructor \/ C!Environment
            => (pc' # "capMounted" => pc # "capMounted")
    BY DEF C!WorkerLoop, C!CheckShutdown, C!EnterWait, C!ProcessCommandIn, C!MoveConveyor,
           C!MoveTake, C!MoveTeleport, C!MoveAck, C!MoveRelease, C!MoveStore, C!MoveReady,
           C!MoveFree, C!Wake, C!Destructor, C!SetShutdown, C!NotifyShutdown, C!JoinAndStop,
           C!Environment, C!DataChange, C!SendCommand, C!RobotPlace, C!RobotTake, C!PublishPose
  <2>2. \A w \in Brought : C!OnPuckMsg(w) => pc' = pc
    BY DEF C!OnPuckMsg, C!TestInput, C!UseInput
  <2>3. C!CapAck \/ C!CapDone \/ C!CapRefuse => pc # "capMounted" /\ UNCHANGED csVars
    BY DEF C!CapAck, C!CapDone, C!CapRefuse, C!ReturnToLoop, C!csVars, csVars
  <2>. QED
    BY <1>1, <1>2, <1>3, <1>4, <1>5, <2>1, <2>2, <2>3
    DEF C!CSNext, C!CapOperation, C!csVars, csVars

\* A machine of another type has no cap in it, and does not touch any.
LEMMA OtherCapStep ==
    ASSUME CapIInv, type # "cap", type' = type, UNCHANGED csVars  PROVE CapIInv'
<1>1. CapTypeOK'
  BY DEF CapIInv, CapTypeOK, csVars
<1>2. ASSUME NEW c \in Caps  PROVE OneHolder(c)'
  <2>1. stored = NoCap /\ c # NoCap /\ OneHolder(c)
    BY LoaderAssumption DEF CapIInv, CapTypeOK
  <2>2. (C!Holders(c))' \subseteq C!Holders(c)
    BY <2>1, HolderFacts, HolderFactsNext DEF csVars
  <2>. QED  BY <2>1, <2>2, StaysOne
<1>. QED  BY <1>1, <1>2 DEF CapIInv

-----------------------------------------------------------------------------
(* The theorems. *)

LEMMA SameCardinality == ASSUME NEW S PROVE C!Cardinality(S) = Cardinality(S)
  BY DEF C!Cardinality, Cardinality

\* A new machine has executed nothing, and each cap is on one workpiece.
LEMMA LoadIInv == Load => IInv
<1>. SUFFICES ASSUME Load PROVE IInv
  OBVIOUS
<1>1. type \in {"base", "ring", "cap", "delivery"} /\ NoCap \notin Caps
  BY LoaderAssumption DEF Load
<1>2. /\ spawns = 0 /\ subscribed = {} /\ color = 0 /\ onSlide = {} /\ rings = <<>>
      /\ delivered = <<>>
  BY DEF Load, B!BSFresh, R!RSFresh, D!DSFresh
<1>3. /\ actionId = 0 /\ inp = NoWp /\ mid = NoWp /\ pc = "check" /\ sent = 0 /\ moves = 0
      /\ loc \in [W -> B!Place]
  BY <1>1 DEF Load, B!BSInit, B!InitWith, R!RSInit, R!Init, R!InitWith, C!CSInit, C!Init,
              C!InitWith, D!DSInit, D!Init, D!InitWith, W, B!Place
<1>4. MachineIInv
  BY <1>1, <1>2, <1>3
  DEF MachineIInv, MachineTypeOK, Arrived, MiddleIsTrue, InRegister, Accounted, Count, Credit,
      Carrying, Reading, Owing
<1>5. PICK Loaded \in {{}, Caps} : C!CSFresh(Loaded)
  BY DEF Load, C!CSInit
<1>6. /\ stored = NoCap /\ cap \in [Brought -> Loaded \cup {NoCap}]
      /\ cmds = [w \in Brought |-> <<>>] /\ results = [w \in Brought |-> <<>>]
      /\ \A c \in Loaded : Cardinality({w \in Brought : cap[w] = c}) = 1
  BY <1>5, SameCardinality DEF C!CSFresh
<1>7. CapTypeOK
  BY <1>5, <1>6 DEF CapTypeOK
<1>8. ASSUME NEW c \in Caps  PROVE OneHolder(c)
  <2>1. \A x \in C!Holders(c) : \E w \in Brought : x = <<w, "cap", 0>> /\ cap[w] = c
    BY <1>1, <1>6, HolderFacts
  <2>2. \A v, w \in Brought : cap[v] = c /\ cap[w] = c => v = w
    <3>1. CASE c \in Loaded
      <4>1. IsFiniteSet({w \in Brought : cap[w] = c})
        BY LoaderAssumption, FS_Subset
      <4>2. PICK one : {w \in Brought : cap[w] = c} = {one}
        BY <1>6, <3>1, <4>1, FS_Singleton
      <4>. QED  BY <4>2
    <3>2. CASE c \notin Loaded  BY <1>1, <1>6, <3>2
    <3>. QED  BY <3>1, <3>2
  <2>. QED  BY <2>1, <2>2 DEF OneHolder
<1>. QED  BY <1>4, <1>7, <1>8 DEF IInv, CapIInv

\* The steps of a loaded machine keep the invariant.
LEMMA NextIInv == IInv /\ [Next]_vars => IInv'
<1>. SUFFICES ASSUME IInv, [Next]_vars PROVE IInv'
  OBVIOUS
<1>0. MachineIInv /\ CapIInv /\ MachineTypeOK /\ CapTypeOK /\ \A c \in Caps : OneHolder(c)
  BY DEF IInv, MachineIInv, CapIInv
<1>1. CASE type = "base" /\ B!BSNext /\ NotBase
  BY <1>0, <1>1, BaseStep, MachineStep, OtherCapStep DEF IInv, NotBase, csVars
<1>2. CASE type = "ring" /\ R!RSNext /\ NotRing
  BY <1>0, <1>2, RingStep, MachineStep, OtherCapStep DEF IInv, NotRing, csVars
<1>3. CASE type = "cap" /\ C!CSNext /\ NotCap
  <2>1. MachineIInv'
    BY <1>0, <1>3, CapStep, MachineStep
  <2>2. CapTypeOK' /\ \A c \in Caps : OneHolder(c)'
    BY <1>0, <1>3, CapTypeStep, OneHolderStep
  <2>. QED  BY <2>1, <2>2 DEF IInv, CapIInv
<1>4. CASE type = "delivery" /\ D!DSNext /\ NotDelivery
  BY <1>0, <1>4, DeliveryStep, MachineStep, OtherCapStep DEF IInv, NotDelivery, csVars
<1>5. CASE UNCHANGED vars
  <2>1. MoveStep /\ CountStep
    BY <1>0, <1>5 DEF vars, mpsVars, bsVars, csVars, rsVars, MachineTypeOK, MoveStep, Beside, CountStep,
        NothingCounts, Stays
  <2>2. UNCHANGED csVars /\ pc' = pc /\ type' = type
    BY <1>5 DEF vars, csVars, mpsVars
  <2>3. \A c \in Caps : OneHolder(c)'
    BY <1>0, <2>2, CapsUntouched, StaysOne
  <2>4. CapTypeOK'
    BY <1>0, <2>2 DEF CapTypeOK, csVars
  <2>. QED  BY <1>0, <2>1, <2>3, <2>4, MachineStep DEF IInv, CapIInv
<1>. QED  BY <1>1, <1>2, <1>3, <1>4, <1>5 DEF Next

\* The inductive invariant holds for every machine that is loaded.
THEOREM Invariance == Spec => []IInv
  BY LoadIInv, NextIInv, PTL DEF Spec

\* process_command_in of whatever of the four classes: wp_in_middle_ names what
\* lies in the middle, but for the workpieces MiddleIsTrue lists, and a command
\* is executed at most once.
THEOREM PromisesAreKept == Spec => []StationsKeepPromises
<1>1. IInv => StationsKeepPromises
  <2>. SUFFICES ASSUME IInv PROVE AtMostOnce
    BY DEF IInv, MachineIInv, StationsKeepPromises
  <2>1. /\ moves \in Nat /\ spawns \in Nat /\ Len(rings) \in Nat /\ Len(delivered) \in Nat
        /\ sent \in Nat
    BY DEF IInv, MachineIInv, MachineTypeOK
  <2>2. Credit \in Nat
    BY DEF Credit
  <2>3. Count + Credit <= sent
    BY DEF IInv, MachineIInv, Accounted
  <2>. QED  BY <2>1, <2>2, <2>3 DEF AtMostOnce, Count
<1>. QED  BY <1>1, Invariance, PTL

\* retrieve_cap, mount_cap and on_puck_result with the commands and results
\* between them: a cap is never in two places.
THEOREM CapsAreSingle == Spec => []CapsNotDuplicated
<1>1. IInv => CapsNotDuplicated
  <2>. SUFFICES ASSUME IInv, NEW c \in Caps PROVE C!AtMostOneHolder(c)
    BY DEF CapsNotDuplicated
  <2>1. \A x, y \in C!Holders(c) : x = y
    BY DEF IInv, CapIInv, OneHolder
  <2>2. CASE C!Holders(c) = {}
    <3>1. Cardinality(C!Holders(c)) = 0
      BY <2>2, FS_EmptySet
    <3>. QED  BY <3>1, SameCardinality DEF C!AtMostOneHolder
  <2>3. CASE C!Holders(c) # {}
    <3>1. PICK x : C!Holders(c) = {x}
      BY <2>1, <2>3
    <3>2. Cardinality(C!Holders(c)) = 1
      BY <3>1, FS_Singleton
    <3>. QED  BY <3>2, SameCardinality DEF C!AtMostOneHolder
  <2>. QED  BY <2>2, <2>3
<1>. QED  BY <1>1, Invariance, PTL

=============================================================================
