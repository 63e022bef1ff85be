----------------------------- MODULE Mps_proofs -----------------------------
(***************************************************************************)
(* Proofs about the machine of module Mps, for any number of workpieces,   *)
(* commands and poses in flight.  IInv is inductive: MiddleIsTrue needs to *)
(* know which workpiece the worker carries between two statements of       *)
(* move_conveyor, AtMostOnce needs to know that a command leaves its       *)
(* register only after its workpiece was moved.                            *)
(***************************************************************************)
EXTENDS Mps, TLAPS

\* What the proofs need to know of the constants: the null pointer is no
\* workpiece, and 0 is the register's empty value.
LEMMA ConstantFacts == NoWp \notin Wp /\ 0 \notin ActionIds
  BY MpsAssumption

\* The initial machine satisfies the inductive invariant.
LEMMA InitIInv == Init => IInv
<1> SUFFICES ASSUME Init PROVE IInv
  OBVIOUS
<1> USE DEF Init, InitWith
<1>1. TypeOK
  <2>1. loc \in [Wp -> Place] /\ poses \in [Wp -> Seq(Place)]
    BY DEF Place
  <2>2. callback \in Callback
    BY DEF Idle, Place, Callback
  <2>. QED  BY <2>1, <2>2 DEF TypeOK, WorkerPc
<1>2. HoldsWp /\ ArrivedInMiddle /\ CommandInRegister
  BY DEF HoldsWp, ArrivedInMiddle, CommandInRegister
<1>3. MiddleIsTrue /\ BusyHoldsCommand
  BY DEF MiddleIsTrue, BusyHoldsCommand
<1>4. Accounted
  BY DEF Accounted, Unmoved
<1>. QED  BY <1>1, <1>2, <1>3, <1>4 DEF IInv

\* on_puck_msg touches the input and output pointers and Ready, and nothing else.
LEMMA PuckMsgFrame ==
    ASSUME NEW w, OnPuckMsg(w)
    PROVE  UNCHANGED <<actionId, payload1, busy, notice, mid, loc, pc, wp, side, dtor, sent, moves>>
  BY DEF OnPuckMsg, TestInput, UseInput, history

\* Types: every step of the worker, of the callbacks, of the destructor and
\* of the environment keeps the variables in their types.
LEMMA TypeStep == ASSUME IInv, [Next]_mpsVars PROVE TypeOK'
<1> USE DEF TypeOK, WorkerPc, nodes, slots, world, locals, history
<1>0. TypeOK /\ HoldsWp
  BY DEF IInv
<1>p. {"away", "input", "middle", "output"} \subseteq Place
  BY DEF Place
<1>1. CASE CheckShutdown  BY <1>0, <1>1 DEF CheckShutdown
<1>2. CASE EnterWait  BY <1>0, <1>2 DEF EnterWait
<1>3. CASE Wake  BY <1>0, <1>3 DEF Wake
<1>4. CASE ProcessCommandIn
  <2>1. CASE IsOperation(actionId, OPERATION_MOVE_CONVEYOR)
    BY <1>0, <1>4, <2>1 DEF ProcessCommandIn
  <2>2. CASE ~IsOperation(actionId, OPERATION_MOVE_CONVEYOR)
    BY <1>0, <1>4, <2>2 DEF ProcessCommandIn
  <2>. QED  BY <2>1, <2>2
<1>5. CASE MoveTake  BY <1>0, <1>5 DEF MoveTake, SourceSlot
<1>6. CASE MoveTeleport
  <2>1. TargetPlace(side) \in Place
    BY <1>p DEF TargetPlace
  <2>2. loc' \in [Wp -> Place]
    BY <1>0, <1>6, <2>1 DEF MoveTeleport
  <2>3. moves' \in Nat
    BY <1>0, <1>6 DEF MoveTeleport
  <2>. QED  BY <1>0, <1>6, <2>2, <2>3 DEF MoveTeleport
<1>7. CASE MoveAck  BY <1>0, <1>7 DEF MoveAck
<1>8. CASE MoveRelease  BY <1>0, <1>8 DEF MoveRelease
<1>9. CASE MoveStore  BY <1>0, <1>9 DEF MoveStore
<1>10. CASE MoveReady  BY <1>0, <1>10 DEF MoveReady
<1>11. CASE MoveFree  BY <1>0, <1>11 DEF MoveFree
<1>12. CASE ReturnToLoop  BY <1>0, <1>12 DEF ReturnToLoop
<1>13. ASSUME NEW w \in Wp, OnPuckMsg(w)  PROVE TypeOK'
  <2>1. UNCHANGED <<actionId, payload1, busy, notice, mid, loc, pc, wp, side, dtor, sent, moves>>
    BY <1>13, PuckMsgFrame
  <2>2. "away" \in Place
    BY DEF Place
  <2>3. CASE TestInput(w)
    <3>1. Head(poses[w]) \in Place /\ Tail(poses[w]) \in Seq(Place)
      BY <1>0, <2>3 DEF TestInput
    <3>2. poses' \in [Wp -> Seq(Place)] /\ inp' = inp
      BY <1>0, <2>3, <3>1 DEF TestInput
    <3>3. out' \in Wp \cup {NoWp} /\ ready' \in BOOLEAN
      BY <1>0, <2>3 DEF TestInput, LeaveOutput
    <3>4. callback' \in Callback
      BY <1>0, <2>3, <3>1 DEF TestInput, Callback
    <3>. QED  BY <1>0, <2>1, <3>2, <3>3, <3>4
  <2>4. CASE UseInput
    <3>1. inp' \in Wp \cup {NoWp} /\ out' \in Wp \cup {NoWp} /\ ready' \in BOOLEAN
      <4>1. CASE AssignInput  BY <1>0, <4>1 DEF AssignInput, Callback
      <4>2. CASE NameOfNull \/ LogInput  BY <1>0, <4>2 DEF NameOfNull, LogInput
      <4>3. CASE CompareInput  BY <1>0, <4>3 DEF CompareInput, LeaveOutput
      <4>. QED  BY <2>4, <4>1, <4>2, <4>3 DEF UseInput
    <3>2. callback' \in Callback
      <4>1. \A step \in {"log", "crashed"} :
                [callback EXCEPT !.step = step] \in Callback
        BY <1>0 DEF Callback
      <4>2. \/ callback' = Idle
            \/ \E step \in {"log", "crashed"} : callback' = [callback EXCEPT !.step = step]
        BY <2>4 DEF UseInput, AssignInput, NameOfNull, LogInput, CompareInput
      <4>. QED  BY <2>2, <4>1, <4>2 DEF Idle, Callback
    <3>3. poses' = poses
      BY <2>4 DEF UseInput
    <3>. QED  BY <1>0, <2>1, <3>1, <3>2, <3>3
  <2>. QED  BY <1>13, <2>3, <2>4 DEF OnPuckMsg
<1>14. CASE SetShutdown  BY <1>0, <1>14 DEF SetShutdown
<1>15. CASE NotifyShutdown  BY <1>0, <1>15 DEF NotifyShutdown
<1>16. CASE JoinAndStop  BY <1>0, <1>16 DEF JoinAndStop
<1>17. CASE DataChange  BY <1>0, <1>17 DEF DataChange
<1>18. ASSUME NEW a \in ActionIds, NEW p \in Payloads, SendCommand(a, p)  PROVE TypeOK'
  BY <1>0, <1>18 DEF SendCommand
<1>19. ASSUME NEW w \in Wp, RobotPlace(w)  PROVE TypeOK'
  BY <1>0, <1>19, <1>p DEF RobotPlace
<1>20. ASSUME NEW w \in Wp, RobotTake(w)  PROVE TypeOK'
  BY <1>0, <1>20, <1>p DEF RobotTake
<1>21. ASSUME NEW w \in Wp, PublishPose(w)  PROVE TypeOK'
  <2>1. Append(poses[w], Seen(loc[w])) \in Seq(Place)
    BY <1>0, <1>21 DEF Seen, Place
  <2>. QED  BY <1>0, <1>21, <2>1 DEF PublishPose
<1>22. CASE UNCHANGED mpsVars  BY <1>0, <1>22 DEF mpsVars
<1>. QED
  BY <1>1, <1>2, <1>3, <1>4, <1>5, <1>6, <1>7, <1>8, <1>9, <1>10, <1>11, <1>12, <1>13,
     <1>14, <1>15, <1>16, <1>17, <1>18, <1>19, <1>20, <1>21, <1>22
  DEF Next, WorkerLoop, MoveConveyor, Destructor, Environment

\* What the worker carries: from MoveTake to MoveFree it holds a workpiece.
LEMMA CarryStep == ASSUME IInv, [Next]_mpsVars PROVE HoldsWp'
<1> USE DEF HoldsWp, nodes, slots, world, locals, history
<1>0. TypeOK /\ HoldsWp
  BY DEF IInv
<1>1. CASE CheckShutdown  BY <1>0, <1>1 DEF CheckShutdown
<1>2. CASE EnterWait  BY <1>0, <1>2 DEF EnterWait
<1>3. CASE Wake  BY <1>0, <1>3 DEF Wake
<1>4. CASE ProcessCommandIn  BY <1>0, <1>4 DEF ProcessCommandIn
<1>5. CASE MoveTake  BY <1>0, <1>5 DEF MoveTake, SourceSlot, TypeOK, MIDDLE, INPUT, OUTPUT
<1>6. CASE MoveTeleport  BY <1>0, <1>6 DEF MoveTeleport
<1>7. CASE MoveAck  BY <1>0, <1>7 DEF MoveAck
<1>8. CASE MoveRelease  BY <1>0, <1>8 DEF MoveRelease
<1>9. CASE MoveStore  BY <1>0, <1>9 DEF MoveStore
<1>10. CASE MoveReady  BY <1>0, <1>10 DEF MoveReady
<1>11. CASE MoveFree  BY <1>0, <1>11 DEF MoveFree
<1>12. CASE ReturnToLoop  BY <1>0, <1>12 DEF ReturnToLoop
<1>13. ASSUME NEW w \in Wp, OnPuckMsg(w)  PROVE HoldsWp'
  BY <1>0, <1>13, PuckMsgFrame
<1>14. CASE SetShutdown  BY <1>0, <1>14 DEF SetShutdown
<1>15. CASE NotifyShutdown  BY <1>0, <1>15 DEF NotifyShutdown
<1>16. CASE JoinAndStop  BY <1>0, <1>16 DEF JoinAndStop
<1>17. CASE DataChange  BY <1>0, <1>17 DEF DataChange
<1>18. ASSUME NEW a \in ActionIds, NEW p \in Payloads, SendCommand(a, p)  PROVE HoldsWp'
  BY <1>0, <1>18 DEF SendCommand
<1>19. ASSUME NEW w \in Wp, RobotPlace(w)  PROVE HoldsWp'
  BY <1>0, <1>19 DEF RobotPlace
<1>20. ASSUME NEW w \in Wp, RobotTake(w)  PROVE HoldsWp'
  BY <1>0, <1>20 DEF RobotTake
<1>21. ASSUME NEW w \in Wp, PublishPose(w)  PROVE HoldsWp'
  BY <1>0, <1>21 DEF PublishPose
<1>22. CASE UNCHANGED mpsVars  BY <1>0, <1>22 DEF mpsVars
<1>. QED
  BY <1>1, <1>2, <1>3, <1>4, <1>5, <1>6, <1>7, <1>8, <1>9, <1>10, <1>11, <1>12, <1>13,
     <1>14, <1>15, <1>16, <1>17, <1>18, <1>19, <1>20, <1>21, <1>22
  DEF Next, WorkerLoop, MoveConveyor, Destructor, Environment

\* The middle: a robot reaches neither the workpiece that wp_in_middle_ names
\* nor the one on its way there, and poses never touch the pointer.
LEMMA MiddleStep == ASSUME IInv, [Next]_mpsVars PROVE MiddleIsTrue' /\ ArrivedInMiddle'
<1> USE DEF MiddleIsTrue, ArrivedInMiddle, Moved, nodes, slots, world, locals, history
<1>0. TypeOK /\ HoldsWp /\ MiddleIsTrue /\ ArrivedInMiddle
  BY DEF IInv
<1>1. CASE CheckShutdown  BY <1>0, <1>1 DEF CheckShutdown
<1>2. CASE EnterWait  BY <1>0, <1>2 DEF EnterWait
<1>3. CASE Wake  BY <1>0, <1>3 DEF Wake
<1>4. CASE ProcessCommandIn  BY <1>0, <1>4 DEF ProcessCommandIn
<1>5. CASE MoveTake  BY <1>0, <1>5 DEF MoveTake, TypeOK
<1>6. CASE MoveTeleport  BY <1>0, <1>6 DEF MoveTeleport, TypeOK, HoldsWp, TargetPlace, MIDDLE, INPUT
<1>7. CASE MoveAck  BY <1>0, <1>7 DEF MoveAck
<1>8. CASE MoveRelease  BY <1>0, <1>8 DEF MoveRelease, TypeOK
<1>9. CASE MoveStore  BY <1>0, <1>9 DEF MoveStore, TypeOK, HoldsWp, MIDDLE
<1>10. CASE MoveReady  BY <1>0, <1>10 DEF MoveReady
<1>11. CASE MoveFree  BY <1>0, <1>11 DEF MoveFree
<1>12. CASE ReturnToLoop  BY <1>0, <1>12 DEF ReturnToLoop
<1>13. ASSUME NEW w \in Wp, OnPuckMsg(w)  PROVE MiddleIsTrue' /\ ArrivedInMiddle'
  BY <1>0, <1>13, PuckMsgFrame
<1>14. CASE SetShutdown  BY <1>0, <1>14 DEF SetShutdown
<1>15. CASE NotifyShutdown  BY <1>0, <1>15 DEF NotifyShutdown
<1>16. CASE JoinAndStop  BY <1>0, <1>16 DEF JoinAndStop
<1>17. CASE DataChange  BY <1>0, <1>17 DEF DataChange
<1>18. ASSUME NEW a \in ActionIds, NEW p \in Payloads, SendCommand(a, p)  PROVE MiddleIsTrue' /\ ArrivedInMiddle'
  BY <1>0, <1>18 DEF SendCommand
<1>19. ASSUME NEW w \in Wp, RobotPlace(w)  PROVE MiddleIsTrue' /\ ArrivedInMiddle'
  BY <1>0, <1>19 DEF RobotPlace, TypeOK, HoldsWp
<1>20. ASSUME NEW w \in Wp, RobotTake(w)  PROVE MiddleIsTrue' /\ ArrivedInMiddle'
  BY <1>0, <1>20 DEF RobotTake, TypeOK, HoldsWp, Reachable
<1>21. ASSUME NEW w \in Wp, PublishPose(w)  PROVE MiddleIsTrue' /\ ArrivedInMiddle'
  BY <1>0, <1>21 DEF PublishPose
<1>22. CASE UNCHANGED mpsVars  BY <1>0, <1>22 DEF mpsVars
<1>. QED
  BY <1>1, <1>2, <1>3, <1>4, <1>5, <1>6, <1>7, <1>8, <1>9, <1>10, <1>11, <1>12, <1>13,
     <1>14, <1>15, <1>16, <1>17, <1>18, <1>19, <1>20, <1>21, <1>22
  DEF Next, WorkerLoop, MoveConveyor, Destructor, Environment

\* The register: a command stays there until MoveAck, whether or not Busy was
\* raised for it.
LEMMA CommandStep == ASSUME IInv, [Next]_mpsVars PROVE CommandInRegister' /\ BusyHoldsCommand'
<1> USE DEF CommandInRegister, BusyHoldsCommand, nodes, slots, world, locals, history
<1>0. TypeOK /\ CommandInRegister /\ BusyHoldsCommand
  BY DEF IInv
<1>1. CASE CheckShutdown  BY <1>0, <1>1 DEF CheckShutdown
<1>2. CASE EnterWait  BY <1>0, <1>2 DEF EnterWait
<1>3. CASE Wake  BY <1>0, <1>3 DEF Wake
<1>4. CASE ProcessCommandIn  BY <1>0, <1>4 DEF ProcessCommandIn, IsOperation
<1>5. CASE MoveTake  BY <1>0, <1>5 DEF MoveTake
<1>6. CASE MoveTeleport  BY <1>0, <1>6 DEF MoveTeleport
<1>7. CASE MoveAck  BY <1>0, <1>7 DEF MoveAck
<1>8. CASE MoveRelease  BY <1>0, <1>8 DEF MoveRelease
<1>9. CASE MoveStore  BY <1>0, <1>9 DEF MoveStore
<1>10. CASE MoveReady  BY <1>0, <1>10 DEF MoveReady
<1>11. CASE MoveFree  BY <1>0, <1>11 DEF MoveFree
<1>12. CASE ReturnToLoop  BY <1>0, <1>12 DEF ReturnToLoop
<1>13. ASSUME NEW w \in Wp, OnPuckMsg(w)  PROVE CommandInRegister' /\ BusyHoldsCommand'
  BY <1>0, <1>13, PuckMsgFrame
<1>14. CASE SetShutdown  BY <1>0, <1>14 DEF SetShutdown
<1>15. CASE NotifyShutdown  BY <1>0, <1>15 DEF NotifyShutdown
<1>16. CASE JoinAndStop  BY <1>0, <1>16 DEF JoinAndStop
<1>17. CASE DataChange  BY <1>0, <1>17 DEF DataChange
<1>18. ASSUME NEW a \in ActionIds, NEW p \in Payloads, SendCommand(a, p)  PROVE CommandInRegister' /\ BusyHoldsCommand'
  BY <1>0, <1>18, ConstantFacts DEF SendCommand
<1>19. ASSUME NEW w \in Wp, RobotPlace(w)  PROVE CommandInRegister' /\ BusyHoldsCommand'
  BY <1>0, <1>19 DEF RobotPlace
<1>20. ASSUME NEW w \in Wp, RobotTake(w)  PROVE CommandInRegister' /\ BusyHoldsCommand'
  BY <1>0, <1>20 DEF RobotTake
<1>21. ASSUME NEW w \in Wp, PublishPose(w)  PROVE CommandInRegister' /\ BusyHoldsCommand'
  BY <1>0, <1>21 DEF PublishPose
<1>22. CASE UNCHANGED mpsVars  BY <1>0, <1>22 DEF mpsVars
<1>. QED
  BY <1>1, <1>2, <1>3, <1>4, <1>5, <1>6, <1>7, <1>8, <1>9, <1>10, <1>11, <1>12, <1>13,
     <1>14, <1>15, <1>16, <1>17, <1>18, <1>19, <1>20, <1>21, <1>22
  DEF Next, WorkerLoop, MoveConveyor, Destructor, Environment

\* The account: writing a command raises sent, and the only teleport it pays
\* for lowers what is unmoved.
LEMMA AccountStep == ASSUME IInv, [Next]_mpsVars PROVE Accounted'
<1> USE DEF Accounted, Unmoved, TypeOK, nodes, slots, world, locals, history
<1>0. TypeOK /\ CommandInRegister /\ Accounted
  BY DEF IInv
<1>1. CASE CheckShutdown  BY <1>0, <1>1 DEF CheckShutdown
<1>2. CASE EnterWait  BY <1>0, <1>2 DEF EnterWait
<1>3. CASE Wake  BY <1>0, <1>3 DEF Wake
<1>4. CASE ProcessCommandIn  BY <1>0, <1>4 DEF ProcessCommandIn
<1>5. CASE MoveTake  BY <1>0, <1>5 DEF MoveTake
<1>6. CASE MoveTeleport  BY <1>0, <1>6 DEF MoveTeleport, CommandInRegister
<1>7. CASE MoveAck  BY <1>0, <1>7 DEF MoveAck
<1>8. CASE MoveRelease  BY <1>0, <1>8 DEF MoveRelease
<1>9. CASE MoveStore  BY <1>0, <1>9 DEF MoveStore
<1>10. CASE MoveReady  BY <1>0, <1>10 DEF MoveReady
<1>11. CASE MoveFree  BY <1>0, <1>11 DEF MoveFree
<1>12. CASE ReturnToLoop  BY <1>0, <1>12 DEF ReturnToLoop
<1>13. ASSUME NEW w \in Wp, OnPuckMsg(w)  PROVE Accounted'
  BY <1>0, <1>13, PuckMsgFrame
<1>14. CASE SetShutdown  BY <1>0, <1>14 DEF SetShutdown
<1>15. CASE NotifyShutdown  BY <1>0, <1>15 DEF NotifyShutdown
<1>16. CASE JoinAndStop  BY <1>0, <1>16 DEF JoinAndStop
<1>17. CASE DataChange  BY <1>0, <1>17 DEF DataChange
<1>18. ASSUME NEW a \in ActionIds, NEW p \in Payloads, SendCommand(a, p)  PROVE Accounted'
  BY <1>0, <1>18 DEF SendCommand
<1>19. ASSUME NEW w \in Wp, RobotPlace(w)  PROVE Accounted'
  BY <1>0, <1>19 DEF RobotPlace
<1>20. ASSUME NEW w \in Wp, RobotTake(w)  PROVE Accounted'
  BY <1>0, <1>20 DEF RobotTake
<1>21. ASSUME NEW w \in Wp, PublishPose(w)  PROVE Accounted'
  BY <1>0, <1>21 DEF PublishPose
<1>22. CASE UNCHANGED mpsVars  BY <1>0, <1>22 DEF mpsVars
<1>. QED
  BY <1>1, <1>2, <1>3, <1>4, <1>5, <1>6, <1>7, <1>8, <1>9, <1>10, <1>11, <1>12, <1>13,
     <1>14, <1>15, <1>16, <1>17, <1>18, <1>19, <1>20, <1>21, <1>22
  DEF Next, WorkerLoop, MoveConveyor, Destructor, Environment

\* IInv is an invariant of the machine.
THEOREM Invariance == Spec => []IInv
<1>1. IInv /\ [Next]_mpsVars => IInv'
  BY TypeStep, CarryStep, MiddleStep, CommandStep, AccountStep DEF IInv
<1>. QED  BY InitIInv, <1>1, PTL DEF Spec

\* Type correctness of the machine's registers, pointers and threads.
THEOREM TypeCorrect == Spec => []TypeOK
<1>1. IInv => TypeOK
  BY DEF IInv
<1>. QED  BY Invariance, <1>1, PTL

\* wp_in_middle_ never names a workpiece that is not in the middle, but for
\* the window between the teleport and the reset of the pointer.
THEOREM MiddleTruth == Spec => []MiddleIsTrue
<1>1. IInv => MiddleIsTrue
  BY DEF IInv
<1>. QED  BY Invariance, <1>1, PTL

\* An idle worker leaves Busy set only together with the command it refused.
THEOREM BusyCommand == Spec => []BusyHoldsCommand
<1>1. IInv => BusyHoldsCommand
  BY DEF IInv
<1>. QED  BY Invariance, <1>1, PTL

\* No command moves two workpieces.
THEOREM CommandAtMostOnce == Spec => []AtMostOnce
<1>1. IInv => AtMostOnce
  BY DEF IInv, TypeOK, Accounted, Unmoved, AtMostOnce
<1>. QED  BY Invariance, <1>1, PTL

=============================================================================
