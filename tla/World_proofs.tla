---------------------------- MODULE World_proofs ----------------------------
(***************************************************************************)
(* Proofs about the simulated world (module World), for any number of      *)
(* workpieces, robots, machines and tags and all bounds.  A behaviour is   *)
(* about one plugin; of each there is an inductive invariant.              *)
(***************************************************************************)
EXTENDS World, FiniteSetTheorems, SequenceTheorems, TLAPS

\* A step of the world.
Step == [Next]_vars

\* A behaviour stays with the plugin it began with.
LEMMA KindKept == Step => kind' = kind
  BY DEF Step, Next, ShelfNext, StorageNext, GripNext, LightNext, DetectNext, PlaceNext, RobotNext,
         vars

-----------------------------------------------------------------------------
(* The shelf of the cap station. *)

ShelfTypeOK ==
    /\ shelf \in [Shelf!Slot -> Wp \cup {NoWp}]
    /\ loc \in [Wp -> {"unborn", "away"} \cup Shelf!Slot]
    /\ ordered \in [Shelf!Slot -> SUBSET Wp] /\ news \in SUBSET Wp /\ due \in BOOLEAN
    /\ capped \in SUBSET Wp /\ returned \in SUBSET Wp

\* A workpiece is ordered once, for one place, before it stands anywhere; it is
\* announced when it does, and put back by a robot only later.
LivesInOrder ==
    /\ \A s, t \in Shelf!Slot : \A w \in ordered[s] : loc[w] = "unborn" /\ (w \in ordered[t] => s = t)
    /\ \A w \in news : loc[w] # "unborn"
    /\ \A w \in returned : loc[w] # "unborn" /\ w \notin news

\* At most one workpiece of the station stands in a place or is ordered for it.
Alone ==
    \A s \in Shelf!Slot : \A v, w \in (Shelf!On(s) \cup ordered[s]) \ returned : v = w

\* The station's pointer leads to the announced workpiece of a place.
Known == \A w \in Wp : loc[w] \in Shelf!Slot /\ w \notin returned \cup news => shelf[loc[w]] = w

\* The time for a refill comes when all that was ordered has been announced.
DueIsQuiet == due => news = {} /\ \A s \in Shelf!Slot : ordered[s] = {}

ShelfIInv == ShelfTypeOK /\ LivesInOrder /\ Alone /\ Known /\ DueIsQuiet /\ Shelf!ShelfHasCaps

\* The plugin modules count as this one does.
LEMMA ShelfCounts ==
    ASSUME NEW S PROVE Shelf!Cardinality(S) = Cardinality(S)
  BY DEF Shelf!Cardinality, Cardinality, Shelf!IsFiniteSet, IsFiniteSet

\* Three names can be chosen for the three places.
LEMMA FreshNames ==
    ASSUME NEW S, IsFiniteSet(S), Cardinality(S) >= 3
    PROVE  /\ Shelf!Fresh(S) \in [Shelf!Slot -> S]
           /\ \A s, t \in Shelf!Slot : Shelf!Fresh(S)[s] = Shelf!Fresh(S)[t] => s = t
<1>1. PICK a \in S : TRUE
  BY FS_EmptySet
<1>2. IsFiniteSet(S \ {a}) /\ Cardinality(S \ {a}) = Cardinality(S) - 1
  BY <1>1, FS_RemoveElement
<1>3. PICK b \in S \ {a} : TRUE
  BY <1>2, FS_EmptySet, FS_CardinalityType
<1>. DEFINE R == S \ {a}
<1>. HIDE DEF R
<1>4. Cardinality(S) \in Nat /\ IsFiniteSet(R) /\ Cardinality(R) = Cardinality(S) - 1 /\ b \in R
  BY <1>2, <1>3, FS_CardinalityType DEF R
<1>5. IsFiniteSet(R \ {b}) /\ Cardinality(R \ {b}) = Cardinality(R) - 1
  BY <1>4, FS_RemoveElement
<1>6. R \ {b} # {}
  BY <1>4, <1>5, FS_EmptySet
<1>7. PICK c \in R \ {b} : TRUE
  BY <1>6
<1>. DEFINE f == [s \in Shelf!Slot |-> IF s = "left" THEN a ELSE IF s = "middle" THEN b ELSE c]
<1>8. a \in S /\ b \in S /\ c \in S /\ a # b /\ a # c /\ b # c
  BY <1>1, <1>3, <1>7 DEF R
<1>9. f \in [Shelf!Slot -> S] /\ \A s, t \in Shelf!Slot : f[s] = f[t] => s = t
  BY <1>8 DEF Shelf!Slot
<1>. HIDE DEF f
<1>. QED  BY <1>9 DEF Shelf!Fresh

\* A set in which there is nothing but one element has at most one.
LEMMA AtMostOne ==
    ASSUME NEW S, \A v, w \in S : v = w PROVE Cardinality(S) <= 1
<1>1. CASE S = {}
  BY <1>1, FS_EmptySet
<1>2. CASE S # {}
  <2>1. PICK v \in S : S = {v}
    BY <1>2
  <2>. QED  BY <2>1, FS_Singleton
<1>. QED  BY <1>1, <1>2

\* The shelf before the first workpieces are spawned.
LEMMA ShelfInit == Init /\ kind = "shelf" => ShelfIInv
<1>. SUFFICES ASSUME Shelf!Init PROVE ShelfIInv
  BY DEF Init
<1>1. /\ Shelf!Fresh(Wp) \in [Shelf!Slot -> Wp]
      /\ \A s, t \in Shelf!Slot : Shelf!Fresh(Wp)[s] = Shelf!Fresh(Wp)[t] => s = t
  BY WorldAssumption, FreshNames
<1>. QED
  BY <1>1 DEF Shelf!Init, Shelf!Slot, Shelf!On, ShelfIInv, ShelfTypeOK, LivesInOrder, Alone, Known,
              DueIsQuiet, Shelf!ShelfHasCaps

\* The steps of the shelf.
LEMMA ShelfStep == ASSUME kind = "shelf", ShelfIInv, Step PROVE ShelfIInv'
<1>0. ShelfTypeOK /\ LivesInOrder /\ Alone /\ Known /\ DueIsQuiet /\ Shelf!ShelfHasCaps
  BY DEF ShelfIInv
<1>. USE DEF ShelfIInv, ShelfTypeOK, LivesInOrder, Alone, Known, DueIsQuiet, Shelf!ShelfHasCaps,
             Shelf!On
<1>1. CASE UNCHANGED vars
  BY <1>0, <1>1 DEF vars, shelfOnly
<1>2. CASE Shelf!OnUpdate
  <2>1. /\ due = TRUE /\ news = {} /\ \A s \in Shelf!Slot : ordered[s] = {}
        /\ UNCHANGED <<loc, news, capped, returned>>
    BY <1>0, <1>2 DEF Shelf!OnUpdate
  <2>2. /\ shelf' \in [Shelf!Slot -> Wp \cup {NoWp}]
        /\ \A w \in Wp : loc[w] \in Shelf!Slot /\ shelf[loc[w]] = w => shelf'[loc[w]] = w
    BY <1>0, <1>2, WorldAssumption DEF Shelf!OnUpdate, Shelf!StillThere
  <2>3. Known'
    BY <1>0, <2>1, <2>2
  <2>4. CASE UNCHANGED <<ordered, due>>
    BY <1>0, <2>1, <2>2, <2>3, <2>4
  <2>5. CASE (\A s \in Shelf!Slot : shelf'[s] = NoWp) /\ Shelf!Refill /\ due' = FALSE
    <3>. DEFINE unborn == {w \in Wp : loc[w] = "unborn" /\ w \notin Shelf!Ordered}
                f == Shelf!Fresh(unborn)
    <3>1. Shelf!Cardinality(unborn) >= 3 /\ ordered' = [s \in Shelf!Slot |-> ordered[s] \cup {f[s]}]
      BY <2>5 DEF Shelf!Refill
    <3>2. IsFiniteSet(unborn) /\ Cardinality(unborn) >= 3
      BY <3>1, ShelfCounts, WorldAssumption, FS_Subset
    <3>3. f \in [Shelf!Slot -> unborn] /\ \A s, t \in Shelf!Slot : f[s] = f[t] => s = t
      BY <3>2, FreshNames
    <3>. HIDE DEF f
    <3>4. \A s \in Shelf!Slot : ordered'[s] = {f[s]} /\ f[s] \in Wp /\ loc[f[s]] = "unborn"
      BY <2>1, <3>1, <3>3
    <3>5. ShelfTypeOK'
      <4>1. ordered' \in [Shelf!Slot -> SUBSET Wp]
        BY <1>0, <3>1, <3>4
      <4>. QED  BY <1>0, <2>1, <2>2, <2>5, <4>1
    <3>6. LivesInOrder'
      BY <1>0, <2>1, <3>3, <3>4
    <3>7. \A s \in Shelf!Slot : Shelf!On(s) \subseteq returned
      BY <1>0, <2>1, <2>2, <2>3, <2>5, WorldAssumption
    <3>8. Alone'
      BY <1>0, <2>1, <3>4, <3>7
    <3>. QED  BY <1>0, <2>1, <2>3, <2>5, <3>5, <3>6, <3>8
  <2>. QED  BY <1>2, <2>4, <2>5 DEF Shelf!OnUpdate
<1>3. CASE Shelf!Elapse
  BY <1>0, <1>3 DEF Shelf!Elapse, Shelf!Ordered
<1>4. ASSUME NEW w \in Wp, Shelf!on_new_puck(w) PROVE ShelfIInv'
  <2>1. ShelfTypeOK' /\ LivesInOrder' /\ DueIsQuiet' /\ Alone'
    BY <1>0, <1>4 DEF Shelf!on_new_puck
  <2>2. Known' /\ Shelf!ShelfHasCaps'
    BY <1>0, <1>4 DEF Shelf!on_new_puck
  <2>. QED  BY <2>1, <2>2
<1>5. ASSUME NEW w \in Wp, Shelf!RobotTake(w) PROVE ShelfIInv'
  BY <1>0, <1>5 DEF Shelf!RobotTake, Shelf!Slot
<1>6. ASSUME NEW w \in Wp, NEW s \in Shelf!Slot, Shelf!InsertModel(w, s) PROVE ShelfIInv'
  BY <1>0, <1>6 DEF Shelf!InsertModel, Shelf!Slot
<1>7. ASSUME NEW w \in Wp, NEW s \in Shelf!Slot, Shelf!RobotReturn(w, s) PROVE ShelfIInv'
  BY <1>0, <1>7 DEF Shelf!RobotReturn, Shelf!Slot, Shelf!Ordered
<1>8. Shelf!Next \/ UNCHANGED vars
  BY DEF Step, Next, ShelfNext, StorageNext, GripNext, LightNext, DetectNext, PlaceNext, RobotNext
<1>. QED  BY <1>1, <1>2, <1>3, <1>4, <1>5, <1>6, <1>7, <1>8 DEF Shelf!Next

\* The places of the shelf hold one workpiece each.
LEMMA ShelfPlaces == ShelfIInv => Shelf!OnePerPlace
  BY AtMostOne, ShelfCounts DEF ShelfIInv, Alone, Shelf!OnePerPlace

-----------------------------------------------------------------------------
(* The grippers. *)

Things == Pucks \cup {NoWp}
Loose == {CHOOSE w \in Pucks : TRUE} \cup {NoWp}

GripTypeOK ==
    /\ gripped \in [Robots -> Things] /\ joint \in [Robots -> Things]
    /\ joints \in [Robots -> Seq(Things)] /\ hasPuck \in [Robots -> BOOLEAN]
    /\ DOMAIN holdPucks \subseteq Robots

\* What the station will believe of a gripper when all messages have arrived.
Told(r) ==
    IF joints[r] # <<>> THEN joints[r][Len(joints[r])]
    ELSE IF r \in DOMAIN holdPucks THEN holdPucks[r] ELSE NoWp

\* What is gripped hangs on the joint, unless it cannot be attached.
Attached == \A r \in Robots : joint[r] = IF gripped[r] \in Loose THEN NoWp ELSE gripped[r]

\* The last message about a gripper says what hangs on its joint.
LastWord == \A r \in Robots : IF joint[r] = NoWp THEN Told(r) \in Loose ELSE Told(r) = joint[r]

RobotKnows == \A r \in Robots : hasPuck[r] => gripped[r] # NoWp

GripIInv == GripTypeOK /\ Attached /\ LastWord /\ RobotKnows

\* The grippers are open at first.
LEMMA GripInit == Init /\ kind = "gripper" => GripIInv
<1>. SUFFICES ASSUME Grip!Init PROVE GripIInv
  BY DEF Init
<1>1. \A r \in Robots : joints[r] = <<>> /\ r \notin DOMAIN holdPucks
  BY DEF Grip!Init
<1>2. GripTypeOK
  BY DEF Grip!Init, GripTypeOK, Things
<1>3. LastWord /\ Attached /\ RobotKnows
  BY <1>1 DEF Grip!Init, LastWord, Attached, RobotKnows, Told, Loose
<1>. QED  BY <1>2, <1>3 DEF GripIInv

\* A message that is sent is the last word about its gripper, and about no other.
LEMMA SendFacts ==
    ASSUME GripTypeOK, NEW r \in Robots, NEW p \in Things,
           joints' = [joints EXCEPT ![r] = Append(@, p)], UNCHANGED holdPucks
    PROVE  /\ joints' \in [Robots -> Seq(Things)]
           /\ Told(r)' = p
           /\ \A q \in Robots \ {r} : Told(q)' = Told(q)
<1>1. joints[r] \in Seq(Things)
  BY DEF GripTypeOK
<1>2. Append(joints[r], p) \in Seq(Things) /\ Append(joints[r], p) # <<>>
      /\ Append(joints[r], p)[Len(Append(joints[r], p))] = p
  BY <1>1
<1>3. joints'[r] = Append(joints[r], p) /\ \A q \in Robots \ {r} : joints'[q] = joints[q]
  BY DEF GripTypeOK
<1>4. Told(r)' = p
  BY <1>2, <1>3 DEF Told
<1>5. \A q \in Robots \ {r} : Told(q)' = Told(q)
  BY <1>3 DEF Told
<1>6. joints' \in [Robots -> Seq(Things)]
  BY <1>2 DEF GripTypeOK
<1>. QED  BY <1>4, <1>5, <1>6

\* What was told of a gripper stays told while nothing is sent.
LEMMA QuietFacts ==
    ASSUME UNCHANGED <<joints, holdPucks>> PROVE \A r \in Robots : Told(r)' = Told(r)
  BY DEF Told

\* An open gripper has told so.
LEMMA OpenStep ==
    ASSUME GripIInv, NEW r \in Robots, Grip!open(r), UNCHANGED holdPucks PROVE GripIInv'
<1>0. GripTypeOK /\ Attached /\ LastWord /\ RobotKnows
  BY DEF GripIInv
<1>1. CASE gripped[r] = NoWp
  BY <1>0, <1>1, QuietFacts
     DEF Grip!open, GripIInv, GripTypeOK, Attached, LastWord, RobotKnows
<1>2. CASE gripped[r] # NoWp
  <2>1. /\ gripped' = [gripped EXCEPT ![r] = NoWp] /\ joint' = [joint EXCEPT ![r] = NoWp]
        /\ hasPuck' = [hasPuck EXCEPT ![r] = FALSE]
        /\ joints' = [joints EXCEPT ![r] = Append(@, NoWp)]
    BY <1>2 DEF Grip!open, Grip!sendHasPuck
  <2>2. GripTypeOK'
    BY <1>0, <2>1, SendFacts DEF GripTypeOK, Things
  <2>3. Attached' /\ RobotKnows'
    BY <1>0, <2>1 DEF GripTypeOK, Attached, RobotKnows, Loose
  <2>4. LastWord'
    BY <1>0, <2>1, SendFacts DEF GripTypeOK, LastWord, Things, Loose
  <2>. QED  BY <2>2, <2>3, <2>4 DEF GripIInv
<1>. QED  BY <1>1, <1>2

\* A gripper that closes tells what hangs on it.
LEMMA CloseStep ==
    ASSUME GripIInv, NEW r \in Robots, Grip!close(r), UNCHANGED holdPucks PROVE GripIInv'
<1>0. GripTypeOK /\ Attached /\ LastWord /\ RobotKnows
  BY DEF GripIInv
<1>1. CASE gripped[r] # NoWp
  <2>1. /\ UNCHANGED <<gripped, joint>> /\ hasPuck' = [hasPuck EXCEPT ![r] = TRUE]
        /\ joints' = [joints EXCEPT ![r] = Append(@, gripped[r])]
    BY <1>1 DEF Grip!close, Grip!sendHasPuck
  <2>2. gripped[r] \in Things
    BY <1>0 DEF GripTypeOK
  <2>3. GripTypeOK'
    BY <1>0, <2>1, <2>2, SendFacts DEF GripTypeOK
  <2>4. Attached' /\ RobotKnows'
    BY <1>0, <1>1, <2>1 DEF GripTypeOK, Attached, RobotKnows
  <2>5. LastWord'
    BY <1>0, <2>1, <2>2, SendFacts DEF GripTypeOK, Attached, LastWord, Loose
  <2>. QED  BY <2>3, <2>4, <2>5 DEF GripIInv
<1>2. ASSUME gripped[r] = NoWp, NEW p \in Loose, gripped' = [gripped EXCEPT ![r] = p],
             UNCHANGED <<joint, joints, hasPuck>>, p \in Things
      PROVE  GripIInv'
  BY <1>0, <1>2, QuietFacts
     DEF GripIInv, GripTypeOK, Attached, LastWord, RobotKnows, Loose
<1>3. ASSUME gripped[r] = NoWp, NEW p \in Pucks \ Loose, gripped' = [gripped EXCEPT ![r] = p],
             joint' = [joint EXCEPT ![r] = p], Grip!sendHasPuck(r, TRUE)
      PROVE  GripIInv'
  <2>1. /\ hasPuck' = [hasPuck EXCEPT ![r] = TRUE] /\ gripped'[r] = p
        /\ joints' = [joints EXCEPT ![r] = Append(@, p)] /\ p \in Things /\ p # NoWp
    BY <1>0, <1>3, WorldAssumption DEF Grip!sendHasPuck, GripTypeOK, Things
  <2>2. GripTypeOK'
    BY <1>0, <1>3, <2>1, SendFacts DEF GripTypeOK
  <2>3. Attached' /\ RobotKnows'
    BY <1>0, <1>3, <2>1 DEF GripTypeOK, Attached, RobotKnows
  <2>4. LastWord'
    BY <1>0, <1>3, <2>1, SendFacts DEF GripTypeOK, LastWord
  <2>. QED  BY <2>2, <2>3, <2>4 DEF GripIInv
<1>. QED  BY <1>1, <1>2, <1>3 DEF Grip!close, Loose, Things

\* What is left of a sequence ends as it does.
LEMMA TailLast ==
    ASSUME NEW S, NEW s \in Seq(S), s # <<>>, Len(s) # 1
    PROVE  Tail(s) # <<>> /\ Tail(s)[Len(Tail(s))] = s[Len(s)]
<1>1. Len(s) \in Nat /\ Len(s) # 0
  BY EmptySeq
<1>2. /\ Tail(s) \in Seq(S) /\ Len(Tail(s)) = Len(s) - 1
      /\ \A i \in 1 .. Len(Tail(s)) : Tail(s)[i] = s[i + 1]
  BY HeadTailProperties
<1>3. \A n \in Nat : n # 0 /\ n # 1 => n - 1 \in 1 .. n - 1 /\ n - 1 + 1 = n
  OBVIOUS
<1>4. Len(Tail(s)) # 0
  BY <1>1, <1>2
<1>5. Tail(s) # <<>>
  BY <1>4, EmptySeq
<1>6. Len(s) - 1 \in 1 .. Len(s) - 1 /\ Len(s) - 1 + 1 = Len(s)
  BY <1>1, <1>3
<1>7. Tail(s)[Len(s) - 1] = s[Len(s) - 1 + 1]
  BY <1>2, <1>6
<1>. QED  BY <1>2, <1>5, <1>6, <1>7

\* The steps of grippers and station.
LEMMA GripStep == ASSUME kind = "gripper", GripIInv, Step PROVE GripIInv'
<1>0. GripTypeOK /\ Attached /\ LastWord /\ RobotKnows
  BY DEF GripIInv
<1>1. ASSUME UNCHANGED <<gripped, joint, joints, hasPuck, holdPucks>> PROVE GripIInv'
  BY <1>0, <1>1, QuietFacts DEF GripIInv, GripTypeOK, Attached, LastWord, RobotKnows
<1>2. ASSUME NEW r \in Robots, Grip!on_joint_msg(r) PROVE GripIInv'
  <2>1. /\ joints[r] # <<>> /\ joints' = [joints EXCEPT ![r] = Tail(@)]
        /\ holdPucks' = [j \in DOMAIN holdPucks \cup {r} |->
                           IF j = r THEN Head(joints[r]) ELSE holdPucks[j]]
        /\ UNCHANGED <<gripped, joint, hasPuck>>
    BY <1>2 DEF Grip!on_joint_msg
  <2>2. joints[r] \in Seq(Things)
    BY <1>0 DEF GripTypeOK
  <2>3. Tail(joints[r]) \in Seq(Things)
    BY <2>1, <2>2
  <2>4. GripTypeOK'
    BY <1>0, <2>1, <2>3 DEF GripTypeOK
  <2>5. Told(r)' = Told(r)
    <3>1. joints'[r] = Tail(joints[r]) /\ r \in DOMAIN holdPucks' /\ holdPucks'[r] = Head(joints[r])
      BY <1>0, <2>1 DEF GripTypeOK
    <3>2. CASE Len(joints[r]) = 1
      BY <2>1, <2>2, <3>1, <3>2 DEF Told
    <3>3. CASE Len(joints[r]) # 1
      <4>1. Tail(joints[r]) # <<>> /\ Tail(joints[r])[Len(Tail(joints[r]))] = joints[r][Len(joints[r])]
        BY <2>1, <2>2, <3>3, TailLast
      <4>. QED  BY <2>1, <3>1, <4>1 DEF Told
    <3>. QED  BY <3>2, <3>3
  <2>6. \A q \in Robots \ {r} : Told(q)' = Told(q)
    BY <1>0, <2>1 DEF GripTypeOK, Told
  <2>7. Attached' /\ RobotKnows' /\ LastWord'
    BY <1>0, <2>1, <2>5, <2>6 DEF Attached, RobotKnows, LastWord
  <2>. QED  BY <2>4, <2>7 DEF GripIInv
<1>3. ASSUME NEW r \in Robots, Grip!OnUpdate(r) PROVE GripIInv'
  <2>1. UNCHANGED holdPucks
    BY <1>3 DEF Grip!OnUpdate
  <2>2. Grip!close(r) \/ Grip!open(r) \/ UNCHANGED <<gripped, joint, joints, hasPuck>>
    BY <1>3 DEF Grip!OnUpdate
  <2>. QED  BY <1>1, <2>1, <2>2, OpenStep, CloseStep
<1>4. ASSUME NEW r \in Robots, Grip!Reset(r) PROVE GripIInv'
  BY <1>4, OpenStep DEF Grip!Reset
<1>5. ASSUME NEW r \in Robots, Grip!on_set_gripper_msg(r) PROVE GripIInv'
  BY <1>1, <1>5 DEF Grip!on_set_gripper_msg
<1>6. Grip!Next \/ UNCHANGED gripVars
  BY DEF Step, Next, ShelfNext, StorageNext, GripNext, LightNext, DetectNext, PlaceNext, RobotNext,
         vars
<1>. QED  BY <1>1, <1>2, <1>3, <1>4, <1>5, <1>6 DEF Grip!Next, gripVars

\* When all messages have arrived, the last word about a gripper is what the
\* station believes of it.
LEMMA GripReports == GripIInv => Grip!HeldIsReported
<1>. SUFFICES ASSUME GripIInv, \A r \in Robots : joints[r] = <<>> PROVE Grip!HeldIsReported
  BY DEF Grip!HeldIsReported
<1>0. GripTypeOK /\ Attached /\ LastWord /\ RobotKnows
  BY DEF GripIInv
<1>. DEFINE first == CHOOSE w \in Pucks : TRUE
<1>1. ASSUME NEW p \in Pucks, p # first
      PROVE  Grip!is_puck_hold(p) <=> \E r \in Robots : joint[r] = p
  BY <1>0, <1>1, WorldAssumption DEF GripTypeOK, LastWord, Told, Loose, Grip!is_puck_hold
<1>2. \A r \in Robots : hasPuck[r] /\ gripped[r] # first => joint[r] # NoWp
  BY <1>0 DEF Attached, RobotKnows, Loose
<1>. QED  BY <1>1, <1>2 DEF Grip!HeldIsReported

-----------------------------------------------------------------------------
(* What a robot sees of lights. *)

LightValues == {"OFF", "ON", "BLINK"}
Pictures == [{"RED", "GREEN"} -> LightValues]

DetectTypeOK ==
    /\ clock \in Nat /\ since \in Nat /\ visible \in BOOLEAN
    /\ lamp \in Pictures /\ seen \in [near : BOOLEAN, lamp : Pictures]
    /\ update \in {"idle", "count", "send"} /\ alone \in BOOLEAN
    /\ handler \in [at : {"idle", "clear", "save", "appear", "since", "away", "report"},
                    signal : Pictures, old : Pictures]

DetectNumbers == history \in Int /\ since <= clock

\* The lights are those of the last message, or will be when the handler is through.
LampFollows ==
    /\ seen.near = (handler.at \in {"clear", "save", "appear", "since"} \/ (handler.at = "idle" /\ visible))
    /\ handler.at \in {"clear", "save"} => handler.signal = seen.lamp
    /\ handler.at \in {"appear", "since", "idle"} /\ seen.near = TRUE => lamp = seen.lamp
    /\ handler.at = "since" => visible = TRUE
    /\ handler.at = "report" => visible = FALSE

\* What is visible has been so for a while, whatever update ran in between.
VisibleSince == visible = TRUE => history >= 0

\* Who reports alone finds what it left.
ReportsAlone ==
    alone = TRUE =>
        /\ update # "idle" => handler.at = "idle" /\ visible = TRUE
        /\ handler.at = "report" => update = "idle" /\ history = -1

DetectIInv == DetectTypeOK /\ DetectNumbers /\ LampFollows /\ VisibleSince /\ ReportsAlone /\ Detect!ToldTrue

\* There are two lights.
LEMMA TwoLights ==
    /\ DOMAIN LightOrder = {1, 2} /\ LightOrder[1] = "RED" /\ LightOrder[2] = "GREEN"
    /\ Detect!Lamp = {"RED", "GREEN"} /\ Lights!Lights = {"RED", "GREEN"}
<1>1. DOMAIN LightOrder = {1, 2} /\ LightOrder[1] = "RED" /\ LightOrder[2] = "GREEN"
  BY DEF LightOrder
<1>. QED  BY <1>1 DEF Detect!Lamp, Lights!Lights

\* What machines show are pictures of the lights.
LEMMA PictureFacts ==
    /\ Detect!Dark \in Pictures
    /\ \A r, g \in LightValues : Lit(r, g) \in Pictures
  BY TwoLights DEF Detect!Dark, Pictures, LightValues, Lit

\* Nothing is seen at first.
LEMMA DetectInit == Init /\ kind = "detection" => DetectIInv
<1>. SUFFICES ASSUME Detect!Init PROVE DetectIInv
  BY DEF Init
<1>1. /\ visible = FALSE /\ history = -1 /\ since = 0 /\ clock = 0 /\ lamp = Detect!Dark
      /\ seen = [near |-> FALSE, lamp |-> Detect!Dark] /\ alone = FALSE /\ update = "idle"
      /\ handler = [at |-> "idle", signal |-> Detect!Dark, old |-> Detect!Dark]
  BY DEF Detect!Init, Detect!Waiting, Detect!OutOfSight
<1>2. DetectTypeOK /\ LampFollows
  BY <1>1, PictureFacts DEF DetectTypeOK, LampFollows
<1>3. DetectNumbers /\ VisibleSince /\ ReportsAlone
  BY <1>1 DEF DetectNumbers, VisibleSince, ReportsAlone
<1>4. ~told.alone
  BY DEF Detect!Init, Detect!Detection
<1>. QED  BY <1>2, <1>3, <1>4 DEF DetectIInv, Detect!ToldTrue

\* What is told where the handler and the update let it.
LEMMA TellFacts ==
    ASSUME DetectIInv, told' = Detect!Detection,
           \/ handler.at = "report"
           \/ update = "send"
    PROVE  Detect!ToldTrue'
<1>0. DetectTypeOK /\ LampFollows /\ VisibleSince /\ ReportsAlone
  BY DEF DetectIInv
<1>1. /\ told'.alone = alone /\ told'.visible = visible /\ told'.history = history
      /\ told'.lamp = lamp /\ told'.seen = seen
  BY DEF Detect!Detection
<1>2. CASE alone = TRUE /\ handler.at = "report"
  BY <1>0, <1>1, <1>2 DEF LampFollows, ReportsAlone, DetectTypeOK, Detect!ToldTrue
<1>3. CASE alone = TRUE /\ update = "send" /\ handler.at # "report"
  <2>1. handler.at = "idle" /\ visible = TRUE
    BY <1>0, <1>3 DEF ReportsAlone
  <2>2. seen.near = TRUE /\ lamp = seen.lamp /\ history >= 0
    BY <1>0, <2>1 DEF LampFollows, VisibleSince, DetectTypeOK
  <2>. QED  BY <1>1, <2>1, <2>2 DEF Detect!ToldTrue
<1>4. CASE alone = FALSE
  BY <1>1, <1>4 DEF Detect!ToldTrue
<1>. QED  BY <1>0, <1>2, <1>3, <1>4 DEF DetectTypeOK

\* The steps of callback and update.
LEMMA DetectStep == ASSUME kind = "detection", DetectIInv, Step PROVE DetectIInv'
<1>0. /\ DetectTypeOK /\ DetectNumbers /\ LampFollows /\ VisibleSince /\ ReportsAlone
      /\ Detect!ToldTrue
  BY DEF DetectIInv
<1>a. UNCHANGED told => Detect!ToldTrue'
  BY <1>0 DEF Detect!ToldTrue
<1>. USE DEF DetectTypeOK, DetectNumbers, LampFollows, VisibleSince, ReportsAlone
<1>1. CASE UNCHANGED vars
  BY <1>0, <1>a, <1>1 DEF vars, detectVars, DetectIInv
<1>2. ASSUME NEW near, NEW signal \in Pictures, Detect!on_light_msg(near, signal) PROVE DetectIInv'
  <2>1. /\ handler.at = "idle" /\ alone' = FALSE
        /\ UNCHANGED <<clock, visible, history, since, lamp, update, told>>
    BY <1>2 DEF Detect!on_light_msg
  <2>2. CASE /\ handler' = [at |-> "away", signal |-> Detect!Dark, old |-> Detect!Dark]
             /\ seen' = [near |-> FALSE, lamp |-> Detect!Dark]
    <3>1. DetectTypeOK' /\ LampFollows'
      BY <1>0, <2>1, <2>2, PictureFacts
    <3>. QED  BY <1>0, <1>a, <2>1, <3>1 DEF DetectIInv
  <2>3. CASE /\ handler' = [at |-> "clear", signal |-> signal, old |-> lamp]
             /\ seen' = [near |-> TRUE, lamp |-> signal]
    <3>1. DetectTypeOK' /\ LampFollows'
      BY <1>0, <2>1, <2>3
    <3>. QED  BY <1>0, <1>a, <2>1, <3>1 DEF DetectIInv
  <2>. QED  BY <1>2, <2>2, <2>3 DEF Detect!on_light_msg, Detect!Waiting, Detect!OutOfSight
<1>3. CASE Detect!Clear
  BY <1>0, <1>a, <1>3, PictureFacts DEF Detect!Clear, DetectIInv
<1>4. CASE Detect!Save
  BY <1>0, <1>a, <1>4, PictureFacts DEF Detect!Save, Detect!Waiting, DetectIInv
<1>5. CASE Detect!Appear
  BY <1>0, <1>a, <1>5 DEF Detect!Appear, DetectIInv
<1>6. CASE Detect!Since
  BY <1>0, <1>a, <1>6, PictureFacts DEF Detect!Since, Detect!Waiting, DetectIInv
<1>7. CASE Detect!Away
  <2>1. /\ handler.at = "away" /\ history' = -1 /\ visible' = FALSE
        /\ handler' = [handler EXCEPT !.at = "report"]
        /\ alone' = (update = "idle") /\ UNCHANGED <<clock, since, lamp, update, seen, told>>
    BY <1>7 DEF Detect!Away
  <2>2. DetectNumbers'
    BY <1>0, <2>1
  <2>3. DetectTypeOK' /\ LampFollows' /\ VisibleSince' /\ ReportsAlone'
    BY <1>0, <2>1
  <2>. QED  BY <1>a, <2>1, <2>2, <2>3 DEF DetectIInv
<1>8. CASE Detect!Report
  <2>1. Detect!ToldTrue'
    BY <1>8, TellFacts DEF Detect!Report
  <2>2. /\ handler.at = "report" /\ handler' = Detect!Waiting
        /\ UNCHANGED <<clock, visible, history, since, lamp, update, alone, seen>>
    BY <1>8 DEF Detect!Report
  <2>. QED  BY <1>0, <2>1, <2>2, PictureFacts DEF Detect!Waiting, DetectIInv
<1>9. CASE Detect!OnUpdate
  BY <1>0, <1>a, <1>9 DEF Detect!OnUpdate, DetectIInv
<1>10. CASE Detect!Count
  BY <1>0, <1>a, <1>10 DEF Detect!Count, DetectIInv
<1>11. CASE Detect!Send
  <2>1. Detect!ToldTrue'
    BY <1>11, TellFacts DEF Detect!Send
  <2>. QED  BY <1>0, <1>11, <2>1 DEF Detect!Send, DetectIInv
<1>12. CASE Detect!Pass
  BY <1>0, <1>a, <1>12 DEF Detect!Pass, DetectIInv
<1>13. Detect!Next \/ UNCHANGED vars
  BY DEF Step, Next, ShelfNext, StorageNext, GripNext, LightNext, DetectNext, PlaceNext, RobotNext
<1>14. \A signal \in {Lit("OFF", "OFF"), Lit("ON", "OFF"), Lit("ON", "BLINK")} : signal \in Pictures
  BY PictureFacts DEF LightValues
<1>. QED  BY <1>1, <1>2, <1>3, <1>4, <1>5, <1>6, <1>7, <1>8, <1>9, <1>10, <1>11, <1>12, <1>13, <1>14
          DEF Detect!Next

\* What is called visible is, and so is what is told.
LEMMA DetectReports == DetectIInv => Detect!DetectionTrue
<1>. SUFFICES ASSUME DetectIInv PROVE Detect!RestTrue /\ Detect!ToldTrue
  BY DEF Detect!DetectionTrue
<1>0. DetectTypeOK /\ LampFollows /\ VisibleSince /\ Detect!ToldTrue
  BY DEF DetectIInv
<1>1. Detect!RestTrue
  BY <1>0 DEF DetectTypeOK, LampFollows, VisibleSince, Detect!RestTrue
<1>. QED  BY <1>0, <1>1

-----------------------------------------------------------------------------
(* The lights of a machine. *)

Two == {"RED", "GREEN"}
OneLeft == <<"GREEN">>
LeftOf == {<<>>, OneLeft, LightOrder}

LightTypeOK ==
    /\ state \in Pictures /\ prevState \in Pictures /\ written \in Pictures
    /\ shown \in [Two -> {"OFF", "ON", NoWp}]
    /\ updating \in [left : LeftOf, at : {"idle", "compare", "remember", "resolve", "publish"}]
    /\ updating.left = <<>> <=> updating.at = "idle"
    /\ writing.left \in LeftOf /\ writing = [left |-> writing.left, msg |-> writing.msg]
    /\ writing.left # <<>> => writing.msg.light \in Pictures

LightFlags == second \in BOOLEAN

\* The light that change_light() works on.
Changing(c) == updating.left # <<>> /\ updating.at # "compare" /\ c = Head(updating.left)

\* A light is in the state that was asked for, unless that was to blink.
StateAsked == \A c \in Two \ raced : written[c] # "BLINK" => state[c] = written[c]

\* It has remembered its state.
Taken(c) == Changing(c) /\ updating.at # "remember"

\* Where change_light() is with a light, it knows its state.
ChangeKnows ==
    \A c \in Two \ raced : Changing(c) =>
        /\ updating.at = "resolve" => prevState[c] = "BLINK" /\ state[c] = "BLINK"
        /\ updating.at = "publish" =>
              state[c] # "BLINK" /\ (prevState[c] # "BLINK" => state[c] = prevState[c])

\* A light is shown so; one that was never shown is taken for on.
Shows(c, value) == shown[c] = value \/ (shown[c] = NoWp /\ value = "ON")

\* A light that is left alone looks as its last state, or was never shown.
ShownLast ==
    \A c \in Two \ raced : ~Changing(c) =>
        /\ prevState[c] # "BLINK" => Shows(c, prevState[c])
        /\ c \notin fresh /\ written[c] # "BLINK" => Shows(c, written[c])

LightIInv == LightTypeOK /\ LightFlags /\ StateAsked /\ ChangeKnows /\ ShownLast

\* The sequences of lights that are left, one by one.
LEMMA LeftFacts ==
    /\ LightOrder # <<>> /\ OneLeft # <<>>
    /\ Head(LightOrder) = "RED" /\ Tail(LightOrder) = OneLeft /\ Len(LightOrder) = 2
    /\ Head(OneLeft) = "GREEN" /\ Tail(OneLeft) = <<>> /\ Len(OneLeft) = 1
<1>1. LightOrder \in Seq(Two) /\ OneLeft \in Seq(Two)
  BY DEF LightOrder, OneLeft, Two
<1>2. Len(LightOrder) = 2 /\ Len(OneLeft) = 1 /\ LightOrder # <<>> /\ OneLeft # <<>>
  BY DEF LightOrder, OneLeft
<1>3. Head(LightOrder) = "RED" /\ Head(OneLeft) = "GREEN"
  BY DEF LightOrder, OneLeft
<1>4. Tail(LightOrder) = OneLeft
  BY DEF LightOrder, OneLeft
<1>5. Tail(OneLeft) = <<>>
  BY DEF OneLeft
<1>. QED  BY <1>2, <1>3, <1>4, <1>5

\* The light in work is one of the two, and the next one follows.
LEMMA WorkFacts ==
    ASSUME LightTypeOK, updating.at # "idle"
    PROVE  /\ Lights!Light \in Two
           /\ Lights!NextLight \in [left : LeftOf, at : {"idle", "compare"}]
           /\ (Lights!NextLight).left = <<>> <=> (Lights!NextLight).at = "idle"
<1>1. updating.left \in {OneLeft, LightOrder}
  BY DEF LightTypeOK, LeftOf
<1>. QED  BY <1>1, LeftFacts DEF Lights!Light, Lights!NextLight, Lights!Idle, LeftOf, Two

\* Nothing is shown when the lights are loaded.
LEMMA LightInit == Init /\ kind = "lights" => LightIInv
<1>. SUFFICES ASSUME Lights!Init PROVE LightIInv
  BY DEF Init
<1>. USE TwoLights DEF Lights!Init, Lights!Idle
<1>1. LightTypeOK
  BY DEF LightTypeOK, Pictures, LightValues, LeftOf, Two
<1>2. LightFlags /\ StateAsked /\ ChangeKnows /\ ShownLast
  BY DEF LightFlags, StateAsked, ChangeKnows, ShownLast, Shows, Changing, Two
<1>. QED  BY <1>1, <1>2 DEF LightIInv

\* A record of the update that moves on within a light.
LEMMA MoveFacts ==
    ASSUME LightTypeOK, NEW a, updating' = [updating EXCEPT !.at = a]
    PROVE  updating'.left = updating.left /\ updating'.at = a
           /\ updating' = [left |-> updating.left, at |-> a]
  BY DEF LightTypeOK

\* The steps of callback and update.
LEMMA LightStep == ASSUME kind = "lights", LightIInv, Step PROVE LightIInv'
<1>0. LightTypeOK /\ LightFlags /\ StateAsked /\ ChangeKnows /\ ShownLast
  BY DEF LightIInv
<1>1. CASE UNCHANGED vars
  BY <1>0, <1>1 DEF vars, lightVars, LightIInv, LightTypeOK, LightFlags, StateAsked, ChangeKnows,
                    ShownLast, Shows, Changing
<1>2. ASSUME NEW m, m.light \in Pictures, Lights!on_light_msg(m) PROVE LightIInv'
  <2>1. LightTypeOK'
    BY <1>0, <1>2 DEF Lights!on_light_msg, LightTypeOK, LeftOf
  <2>. QED  BY <1>0, <1>2, <2>1
            DEF Lights!on_light_msg, LightIInv, LightFlags, StateAsked, ChangeKnows, ShownLast, Shows, Changing
<1>3. CASE Lights!WriteLight
  <2>. DEFINE c == Head(writing.left)
  <2>1. /\ writing.left \in {OneLeft, LightOrder} /\ writing.msg.light \in Pictures
        /\ writing' = [left |-> Tail(writing.left), msg |-> writing.msg]
        /\ state' = [state EXCEPT ![c] = writing.msg.light[c]]
        /\ written' = [written EXCEPT ![c] = writing.msg.light[c]]
        /\ fresh' = fresh \cup {c} /\ raced' = IF Taken(c) THEN raced \cup {c} ELSE raced
        /\ UNCHANGED <<prevState, shown, second, updating>>
    BY <1>0, <1>3 DEF Lights!WriteLight, LightTypeOK, LeftOf, Changing, Taken
  <2>2. c \in Two /\ Tail(writing.left) \in LeftOf
    BY <2>1, LeftFacts DEF Two, LeftOf
  <2>. HIDE DEF c
  <2>3. LightTypeOK'
    BY <1>0, <2>1, <2>2 DEF LightTypeOK, Pictures, Two
  <2>4. \A d \in Two \ {c} : state'[d] = state[d] /\ written'[d] = written[d]
    BY <1>0, <2>1, <2>2 DEF LightTypeOK, Pictures, Two
  <2>5. state'[c] = written'[c]
    BY <1>0, <2>1, <2>2 DEF LightTypeOK, Pictures, Two
  <2>6. \A d \in Two : Changing(d)' = Changing(d)
    BY <2>1 DEF Changing
  <2>7. StateAsked'
    BY <1>0, <2>1, <2>2, <2>4, <2>5 DEF StateAsked
  <2>8. ChangeKnows'
    BY <1>0, <2>1, <2>2, <2>4, <2>6 DEF ChangeKnows, Taken
  <2>9. ASSUME NEW d \in Two, d \notin raced', ~Changing(d)'
        PROVE  /\ prevState'[d] # "BLINK" => Shows(d, prevState[d])'
               /\ d \notin fresh' /\ written'[d] # "BLINK" => Shows(d, written[d])'
    <3>1. d \notin raced /\ ~Changing(d)
      BY <2>1, <2>6, <2>9
    <3>2. d \notin fresh' => written'[d] = written[d] /\ d \notin fresh
      BY <2>1, <2>4
    <3>. QED  BY <1>0, <2>1, <2>9, <3>1, <3>2 DEF ShownLast, Shows
  <2>. QED  BY <1>0, <2>1, <2>3, <2>7, <2>8, <2>9 DEF LightIInv, LightFlags, ShownLast
<1>4. CASE Lights!OnUpdate
  <2>1. /\ updating.at = "idle" /\ updating.left = <<>> /\ second' = ~second
        /\ updating' = [left |-> LightOrder, at |-> "compare"]
        /\ UNCHANGED <<state, prevState, shown, writing, written, fresh, raced>>
    BY <1>0, <1>4 DEF Lights!OnUpdate, LightTypeOK
  <2>2. LightTypeOK'
    BY <1>0, <2>1, LeftFacts DEF LightTypeOK, LeftOf
  <2>3. second' \in BOOLEAN
    BY <1>0, <2>1 DEF LightFlags
  <2>. QED  BY <1>0, <2>1, <2>2, <2>3
            DEF LightIInv, LightFlags, StateAsked, ChangeKnows, ShownLast, Shows, Changing
<1>5. CASE Lights!Compare
  <2>. DEFINE c == Lights!Light
  <2>1. /\ updating.at = "compare" /\ updating.left # <<>> /\ c = Head(updating.left)
        /\ fresh' = fresh \ {c}
        /\ UNCHANGED <<state, prevState, shown, second, writing, written, raced>>
    BY <1>0, <1>5 DEF Lights!Compare, LightTypeOK, Lights!Light
  <2>2. c \in Two
    BY <1>0, <2>1, WorkFacts
  <2>3. CASE state[c] # "BLINK" /\ state[c] = prevState[c] /\ updating' = Lights!NextLight
    <3>1. LightTypeOK'
      BY <1>0, <2>1, <2>3, WorkFacts DEF LightTypeOK
    <3>2. \A d \in Two : ~Changing(d) /\ ~Changing(d)'
      BY <1>0, <2>1, <2>3, WorkFacts DEF Changing
    <3>3. ShownLast'
      BY <1>0, <2>1, <2>2, <2>3, <3>2 DEF ShownLast, Shows, StateAsked
    <3>4. StateAsked' /\ ChangeKnows'
      BY <1>0, <2>1, <3>2 DEF StateAsked, ChangeKnows
    <3>. QED  BY <1>0, <2>1, <3>1, <3>3, <3>4 DEF LightIInv, LightFlags
  <2>4. CASE updating' = [updating EXCEPT !.at = "remember"]
    <3>1. updating' = [left |-> updating.left, at |-> "remember"]
      BY <1>0, <2>4, MoveFacts
    <3>2. LightTypeOK'
      BY <1>0, <2>1, <3>1 DEF LightTypeOK
    <3>3. \A d \in Two : ~Changing(d) /\ (Changing(d)' <=> d = c)
      BY <2>1, <3>1 DEF Changing
    <3>4. StateAsked' /\ ChangeKnows' /\ ShownLast'
      BY <1>0, <2>1, <3>1, <3>3 DEF StateAsked, ChangeKnows, ShownLast, Shows
    <3>. QED  BY <1>0, <2>1, <3>2, <3>4 DEF LightIInv, LightFlags
  <2>. QED  BY <1>5, <2>3, <2>4 DEF Lights!Compare
<1>6. CASE Lights!Remember
  <2>. DEFINE c == Lights!Light
              next == IF state[c] = "BLINK" THEN "resolve" ELSE "publish"
  <2>1. /\ updating.at = "remember" /\ updating.left # <<>> /\ c = Head(updating.left)
        /\ prevState' = [prevState EXCEPT ![c] = state[c]]
        /\ updating' = [updating EXCEPT !.at = next]
        /\ raced' = IF state[c] = written[c] THEN raced \ {c} ELSE raced
        /\ UNCHANGED <<state, shown, second, writing, written, fresh>>
    BY <1>0, <1>6 DEF Lights!Remember, LightTypeOK, Lights!Light
  <2>2. c \in Two
    BY <1>0, <2>1, WorkFacts
  <2>3. updating' = [left |-> updating.left, at |-> next]
    BY <1>0, <2>1, MoveFacts
  <2>4. LightTypeOK'
    BY <1>0, <2>1, <2>2, <2>3 DEF LightTypeOK, Pictures, Two
  <2>5. \A d \in Two : (Changing(d) <=> d = c) /\ (Changing(d)' <=> d = c)
    BY <2>1, <2>3 DEF Changing
  <2>6. prevState'[c] = state[c] /\ \A d \in Two \ {c} : prevState'[d] = prevState[d]
    BY <1>0, <2>1, <2>2 DEF LightTypeOK, Pictures, Two
  <2>7. \A d \in Two \ raced' : d \notin raced \/ (d = c /\ state[c] = written[c])
    BY <2>1
  <2>8. StateAsked' /\ ChangeKnows'
    BY <1>0, <2>1, <2>3, <2>5, <2>6, <2>7 DEF StateAsked, ChangeKnows
  <2>9. ShownLast'
    BY <1>0, <2>1, <2>5, <2>6, <2>7 DEF ShownLast, Shows
  <2>. QED  BY <1>0, <2>1, <2>4, <2>8, <2>9 DEF LightIInv, LightFlags
<1>7. CASE Lights!Resolve
  <2>. DEFINE c == Lights!Light
              value == IF second THEN "OFF" ELSE "ON"
  <2>1. /\ updating.at = "resolve" /\ updating.left # <<>> /\ c = Head(updating.left)
        /\ state' = [state EXCEPT ![c] = value]
        /\ updating' = [updating EXCEPT !.at = "publish"]
        /\ UNCHANGED <<prevState, shown, second, writing, written, fresh, raced>>
    BY <1>0, <1>7 DEF Lights!Resolve, LightTypeOK, Lights!Light
  <2>2. c \in Two /\ value \in {"ON", "OFF"}
    BY <1>0, <2>1, WorkFacts
  <2>. HIDE DEF value
  <2>3. updating' = [left |-> updating.left, at |-> "publish"]
    BY <1>0, <2>1, MoveFacts
  <2>4. LightTypeOK'
    BY <1>0, <2>1, <2>2, <2>3 DEF LightTypeOK, Pictures, Two, LightValues
  <2>5. \A d \in Two : (Changing(d) <=> d = c) /\ (Changing(d)' <=> d = c)
    BY <2>1, <2>3 DEF Changing
  <2>6. state'[c] = value /\ \A d \in Two \ {c} : state'[d] = state[d]
    BY <1>0, <2>1, <2>2 DEF LightTypeOK, Pictures, Two
  <2>7. c \notin raced => prevState[c] = "BLINK" /\ written[c] = "BLINK"
    BY <1>0, <2>1, <2>2, <2>5 DEF ChangeKnows, StateAsked
  <2>8. StateAsked' /\ ChangeKnows' /\ ShownLast'
    BY <1>0, <2>1, <2>2, <2>3, <2>5, <2>6, <2>7 DEF StateAsked, ChangeKnows, ShownLast, Shows
  <2>. QED  BY <1>0, <2>1, <2>4, <2>8 DEF LightIInv, LightFlags
<1>8. CASE Lights!Publish
  <2>. DEFINE c == Lights!Light
              value == IF state[c] = "ON" THEN "ON" ELSE "OFF"
  <2>1. /\ updating.at = "publish" /\ updating.left # <<>> /\ c = Head(updating.left)
        /\ shown' = [shown EXCEPT ![c] = value]
        /\ updating' = Lights!NextLight
        /\ UNCHANGED <<state, prevState, second, writing, written, fresh, raced>>
    BY <1>0, <1>8 DEF Lights!Publish, LightTypeOK, Lights!Light
  <2>2. c \in Two /\ value \in {"ON", "OFF"}
    BY <1>0, <2>1, WorkFacts
  <2>3. LightTypeOK'
    BY <1>0, <2>1, <2>2, WorkFacts DEF LightTypeOK
  <2>4. \A d \in Two : (Changing(d) <=> d = c) /\ ~Changing(d)'
    BY <1>0, <2>1, WorkFacts DEF Changing
  <2>5. shown'[c] = value /\ \A d \in Two \ {c} : shown'[d] = shown[d]
    BY <1>0, <2>1, <2>2 DEF LightTypeOK
  <2>6. state[c] \in LightValues /\ prevState[c] \in LightValues /\ written[c] \in LightValues
    BY <1>0, <2>2 DEF LightTypeOK, Pictures, Two
  <2>7. c \notin raced =>
          /\ state[c] # "BLINK" /\ shown'[c] = state[c]
          /\ prevState[c] # "BLINK" => state[c] = prevState[c]
          /\ written[c] # "BLINK" => state[c] = written[c]
    BY <1>0, <2>1, <2>2, <2>4, <2>5, <2>6 DEF ChangeKnows, StateAsked, LightValues
  <2>8. StateAsked' /\ ChangeKnows' /\ ShownLast'
    BY <1>0, <2>1, <2>4, <2>5, <2>7 DEF StateAsked, ChangeKnows, ShownLast, Shows
  <2>. QED  BY <1>0, <2>1, <2>3, <2>8 DEF LightIInv, LightFlags
<1>9. Lights!Next \/ UNCHANGED vars
  BY DEF Step, Next, ShelfNext, StorageNext, GripNext, LightNext, DetectNext, PlaceNext, RobotNext
<1>10. ASSUME Lights!Next PROVE LightIInv'
  <2>1. ASSUME NEW r \in {"OFF", "ON", "BLINK"}, NEW g \in {"OFF", "ON"}
        PROVE  Lit(r, g) \in Pictures
    BY PictureFacts DEF LightValues
  <2>. QED  BY <1>2, <1>3, <1>4, <1>5, <1>6, <1>7, <1>8, <1>10, <2>1 DEF Lights!Next, Lights!Updating
<1>. QED  BY <1>1, <1>9, <1>10

\* Between updates the lights look as what was written last, but for the lights left out.
LEMMA LightReports == LightIInv => Lights!LightsShown
<1>. SUFFICES ASSUME LightIInv, updating.at = "idle" PROVE Lights!LightsShown
  BY DEF Lights!LightsShown
<1>1. LightTypeOK /\ ShownLast
  BY DEF LightIInv
<1>2. \A c \in Two : ~Changing(c)
  BY <1>1 DEF Changing, LightTypeOK
<1>. QED  BY <1>1, <1>2, TwoLights DEF ShownLast, Shows, Lights!LightsShown, Two

-----------------------------------------------------------------------------
(* The plugins of a robot. *)

Publisher == {"gyro", "gps", "conveyor", "time_sync", "tag_vision", "odometry"}
IntervalOf(s) == IF s \in {"gyro", "conveyor"} THEN 0 ELSE IF s = "time_sync" THEN 2 ELSE 1
Seen == Tags \cup {"C-BS"}
Velocity == [1 .. 3 -> {-1, 0, 1}]

RobotTypeOK ==
    /\ tick \in Nat /\ last \in [Publisher -> Nat] /\ heard \in Nat /\ lastSearch \in Nat
    /\ watched \in Publisher /\ listening \in BOOLEAN
    /\ viewSince \in [Seen -> Nat]

DriveTypeOK ==
    /\ motor \in Velocity /\ moving \in Velocity /\ command \in Velocity
    /\ writes \in 0 .. 3 /\ resets \in 0 .. 3 /\ obeyed \in BOOLEAN

\* No message and no search is overdue after an update.
Punctual ==
    /\ \A s \in Publisher : last[s] <= tick /\ tick - last[s] <= IntervalOf(s)
    /\ lastSearch <= tick /\ tick - lastSearch <= 1
    /\ \A t \in Seen : viewSince[t] <= tick

\* Who listens has heard the last message, if there was something to tell.
HeardLast ==
    listening = TRUE =>
        /\ watched \notin {"odometry", "conveyor"} => heard >= last[watched]
        /\ watched = "conveyor" =>
              heard >= last["conveyor"] \/ "C-BS" \notin inView \/ viewSince["C-BS"] >= last["conveyor"]

\* A tag in view is found by the next search and sighted by the message after that.
TagsFound ==
    \A t \in Tags :
        /\ t \in inView => t \in inWorld
        /\ t \in inView /\ viewSince[t] < lastSearch => t \in tagPoses
        /\ t \in inView /\ viewSince[t] + 1 < last["tag_vision"] => t \in sighted
        /\ t \notin inView /\ viewSince[t] < last["tag_vision"] => t \notin sighted

\* The members written so far are those of the command.
Written ==
    /\ \A n \in 1 .. 3 : n <= writes => motor[n] = command[n]
    /\ obeyed = TRUE => writes = 3 /\ resets = 3 /\ moving = motor

\* The estimate is the heading, up to whole turns.
HeadingKept ==
    /\ mirrored \in BOOLEAN /\ omega \in Int /\ angle \in Int
    /\ mirrored = FALSE => omega \in -2 .. 2 /\ (omega - angle) % 4 = 0

RobotIInv == RobotTypeOK /\ DriveTypeOK /\ Punctual /\ HeardLast /\ TagsFound /\ Written /\ HeadingKept

\* When a message is due.
LEMMA DueFacts ==
    /\ Robot!Publishers = Publisher
    /\ \A s \in Publisher : Robot!Due(s) <=> tick' - last[s] > IntervalOf(s)
  BY DEF Robot!Publishers, Robot!Due, Publisher, IntervalOf

\* Velocities of three components.
LEMMA VelocityFacts ==
    /\ <<0, 0, 0>> \in Velocity /\ <<1, 0, 1>> \in Velocity /\ <<0, 1, -1>> \in Velocity
    /\ \A n \in 1 .. 3 : <<0, 0, 0>>[n] = 0
  BY DEF Velocity

\* A robot stands still at first.
LEMMA RobotInit == Init /\ kind = "robot" => RobotIInv
<1>. SUFFICES ASSUME Robot!Init PROVE RobotIInv
  BY DEF Init
<1>1. /\ tick = 0 /\ last = [s \in Publisher |-> 0] /\ watched \in Publisher /\ listening = FALSE
      /\ heard = 0 /\ lastSearch = 0 /\ inView = {} /\ sighted = {}
      /\ viewSince = [t \in Seen |-> 0]
      /\ motor = <<0, 0, 0>> /\ moving = <<0, 0, 0>> /\ command = <<0, 0, 0>>
      /\ writes = 3 /\ resets = 3 /\ obeyed = FALSE /\ omega = 0 /\ angle = 0 /\ mirrored = FALSE
  BY DueFacts DEF Robot!Init, Robot!Still, Seen
<1>2. RobotTypeOK
  BY <1>1 DEF RobotTypeOK
<1>3. DriveTypeOK /\ Written
  <2>1. motor \in Velocity /\ moving \in Velocity /\ command \in Velocity
        /\ writes \in 0 .. 3 /\ resets \in 0 .. 3
    BY <1>1, VelocityFacts
  <2>2. obeyed \in BOOLEAN
    BY <1>1
  <2>3. \A n \in 1 .. 3 : motor[n] = command[n]
    BY <1>1
  <2>4. obeyed # TRUE
    BY <1>1
  <2>. QED  BY <2>1, <2>2, <2>3, <2>4 DEF DriveTypeOK, Written
<1>4. Punctual
  BY <1>1 DEF Punctual, IntervalOf
<1>5. HeardLast /\ TagsFound
  BY <1>1 DEF HeardLast, TagsFound, Seen
<1>6. HeadingKept
  <2>1. mirrored \in BOOLEAN
    BY <1>1
  <2>2. omega \in -2 .. 2 /\ angle \in Int /\ (omega - angle) % 4 = 0
    BY <1>1
  <2>. QED  BY <2>1, <2>2 DEF HeadingKept
<1>. QED  BY <1>2, <1>3, <1>4, <1>5, <1>6 DEF RobotIInv

\* The time of the last message, and who has heard it, after a world update.
LEMMA UpdateTimes ==
    ASSUME RobotIInv, Robot!WorldUpdate
    PROVE  RobotTypeOK' /\ Punctual' /\ HeardLast'
<1>0. RobotTypeOK /\ Punctual /\ HeardLast
  BY DEF RobotIInv
<1>1. /\ tick' = tick + 1 /\ tick' \in Nat /\ tick \in Nat
      /\ last' \in [Publisher -> Nat]
      /\ \A s \in Publisher :
            last'[s] = IF tick' - last[s] > IntervalOf(s) THEN tick' ELSE last[s]
      /\ UNCHANGED <<watched, listening, inView, viewSince>>
  <2>1. tick' = tick + 1 /\ UNCHANGED <<watched, listening, inView, viewSince>>
    BY DEF Robot!WorldUpdate
  <2>2. tick' \in Nat /\ tick \in Nat
    BY <1>0, <2>1 DEF RobotTypeOK
  <2>3. last' = [s \in Publisher |-> IF Robot!Due(s) THEN tick' ELSE last[s]]
    BY DueFacts DEF Robot!WorldUpdate
  <2>4. last' \in [Publisher -> Nat]
    BY <1>0, <2>2, <2>3 DEF RobotTypeOK
  <2>5. \A s \in Publisher :
            last'[s] = IF tick' - last[s] > IntervalOf(s) THEN tick' ELSE last[s]
    BY <2>3, DueFacts
  <2>. QED  BY <2>1, <2>2, <2>4, <2>5
<1>2. lastSearch' = IF tick' - lastSearch > 1 THEN tick' ELSE lastSearch
  BY DEF Robot!WorldUpdate, Robot!TagVision
<1>3. heard' \in {heard, tick'}
  BY DEF Robot!WorldUpdate
<1>4. RobotTypeOK'
  BY <1>0, <1>1, <1>2, <1>3 DEF RobotTypeOK
<1>5. Punctual'
  <2>1. \A s \in Publisher : last'[s] <= tick' /\ tick' - last'[s] <= IntervalOf(s)
    <3>. SUFFICES ASSUME NEW s \in Publisher
                  PROVE  last'[s] <= tick' /\ tick' - last'[s] <= IntervalOf(s)
      OBVIOUS
    <3>1. last[s] \in Nat /\ last[s] <= tick /\ IntervalOf(s) \in {0, 1, 2}
      BY <1>0 DEF RobotTypeOK, Punctual, IntervalOf
    <3>2. last'[s] = IF tick' - last[s] > IntervalOf(s) THEN tick' ELSE last[s]
      BY <1>1
    <3>. QED  BY <1>1, <3>1, <3>2
  <2>2. lastSearch' <= tick' /\ tick' - lastSearch' <= 1
    BY <1>0, <1>1, <1>2 DEF RobotTypeOK, Punctual
  <2>3. \A t \in Seen : viewSince'[t] <= tick'
    BY <1>0, <1>1 DEF RobotTypeOK, Punctual
  <2>. QED  BY <2>1, <2>2, <2>3 DEF Punctual
<1>6. HeardLast'
  <2>. SUFFICES ASSUME listening = TRUE PROVE HeardLast'
    BY <1>1 DEF HeardLast
  <2>1. /\ heard' = tick' \/ heard' = heard
        /\ tick' - last["gyro"] > 0 /\ watched = "gyro" => heard' = tick'
        /\ tick' - last["gps"] > 1 /\ watched = "gps" => heard' = tick'
        /\ tick' - last["time_sync"] > 2 /\ watched = "time_sync" => heard' = tick'
        /\ tick' - last["tag_vision"] > 1 /\ watched = "tag_vision" => heard' = tick'
        /\ tick' - last["conveyor"] > 0 /\ watched = "conveyor" /\ "C-BS" \in inView => heard' = tick'
    BY DueFacts
       DEF Robot!WorldUpdate, Robot!Gyro, Robot!Gps, Robot!TimeSync, Robot!ConveyorVision,
           Robot!HasConnections, Publisher, IntervalOf
  <2>2. CASE watched = "conveyor"
    <3>1. last["conveyor"] \in Nat /\ last["conveyor"] <= tick
      BY <1>0 DEF RobotTypeOK, Punctual, Publisher
    <3>2. tick' - last["conveyor"] > 0
      <4>1. tick' = tick + 1 /\ tick \in Nat
        BY <1>1
      <4>. QED  BY <3>1, <4>1
    <3>3. last'["conveyor"] = tick'
      BY <1>1, <3>2 DEF Publisher, IntervalOf
    <3>4. "C-BS" \in inView => heard' >= last'["conveyor"]
      BY <1>1, <2>1, <2>2, <3>2, <3>3
    <3>. QED  BY <1>1, <2>2, <3>4 DEF HeardLast
  <2>3. CASE watched \in {"gyro", "gps", "time_sync", "tag_vision"}
    <3>1. heard >= last[watched] /\ last[watched] \in Nat /\ heard \in Nat
      BY <1>0, <2>3 DEF RobotTypeOK, HeardLast
    <3>2. last'[watched] = IF tick' - last[watched] > IntervalOf(watched) THEN tick' ELSE last[watched]
      BY <1>0, <1>1 DEF RobotTypeOK
    <3>3. tick' - last[watched] > IntervalOf(watched) => heard' = tick'
      BY <2>1, <2>3 DEF IntervalOf
    <3>4. last[watched] <= tick'
      BY <1>0, <1>1, <3>1 DEF RobotTypeOK, Punctual
    <3>5. heard' >= last'[watched]
      <4>1. heard' = tick' \/ heard' = heard
        BY <2>1
      <4>2. tick' \in Nat
        BY <1>1
      <4>. QED  BY <3>1, <3>2, <3>3, <3>4, <4>1, <4>2
    <3>. QED  BY <1>1, <2>3, <3>5 DEF HeardLast
  <2>4. CASE watched = "odometry"
    BY <1>1, <2>4 DEF HeardLast
  <2>. QED  BY <1>0, <2>2, <2>3, <2>4 DEF RobotTypeOK, Publisher
<1>. QED  BY <1>4, <1>5, <1>6

\* The tags that a robot knows of and reports after a world update.
LEMMA UpdateTags == ASSUME RobotIInv, Robot!WorldUpdate PROVE TagsFound'
<1>0. RobotTypeOK /\ Punctual /\ TagsFound
  BY DEF RobotIInv
<1>. DEFINE sends == tick' - last["tag_vision"] > 1
            search == tick' - lastSearch > 1
<1>1. /\ tick' = tick + 1 /\ UNCHANGED <<inWorld, inView, viewSince>>
      /\ lastSearch' = IF search THEN tick' ELSE lastSearch
      /\ tagPoses' = IF search THEN tagPoses \cup inWorld ELSE tagPoses
      /\ sighted' = IF sends THEN tagPoses' \cap inView ELSE sighted
      /\ last'["tag_vision"] = IF sends THEN tick' ELSE last["tag_vision"]
  BY DueFacts DEF Robot!WorldUpdate, Robot!TagVision, Publisher, IntervalOf
<1>2. /\ tick \in Nat /\ lastSearch \in Nat /\ tick - lastSearch <= 1 /\ last["tag_vision"] \in Nat
      /\ \A t \in Tags : viewSince[t] \in Nat
  BY <1>0 DEF RobotTypeOK, Punctual, Publisher, Seen
<1>3. ASSUME NEW t \in Tags
      PROVE  /\ t \in inView => t \in inWorld
             /\ t \in inView /\ viewSince[t] < lastSearch' => t \in tagPoses'
             /\ t \in inView /\ viewSince[t] + 1 < last'["tag_vision"] => t \in sighted'
             /\ t \notin inView /\ viewSince[t] < last'["tag_vision"] => t \notin sighted'
  <2>1. t \in inView => t \in inWorld
    BY <1>0 DEF TagsFound
  <2>2. t \in inView /\ viewSince[t] < lastSearch' => t \in tagPoses'
    BY <1>0, <1>1, <2>1 DEF TagsFound
  <2>3. sends /\ viewSince[t] + 1 < tick' => viewSince[t] < lastSearch'
    <3>1. tick \in Nat /\ lastSearch \in Nat /\ tick - lastSearch <= 1 /\ viewSince[t] \in Nat
          /\ tick' = tick + 1
      BY <1>1, <1>2
    <3>2. lastSearch' = tick' \/ (lastSearch' = lastSearch /\ tick' - lastSearch <= 1)
      BY <1>1, <3>1
    <3>. QED  BY <3>1, <3>2
  <2>4. t \in inView /\ viewSince[t] + 1 < last'["tag_vision"] => t \in sighted'
    BY <1>0, <1>1, <2>2, <2>3 DEF TagsFound
  <2>5. t \notin inView /\ viewSince[t] < last'["tag_vision"] => t \notin sighted'
    BY <1>0, <1>1 DEF TagsFound
  <2>. QED  BY <2>1, <2>2, <2>4, <2>5
<1>. QED  BY <1>1, <1>3 DEF TagsFound

\* Angles count in half turns.
LEMMA HalfTurnFacts == Robot!HalfTurn = 2 /\ -Robot!HalfTurn = -2 /\ 2 * Robot!HalfTurn = 4
  BY DEF Robot!HalfTurn

\* The heading after a world update: two ticks of half a turn at most are added.
LEMMA UpdateHeading == ASSUME RobotIInv, Robot!WorldUpdate PROVE HeadingKept'
<1>0. RobotTypeOK /\ DriveTypeOK /\ Punctual /\ HeadingKept
  BY DEF RobotIInv
<1>. DEFINE turn == moving[3] * (tick' - last["odometry"])
            sum == omega + turn
<1>1. CASE UNCHANGED <<omega, angle, mirrored>>
  BY <1>0, <1>1 DEF HeadingKept
<1>2. CASE Robot!Due("odometry")
  <2>1. /\ omega' = IF sum < -2 THEN 4 - sum ELSE IF sum > 2 THEN sum - 4 ELSE sum
        /\ angle' = (angle + turn) % 4
        /\ mirrored' = (mirrored \/ sum < -2)
    BY <1>2, HalfTurnFacts DEF Robot!WorldUpdate, Robot!Odometry
  <2>2. tick' - last["odometry"] = 2
    <3>1. /\ tick' = tick + 1 /\ tick \in Nat /\ last["odometry"] \in Nat
          /\ tick - last["odometry"] <= 1 /\ tick' - last["odometry"] > 1
      BY <1>0, <1>2, DueFacts DEF Robot!WorldUpdate, RobotTypeOK, Punctual, Publisher, IntervalOf
    <3>. QED  BY <3>1
  <2>3. moving[3] \in {-1, 0, 1}
    BY <1>0 DEF DriveTypeOK, Velocity
  <2>4. turn \in {-2, 0, 2}
    BY <2>2, <2>3
  <2>. HIDE DEF turn
  <2>5. omega' \in Int /\ angle' \in Int /\ mirrored' \in BOOLEAN
    <3>1. omega' \in Int
      BY <1>0, <2>1, <2>4 DEF HeadingKept
    <3>2. angle' \in Int
      BY <1>0, <2>1, <2>4 DEF HeadingKept
    <3>3. mirrored' \in BOOLEAN
      BY <1>0, <2>1 DEF HeadingKept
    <3>. QED  BY <3>1, <3>2, <3>3
  <2>6. ASSUME mirrored' = FALSE PROVE omega' \in -2 .. 2 /\ (omega' - angle') % 4 = 0
    <3>1. mirrored = FALSE /\ ~(sum < -2)
      BY <1>0, <2>1, <2>6 DEF HeadingKept
    <3>2. omega \in -2 .. 2 /\ (omega - angle) % 4 = 0 /\ angle \in Int
      BY <1>0, <3>1 DEF HeadingKept
    <3>3. omega' = IF sum > 2 THEN sum - 4 ELSE sum
      BY <2>1, <3>1
    <3>4. omega' \in -2 .. 2
      BY <2>4, <3>1, <3>2, <3>3
    <3>5. (omega' - angle') % 4 = 0
      BY <2>1, <2>4, <3>2, <3>3
    <3>. QED  BY <3>4, <3>5
  <2>. QED  BY <2>5, <2>6 DEF HeadingKept
<1>. QED  BY <1>1, <1>2 DEF Robot!WorldUpdate, Robot!Odometry, Robot!odometryVars

\* One more member is written, of those that are left.
LEMMA WriteMemberStep == ASSUME RobotIInv, Robot!WriteMember PROVE DriveTypeOK' /\ Written'
<1>0. DriveTypeOK /\ Written
  BY DEF RobotIInv
<1>1. /\ writes < 3 /\ writes' = writes + 1 /\ UNCHANGED <<moving, command, resets, obeyed>>
      /\ motor' = [motor EXCEPT ![writes + 1] = command[writes + 1]]
  BY DEF Robot!WriteMember
<1>2. writes + 1 \in 1 .. 3
  BY <1>0, <1>1 DEF DriveTypeOK
<1>3. command[writes + 1] \in {-1, 0, 1}
  BY <1>0, <1>2 DEF DriveTypeOK, Velocity
<1>4. motor' \in Velocity
  BY <1>0, <1>1, <1>2, <1>3 DEF DriveTypeOK, Velocity
<1>5. DriveTypeOK'
  BY <1>0, <1>1, <1>2, <1>4 DEF DriveTypeOK
<1>6. obeyed' # TRUE
  <2>1. writes # 3
    BY <1>0, <1>1 DEF DriveTypeOK
  <2>2. obeyed # TRUE
    BY <1>0, <2>1 DEF Written
  <2>. QED  BY <1>1, <2>2
<1>7. ASSUME NEW n \in 1 .. 3, n <= writes' PROVE motor'[n] = command'[n]
  <2>1. n = writes + 1 \/ n <= writes
    BY <1>0, <1>1, <1>7 DEF DriveTypeOK
  <2>. QED  BY <1>0, <1>1, <1>2, <2>1 DEF DriveTypeOK, Velocity, Written
<1>. QED  BY <1>5, <1>6, <1>7 DEF Written

\* A reset begins.
LEMMA ResetStep == ASSUME RobotIInv, Robot!Reset PROVE DriveTypeOK' /\ Written'
<1>0. DriveTypeOK /\ Written
  BY DEF RobotIInv
<1>1. resets' = 0 /\ obeyed' = FALSE /\ UNCHANGED <<motor, moving, command, writes>>
  BY DEF Robot!Reset
<1>2. obeyed' \in BOOLEAN /\ obeyed' # TRUE
  BY <1>1
<1>3. resets' \in 0 .. 3
  BY <1>1
<1>. QED  BY <1>0, <1>1, <1>2, <1>3 DEF DriveTypeOK, Written

\* It clears one more member, and with it what was written there of a command.
LEMMA ResetMemberStep == ASSUME RobotIInv, Robot!ResetMember PROVE DriveTypeOK' /\ Written'
<1>0. DriveTypeOK /\ Written
  BY DEF RobotIInv
<1>. DEFINE k == resets + 1
            c == IF k <= writes THEN 0 ELSE command[k]
<1>1. /\ resets < 3 /\ resets' = k /\ UNCHANGED <<moving, writes, obeyed>>
      /\ motor' = [motor EXCEPT ![k] = 0] /\ command' = [command EXCEPT ![k] = c]
  BY DEF Robot!ResetMember
<1>2. k \in 1 .. 3
  BY <1>0, <1>1 DEF DriveTypeOK
<1>3. c \in {-1, 0, 1} /\ (k <= writes => c = 0)
  BY <1>0, <1>2 DEF DriveTypeOK, Velocity
<1>. HIDE DEF c, k
<1>4. motor' \in Velocity /\ command' \in Velocity
  BY <1>0, <1>1, <1>2, <1>3 DEF DriveTypeOK, Velocity
<1>5. DriveTypeOK'
  BY <1>0, <1>1, <1>2, <1>4 DEF DriveTypeOK
<1>6. obeyed' # TRUE
  <2>1. resets # 3
    BY <1>0, <1>1 DEF DriveTypeOK
  <2>. QED  BY <1>0, <1>1, <2>1 DEF Written
<1>7. ASSUME NEW n \in 1 .. 3, n <= writes' PROVE motor'[n] = command'[n]
  <2>1. CASE n = k
    <3>1. motor'[k] = 0 /\ command'[k] = c
      BY <1>0, <1>1, <1>2 DEF DriveTypeOK, Velocity
    <3>. QED  BY <1>1, <1>3, <1>7, <2>1, <3>1
  <2>2. CASE n # k
    <3>1. motor'[n] = motor[n] /\ command'[n] = command[n]
      BY <1>0, <1>1, <2>2 DEF DriveTypeOK, Velocity
    <3>. QED  BY <1>0, <1>1, <1>7, <3>1 DEF Written
  <2>. QED  BY <2>1, <2>2
<1>. QED  BY <1>5, <1>6, <1>7 DEF Written

\* A robot moves as its motor says when a world update is over.
LEMMA UpdateDrive == ASSUME RobotIInv, Robot!WorldUpdate PROVE DriveTypeOK' /\ Written'
<1>0. DriveTypeOK /\ Written
  BY DEF RobotIInv
<1>1. moving' = motor /\ resets = 3 /\ UNCHANGED <<motor, command, writes, resets>>
  BY DEF Robot!WorldUpdate, Robot!Motor
<1>2. obeyed' = (writes = 3)
  BY DEF Robot!WorldUpdate, Robot!Motor
<1>3. obeyed' \in BOOLEAN
  BY <1>2
<1>4. obeyed' = TRUE => writes = 3
  BY <1>2
<1>. QED  BY <1>0, <1>1, <1>3, <1>4 DEF DriveTypeOK, Written

\* A command comes.
LEMMA CommandStep ==
    ASSUME RobotIInv, NEW v \in Velocity, Robot!on_motor_move_msg(v) PROVE DriveTypeOK' /\ Written'
<1>0. DriveTypeOK /\ Written
  BY DEF RobotIInv
<1>1. writes' = 0 /\ command' = v /\ obeyed' = FALSE /\ UNCHANGED <<motor, moving, resets>>
  BY DEF Robot!on_motor_move_msg
<1>2. obeyed' \in BOOLEAN /\ obeyed' # TRUE
  BY <1>1
<1>3. DriveTypeOK'
  BY <1>0, <1>1, <1>2 DEF DriveTypeOK
<1>4. \A n \in 1 .. 3 : ~(n <= writes')
  BY <1>1
<1>. QED  BY <1>2, <1>3, <1>4 DEF Written

\* A tag or a station comes into view or leaves it.
LEMMA SeeStep ==
    ASSUME RobotIInv, NEW t \in Seen, Robot!See(t)
    PROVE  RobotTypeOK' /\ Punctual' /\ HeardLast' /\ TagsFound'
<1>0. RobotTypeOK /\ Punctual /\ HeardLast /\ TagsFound
  BY DEF RobotIInv
<1>1. /\ inWorld' = inWorld \cup ({t} \cap Tags)
      /\ inView' = IF t \in inView THEN inView \ {t} ELSE inView \cup {t}
      /\ viewSince' = [viewSince EXCEPT ![t] = tick]
      /\ UNCHANGED <<tick, last, watched, listening, heard, lastSearch, tagPoses, sighted>>
  BY DEF Robot!See, Robot!publishVars
<1>2. viewSince'[t] = tick /\ \A u \in Seen \ {t} : viewSince'[u] = viewSince[u]
  BY <1>0, <1>1 DEF RobotTypeOK
<1>3. RobotTypeOK'
  BY <1>0, <1>1 DEF RobotTypeOK
<1>4. Punctual'
  BY <1>0, <1>1, <1>2 DEF RobotTypeOK, Punctual
<1>5. HeardLast'
  <2>1. last["conveyor"] <= tick
    BY <1>0 DEF Punctual, Publisher
  <2>2. CASE t = "C-BS"
    BY <1>0, <1>1, <1>2, <2>1, <2>2 DEF HeardLast, RobotTypeOK
  <2>3. CASE t # "C-BS"
    <3>1. viewSince'["C-BS"] = viewSince["C-BS"] /\ ("C-BS" \in inView' <=> "C-BS" \in inView)
      BY <1>1, <1>2, <2>3 DEF Seen
    <3>. QED  BY <1>0, <1>1, <3>1 DEF HeardLast
  <2>. QED  BY <2>2, <2>3
<1>6. TagsFound'
  <2>1. /\ lastSearch <= tick /\ last["tag_vision"] <= tick /\ tick \in Nat
        /\ lastSearch \in Nat /\ last["tag_vision"] \in Nat
    BY <1>0 DEF RobotTypeOK, Punctual, Publisher
  <2>2. ~(tick < lastSearch) /\ ~(tick + 1 < last["tag_vision"]) /\ ~(tick < last["tag_vision"])
    BY <2>1
  <2>3. ASSUME NEW u \in Tags
        PROVE  /\ u \in inView' => u \in inWorld'
               /\ u \in inView' /\ viewSince'[u] < lastSearch => u \in tagPoses
               /\ u \in inView' /\ viewSince'[u] + 1 < last["tag_vision"] => u \in sighted
               /\ u \notin inView' /\ viewSince'[u] < last["tag_vision"] => u \notin sighted
    <3>1. CASE u = t
      BY <1>1, <1>2, <2>2, <3>1
    <3>2. CASE u # t
      <4>1. viewSince'[u] = viewSince[u] /\ (u \in inView' <=> u \in inView)
            /\ (u \in inWorld' <=> u \in inWorld)
        BY <1>1, <1>2, <3>2 DEF Seen
      <4>. QED  BY <1>0, <4>1 DEF TagsFound
    <3>. QED  BY <3>1, <3>2
  <2>. QED  BY <1>1, <2>3 DEF TagsFound
<1>. QED  BY <1>3, <1>4, <1>5, <1>6

\* The steps of a robot's plugins.
LEMMA RobotStep == ASSUME kind = "robot", RobotIInv, Step PROVE RobotIInv'
<1>0. /\ RobotTypeOK /\ DriveTypeOK /\ Punctual /\ HeardLast /\ TagsFound /\ Written /\ HeadingKept
  BY DEF RobotIInv
<1>1. ASSUME UNCHANGED <<tick, last, watched, listening, heard, lastSearch, tagPoses, inWorld, inView,
                         viewSince, sighted>>
      PROVE  RobotTypeOK' /\ Punctual' /\ HeardLast' /\ TagsFound'
  BY <1>0, <1>1 DEF RobotTypeOK, Punctual, HeardLast, TagsFound
<1>2. ASSUME UNCHANGED <<motor, moving, command, writes, resets, obeyed>> PROVE DriveTypeOK' /\ Written'
  BY <1>0, <1>2 DEF DriveTypeOK, Written
<1>3. ASSUME UNCHANGED <<omega, angle, mirrored>> PROVE HeadingKept'
  BY <1>0, <1>3 DEF HeadingKept
<1>. USE DEF Robot!publishVars, Robot!viewVars, Robot!motorVars, Robot!odometryVars
<1>4. CASE UNCHANGED vars
  BY <1>1, <1>2, <1>3, <1>4 DEF vars, robotVars, RobotIInv
<1>5. CASE Robot!WorldUpdate
  BY <1>5, UpdateTimes, UpdateTags, UpdateHeading, UpdateDrive DEF RobotIInv
<1>6. CASE Robot!WriteMember
  BY <1>1, <1>3, <1>6, WriteMemberStep DEF Robot!WriteMember, RobotIInv
<1>7. CASE Robot!Reset
  BY <1>1, <1>3, <1>7, ResetStep DEF Robot!Reset, RobotIInv
<1>b. CASE Robot!ResetMember
  BY <1>1, <1>3, <1>b, ResetMemberStep DEF Robot!ResetMember, RobotIInv
<1>8. CASE Robot!on_set_odometry_msg
  <2>1. /\ omega' = 0 /\ angle' = 0 /\ mirrored' = FALSE /\ last' = [last EXCEPT !["odometry"] = tick]
        /\ UNCHANGED <<tick, watched, listening, heard, lastSearch, tagPoses, inWorld, inView,
                       viewSince, sighted, motor, moving, command, writes, resets, obeyed>>
    BY <1>8 DEF Robot!on_set_odometry_msg
  <2>2. last'["odometry"] = tick /\ \A s \in Publisher \ {"odometry"} : last'[s] = last[s]
    BY <1>0, <2>1 DEF RobotTypeOK, Publisher
  <2>3. RobotTypeOK'
    BY <1>0, <2>1 DEF RobotTypeOK
  <2>4. Punctual'
    <3>1. tick <= tick /\ tick - tick <= IntervalOf("odometry")
      BY <1>0 DEF RobotTypeOK, IntervalOf
    <3>. QED  BY <1>0, <2>1, <2>2, <3>1 DEF Punctual
  <2>5. HeardLast' /\ TagsFound'
    BY <1>0, <2>1, <2>2 DEF RobotTypeOK, HeardLast, TagsFound, Publisher
  <2>6. HeadingKept'
    <3>1. mirrored' \in BOOLEAN
      BY <2>1
    <3>2. omega' \in Int /\ omega' \in -2 .. 2 /\ angle' \in Int /\ (omega' - angle') % 4 = 0
      BY <2>1
    <3>. QED  BY <3>1, <3>2 DEF HeadingKept
  <2>. QED  BY <1>2, <2>1, <2>3, <2>4, <2>5, <2>6 DEF RobotIInv
<1>9. CASE Robot!Subscribe
  <2>1. /\ heard' = tick /\ listening' = TRUE
        /\ UNCHANGED <<tick, last, watched, lastSearch, tagPoses, inWorld, inView,
                       viewSince, sighted, motor, moving, command, writes, resets, obeyed,
                       omega, angle, mirrored>>
    BY <1>9 DEF Robot!Subscribe
  <2>2. RobotTypeOK'
    BY <1>0, <2>1 DEF RobotTypeOK
  <2>3. Punctual' /\ TagsFound'
    BY <1>0, <2>1 DEF Punctual, TagsFound
  <2>4. HeardLast'
    BY <1>0, <2>1 DEF RobotTypeOK, Punctual, HeardLast, Publisher
  <2>. QED  BY <1>2, <1>3, <2>1, <2>2, <2>3, <2>4 DEF RobotIInv
<1>10. ASSUME NEW v \in Velocity, Robot!on_motor_move_msg(v) PROVE RobotIInv'
  BY <1>1, <1>3, <1>10, CommandStep DEF Robot!on_motor_move_msg, RobotIInv
<1>11. ASSUME NEW t \in Seen, Robot!See(t) PROVE RobotIInv'
  BY <1>2, <1>3, <1>11, SeeStep DEF Robot!See, RobotIInv
<1>12. Robot!Next \/ UNCHANGED vars
  BY DEF Step, Next, ShelfNext, StorageNext, GripNext, LightNext, DetectNext, PlaceNext, RobotNext
<1>13. {<<1, 0, 1>>, <<0, 1, -1>>} \subseteq Velocity
  BY VelocityFacts
<1>. QED  BY <1>4, <1>5, <1>6, <1>7, <1>b, <1>8, <1>9, <1>10, <1>11, <1>12, <1>13 DEF Robot!Next, Seen

\* Robots are told in time and do as they are told.
LEMMA RobotIsServed == RobotIInv => Robot!RobotServed
<1>. SUFFICES ASSUME RobotIInv PROVE Robot!RobotServed
  OBVIOUS
<1>0. /\ RobotTypeOK /\ DriveTypeOK /\ Punctual /\ HeardLast /\ TagsFound /\ Written /\ HeadingKept
  BY DEF RobotIInv
<1>1. Robot!Heard
  <2>. SUFFICES ASSUME listening, watched # "odometry"
                PROVE  \/ tick - heard <= IntervalOf(watched)
                       \/ /\ watched = "conveyor"
                          /\ "C-BS" \notin inView \/ tick - viewSince["C-BS"] <= 0
    BY <1>0 DEF Robot!Heard, RobotTypeOK, IntervalOf, Publisher
  <2>1. /\ tick - last[watched] <= IntervalOf(watched) /\ IntervalOf("conveyor") = 0
        /\ tick \in Nat /\ heard \in Nat /\ last[watched] \in Nat /\ viewSince["C-BS"] \in Nat
        /\ IntervalOf(watched) \in Nat
    BY <1>0 DEF RobotTypeOK, Punctual, IntervalOf, Seen
  <2>2. CASE watched # "conveyor"
    <3>1. heard >= last[watched]
      BY <1>0, <2>2 DEF HeardLast, RobotTypeOK
    <3>. QED  BY <2>1, <3>1
  <2>3. CASE watched = "conveyor"
    <3>1. heard >= last[watched] \/ "C-BS" \notin inView \/ viewSince["C-BS"] >= last[watched]
      BY <1>0, <2>3 DEF HeardLast, RobotTypeOK
    <3>. QED  BY <2>1, <2>3, <3>1
  <2>. QED  BY <2>2, <2>3
<1>2. Robot!TagsSighted
  <2>1. /\ tick - last["tag_vision"] <= 1 /\ tick \in Nat /\ last["tag_vision"] \in Nat
        /\ \A t \in Tags : viewSince[t] \in Nat
    BY <1>0 DEF RobotTypeOK, Punctual, Publisher, IntervalOf, Seen
  <2>2. ASSUME NEW t \in Tags
        PROVE  /\ t \in inView /\ tick - viewSince[t] > 2 => t \in sighted
               /\ t \notin inView /\ tick - viewSince[t] > 1 => t \notin sighted
    <3>1. /\ tick - viewSince[t] > 2 => viewSince[t] + 1 < last["tag_vision"]
          /\ tick - viewSince[t] > 1 => viewSince[t] < last["tag_vision"]
      BY <2>1
    <3>. QED  BY <1>0, <3>1 DEF TagsFound
  <2>. QED  BY <2>2 DEF Robot!TagsSighted
<1>3. Robot!Obeys
  <2>. SUFFICES ASSUME obeyed PROVE moving = command
    BY DEF Robot!Obeys
  <2>1. writes = 3 /\ moving = motor
    BY <1>0 DEF DriveTypeOK, Written
  <2>2. \A n \in 1 .. 3 : motor[n] = command[n]
    BY <1>0, <2>1 DEF Written
  <2>. QED  BY <1>0, <2>1, <2>2 DEF DriveTypeOK, Velocity
<1>4. Robot!HeadingTrue
  <2>1. mirrored \/ (omega \in -2 .. 2 /\ (omega - angle) % 4 = 0)
    BY <1>0 DEF HeadingKept
  <2>. QED  BY <2>1, HalfTurnFacts DEF Robot!HeadingTrue
<1>. QED  BY <1>1, <1>2, <1>3, <1>4 DEF Robot!RobotServed

-----------------------------------------------------------------------------
(* The placement of machines. *)

\* A machine that is placed stands in its zone, the others nowhere.
Standing ==
    \A n \in Names :
        models[n] = IF n \in placedMachines THEN <<Placement!Position(zoneOf[n])>> ELSE <<>>

\* The referee box has drawn a zone of its own for every machine.
Drawn ==
    /\ zoneOf \in [Names -> Placement!Zones]
    /\ \A a, b \in Names : zoneOf[a] = zoneOf[b] => a = b

PlaceIInv == Drawn /\ placedMachines \in SUBSET Names /\ models = [n \in Names |-> models[n]] /\ Standing

\* What a message says of a machine is its zone, or nothing.
Honest(info, k) ==
    /\ k \in Nat /\ Len(info) = k /\ DOMAIN info = 1 .. k
    /\ \A i \in 1 .. k :
          info[i].name \in Names => info[i].zone \in {Placement!NoZone, zoneOf[info[i].name]}

\* A set of numbers that is not empty has a least one.
LEMMA MinFacts ==
    ASSUME NEW S \in SUBSET Nat, S # {}
    PROVE  Placement!Min(S) \in S /\ \A y \in S : Placement!Min(S) <= y
<1>. DEFINE R == OpToRel(<, Nat)
<1>1. IsWellFoundedOn(R, Nat)
  BY NatLessThanWellFounded
<1>2. \A x, y \in Nat : <<x, y>> \in R <=> x < y
  BY DEF OpToRel
<1>. HIDE DEF R
<1>3. PICK x \in S : \A y \in S : ~(<<y, x>> \in R)
  BY <1>1, WFMin
<1>4. \A y \in S : ~(y < x)
  BY <1>2, <1>3
<1>5. ASSUME NEW y \in S PROVE x <= y
  <2>1. x \in Nat /\ y \in Nat /\ ~(y < x)
    BY <1>4
  <2>. QED  BY <2>1
<1>. QED  BY <1>5 DEF Placement!Min

\* The referee box is honest.
LEMMA InfoFacts ==
    ASSUME PlaceIInv, NEW info \in Placement!Infos \cup {Placement!Complete}
    PROVE  \E k \in Nat : Honest(info, k)
<1>. DEFINE entries == {Placement!Entry(n, k) : n \in Names, k \in BOOLEAN}
                           \cup {Placement!Stranger(n) : n \in Strangers}
<1>1. \A e \in entries :
        e.name \in Names => e.zone \in {Placement!NoZone, zoneOf[e.name]}
  BY WorldAssumption DEF Placement!Entry, Placement!Stranger
<1>. HIDE DEF entries
<1>2. ASSUME NEW a \in entries, info = <<a>> PROVE Honest(info, 1)
  BY <1>1, <1>2 DEF Honest
<1>3. ASSUME NEW a \in entries, NEW b \in entries, info = <<a, b>> PROVE Honest(info, 2)
  BY <1>1, <1>3 DEF Honest
<1>4. CASE info = Placement!Complete
  <2>. DEFINE n == Placement!Cardinality(Names)
              Orders == [1 .. n -> Names]
              Onto(s) == \A m \in Names : \E i \in DOMAIN s : s[i] = m
              order == CHOOSE s \in Orders : Onto(s)
  <2>1. n = Cardinality(Names)
    BY DEF Placement!Cardinality, Cardinality, Placement!IsFiniteSet, IsFiniteSet
  <2>2. n \in Nat /\ ExistsBijection(1 .. n, Names)
    BY <2>1, WorldAssumption, FS_CardinalityType
  <2>. HIDE DEF n
  <2>3. \E s \in Orders : Onto(s)
    BY <2>2 DEF ExistsBijection, Bijection, Surjection, Injection
  <2>4. order \in Orders
    BY <2>3
  <2>5. info = [i \in DOMAIN order |-> Placement!Entry(order[i], TRUE)]
    BY <1>4 DEF Placement!Complete, n
  <2>. HIDE DEF order
  <2>6. info = [i \in 1 .. n |-> [name |-> order[i], zone |-> zoneOf[order[i]]]]
    BY <2>4, <2>5 DEF Placement!Entry
  <2>7. DOMAIN info = 1 .. n /\ Len(info) = n
    BY <2>2, <2>6
  <2>8. \A i \in 1 .. n : info[i].zone = zoneOf[info[i].name]
    BY <2>6
  <2>. QED  BY <2>2, <2>7, <2>8 DEF Honest
<1>. QED  BY <1>2, <1>3, <1>4 DEF Placement!Infos, entries

\* No machine stands at first.
LEMMA PlaceInit == Init /\ kind = "placement" => PlaceIInv
<1>. SUFFICES ASSUME Placement!Init PROVE PlaceIInv
  BY DEF Init
<1>. QED  BY DEF Placement!Init, PlaceIInv, Drawn, Standing

\* A message puts up the machines that do not stand yet, each in its zone.
LEMMA PlaceMessage ==
    ASSUME PlaceIInv, NEW info \in Placement!Infos \cup {Placement!Complete},
           Placement!on_machine_info_msg(info)
    PROVE  PlaceIInv'
<1>0. /\ Drawn /\ placedMachines \in SUBSET Names /\ models = [n \in Names |-> models[n]] /\ Standing
  BY DEF PlaceIInv
<1>1. PICK k \in Nat : Honest(info, k)
  BY InfoFacts
<1>. DEFINE mine(n) == {i \in 1 .. (Placement!Stop(info) - 1) :
                          info[i].name = n /\ info[i].zone # Placement!NoZone}
            new == {n \in Names \ placedMachines : mine(n) # {}}
<1>2. /\ placedMachines' = placedMachines \cup new
      /\ models' = [n \in Names |->
            IF n \in new THEN Append(models[n], Placement!Position(info[Placement!Min(mine(n))].zone))
            ELSE models[n]]
      /\ zoneOf' = zoneOf
  BY DEF Placement!on_machine_info_msg
<1>3. Placement!Stop(info) \in 1 .. (k + 1)
  <2>. DEFINE S == {i \in DOMAIN info : /\ info[i].name \in Strangers
                                        /\ info[i].zone # Placement!NoZone} \cup {Len(info) + 1}
  <2>1. S \in SUBSET (1 .. k + 1) /\ S # {}
    BY <1>1 DEF Honest
  <2>2. Placement!Min(S) \in S
    BY <2>1, MinFacts
  <2>. QED  BY <2>1, <2>2 DEF Placement!Stop
<1>4. ASSUME NEW n \in new PROVE models'[n] = <<Placement!Position(zoneOf[n])>>
  <2>1. mine(n) \in SUBSET (1 .. k) /\ mine(n) # {} /\ n \in Names /\ n \notin placedMachines
    BY <1>3, <1>4
  <2>2. Placement!Min(mine(n)) \in mine(n)
    BY <2>1, MinFacts
  <2>. DEFINE i == Placement!Min(mine(n))
  <2>3. i \in 1 .. k /\ info[i].name = n /\ info[i].zone # Placement!NoZone
    BY <2>1, <2>2
  <2>4. info[i].zone = zoneOf[n]
    BY <1>1, <2>1, <2>3 DEF Honest
  <2>5. models'[n] = Append(models[n], Placement!Position(info[i].zone))
    BY <1>2, <1>4
  <2>6. models[n] = <<>>
    BY <1>0, <2>1 DEF Standing
  <2>. QED  BY <2>4, <2>5, <2>6
<1>5. ASSUME NEW n \in Names \ new PROVE models'[n] = models[n]
  BY <1>2
<1>6. new \subseteq Names /\ models' = [n \in Names |-> models'[n]]
  BY <1>2
<1>. HIDE DEF new
<1>7. Standing'
  BY <1>0, <1>2, <1>4, <1>5 DEF Standing
<1>. QED  BY <1>0, <1>2, <1>6, <1>7 DEF PlaceIInv, Drawn

\* The steps of the placement.
LEMMA PlaceStep == ASSUME kind = "placement", PlaceIInv, Step PROVE PlaceIInv'
<1>1. ASSUME UNCHANGED <<zoneOf, placedMachines, models>> PROVE PlaceIInv'
  BY <1>1 DEF PlaceIInv, Drawn, Standing
<1>2. Placement!Next \/ UNCHANGED vars
  BY DEF Step, Next, ShelfNext, StorageNext, GripNext, LightNext, DetectNext, PlaceNext, RobotNext
<1>. QED  BY <1>1, <1>2, PlaceMessage
          DEF Placement!Next, Placement!on_game_state_msg, Placement!Reset, Placement!WorldLoaded,
              vars, placeVars

\* Zones have middles of their own.
LEMMA PositionFacts ==
    \A y, z \in Placement!Zones : Placement!Position(y) = Placement!Position(z) => y = z
  BY DEF Placement!Zones, Placement!Position

\* Machines stand once, in their zones.
LEMMA PlaceOnce == PlaceIInv => Placement!MachinesStandOnce
<1>. SUFFICES ASSUME PlaceIInv PROVE Placement!MachinesStandOnce
  OBVIOUS
<1>0. Drawn /\ Standing
  BY DEF PlaceIInv
<1>1. ASSUME NEW n \in Names
      PROVE  /\ Len(models[n]) <= 1 /\ (n \in placedMachines <=> Len(models[n]) = 1)
             /\ (models[n] # <<>> <=> n \in placedMachines)
  <2>1. CASE n \in placedMachines
    <3>1. models[n] = <<Placement!Position(zoneOf[n])>>
      BY <1>0, <2>1 DEF Standing
    <3>2. Len(models[n]) = 1 /\ Len(<<>>) = 0
      BY <3>1
    <3>. QED  BY <2>1, <3>2
  <2>2. CASE n \notin placedMachines
    <3>1. models[n] = <<>>
      BY <1>0, <2>2 DEF Standing
    <3>2. Len(models[n]) = 0
      BY <3>1
    <3>. QED  BY <2>2, <3>1, <3>2
  <2>. QED  BY <2>1, <2>2
<1>2. ASSUME NEW n \in Names, models[n] # <<>>
      PROVE  models[n] = <<Placement!Position(zoneOf[n])>> /\ zoneOf[n] \in Placement!Zones
  BY <1>0, <1>1, <1>2 DEF Standing, Drawn
<1>3. ASSUME NEW a \in Names, NEW b \in Names, a # b, models[a] # <<>>, models[b] # <<>>
      PROVE  models[a] # models[b]
  <2>1. Placement!Position(zoneOf[a]) # Placement!Position(zoneOf[b])
    BY <1>0, <1>2, <1>3, PositionFacts DEF Drawn
  <2>2. models[a][1] # models[b][1]
    BY <1>2, <1>3, <2>1
  <2>. QED  BY <2>2
<1>4. ASSUME NEW n \in Names, models[n] # <<>>
      PROVE  \E z \in Placement!Zones : models[n][1] = Placement!Position(z) /\ z = zoneOf[n]
  BY <1>2, <1>4
<1>. QED  BY <1>1, <1>3, <1>4 DEF Placement!MachinesStandOnce

-----------------------------------------------------------------------------
(* The stock of the storage station. *)

Colors == Storage!BaseColors \cup {"unsupported", "YELLOW", "ORANGE", "GREEN", "BLUE", "GREY", "NONE", NoWp}
Commands == [command : {"ADD_RING", "ADD_CAP", "DELIVER"}, color : Colors]

StorageTypeOK ==
    /\ listing \in [Slots -> Storage!Listings]
    /\ puckName \in [Slots -> Pucks \cup {NoWp}]
    /\ puck \in [Pucks -> [life : {"none", "ordered", "loaded", "announced"}, base : Colors,
                           rings : Seq(Colors), haveCap : BOOLEAN, cap : Colors]]
    /\ news \in Seq(Pucks) /\ cmds \in [Pucks -> Seq(Commands)]
    /\ delivered = [w \in Pucks |-> delivered[w]]

SpawnedType == spawned \in BOOLEAN

\* Nothing has been made before the station spawns its stock; a workpiece is of
\* one slot only.
StockNamed ==
    /\ spawned = FALSE => \A i \in Slots : puckName[i] = NoWp
    /\ spawned = FALSE => \A w \in Pucks : puck[w].life = "none"
    /\ \A i, j \in Slots : puckName[i] = puckName[j] /\ puckName[i] # NoWp => i = j

InNews(w) == \E n \in DOMAIN news : news[n] = w

\* A workpiece is announced once.
NewsOnce ==
    /\ \A m, n \in DOMAIN news : news[m] = news[n] => m = n
    /\ \A n \in DOMAIN news : puck[news[n]].life = "announced"

\* Nothing happens to a workpiece before its announcement is delivered.
Untouched(w) ==
    puck[w].rings = <<>> /\ puck[w].haveCap = FALSE /\ cmds[w] = <<>> /\ delivered[w] = <<>>
UntouchedFirst == \A w \in Pucks : puck[w].life # "announced" \/ InNews(w) => Untouched(w)

\* The base is that of the slot; all other workpieces are red.
Mine(w) == \E i \in Slots : puckName[i] = w
BaseRight ==
    /\ \A i \in Slots : puckName[i] # NoWp =>
          /\ puck[puckName[i]].life # "none"
          /\ Head(listing[i]) \in Storage!BaseColors => puck[puckName[i]].base = Head(listing[i])
    /\ \A w \in Pucks : ~Mine(w) =>
          /\ puck[w].life # "ordered"
          /\ puck[w].life \in {"loaded", "announced"} => puck[w].base = "RED"

Deliver == Storage!Command("DELIVER", NoWp)

\* The workpieces of other machines stay bare.
ForeignBare ==
    \A w \in Pucks : ~Mine(w) =>
        /\ puck[w].rings = <<>> /\ puck[w].haveCap = FALSE
        /\ \/ cmds[w] \in {<<>>, <<Deliver>>} /\ delivered[w] = <<>>
           \/ cmds[w] = <<>> /\ delivered[w] = <<"BASE", "RED">>

\* What the configuration promises of a slot, and the commands that fulfil it.
Promised(l) == Len(l) > 1 /\ Head(l) \in Storage!BaseColors /\ Storage!Last(l) \in {"BLACK", "GRAY", "empty"}
Cap(l) == IF Storage!Last(l) = "BLACK" THEN "BLACK" ELSE IF Storage!Last(l) = "GRAY" THEN "GREY" ELSE "NONE"
Full(l) == Len(Storage!RingColors(l)) + 2
Plan(l) ==
    [n \in 1 .. Full(l) |->
        IF n <= Full(l) - 2 THEN Storage!Command("ADD_RING", Storage!RingColors(l)[n])
        ELSE IF n = Full(l) - 1 THEN Storage!Command("ADD_CAP", Cap(l))
        ELSE Deliver]

\* k commands of the plan are done, those up to m are given.
Progress(w, l, k, m) ==
    /\ cmds[w] = SubSeq(Plan(l), k + 1, m)
    /\ IF k <= Full(l) - 2
       THEN puck[w].rings = SubSeq(Storage!RingColors(l), 1, k) /\ puck[w].haveCap = FALSE
       ELSE puck[w].rings = Storage!RingColors(l) /\ puck[w].haveCap = TRUE /\ puck[w].cap = Cap(l)
    /\ delivered[w] = IF k = Full(l) THEN Storage!Product(l) ELSE <<>>

StockInWork ==
    \A i \in Slots :
        LET w == puckName[i] IN
        w # NoWp /\ Promised(listing[i]) /\ puck[w].life = "announced" /\ ~InNews(w) =>
            \E m \in {Full(listing[i]) - 1, Full(listing[i])} : \E k \in 0 .. m :
                Progress(w, listing[i], k, m)

StorageIInv ==
    /\ StorageTypeOK /\ SpawnedType /\ StockNamed /\ NewsOnce /\ UntouchedFirst
    /\ BaseRight /\ ForeignBare /\ StockInWork

\* What the loop over a listing of three or four words reads.
WithRing(s, c) == IF c \in {"YELLOW", "ORANGE", "GREEN", "BLUE"} THEN Append(s, c) ELSE s
LEMMA ReadFacts ==
    ASSUME NEW l, Len(l) \in {3, 4}
    PROVE  /\ Len(l) = 3 => Storage!RingsRead(l) = WithRing(<<>>, l[2])
           /\ Len(l) = 4 => Storage!RingsRead(l) = WithRing(WithRing(<<>>, l[2]), l[3])
<1>. DEFINE two == WithRing(<<>>, l[2])
            three == WithRing(two, l[3])
            four == WithRing(three, l[4])
            f == [j \in 1 .. Len(l) |->
                     IF j = 1 THEN <<>> ELSE IF j = 2 THEN two ELSE IF j = 3 THEN three ELSE four]
            Loop(g) == g = [j \in 1 .. Len(l) |-> IF j = 1 THEN <<>>
                                ELSE IF l[j] \in {"YELLOW", "ORANGE", "GREEN", "BLUE"}
                                     THEN Append(g[j - 1], l[j])
                                ELSE g[j - 1]]
            h == CHOOSE g : Loop(g)
<1>1. Storage!RingsRead(l) = h[Len(l) - 1]
  BY DEF Storage!RingsRead
<1>2. Loop(f)
  <2>. HIDE DEF two, three, four
  <2>1. ASSUME NEW j \in 1 .. Len(l)
        PROVE  f[j] = IF j = 1 THEN <<>> ELSE WithRing(f[j - 1], l[j])
    <3>0. Len(l) = 3 \/ Len(l) = 4
      OBVIOUS
    <3>1. j \in {1, 2, 3, 4} /\ {1, 2, 3} \subseteq 1 .. Len(l)
      <4>1. CASE Len(l) = 3
        BY <4>1
      <4>2. CASE Len(l) = 4
        BY <4>2
      <4>. QED  BY <3>0, <4>1, <4>2
    <3>2. f[1] = <<>> /\ f[2] = two /\ f[3] = three /\ (j = 4 => f[4] = four)
      BY <3>1
    <3>. QED  BY <3>1, <3>2 DEF two, three, four
  <2>. HIDE DEF f
  <2>2. f = [j \in 1 .. Len(l) |-> f[j]]
    BY DEF f
  <2>. QED  BY <2>1, <2>2 DEF WithRing
<1>3. Loop(h)
  <2>. HIDE DEF f
  <2>. QED  BY <1>2
<1>. HIDE DEF h
<1>4. h[1] = <<>> /\ h[2] = WithRing(h[1], l[2]) /\ (Len(l) = 4 => h[3] = WithRing(h[2], l[3]))
  <2>1. \A j \in 1 .. Len(l) : h[j] = IF j = 1 THEN <<>> ELSE WithRing(h[j - 1], l[j])
    BY <1>3 DEF WithRing
  <2>. QED  BY <2>1
<1>5. Len(l) = 3 => Len(l) - 1 = 2
  OBVIOUS
<1>6. Len(l) = 4 => Len(l) - 1 = 3
  OBVIOUS
<1>. QED  BY <1>1, <1>4, <1>5, <1>6

\* The words between the first and the last of three or four.
LEMMA MiddleFacts ==
    ASSUME NEW S, NEW l \in Seq(S)
    PROVE  /\ Len(l) = 2 => SubSeq(l, 2, Len(l) - 1) = <<>>
           /\ Len(l) = 3 => SubSeq(l, 2, Len(l) - 1) = <<l[2]>>
           /\ Len(l) = 4 => SubSeq(l, 2, Len(l) - 1) = <<l[2], l[3]>>
<1>1. ASSUME Len(l) = 2 PROVE SubSeq(l, 2, Len(l) - 1) = <<>>
  BY <1>1, SubSeqEmpty
<1>2. ASSUME Len(l) = 3 PROVE SubSeq(l, 2, Len(l) - 1) = <<l[2]>>
  <2>1. Len(l) - 1 = 2
    BY <1>2
  <2>2. /\ SubSeq(l, 2, 2) \in Seq(S) /\ Len(SubSeq(l, 2, 2)) = 1
        /\ SubSeq(l, 2, 2)[1] = l[2] /\ l[2] \in S
    <3>1. l[2] \in S
      BY <1>2, ElementOfSeq
    <3>2. \A i \in 2 .. 2 : l[i] \in S
      BY <3>1
    <3>3. /\ SubSeq(l, 2, 2) \in Seq(S) /\ Len(SubSeq(l, 2, 2)) = IF 2 <= 2 THEN 2 - 2 + 1 ELSE 0
          /\ \A i \in 1 .. 2 - 2 + 1 : SubSeq(l, 2, 2)[i] = l[2 + i - 1]
      BY <3>2, SubSeqProperties
    <3>. QED  BY <3>1, <3>3
  <2>3. \A i \in 1 .. 1 : SubSeq(l, 2, 2)[i] = <<l[2]>>[i]
    BY <2>2
  <2>4. <<l[2]>> \in Seq(S) /\ Len(<<l[2]>>) = 1
    BY <2>2
  <2>. QED  BY <2>1, <2>2, <2>3, <2>4, SeqEqual
<1>3. ASSUME Len(l) = 4 PROVE SubSeq(l, 2, Len(l) - 1) = <<l[2], l[3]>>
  <2>1. Len(l) - 1 = 3
    BY <1>3
  <2>2. /\ SubSeq(l, 2, 3) \in Seq(S) /\ Len(SubSeq(l, 2, 3)) = 2
        /\ SubSeq(l, 2, 3)[1] = l[2] /\ SubSeq(l, 2, 3)[2] = l[3] /\ l[2] \in S /\ l[3] \in S
    <3>1. l[2] \in S /\ l[3] \in S
      BY <1>3, ElementOfSeq
    <3>2. \A i \in 2 .. 3 : l[i] \in S
      BY <3>1
    <3>3. /\ SubSeq(l, 2, 3) \in Seq(S) /\ Len(SubSeq(l, 2, 3)) = IF 2 <= 3 THEN 3 - 2 + 1 ELSE 0
          /\ \A i \in 1 .. 3 - 2 + 1 : SubSeq(l, 2, 3)[i] = l[2 + i - 1]
      BY <3>2, SubSeqProperties
    <3>. QED  BY <3>1, <3>3
  <2>3. \A i \in 1 .. 2 : SubSeq(l, 2, 3)[i] = <<l[2], l[3]>>[i]
    BY <2>2
  <2>4. <<l[2], l[3]>> \in Seq(S) /\ Len(<<l[2], l[3]>>) = 2
    BY <2>2
  <2>. QED  BY <2>1, <2>2, <2>3, <2>4, SeqEqual
<1>. QED  BY <1>1, <1>2, <1>3

\* What is read of a listing of a given length.
LEMMA RingFacts ==
    ASSUME NEW S, NEW l \in Seq(S)
    PROVE  /\ Len(l) \in {1, 2} => Storage!RingColors(l) = <<>>
           /\ Len(l) = 3 => Storage!RingColors(l) = WithRing(<<>>, l[2])
           /\ Len(l) = 4 => Storage!RingColors(l) = WithRing(WithRing(<<>>, l[2]), l[3])
<1>. DEFINE n == Len(l)
<1>1. Storage!RingColors(l) = IF n > 2 THEN Storage!RingsRead(l) ELSE <<>>
  BY DEF Storage!RingColors
<1>2. n \in {3, 4} => Storage!RingsRead(l) = IF n = 3 THEN WithRing(<<>>, l[2])
                                                    ELSE WithRing(WithRing(<<>>, l[2]), l[3])
  BY ReadFacts
<1>. HIDE DEF n
<1>3. n \in {1, 2} => ~(n > 2)
  OBVIOUS
<1>4. n \in {3, 4} => n > 2
  OBVIOUS
<1>5. n \in {1, 2} => Storage!RingColors(l) = <<>>
  BY <1>1, <1>3
<1>6. n \in {3, 4} => Storage!RingColors(l) = IF n = 3 THEN WithRing(<<>>, l[2])
                                                      ELSE WithRing(WithRing(<<>>, l[2]), l[3])
  BY <1>1, <1>2, <1>4
<1>7. n = 3 => Storage!RingColors(l) = WithRing(<<>>, l[2])
  BY <1>6
<1>8. n = 4 => Storage!RingColors(l) = WithRing(WithRing(<<>>, l[2]), l[3])
  BY <1>6
<1>9. n = Len(l)
  BY DEF n
<1>. QED  BY <1>5, <1>7, <1>8, <1>9, Zenon

LEMMA AppendFacts == ASSUME NEW S, NEW a \in S, NEW b \in S
    PROVE  Append(<<>>, a) = <<a>> /\ Append(<<a>>, b) = <<a, b>>
<1>1. <<>> \in Seq(S) /\ <<a>> \in Seq(S) /\ <<a, b>> \in Seq(S)
  OBVIOUS
<1>2. Append(<<>>, a) = <<a>>
  OBVIOUS
<1>3. /\ Append(<<a>>, b) \in Seq(S) /\ Len(Append(<<a>>, b)) = 2
      /\ Append(<<a>>, b)[1] = a /\ Append(<<a>>, b)[2] = b
  BY <1>1, AppendProperties
<1>4. \A i \in 1 .. 2 : Append(<<a>>, b)[i] = <<a, b>>[i]
  BY <1>3
<1>5. Append(<<a>>, b) = <<a, b>>
  BY <1>1, <1>3, <1>4, SeqEqual
<1>. QED  BY <1>2, <1>5

\* What is read of the listings: the words between base and cap, where there are
\* any.
Words == {"RED", "BLACK", "SILVER", "PINK", "BLUE", "GREEN", "GRAY", "empty"}
LEMMA ListingFacts ==
    ASSUME NEW l \in Storage!Listings
    PROVE  /\ l \in Seq(Words) /\ Len(l) \in 1 .. 4
           /\ Storage!RingColors(l) \in Seq(Colors)
           /\ Promised(l) => /\ Storage!RingColors(l) = SubSeq(l, 2, Len(l) - 1)
                             /\ Storage!CapColor(l) = {Cap(l)} /\ l[1] = Head(l)
           /\ Storage!CapColor(l) \subseteq Colors
<1>0. /\ Storage!CapColor(l) \subseteq Colors
      /\ Promised(l) => Storage!CapColor(l) = {Cap(l)}
  BY DEF Storage!CapColor, Colors, Storage!BaseColors, Promised, Cap
<1>1. \/ l = <<"RED", "BLACK">> \/ l = <<"BLACK", "BLUE", "GRAY">>
      \/ l = <<"SILVER", "BLUE", "GREEN", "BLACK">> \/ l = <<"RED", "empty">> \/ l = <<"PINK", "GRAY">>
      \/ l = <<"RED", "BLUE">> \/ l = <<"BLACK">>
  BY DEF Storage!Listings
<1>2. l \in Seq(Words) /\ Len(l) \in 1 .. 4 /\ Head(l) = l[1]
  <2>1. CASE l = <<"RED", "BLACK">>
    BY <2>1 DEF Words
  <2>2. CASE l = <<"BLACK", "BLUE", "GRAY">>
    BY <2>2 DEF Words
  <2>3. CASE l = <<"SILVER", "BLUE", "GREEN", "BLACK">>
    BY <2>3 DEF Words
  <2>4. CASE l = <<"RED", "empty">>
    BY <2>4 DEF Words
  <2>5. CASE l = <<"PINK", "GRAY">>
    BY <2>5 DEF Words
  <2>6. CASE l = <<"RED", "BLUE">>
    BY <2>6 DEF Words
  <2>7. CASE l = <<"BLACK">>
    BY <2>7 DEF Words
  <2>. QED  BY <1>1, <2>1, <2>2, <2>3, <2>4, <2>5, <2>6, <2>7
<1>3. ASSUME Len(l) \in {1, 2}
      PROVE  Storage!RingColors(l) \in Seq(Colors) /\ (Promised(l) => Storage!RingColors(l) = SubSeq(l, 2, Len(l) - 1))
  <2>1. Storage!RingColors(l) = <<>>
    BY <1>2, <1>3, RingFacts
  <2>2. Promised(l) => Len(l) = 2
    <3>1. CASE Len(l) = 1
      BY <3>1 DEF Promised
    <3>2. CASE Len(l) = 2
      BY <3>2
    <3>. QED  BY <1>3, <3>1, <3>2
  <2>3. Promised(l) => SubSeq(l, 2, Len(l) - 1) = <<>>
    BY <1>2, <2>2, MiddleFacts
  <2>4. <<>> \in Seq(Colors)
    BY EmptySeq
  <2>. QED  BY <2>1, <2>3, <2>4
<1>4. CASE l = <<"BLACK", "BLUE", "GRAY">>
  <2>1. Len(l) = 3 /\ l[2] = "BLUE"
    BY <1>4
  <2>2. Storage!RingColors(l) = <<"BLUE">>
    BY <1>2, <2>1, RingFacts, AppendFacts DEF WithRing
  <2>3. SubSeq(l, 2, Len(l) - 1) = <<"BLUE">>
    BY <1>2, <2>1, MiddleFacts
  <2>4. "BLUE" \in Colors
    BY DEF Colors
  <2>5. <<"BLUE">> \in Seq(Colors)
    BY <2>4
  <2>. QED  BY <1>0, <1>2, <2>2, <2>3, <2>5
<1>5. CASE l = <<"SILVER", "BLUE", "GREEN", "BLACK">>
  <2>1. Len(l) = 4 /\ l[2] = "BLUE" /\ l[3] = "GREEN"
    BY <1>5
  <2>2. Append(<<>>, "BLUE") = <<"BLUE">> /\ Append(<<"BLUE">>, "GREEN") = <<"BLUE", "GREEN">>
    <3>1. "BLUE" \in Words /\ "GREEN" \in Words
      BY DEF Words
    <3>. QED  BY <3>1, AppendFacts
  <2>3. Storage!RingColors(l) = <<"BLUE", "GREEN">>
    BY <1>2, <2>1, <2>2, RingFacts DEF WithRing
  <2>4. SubSeq(l, 2, Len(l) - 1) = <<"BLUE", "GREEN">>
    BY <1>2, <2>1, MiddleFacts
  <2>5. "BLUE" \in Colors /\ "GREEN" \in Colors
    BY DEF Colors
  <2>6. <<"BLUE", "GREEN">> \in Seq(Colors)
    BY <2>5
  <2>. QED  BY <1>0, <1>2, <2>3, <2>4, <2>6
<1>6. \/ Len(l) \in {1, 2} \/ l = <<"BLACK", "BLUE", "GRAY">>
      \/ l = <<"SILVER", "BLUE", "GREEN", "BLACK">>
  <2>1. CASE l = <<"RED", "BLACK">> \/ l = <<"RED", "empty">> \/ l = <<"PINK", "GRAY">> \/ l = <<"RED", "BLUE">>
    BY <2>1
  <2>2. CASE l = <<"BLACK">>
    BY <2>2
  <2>. QED  BY <1>1, <2>1, <2>2
<1>. QED  BY <1>0, <1>2, <1>3, <1>4, <1>5, <1>6

\* Commands are taken off the front of a plan, and given at its end.
LEMMA PlanFacts ==
    ASSUME NEW S, NEW s \in Seq(S), NEW m \in 1 .. Len(s), NEW k \in 0 .. m - 1
    PROVE  /\ SubSeq(s, k + 1, m) # <<>> /\ Head(SubSeq(s, k + 1, m)) = s[k + 1]
           /\ Tail(SubSeq(s, k + 1, m)) = SubSeq(s, k + 2, m)
           /\ Append(SubSeq(s, k + 1, m - 1), s[m]) = SubSeq(s, k + 1, m)
<1>1. k + 1 \in 1 .. Len(s) /\ m \in k + 1 .. Len(s) /\ k + 1 + 1 = k + 2
  OBVIOUS
<1>2. /\ Head(SubSeq(s, k + 1, m)) = s[k + 1]
      /\ Tail(SubSeq(s, k + 1, m)) = SubSeq(s, k + 2, m)
  BY <1>1, HeadTailOfSubSeq
<1>3. SubSeq(s, k + 1, m) = SubSeq(s, k + 1, m - 1) \o <<s[m]>>
  BY <1>1, SubSeqRecursiveSecond
<1>4. /\ SubSeq(s, k + 1, m) \in Seq(S) /\ Len(SubSeq(s, k + 1, m)) = m - k
      /\ SubSeq(s, k + 1, m - 1) \in Seq(S)
  BY <1>1, SubSeqProperties
<1>5. SubSeq(s, k + 1, m) # <<>>
  BY <1>4, EmptySeq
<1>6. \A t \in Seq(S) : Append(t, s[m]) = t \o <<s[m]>>
  BY <1>1, AppendIsConcat
<1>. QED  BY <1>2, <1>3, <1>4, <1>5, <1>6

\* The plan has a command per ring, one for the cap and the delivery.
LEMMA PlanType ==
    ASSUME NEW l \in Storage!Listings
    PROVE  /\ Full(l) \in Nat /\ Full(l) >= 2 /\ Len(Storage!RingColors(l)) = Full(l) - 2
           /\ Plan(l) \in Seq(Commands) /\ Len(Plan(l)) = Full(l)
           /\ \A n \in 1 .. Full(l) - 2 :
                 Plan(l)[n] = Storage!Command("ADD_RING", Storage!RingColors(l)[n])
           /\ Plan(l)[Full(l) - 1] = Storage!Command("ADD_CAP", Cap(l))
           /\ Plan(l)[Full(l)] = Deliver
<1>. DEFINE R == Storage!RingColors(l)
<1>1. R \in Seq(Colors) /\ Cap(l) \in Colors /\ NoWp \in Colors
  BY ListingFacts DEF Cap, Colors, Storage!BaseColors
<1>2. Len(R) \in Nat /\ \A n \in 1 .. Len(R) : R[n] \in Colors
  BY <1>1, LenProperties, ElementOfSeq
<1>3. Full(l) = Len(R) + 2
  BY DEF Full
<1>. HIDE DEF R
<1>4. Full(l) \in Nat /\ Full(l) >= 2 /\ Len(R) = Full(l) - 2
  BY <1>2, <1>3
<1>. DEFINE F == Full(l)
            P(n) == IF n <= F - 2 THEN Storage!Command("ADD_RING", R[n])
                    ELSE IF n = F - 1 THEN Storage!Command("ADD_CAP", Cap(l)) ELSE Deliver
<1>5. Plan(l) = [n \in 1 .. F |-> P(n)]
  BY DEF Plan, R
<1>. HIDE DEF F
<1>6. \A c \in Colors, t \in {"ADD_RING", "ADD_CAP", "DELIVER"} : Storage!Command(t, c) \in Commands
  BY DEF Storage!Command, Commands
<1>7. \A n \in 1 .. F : P(n) \in Commands
  <2>1. \A n \in 1 .. F : n <= F - 2 => R[n] \in Colors
    BY <1>2, <1>4 DEF F
  <2>. QED  BY <1>1, <1>4, <1>6, <2>1 DEF Deliver
<1>8. Plan(l) \in Seq(Commands) /\ Len(Plan(l)) = F
  BY <1>4, <1>5, <1>7 DEF F
<1>9. \A n \in 1 .. F - 2 : Plan(l)[n] = Storage!Command("ADD_RING", R[n])
  BY <1>4, <1>5 DEF F
<1>10. Plan(l)[F - 1] = Storage!Command("ADD_CAP", Cap(l)) /\ Plan(l)[F] = Deliver
  BY <1>4, <1>5 DEF F
<1>. QED  BY <1>4, <1>8, <1>9, <1>10 DEF F, R

\* The stock at the start.
LEMMA StorageInit == Init /\ kind = "storage" => StorageIInv
<1>. SUFFICES ASSUME Init, kind = "storage" PROVE StorageIInv
  OBVIOUS
<1>1. Storage!Init
  BY DEF Init
<1>2. /\ \A w \in Pucks : puck[w] = Storage!Bare /\ cmds[w] = <<>> /\ delivered[w] = <<>>
      /\ \A i \in Slots : puckName[i] = NoWp
      /\ news = <<>> /\ DOMAIN news = {}
  BY <1>1 DEF Storage!Init
<1>3. Storage!Bare \in [life : {"none", "ordered", "loaded", "announced"}, base : Colors,
                        rings : Seq(Colors), haveCap : BOOLEAN, cap : Colors]
  BY DEF Storage!Bare, Colors
<1>4. StorageTypeOK /\ SpawnedType
  <2>1. /\ listing \in [Slots -> Storage!Listings] /\ spawned \in BOOLEAN
        /\ puckName \in [Slots -> Pucks \cup {NoWp}]
        /\ delivered = [w \in Pucks |-> delivered[w]]
    BY <1>1 DEF Storage!Init
  <2>2. puck \in [Pucks -> [life : {"none", "ordered", "loaded", "announced"}, base : Colors,
                            rings : Seq(Colors), haveCap : BOOLEAN, cap : Colors]]
    BY <1>1, <1>3 DEF Storage!Init
  <2>3. news \in Seq(Pucks) /\ <<>> \in Seq(Commands)
    BY <1>2, EmptySeq
  <2>4. cmds \in [Pucks -> Seq(Commands)]
    BY <1>1, <2>3 DEF Storage!Init
  <2>. QED  BY <2>1, <2>2, <2>3, <2>4 DEF StorageTypeOK, SpawnedType
<1>. QED  BY <1>2, <1>4 DEF StorageIInv, StockNamed, NewsOnce, UntouchedFirst, Untouched, BaseRight,
              ForeignBare, StockInWork, InNews, Mine, Storage!Bare

\* The station has its stock spawned: nothing is known of any workpiece yet.
LEMMA StockOnUpdate == ASSUME StorageIInv, Storage!OnUpdate PROVE StorageIInv'
<1>. DEFINE Puck == [life : {"none", "ordered", "loaded", "announced"}, base : Colors,
                     rings : Seq(Colors), haveCap : BOOLEAN, cap : Colors]
            new == CHOOSE f \in [Slots -> Pucks] : \A i, j \in Slots : i # j => f[i] # f[j]
<1>6. UNCHANGED <<listing, news, cmds, delivered>> /\ spawned' = TRUE /\ ~spawned
  BY Zenon DEF Storage!OnUpdate
<1>0. /\ StorageTypeOK /\ SpawnedType /\ StockNamed /\ NewsOnce /\ UntouchedFirst
      /\ BaseRight /\ ForeignBare /\ spawned = FALSE
  BY <1>6 DEF StorageIInv, SpawnedType
<1>1. PICK base \in [Slots -> Storage!BaseColors \cup {"unsupported"}] :
        /\ \A i \in Slots : base[i] \in Storage!BaseColor(listing[i])
        /\ LET made == {i \in Slots : base[i] \in Storage!BaseColors}
           IN /\ puckName' = [i \in Slots |-> IF i \in made THEN new[i] ELSE NoWp]
              /\ puck' = [w \in Pucks |->
                     IF \E i \in made : new[i] = w
                     THEN [Storage!Bare EXCEPT !.life = "ordered",
                                               !.base = base[CHOOSE i \in made : new[i] = w]]
                     ELSE puck[w]]
  BY Zenon DEF Storage!OnUpdate
<1>2. new \in [Slots -> Pucks] /\ \A i, j \in Slots : i # j => new[i] # new[j]
  BY WorldAssumption
<1>. DEFINE made == {i \in Slots : base[i] \in Storage!BaseColors}
            Pick(w) == CHOOSE i \in made : new[i] = w
            Ordered(b) == [Storage!Bare EXCEPT !.life = "ordered", !.base = b]
            Made(w) == \E i \in made : new[i] = w
            Spawned(w) == IF Made(w) THEN Ordered(base[Pick(w)]) ELSE puck[w]
<1>. HIDE DEF new
<1>18. puckName' = [i \in Slots |-> IF i \in made THEN new[i] ELSE NoWp]
  BY <1>1, Zenon
<1>20. puck' = [w \in Pucks |-> Spawned(w)]
  BY <1>1, Zenon
<1>21. \A i \in Slots : base[i] \in Storage!BaseColor(listing[i])
  BY <1>1, Zenon
<1>22. \A b \in Colors : /\ Ordered(b) \in Puck /\ Ordered(b).life = "ordered"
                         /\ Ordered(b).base = b /\ Ordered(b).rings = <<>>
                         /\ Ordered(b).haveCap = FALSE
  <2>1. Storage!Bare \in Puck
    BY EmptySeq DEF Storage!Bare, Colors
  <2>2. \A b \in Colors : Ordered(b) \in Puck
    BY <2>1
  <2>3. \A b \in Colors : Ordered(b).life = "ordered" /\ Ordered(b).base = b
    BY DEF Storage!Bare
  <2>4. \A b \in Colors : Ordered(b).rings = <<>> /\ Ordered(b).haveCap = FALSE
    BY DEF Storage!Bare
  <2>. HIDE DEF Ordered, Puck
  <2>. QED  BY <2>2, <2>3, <2>4
<1>. HIDE DEF Ordered
<1>23. \A w \in Pucks : puck'[w] = Spawned(w)
  <2>. HIDE DEF Spawned
  <2>. QED  BY <1>20
<1>24. puck' = [w \in Pucks |-> puck'[w]]
  <2>. HIDE DEF Spawned
  <2>. QED  BY <1>20
<1>19. \A i \in made : Pick(new[i]) = i
  BY <1>2
<1>. HIDE DEF Pick
<1>3. /\ \A i \in Slots : puckName'[i] = IF i \in made THEN new[i] ELSE NoWp
      /\ \A i \in made : puckName'[i] \in Pucks /\ puckName'[i] # NoWp
      /\ puckName' \in [Slots -> Pucks \cup {NoWp}]
  <2>1. \A i \in Slots : puckName'[i] = IF i \in made THEN new[i] ELSE NoWp
    BY <1>18
  <2>2. \A i \in made : i \in Slots /\ new[i] \in Pucks /\ new[i] # NoWp
    BY <1>2, WorldAssumption
  <2>. HIDE DEF made
  <2>. QED  BY <1>18, <2>1, <2>2
<1>4. ASSUME NEW i \in made
      PROVE  puck'[new[i]] = Ordered(base[i])
  <2>1. Pick(new[i]) = i
    BY <1>4, <1>19
  <2>2. new[i] \in Pucks /\ \E j \in made : new[j] = new[i]
    BY <1>2, <1>4
  <2>3. Made(new[i])
    BY <2>2
  <2>. HIDE DEF made, Made
  <2>. QED  BY <1>23, <2>1, <2>2, <2>3
<1>5. \A w \in Pucks : (\A i \in made : new[i] # w) => puck'[w] = puck[w]
  <2>1. \A w \in Pucks : (\A i \in made : new[i] # w) => ~Made(w)
    OBVIOUS
  <2>. HIDE DEF made, Made
  <2>. QED  BY <1>23, <2>1
<1>7. \A w \in Pucks : puck[w].life = "none" /\ Untouched(w) /\ ~Mine(w)
  BY <1>0, WorldAssumption DEF StockNamed, UntouchedFirst, Mine
<1>8. \A w \in Pucks : ~InNews(w)
  BY <1>0, <1>7 DEF NewsOnce, StorageTypeOK, InNews
<1>9. ASSUME NEW i \in made
      PROVE  /\ puck'[new[i]] \in Puck /\ puck'[new[i]].life = "ordered"
             /\ puck'[new[i]].base = base[i]
             /\ puck'[new[i]].rings = <<>> /\ puck'[new[i]].haveCap = FALSE
  <2>1. base[i] \in Colors
    BY <1>9 DEF Colors
  <2>. HIDE DEF made, Puck
  <2>. QED  BY <1>4, <1>9, <1>22, <2>1
<1>. DEFINE Unmade(w) == \A i \in made : new[i] # w
<1>10. puck' \in [Pucks -> Puck]
  <2>2. ASSUME NEW w \in Pucks PROVE puck'[w] \in Puck
    <3>1. CASE Unmade(w)
      BY <1>0, <1>5, <3>1 DEF StorageTypeOK
    <3>2. CASE \E i \in made : new[i] = w
      BY <1>9, <3>2
    <3>. QED  BY <3>1, <3>2
  <2>. HIDE DEF Puck
  <2>. QED  BY <1>24, <2>2
<1>11. \A w \in Pucks : /\ puck'[w].life \in {"none", "ordered"} /\ puck'[w].rings = <<>>
                        /\ puck'[w].haveCap = FALSE
                        /\ (~Mine(w)' => puck'[w].life = "none")
  <2>1. ASSUME NEW w \in Pucks, Unmade(w)
        PROVE  puck'[w].life = "none" /\ puck'[w].rings = <<>> /\ puck'[w].haveCap = FALSE
    BY <1>5, <1>7, <2>1 DEF Untouched
  <2>2. ASSUME NEW w \in Pucks, ~Unmade(w)
        PROVE  /\ puck'[w].life = "ordered" /\ puck'[w].rings = <<>> /\ puck'[w].haveCap = FALSE
               /\ Mine(w)'
    <3>1. PICK i \in made : new[i] = w
      BY <2>2
    <3>. QED  BY <1>3, <1>9, <3>1 DEF Mine
  <2>. HIDE DEF Unmade
  <2>. QED  BY <2>1, <2>2
<1>12. StorageTypeOK' /\ SpawnedType'
  BY <1>0, <1>3, <1>6, <1>10 DEF StorageTypeOK, SpawnedType
<1>13. StockNamed'
  BY <1>2, <1>3, <1>6 DEF StockNamed
<1>14. NewsOnce' /\ UntouchedFirst'
  BY <1>0, <1>6, <1>7, <1>8, <1>11 DEF NewsOnce, UntouchedFirst, Untouched, InNews, StorageTypeOK
<1>15. BaseRight'
  <2>1. ASSUME NEW i \in made, Head(listing[i]) \in Storage!BaseColors
        PROVE  base[i] = Head(listing[i])
    <3>1. listing[i] \in Storage!Listings
      BY <1>0 DEF StorageTypeOK
    <3>2. listing[i][1] = Head(listing[i])
      BY <3>1, ListingFacts
    <3>3. i \in Slots
      BY <2>1
    <3>4. base[i] \in Storage!BaseColor(listing[i])
      BY <1>21, <3>3
    <3>5. Storage!BaseColor(listing[i]) = {listing[i][1]}
      BY <2>1, <3>2 DEF Storage!BaseColor
    <3>. QED  BY <3>2, <3>4, <3>5
  <2>2. ASSUME NEW i \in Slots, puckName'[i] # NoWp
        PROVE  i \in made /\ puckName'[i] = new[i]
    BY <1>3, <2>2
  <2>3. ASSUME NEW i \in Slots, puckName'[i] # NoWp
        PROVE  /\ puck'[puckName'[i]].life # "none"
               /\ Head(listing[i]) \in Storage!BaseColors => puck'[puckName'[i]].base = Head(listing[i])
    BY <1>9, <2>1, <2>2, <2>3
  <2>. HIDE DEF made
  <2>. QED  BY <1>6, <1>11, <2>3 DEF BaseRight
<1>16. ForeignBare'
  <2>1. \A w \in Pucks : cmds[w] = <<>> /\ delivered[w] = <<>>
    BY <1>7 DEF Untouched
  <2>. QED  BY <1>6, <1>11, <2>1 DEF ForeignBare
<1>17. StockInWork'
  <2>1. \A i \in Slots : puckName'[i] # NoWp => puck'[puckName'[i]].life # "announced"
    BY <1>3, <1>9
  <2>. QED  BY <2>1 DEF StockInWork
<1>. QED  BY <1>12, <1>13, <1>14, <1>15, <1>16, <1>17 DEF StorageIInv

\* A workpiece of the stock, or one of another machine, is loaded.
LEMMA StockLoad ==
    ASSUME StorageIInv, NEW w \in Pucks, Storage!Load(w) PROVE StorageIInv'
<1>0. /\ StorageTypeOK /\ SpawnedType /\ StockNamed /\ NewsOnce /\ UntouchedFirst
      /\ BaseRight /\ ForeignBare /\ StockInWork
  BY DEF StorageIInv
<1>1. /\ puck' \in [Pucks -> [life : {"none", "ordered", "loaded", "announced"}, base : Colors,
                              rings : Seq(Colors), haveCap : BOOLEAN, cap : Colors]]
      /\ \A v \in Pucks \ {w} : puck'[v] = puck[v]
      /\ puck'[w].rings = puck[w].rings /\ puck'[w].cap = puck[w].cap
      /\ puck[w].life \in {"none", "ordered"} /\ puck'[w].life = "loaded"
      /\ \/ puck[w].life = "ordered" /\ puck'[w].base = puck[w].base
         \/ puck[w].life = "none" /\ puck'[w].base = "RED"
  <2>. DEFINE Puck == [life : {"none", "ordered", "loaded", "announced"}, base : Colors,
                       rings : Seq(Colors), haveCap : BOOLEAN, cap : Colors]
  <2>1. puck \in [Pucks -> Puck] /\ "RED" \in Colors
    BY <1>0 DEF StorageTypeOK, Colors, Storage!BaseColors
  <2>2. ASSUME puck[w].life = "ordered", puck' = [puck EXCEPT ![w].life = "loaded"]
        PROVE  /\ puck' \in [Pucks -> Puck] /\ \A v \in Pucks \ {w} : puck'[v] = puck[v]
               /\ puck'[w].rings = puck[w].rings /\ puck'[w].cap = puck[w].cap
               /\ puck'[w].life = "loaded" /\ puck'[w].base = puck[w].base
    BY <2>1, <2>2
  <2>3. ASSUME puck[w].life = "none", puck' = [puck EXCEPT ![w].life = "loaded", ![w].base = "RED"]
        PROVE  /\ puck' \in [Pucks -> Puck] /\ \A v \in Pucks \ {w} : puck'[v] = puck[v]
               /\ puck'[w].rings = puck[w].rings /\ puck'[w].cap = puck[w].cap
               /\ puck'[w].life = "loaded" /\ puck'[w].base = "RED"
    BY <2>1, <2>3
  <2>4. \/ puck[w].life = "ordered" /\ puck' = [puck EXCEPT ![w].life = "loaded"]
        \/ puck[w].life = "none" /\ puck' = [puck EXCEPT ![w].life = "loaded", ![w].base = "RED"]
    BY Zenon DEF Storage!Load
  <2>. HIDE DEF Puck
  <2>5. CASE puck[w].life = "ordered" /\ puck' = [puck EXCEPT ![w].life = "loaded"]
    BY <2>2, <2>5 DEF Puck
  <2>6. CASE puck[w].life = "none" /\ puck' = [puck EXCEPT ![w].life = "loaded", ![w].base = "RED"]
    BY <2>3, <2>6 DEF Puck
  <2>. QED  BY <2>4, <2>5, <2>6
<1>2. puck'[w].haveCap = puck[w].haveCap
  BY <1>0 DEF Storage!Load, StorageTypeOK
<1>3. UNCHANGED <<listing, spawned, puckName, news, cmds, delivered>>
  BY DEF Storage!Load
<1>4. spawned = TRUE
  <2>1. CASE puck[w].life = "ordered"
    BY <1>0, <2>1 DEF StockNamed, SpawnedType
  <2>2. CASE puck[w].life = "none"
    BY <1>0, <2>2 DEF Storage!Load, SpawnedType
  <2>. QED  BY <1>1, <2>1, <2>2
<1>5. ~InNews(w)
  BY <1>0, <1>1 DEF NewsOnce, InNews
<1>6. \A v \in Pucks : /\ InNews(v)' = InNews(v) /\ Mine(v)' = Mine(v)
                       /\ (puck'[v].life = "announced" <=> puck[v].life = "announced")
                       /\ puck'[v].rings = puck[v].rings
  BY <1>1, <1>3 DEF InNews, Mine
<1>7. \A v \in Pucks : puck'[v].haveCap = puck[v].haveCap
  BY <1>1, <1>2
<1>8. StorageTypeOK' /\ SpawnedType'
  BY <1>0, <1>1, <1>3 DEF StorageTypeOK, SpawnedType
<1>9. StockNamed'
  BY <1>0, <1>3, <1>4 DEF StockNamed
<1>10. NewsOnce'
  <2>1. \A n \in DOMAIN news : news[n] \in Pucks
    BY <1>0 DEF StorageTypeOK
  <2>. QED  BY <1>0, <1>3, <1>6, <2>1 DEF NewsOnce
<1>11. UntouchedFirst'
  BY <1>0, <1>3, <1>6, <1>7 DEF UntouchedFirst, Untouched
<1>12. BaseRight'
  <2>1. Mine(w) => puck[w].life = "ordered"
    BY <1>0, <1>1, WorldAssumption DEF BaseRight, Mine
  <2>2. ~Mine(w) => puck'[w].base = "RED"
    BY <1>0, <1>1 DEF BaseRight
  <2>3. \A v \in Pucks : Mine(v) => puck'[v].base = puck[v].base /\ (puck[v].life # "none" => puck'[v].life # "none")
    BY <1>1, <2>1
  <2>4. ASSUME NEW i \in Slots, puckName[i] # NoWp
        PROVE  /\ puck'[puckName[i]].life # "none"
               /\ Head(listing[i]) \in Storage!BaseColors => puck'[puckName[i]].base = Head(listing[i])
    <3>1. puckName[i] \in Pucks /\ Mine(puckName[i])
      BY <1>0, <2>4 DEF StorageTypeOK, Mine
    <3>. QED  BY <1>0, <2>3, <2>4, <3>1 DEF BaseRight
  <2>5. ASSUME NEW v \in Pucks, ~Mine(v)
        PROVE  /\ puck'[v].life # "ordered"
               /\ puck'[v].life \in {"loaded", "announced"} => puck'[v].base = "RED"
    BY <1>0, <1>1, <2>2, <2>5 DEF BaseRight
  <2>. QED  BY <1>3, <1>6, <2>4, <2>5 DEF BaseRight
<1>13. ForeignBare'
  BY <1>0, <1>3, <1>6, <1>7 DEF ForeignBare
<1>14. StockInWork'
  <2>1. \A i \in Slots : puckName[i] # NoWp => puckName[i] \in Pucks
    BY <1>0 DEF StorageTypeOK
  <2>2. ASSUME NEW v \in Pucks, puck[v].life = "announced", NEW l, NEW k, NEW m, Progress(v, l, k, m)
        PROVE  Progress(v, l, k, m)'
    <3>1. puck'[v] = puck[v]
      BY <1>1, <2>2
    <3>. QED  BY <1>3, <2>2, <3>1 DEF Progress
  <2>. QED  BY <1>0, <1>3, <1>6, <2>1, <2>2 DEF StockInWork
<1>. QED  BY <1>8, <1>9, <1>10, <1>11, <1>12, <1>13, <1>14 DEF StorageIInv

\* A workpiece announces itself, once.
LEMMA StockAnnounce ==
    ASSUME StorageIInv, NEW w \in Pucks, Storage!Announce(w) PROVE StorageIInv'
<1>. DEFINE Puck == [life : {"none", "ordered", "loaded", "announced"}, base : Colors,
                     rings : Seq(Colors), haveCap : BOOLEAN, cap : Colors]
<1>0. /\ StorageTypeOK /\ SpawnedType /\ StockNamed /\ NewsOnce /\ UntouchedFirst
      /\ BaseRight /\ ForeignBare /\ StockInWork
  BY DEF StorageIInv
<1>1. /\ puck[w].life = "loaded" /\ puck' = [puck EXCEPT ![w].life = "announced"]
      /\ news' = Append(news, w) /\ UNCHANGED <<listing, spawned, puckName, cmds, delivered>>
  BY DEF Storage!Announce
<1>2. puck \in [Pucks -> Puck]
  BY <1>0 DEF StorageTypeOK
<1>3. /\ puck' \in [Pucks -> Puck] /\ \A v \in Pucks \ {w} : puck'[v] = puck[v]
      /\ puck'[w].life = "announced" /\ puck'[w].base = puck[w].base
      /\ puck'[w].rings = puck[w].rings /\ puck'[w].cap = puck[w].cap
  BY <1>1, <1>2
<1>4. puck'[w].haveCap = puck[w].haveCap
  BY <1>1, <1>2
<1>5. /\ news \in Seq(Pucks) /\ news' \in Seq(Pucks) /\ Len(news) \in Nat
      /\ DOMAIN news = 1 .. Len(news) /\ DOMAIN news' = 1 .. (Len(news) + 1)
      /\ \A n \in DOMAIN news : news'[n] = news[n]
      /\ news'[Len(news) + 1] = w
  <2>1. news \in Seq(Pucks)
    BY <1>0 DEF StorageTypeOK
  <2>2. Len(news') = Len(news) + 1
    BY <1>1, <2>1, AppendProperties
  <2>. QED  BY <1>1, <2>1, <2>2, AppendProperties, LenProperties
<1>6. \A n \in DOMAIN news : news[n] \in Pucks /\ news[n] # w /\ puck'[news[n]] = puck[news[n]]
  <2>1. \A n \in DOMAIN news : news[n] \in Pucks
    BY <1>5, ElementOfSeq
  <2>. QED  BY <1>0, <1>1, <1>3, <2>1 DEF NewsOnce
<1>7. \A n \in DOMAIN news' : n \in DOMAIN news \/ n = Len(news) + 1
  BY <1>5
<1>8. Len(news) + 1 \in DOMAIN news' /\ \A n \in DOMAIN news : n \in DOMAIN news'
  BY <1>5
<1>. HIDE DEF Puck
<1>9. \A v \in Pucks : /\ Mine(v)' = Mine(v)
                       /\ (v # w => (InNews(v)' <=> InNews(v)) /\ puck'[v] = puck[v])
  BY <1>1, <1>3, <1>5, <1>6, <1>7, <1>8 DEF InNews, Mine
<1>10. InNews(w)' /\ Untouched(w) /\ Untouched(w)'
  <2>1. Untouched(w)
    BY <1>0, <1>1 DEF UntouchedFirst
  <2>2. Untouched(w)'
    BY <1>1, <1>3, <1>4, <2>1 DEF Untouched
  <2>. QED  BY <1>5, <1>8, <2>1, <2>2 DEF InNews
<1>11. StorageTypeOK' /\ SpawnedType'
  BY <1>0, <1>1, <1>3, <1>5 DEF StorageTypeOK, SpawnedType, Puck
<1>12. StockNamed'
  BY <1>0, <1>1 DEF StockNamed, SpawnedType
<1>13. NewsOnce'
  <2>1. ASSUME NEW m \in DOMAIN news', NEW n \in DOMAIN news', news'[m] = news'[n] PROVE m = n
    <3>1. CASE m \in DOMAIN news /\ n \in DOMAIN news
      BY <1>0, <1>5, <2>1, <3>1 DEF NewsOnce
    <3>2. CASE m \notin DOMAIN news \/ n \notin DOMAIN news
      BY <1>5, <1>6, <1>7, <2>1, <3>2
    <3>. QED  BY <3>1, <3>2
  <2>2. \A n \in DOMAIN news' : puck'[news'[n]].life = "announced"
    BY <1>0, <1>3, <1>5, <1>6, <1>7 DEF NewsOnce
  <2>. QED  BY <2>1, <2>2 DEF NewsOnce
<1>14. UntouchedFirst'
  BY <1>0, <1>1, <1>9, <1>10 DEF UntouchedFirst, Untouched
<1>15. BaseRight'
  <2>1. \A i \in Slots : puckName[i] # NoWp =>
            puckName[i] \in Pucks /\ puck'[puckName[i]].base = puck[puckName[i]].base
    BY <1>0, <1>3 DEF StorageTypeOK
  <2>2. \A v \in Pucks : puck'[v].life = puck[v].life \/ (v = w /\ puck'[v].life = "announced")
    BY <1>3
  <2>3. \A v \in Pucks : ~Mine(v) =>
            /\ puck'[v].life # "ordered"
            /\ (puck'[v].life \in {"loaded", "announced"} => puck'[v].base = "RED")
    BY <1>0, <1>1, <1>3 DEF BaseRight
  <2>. QED  BY <1>0, <1>1, <1>9, <2>1, <2>2, <2>3 DEF BaseRight
<1>16. ForeignBare'
  <2>1. \A v \in Pucks : puck'[v].rings = puck[v].rings
    BY <1>3
  <2>2. \A v \in Pucks : puck'[v].haveCap = puck[v].haveCap
    BY <1>3, <1>4
  <2>. QED  BY <1>0, <1>1, <1>9, <2>1, <2>2 DEF ForeignBare
<1>17. StockInWork'
  <2>1. \A i \in Slots : puckName[i] # NoWp => puckName[i] \in Pucks
    BY <1>0 DEF StorageTypeOK
  <2>2. ASSUME NEW v \in Pucks, v # w, NEW l, NEW k, NEW m, Progress(v, l, k, m)
        PROVE  Progress(v, l, k, m)'
    <3>1. puck'[v] = puck[v]
      BY <1>3, <2>2
    <3>. QED  BY <1>1, <2>2, <3>1 DEF Progress
  <2>3. ASSUME NEW i \in Slots, NEW v \in Pucks, v = puckName[i], NEW l, l = listing[i], v # NoWp,
               Promised(l), puck'[v].life = "announced", ~InNews(v)'
        PROVE  \E m \in {Full(l) - 1, Full(l)} : \E k \in 0 .. m : Progress(v, l, k, m)'
    <3>1. v # w
      BY <1>10, <2>3
    <3>2. puck[v].life = "announced" /\ ~InNews(v)
      BY <1>9, <2>3, <3>1
    <3>3. \E m \in {Full(l) - 1, Full(l)} : \E k \in 0 .. m : Progress(v, l, k, m)
      BY <1>0, <2>3, <3>2 DEF StockInWork
    <3>. QED  BY <2>2, <3>1, <3>3
  <2>. QED  BY <1>1, <2>1, <2>3 DEF StockInWork
<1>. QED  BY <1>11, <1>12, <1>13, <1>14, <1>15, <1>16, <1>17 DEF StorageIInv

\* The commands for rings and cap are the plan without its last command.
LEMMA OrderFacts ==
    ASSUME NEW l \in Storage!Listings
    PROVE  LET R == Storage!RingColors(l)
               A == [n \in 1 .. Len(R) |-> Storage!Command("ADD_RING", R[n])]
           IN /\ A \in Seq(Commands)
              /\ A \o <<Storage!Command("ADD_CAP", Cap(l))>> = SubSeq(Plan(l), 1, Full(l) - 1)
<1>. DEFINE R == Storage!RingColors(l)
            A == [n \in 1 .. Len(R) |-> Storage!Command("ADD_RING", R[n])]
            F == Full(l)
            P == Plan(l)
<1>1. /\ F \in Nat /\ F >= 2 /\ Len(R) = F - 2 /\ P \in Seq(Commands) /\ Len(P) = F
      /\ \A n \in 1 .. F - 2 : P[n] = Storage!Command("ADD_RING", R[n])
      /\ P[F - 1] = Storage!Command("ADD_CAP", Cap(l))
  BY PlanType
<1>. HIDE DEF F, P, R
<1>2. \A n \in 1 .. F - 2 : A[n] = P[n] /\ P[n] \in Commands
  <2>1. \A n \in 1 .. F - 2 : P[n] \in Commands
    BY <1>1, ElementOfSeq
  <2>2. \A n \in 1 .. F - 2 : A[n] = P[n]
    BY <1>1
  <2>. QED  BY <2>1, <2>2
<1>3. A \in Seq(Commands) /\ Len(A) = F - 2
  BY <1>1, <1>2
<1>. HIDE DEF A
<1>4. SubSeq(P, 1, F - 2) = A
  <2>1. /\ SubSeq(P, 1, F - 2) \in Seq(Commands)
        /\ Len(SubSeq(P, 1, F - 2)) = IF 1 <= F - 2 THEN F - 2 - 1 + 1 ELSE 0
        /\ \A i \in 1 .. F - 2 - 1 + 1 : SubSeq(P, 1, F - 2)[i] = P[1 + i - 1]
    <3>1. F - 2 \in Int
      BY <1>1
    <3>. QED  BY <1>2, <3>1, SubSeqProperties
  <2>2. Len(SubSeq(P, 1, F - 2)) = F - 2
    BY <1>1, <2>1
  <2>3. \A i \in 1 .. F - 2 : SubSeq(P, 1, F - 2)[i] = P[i]
    <3>1. ASSUME NEW i \in 1 .. F - 2 PROVE i \in 1 .. F - 2 - 1 + 1 /\ 1 + i - 1 = i
      BY <1>1, <3>1
    <3>. QED  BY <2>1, <3>1
  <2>. QED  BY <1>2, <1>3, <2>1, <2>2, <2>3, SeqEqual
<1>5. SubSeq(P, 1, F - 1) = A \o <<Storage!Command("ADD_CAP", Cap(l))>>
  <2>1. 1 \in 1 .. Len(P) /\ F - 1 \in 1 .. Len(P) /\ F - 1 - 1 = F - 2
    BY <1>1
  <2>2. SubSeq(P, 1, F - 1) = SubSeq(P, 1, F - 1 - 1) \o <<P[F - 1]>>
    BY <1>1, <2>1, SubSeqRecursiveSecond
  <2>. QED  BY <1>1, <1>4, <2>1, <2>2
<1>. QED  BY <1>3, <1>5 DEF A, F, P, R

\* The news is taken from the front.
LEMMA NewsFacts ==
    ASSUME StorageTypeOK, NewsOnce, news # <<>>, news' = Tail(news), NEW w, w = Head(news)
    PROVE  /\ w \in Pucks /\ InNews(w) /\ ~InNews(w)'
           /\ news' \in Seq(Pucks)
           /\ \A v \in Pucks : v # w => (InNews(v)' <=> InNews(v))
           /\ \A m, n \in DOMAIN news' : news'[m] = news'[n] => m = n
           /\ \A n \in DOMAIN news' : \E m \in DOMAIN news : news'[n] = news[m]
<1>1. /\ news \in Seq(Pucks) /\ Len(news) \in Nat /\ Len(news) # 0 /\ DOMAIN news = 1 .. Len(news)
      /\ w = news[1] /\ w \in Pucks /\ news' \in Seq(Pucks)
      /\ Len(news') = Len(news) - 1 /\ DOMAIN news' = 1 .. (Len(news) - 1)
  BY HeadTailProperties, LenProperties, EmptySeq DEF StorageTypeOK
<1>2. \A n \in DOMAIN news' : n + 1 \in DOMAIN news /\ news'[n] = news[n + 1] /\ n + 1 # 1
  BY <1>1, HeadTailProperties
<1>3. \A n \in DOMAIN news : n # 1 => n - 1 \in DOMAIN news' /\ n = (n - 1) + 1
  BY <1>1
<1>4. \A m, n \in DOMAIN news : news[m] = news[n] => m = n
  BY DEF NewsOnce
<1>5. 1 \in DOMAIN news /\ InNews(w)
  BY <1>1 DEF InNews
<1>6. \A n \in DOMAIN news' : news'[n] # w
  BY <1>1, <1>2, <1>4, <1>5
<1>7. \A v \in Pucks : v # w => (InNews(v)' <=> InNews(v))
  <2>1. ASSUME NEW v \in Pucks, NEW n \in DOMAIN news, news[n] = v, v # w PROVE InNews(v)'
    <3>1. n # 1
      BY <1>1, <2>1
    <3>2. n - 1 \in DOMAIN news' /\ news'[n - 1] = v
      BY <1>2, <1>3, <2>1, <3>1
    <3>. QED  BY <3>2 DEF InNews
  <2>. QED  BY <1>2, <2>1 DEF InNews
<1>8. ASSUME NEW m \in DOMAIN news', NEW n \in DOMAIN news', news'[m] = news'[n] PROVE m = n
  <2>1. m + 1 = n + 1
    BY <1>2, <1>4, <1>8
  <2>. QED  BY <1>1, <2>1
<1>9. ~InNews(w)'
  BY <1>6 DEF InNews
<1>. QED  BY <1>1, <1>2, <1>5, <1>7, <1>8, <1>9

\* The station hears of a workpiece and, if it is of the stock, orders rings and cap.
LEMMA StockNews == ASSUME StorageIInv, Storage!on_new_puck PROVE StorageIInv'
<1>. DEFINE A(R) == [n \in 1 .. Len(R) |-> Storage!Command("ADD_RING", R[n])]
            C(cap) == <<Storage!Command("ADD_CAP", cap)>>
<1>0. /\ StorageTypeOK /\ SpawnedType /\ StockNamed /\ NewsOnce /\ UntouchedFirst
      /\ BaseRight /\ ForeignBare /\ StockInWork
  BY DEF StorageIInv
<1>1. PICK w : w = Head(news)
  OBVIOUS
<1>2. news # <<>> /\ news' = Tail(news) /\ UNCHANGED <<listing, spawned, puckName, puck, delivered>>
  BY Zenon DEF Storage!on_new_puck
<1>3. /\ w \in Pucks /\ InNews(w) /\ ~InNews(w)' /\ news' \in Seq(Pucks)
      /\ \A v \in Pucks : v # w => (InNews(v)' <=> InNews(v))
      /\ \A m, n \in DOMAIN news' : news'[m] = news'[n] => m = n
      /\ \A n \in DOMAIN news' : \E m \in DOMAIN news : news'[n] = news[m]
  BY <1>0, <1>1, <1>2, NewsFacts
<1>4. puck[w].life = "announced" /\ Untouched(w)
  BY <1>0, <1>3 DEF InNews, NewsOnce, UntouchedFirst
<1>5. \/ cmds' = cmds /\ ~Mine(w)
      \/ \E i \in Slots : /\ puckName[i] = w
                          /\ \E cap \in Storage!CapColor(listing[i]) :
                                cmds' = [cmds EXCEPT ![w] =
                                    @ \o A(Storage!RingColors(listing[i])) \o C(cap)]
  <2>. DEFINE mine == {i \in Slots : puckName[i] = Head(news)}
  <2>1. CASE mine = {}
    <3>1. cmds' = cmds
      BY <2>1, Zenon DEF Storage!on_new_puck
    <3>. QED  BY <1>1, <2>1, <3>1 DEF Mine
  <2>2. CASE mine # {}
    <3>. DEFINE i == CHOOSE i \in mine : TRUE
    <3>1. i \in mine
      BY <2>2
    <3>2. \E cap \in Storage!CapColor(listing[i]) :
             cmds' = [cmds EXCEPT ![Head(news)] = @ \o A(Storage!RingColors(listing[i])) \o C(cap)]
      BY <2>2, Zenon DEF Storage!on_new_puck
    <3>. HIDE DEF i, A, C
    <3>. QED  BY <1>1, <3>1, <3>2
  <2>. QED  BY <2>1, <2>2
<1>6. /\ cmds' \in [Pucks -> Seq(Commands)] /\ \A v \in Pucks \ {w} : cmds'[v] = cmds[v]
      /\ ~Mine(w) => cmds'[w] = <<>>
      /\ \A i \in Slots : puckName[i] = w /\ Promised(listing[i]) =>
            cmds'[w] = SubSeq(Plan(listing[i]), 1, Full(listing[i]) - 1)
  <2>0. cmds \in [Pucks -> Seq(Commands)] /\ cmds[w] = <<>>
    BY <1>0, <1>4 DEF StorageTypeOK, Untouched
  <2>1. CASE cmds' = cmds /\ ~Mine(w)
    BY <1>3, <2>0, <2>1 DEF Mine
  <2>2. ASSUME NEW i \in Slots, puckName[i] = w, NEW cap \in Storage!CapColor(listing[i]),
               cmds' = [cmds EXCEPT ![w] = @ \o A(Storage!RingColors(listing[i])) \o C(cap)]
        PROVE  /\ cmds' \in [Pucks -> Seq(Commands)] /\ \A v \in Pucks \ {w} : cmds'[v] = cmds[v]
               /\ Mine(w)
               /\ \A j \in Slots : puckName[j] = w /\ Promised(listing[j]) =>
                     cmds'[w] = SubSeq(Plan(listing[j]), 1, Full(listing[j]) - 1)
    <3>. DEFINE l == listing[i]
                G == A(Storage!RingColors(l))
                H == G \o C(cap)
    <3>1. l \in Storage!Listings
      BY <1>0 DEF StorageTypeOK
    <3>2. G \in Seq(Commands) /\ G \o C(Cap(l)) = SubSeq(Plan(l), 1, Full(l) - 1)
      BY <3>1, OrderFacts, Zenon
    <3>3. cap \in Colors /\ (Promised(l) => cap = Cap(l))
      BY <2>2, <3>1, ListingFacts
    <3>4. C(cap) \in Seq(Commands)
      BY <3>3 DEF Storage!Command, Commands
    <3>. HIDE DEF A, C
    <3>5. cmds' = [cmds EXCEPT ![w] = (cmds[w] \o G) \o C(cap)]
      BY <1>3, <2>0, <2>2, Zenon
    <3>. HIDE DEF G
    <3>6. cmds[w] \o G = G
      BY <2>0, <3>2, ConcatEmptySeq
    <3>7. cmds' = [cmds EXCEPT ![w] = H]
      BY <3>5, <3>6
    <3>8. H \in Seq(Commands)
      BY <3>2, <3>4, ConcatProperties
    <3>9. Promised(l) => H = SubSeq(Plan(l), 1, Full(l) - 1)
      BY <3>2, <3>3
    <3>. HIDE DEF H, l
    <3>10. /\ cmds' \in [Pucks -> Seq(Commands)] /\ \A v \in Pucks \ {w} : cmds'[v] = cmds[v]
           /\ cmds'[w] = H /\ Mine(w)
      BY <1>3, <2>0, <2>2, <3>7, <3>8 DEF Mine
    <3>11. \A j \in Slots : puckName[j] = w => listing[j] = l
      BY <1>0, <1>3, <2>2, WorldAssumption DEF StockNamed, l
    <3>. QED  BY <3>9, <3>10, <3>11
  <2>. QED  BY <1>5, <2>1, <2>2
<1>7. StorageTypeOK' /\ SpawnedType' /\ StockNamed' /\ BaseRight'
  BY <1>0, <1>2, <1>3, <1>6 DEF StorageTypeOK, SpawnedType, StockNamed, BaseRight, Mine
<1>8. NewsOnce'
  <2>1. \A n \in DOMAIN news' : puck[news'[n]].life = "announced"
    BY <1>0, <1>3 DEF NewsOnce
  <2>. QED  BY <1>2, <1>3, <2>1 DEF NewsOnce
<1>9. UntouchedFirst'
  <2>1. ASSUME NEW v \in Pucks, puck[v].life # "announced" \/ InNews(v)' PROVE Untouched(v)'
    <3>1. v # w /\ (puck[v].life # "announced" \/ InNews(v))
      BY <1>3, <1>4, <2>1
    <3>2. Untouched(v) /\ cmds'[v] = cmds[v]
      BY <1>0, <1>6, <3>1 DEF UntouchedFirst
    <3>. QED  BY <1>2, <3>2 DEF Untouched
  <2>. QED  BY <1>2, <2>1 DEF UntouchedFirst
<1>10. ForeignBare'
  <2>1. ASSUME NEW v \in Pucks, ~Mine(v) PROVE cmds'[v] = cmds[v]
    BY <1>4, <1>6, <2>1 DEF Untouched
  <2>. QED  BY <1>0, <1>2, <2>1 DEF ForeignBare, Mine
<1>11. StockInWork'
  <2>1. \A i \in Slots : puckName[i] # NoWp => puckName[i] \in Pucks /\ listing[i] \in Storage!Listings
    BY <1>0 DEF StorageTypeOK
  <2>2. ASSUME NEW v \in Pucks, v # w, NEW l, NEW k, NEW m, Progress(v, l, k, m)
        PROVE  Progress(v, l, k, m)'
    <3>1. cmds'[v] = cmds[v]
      BY <1>6, <2>2
    <3>. QED  BY <1>2, <2>2, <3>1 DEF Progress
  <2>3. ASSUME NEW i \in Slots, puckName[i] = w, NEW l, l = listing[i], Promised(l), l \in Storage!Listings
        PROVE  \E m \in {Full(l) - 1, Full(l)} : \E k \in 0 .. m : Progress(w, l, k, m)'
    <3>1. /\ Full(l) \in Nat /\ Full(l) >= 2 /\ Storage!RingColors(l) \in Seq(Colors)
      BY <2>3, PlanType, ListingFacts
    <3>2. cmds'[w] = SubSeq(Plan(l), 0 + 1, Full(l) - 1)
      BY <1>6, <2>3
    <3>3. puck[w].rings = <<>> /\ puck[w].haveCap = FALSE /\ delivered[w] = <<>>
      BY <1>4 DEF Untouched
    <3>4. SubSeq(Storage!RingColors(l), 1, 0) = <<>>
      BY SubSeqEmpty
    <3>5. 0 # Full(l) /\ 0 <= Full(l) - 2 /\ 0 \in 0 .. Full(l) - 1
      BY <3>1
    <3>6. Progress(w, l, 0, Full(l) - 1)'
      BY <1>2, <3>2, <3>3, <3>4, <3>5 DEF Progress
    <3>. QED  BY <3>5, <3>6
  <2>4. ASSUME NEW i \in Slots, NEW v \in Pucks, v = puckName[i], NEW l, l = listing[i], v # NoWp,
               Promised(l), puck[v].life = "announced", ~InNews(v)', v # w
        PROVE  \E m \in {Full(l) - 1, Full(l)} : \E k \in 0 .. m : Progress(v, l, k, m)'
    <3>1. ~InNews(v)
      BY <1>3, <2>4
    <3>2. \E m \in {Full(l) - 1, Full(l)} : \E k \in 0 .. m : Progress(v, l, k, m)
      BY <1>0, <2>4, <3>1 DEF StockInWork
    <3>. QED  BY <2>2, <2>4, <3>2
  <2>5. ASSUME NEW i \in Slots, NEW v \in Pucks, v = puckName[i], NEW l, l = listing[i], v # NoWp,
               Promised(l), puck[v].life = "announced", ~InNews(v)'
        PROVE  \E m \in {Full(l) - 1, Full(l)} : \E k \in 0 .. m : Progress(v, l, k, m)'
    BY <2>1, <2>3, <2>4, <2>5
  <2>. QED  BY <1>2, <2>1, <2>5 DEF StockInWork
<1>. QED  BY <1>7, <1>8, <1>9, <1>10, <1>11 DEF StorageIInv

\* What is delivered when the plan is done is the product.
LEMMA ProductFacts ==
    ASSUME NEW l \in Storage!Listings, Promised(l)
    PROVE  /\ Storage!Product(l) =
                 <<"BASE", Head(l)>> \o Storage!RingColors(l)
                     \o IF Cap(l) \in {"GREY", "BLACK"} THEN <<"CAP", Cap(l)>> ELSE <<>>
           /\ Storage!Product(l) # <<>>
<1>. DEFINE B == <<"BASE", Head(l)>>
            R == Storage!RingColors(l)
            D == IF Cap(l) \in {"GREY", "BLACK"} THEN <<"CAP", Cap(l)>> ELSE <<>>
            E == CASE Storage!Last(l) = "empty" -> <<>>
                   [] Storage!Last(l) = "GRAY" -> <<"CAP", "GREY">>
                   [] OTHER -> <<"CAP", Storage!Last(l)>>
            S == Colors \cup Storage!BaseColors \cup {"BASE", "CAP", "BLACK"}
<1>1. D = E
  BY DEF Promised, Cap
<1>2. R = SubSeq(l, 2, Len(l) - 1) /\ R \in Seq(Colors)
  BY ListingFacts
<1>3. Storage!Product(l) = B \o SubSeq(l, 2, Len(l) - 1) \o E
  BY Zenon DEF Storage!Product
<1>4. B \in Seq(S) /\ Len(B) = 2
  BY DEF Promised, Storage!BaseColors
<1>5. D \in Seq(S)
  <2>1. {"CAP", "GREY", "BLACK"} \subseteq S
    BY DEF Colors
  <2>2. CASE Cap(l) \in {"GREY", "BLACK"}
    BY <2>1, <2>2
  <2>3. CASE Cap(l) \notin {"GREY", "BLACK"}
    BY <2>3
  <2>. QED  BY <2>2, <2>3
<1>. HIDE DEF B, R, D, E
<1>6. Storage!Product(l) = B \o R \o D
  BY <1>1, <1>2, <1>3
<1>7. R \in Seq(S)
  BY <1>2, SeqMonotonic
<1>. HIDE DEF S
<1>8. Len(B \o R) = 2 + Len(R) /\ B \o R \in Seq(S)
  <2>1. Len(B \o R) = Len(B) + Len(R) /\ B \o R \in Seq(S)
    BY <1>4, <1>7, ConcatProperties
  <2>. QED  BY <1>4, <2>1
<1>9. Len((B \o R) \o D) = 2 + Len(R) + Len(D)
  BY <1>5, <1>8, ConcatProperties
<1>10. Len(R) \in Nat /\ Len(D) \in Nat /\ Len(<<>>) = 0
  BY <1>5, <1>7, LenProperties
<1>11. (B \o R) \o D # <<>>
  BY <1>9, <1>10
<1>. QED  BY <1>6, <1>11 DEF B, R, D

\* A workpiece that has commands is announced, and its announcement delivered.
LEMMA CommandedFacts ==
    ASSUME StorageIInv, NEW w \in Pucks, cmds[w] # <<>> \/ delivered[w] # <<>>
    PROVE  puck[w].life = "announced" /\ ~InNews(w)
  BY DEF StorageIInv, UntouchedFirst, Untouched

\* What a command does to the workpiece and its reports.
LEMMA CommandEffect ==
    ASSUME StorageIInv, NEW w \in Pucks, Storage!on_command_msg(w)
    PROVE  LET c == Head(cmds[w]) IN
           /\ cmds[w] # <<>> /\ c \in Commands
           /\ cmds' = [cmds EXCEPT ![w] = Tail(@)]
           /\ UNCHANGED <<listing, spawned, puckName, news>>
           /\ puck' \in [Pucks -> [life : {"none", "ordered", "loaded", "announced"}, base : Colors,
                                   rings : Seq(Colors), haveCap : BOOLEAN, cap : Colors]]
           /\ delivered' = [v \in Pucks |-> delivered'[v]]
           /\ \A v \in Pucks \ {w} : puck'[v] = puck[v] /\ delivered'[v] = delivered[v]
           /\ puck'[w].life = puck[w].life /\ puck'[w].base = puck[w].base
           /\ c.command = "ADD_RING" =>
                 /\ puck'[w].rings = Append(puck[w].rings, c.color)
                 /\ puck'[w].haveCap = puck[w].haveCap /\ puck'[w].cap = puck[w].cap
                 /\ delivered' = delivered
           /\ c.command = "ADD_CAP" =>
                 /\ puck'[w].rings = puck[w].rings /\ puck'[w].haveCap = TRUE
                 /\ puck'[w].cap = c.color /\ delivered' = delivered
           /\ c.command = "DELIVER" =>
                 /\ puck' = puck
                 /\ delivered'[w] = <<"BASE", puck[w].base>> \o puck[w].rings
                       \o IF puck[w].haveCap /\ puck[w].cap \in {"GREY", "BLACK"}
                          THEN <<"CAP", puck[w].cap>> ELSE <<>>
<1>. DEFINE Puck == [life : {"none", "ordered", "loaded", "announced"}, base : Colors,
                     rings : Seq(Colors), haveCap : BOOLEAN, cap : Colors]
            c == Head(cmds[w])
            said == <<"BASE", puck[w].base>> \o puck[w].rings
                       \o IF puck[w].haveCap /\ puck[w].cap \in {"GREY", "BLACK"}
                          THEN <<"CAP", puck[w].cap>> ELSE <<>>
<1>1. /\ puck \in [Pucks -> Puck] /\ cmds[w] \in Seq(Commands)
      /\ delivered = [v \in Pucks |-> delivered[v]]
  BY DEF StorageIInv, StorageTypeOK
<1>2. /\ cmds[w] # <<>> /\ cmds' = [cmds EXCEPT ![w] = Tail(@)]
      /\ UNCHANGED <<listing, spawned, puckName, news>>
  BY Zenon DEF Storage!on_command_msg
<1>3. c \in Commands
  BY <1>1, <1>2, HeadTailProperties
<1>4. c.command \in {"ADD_RING", "ADD_CAP", "DELIVER"} /\ c.color \in Colors
  BY <1>3 DEF Commands
<1>5. \/ c.command = "ADD_RING" /\ Storage!add_ring(w, c.color)
      \/ c.command = "ADD_CAP" /\ Storage!add_cap(w, c.color)
      \/ c.command = "DELIVER" /\ Storage!deliver(w)
  <2>. HIDE DEF c
  <2>1. (CASE c.command = "ADD_RING" -> Storage!add_ring(w, c.color)
           [] c.command = "ADD_CAP" -> Storage!add_cap(w, c.color)
           [] c.command = "DELIVER" -> Storage!deliver(w))
    BY Zenon DEF Storage!on_command_msg, c
  <2>. QED  BY <1>4, <2>1
<1>. HIDE DEF c
<1>6. CASE c.command = "ADD_RING" /\ Storage!add_ring(w, c.color)
  <2>1. puck' = [puck EXCEPT ![w].rings = Append(@, c.color)] /\ delivered' = delivered
    BY <1>6 DEF Storage!add_ring
  <2>2. puck[w].rings \in Seq(Colors)
    BY <1>1
  <2>3. Append(puck[w].rings, c.color) \in Seq(Colors)
    BY <1>4, <2>2, AppendProperties
  <2>4. /\ puck' \in [Pucks -> Puck] /\ \A v \in Pucks \ {w} : puck'[v] = puck[v]
        /\ puck'[w].rings = Append(puck[w].rings, c.color)
        /\ puck'[w].life = puck[w].life /\ puck'[w].base = puck[w].base /\ puck'[w].cap = puck[w].cap
    BY <1>1, <2>1, <2>3
  <2>5. puck'[w].haveCap = puck[w].haveCap
    BY <1>1, <2>1
  <2>. HIDE DEF Puck
  <2>. QED  BY <1>1, <1>2, <1>3, <1>6, <2>1, <2>4, <2>5 DEF c, Puck
<1>7. CASE c.command = "ADD_CAP" /\ Storage!add_cap(w, c.color)
  <2>1. puck' = [puck EXCEPT ![w].haveCap = TRUE, ![w].cap = c.color] /\ delivered' = delivered
    BY <1>7 DEF Storage!add_cap
  <2>2. /\ puck' \in [Pucks -> Puck] /\ \A v \in Pucks \ {w} : puck'[v] = puck[v]
        /\ puck'[w].rings = puck[w].rings
        /\ puck'[w].life = puck[w].life /\ puck'[w].base = puck[w].base /\ puck'[w].cap = c.color
    BY <1>1, <1>4, <2>1
  <2>3. puck'[w].haveCap = TRUE
    BY <1>1, <2>1
  <2>. HIDE DEF Puck
  <2>. QED  BY <1>1, <1>2, <1>3, <1>7, <2>1, <2>2, <2>3 DEF c, Puck
<1>8. CASE c.command = "DELIVER" /\ Storage!deliver(w)
  <2>1. delivered' = [delivered EXCEPT ![w] = said] /\ puck' = puck
    BY <1>8, Zenon DEF Storage!deliver
  <2>. HIDE DEF said
  <2>2. /\ delivered' = [v \in Pucks |-> delivered'[v]] /\ delivered'[w] = said
        /\ \A v \in Pucks \ {w} : delivered'[v] = delivered[v]
    BY <1>1, <2>1
  <2>. HIDE DEF Puck
  <2>. QED  BY <1>1, <1>2, <1>3, <1>8, <2>1, <2>2 DEF c, Puck, said
<1>. QED  BY <1>5, <1>6, <1>7, <1>8

\* A command advances the plan of a workpiece of the stock by one.
LEMMA ProgressStep ==
    ASSUME StorageIInv, NEW w \in Pucks, Storage!on_command_msg(w), NEW l \in Storage!Listings,
           Promised(l), puck[w].base = Head(l),
           NEW m \in {Full(l) - 1, Full(l)}, NEW k \in 0 .. m, Progress(w, l, k, m)
    PROVE  \E j \in 0 .. m : Progress(w, l, j, m)'
<1>. DEFINE c == Head(cmds[w])
            R == Storage!RingColors(l)
            P == Plan(l)
            F == Full(l)
<1>1. /\ F \in Nat /\ F >= 2 /\ Len(R) = F - 2 /\ P \in Seq(Commands) /\ Len(P) = F
      /\ \A n \in 1 .. F - 2 : P[n] = Storage!Command("ADD_RING", R[n])
      /\ P[F - 1] = Storage!Command("ADD_CAP", Cap(l)) /\ P[F] = Deliver
      /\ R \in Seq(Colors)
  BY PlanType, ListingFacts
<1>2. cmds[w] # <<>> /\ cmds'[w] = Tail(cmds[w]) /\ cmds[w] = SubSeq(P, k + 1, m)
  <2>1. cmds[w] # <<>> /\ cmds' = [cmds EXCEPT ![w] = Tail(@)]
    BY CommandEffect
  <2>2. cmds \in [Pucks -> Seq(Commands)]
    BY DEF StorageIInv, StorageTypeOK
  <2>3. cmds[w] = SubSeq(P, k + 1, m)
    BY DEF Progress
  <2>. HIDE DEF P
  <2>. QED  BY <2>1, <2>2, <2>3
<1>3. /\ c.command = "ADD_RING" =>
            /\ puck'[w].rings = Append(puck[w].rings, c.color)
            /\ puck'[w].haveCap = puck[w].haveCap /\ puck'[w].cap = puck[w].cap
            /\ delivered' = delivered
      /\ c.command = "ADD_CAP" =>
            /\ puck'[w].rings = puck[w].rings /\ puck'[w].haveCap = TRUE
            /\ puck'[w].cap = c.color /\ delivered' = delivered
      /\ c.command = "DELIVER" =>
            /\ puck' = puck
            /\ delivered'[w] = <<"BASE", puck[w].base>> \o puck[w].rings
                  \o IF puck[w].haveCap /\ puck[w].cap \in {"GREY", "BLACK"}
                     THEN <<"CAP", puck[w].cap>> ELSE <<>>
  BY CommandEffect
<1>4. /\ IF k <= F - 2
         THEN puck[w].rings = SubSeq(R, 1, k) /\ puck[w].haveCap = FALSE
         ELSE puck[w].rings = R /\ puck[w].haveCap = TRUE /\ puck[w].cap = Cap(l)
      /\ delivered[w] = IF k = F THEN Storage!Product(l) ELSE <<>>
  BY DEF Progress
<1>. HIDE DEF R, P, F, c
<1>5. k \in 0 .. m - 1 /\ m \in 1 .. F /\ m \in {F - 1, F}
  <2>1. k \in 0 .. m /\ m \in {F - 1, F}
    BY DEF F
  <2>2. k = m => SubSeq(P, k + 1, m) = <<>>
    BY <1>1, <2>1, SubSeqEmpty
  <2>. QED  BY <1>1, <1>2, <2>1, <2>2
<1>6. c = P[k + 1] /\ cmds'[w] = SubSeq(P, k + 2, m)
  BY <1>1, <1>2, <1>5, PlanFacts DEF c
<1>7. k + 1 \in 0 .. m /\ (k + 1) + 1 = k + 2
  BY <1>5
<1>8. (k + 1) + 1 = k + 2 /\ cmds'[w] = SubSeq(P, (k + 1) + 1, m)
  BY <1>6, <1>7
<1>9. CASE k < F - 2
  <2>0. k + 1 \in 1 .. F - 2 /\ k <= F - 2
    BY <1>1, <1>5, <1>9
  <2>8. c = Storage!Command("ADD_RING", R[k + 1])
    BY <1>1, <1>6, <2>0
  <2>1. c.command = "ADD_RING" /\ c.color = R[k + 1]
    BY <2>8 DEF Storage!Command
  <2>9. puck[w].rings = SubSeq(R, 1, k)
    BY <1>4, <2>0
  <2>2. puck'[w].rings = Append(SubSeq(R, 1, k), R[k + 1])
    BY <1>3, <2>1, <2>9
  <2>3. Append(SubSeq(R, 1, k), R[k + 1]) = SubSeq(R, 1, k + 1)
    <3>1. k + 1 \in 1 .. Len(R) /\ 0 \in 0 .. (k + 1) - 1 /\ (k + 1) - 1 = k /\ 0 + 1 = 1
      BY <1>1, <1>5, <1>9
    <3>2. Append(SubSeq(R, 0 + 1, (k + 1) - 1), R[k + 1]) = SubSeq(R, 0 + 1, k + 1)
      BY <1>1, <3>1, PlanFacts
    <3>. QED  BY <3>1, <3>2
  <2>4. puck'[w].haveCap = FALSE
    BY <1>1, <1>3, <1>4, <1>5, <1>9, <2>1
  <2>5. delivered'[w] = <<>>
    BY <1>1, <1>3, <1>4, <1>5, <1>9, <2>1
  <2>6. k + 1 <= F - 2 /\ k + 1 # F
    BY <1>1, <1>5, <1>9
  <2>7. Progress(w, l, k + 1, m)'
    BY <1>8, <2>2, <2>3, <2>4, <2>5, <2>6 DEF Progress, R, P, F
  <2>. QED  BY <1>7, <2>7
<1>10. CASE k = F - 2
  <2>1. k + 1 = F - 1 /\ k <= F - 2 /\ k # F
    BY <1>1, <1>10
  <2>2. c.command = "ADD_CAP" /\ c.color = Cap(l)
    BY <1>1, <1>6, <2>1 DEF Storage!Command
  <2>3. puck'[w].rings = SubSeq(R, 1, k) /\ puck'[w].cap = Cap(l)
    BY <1>3, <1>4, <2>1, <2>2
  <2>4. puck'[w].haveCap = TRUE
    BY <1>3, <2>2
  <2>5. SubSeq(R, 1, k) = R
    BY <1>1, <1>10, SubSeqFull
  <2>6. delivered'[w] = <<>>
    BY <1>3, <1>4, <2>1, <2>2
  <2>7. ~(k + 1 <= F - 2) /\ k + 1 # F
    BY <1>1, <1>10
  <2>8. Progress(w, l, k + 1, m)'
    BY <1>8, <2>3, <2>4, <2>5, <2>6, <2>7 DEF Progress, R, P, F
  <2>. QED  BY <1>7, <2>8
<1>11. CASE k = F - 1
  <2>1. k + 1 = F /\ ~(k <= F - 2) /\ ~(k + 1 <= F - 2)
    BY <1>1, <1>11
  <2>2. c.command = "DELIVER"
    BY <1>1, <1>6, <2>1 DEF Storage!Command, Deliver
  <2>3. puck' = puck
    BY <1>3, <2>2
  <2>4. puck[w].rings = R /\ puck[w].cap = Cap(l)
    BY <1>4, <2>1
  <2>5. puck[w].haveCap = TRUE
    BY <1>4, <2>1
  <2>6. delivered'[w] = <<"BASE", Head(l)>> \o R
              \o IF Cap(l) \in {"GREY", "BLACK"} THEN <<"CAP", Cap(l)>> ELSE <<>>
    BY <1>3, <2>2, <2>4, <2>5
  <2>7. delivered'[w] = Storage!Product(l)
    BY <2>6, ProductFacts DEF R
  <2>8. puck'[w].haveCap = TRUE
    BY <2>3, <2>5
  <2>9. Progress(w, l, k + 1, m)'
    BY <1>8, <2>1, <2>3, <2>4, <2>7, <2>8 DEF Progress, R, P, F
  <2>. QED  BY <1>7, <2>9
<1>12. k < F - 2 \/ k = F - 2 \/ k = F - 1
  BY <1>1, <1>5
<1>. QED  BY <1>9, <1>10, <1>11, <1>12

\* A workpiece gets its next command.
LEMMA StockCommand ==
    ASSUME StorageIInv, NEW w \in Pucks, Storage!on_command_msg(w) PROVE StorageIInv'
<1>. DEFINE c == Head(cmds[w])
<1>0. /\ StorageTypeOK /\ SpawnedType /\ StockNamed /\ NewsOnce /\ UntouchedFirst
      /\ BaseRight /\ ForeignBare /\ StockInWork
  BY DEF StorageIInv
<1>1. /\ cmds[w] # <<>> /\ cmds' = [cmds EXCEPT ![w] = Tail(@)]
      /\ UNCHANGED <<listing, spawned, puckName, news>>
  BY CommandEffect
<1>2. /\ puck' \in [Pucks -> [life : {"none", "ordered", "loaded", "announced"}, base : Colors,
                              rings : Seq(Colors), haveCap : BOOLEAN, cap : Colors]]
      /\ delivered' = [v \in Pucks |-> delivered'[v]]
      /\ \A v \in Pucks \ {w} : puck'[v] = puck[v] /\ delivered'[v] = delivered[v]
      /\ puck'[w].life = puck[w].life /\ puck'[w].base = puck[w].base
  BY CommandEffect
<1>3. puck[w].life = "announced" /\ ~InNews(w)
  BY <1>1, CommandedFacts
<1>4. cmds \in [Pucks -> Seq(Commands)] /\ Tail(cmds[w]) \in Seq(Commands)
  <2>1. cmds \in [Pucks -> Seq(Commands)]
    BY <1>0 DEF StorageTypeOK
  <2>. QED  BY <1>1, <2>1, HeadTailProperties
<1>5. /\ cmds' \in [Pucks -> Seq(Commands)] /\ cmds'[w] = Tail(cmds[w])
      /\ \A v \in Pucks \ {w} : cmds'[v] = cmds[v]
  BY <1>1, <1>4
<1>6. \A v \in Pucks : /\ puck'[v].life = puck[v].life /\ puck'[v].base = puck[v].base
                       /\ InNews(v)' = InNews(v) /\ Mine(v)' = Mine(v)
  BY <1>1, <1>2 DEF InNews, Mine
<1>7. StorageTypeOK' /\ SpawnedType' /\ StockNamed'
  BY <1>0, <1>1, <1>2, <1>5, <1>6 DEF StorageTypeOK, SpawnedType, StockNamed
<1>8. NewsOnce'
  <2>1. \A n \in DOMAIN news : news[n] \in Pucks
    BY <1>0 DEF StorageTypeOK
  <2>. QED  BY <1>0, <1>1, <1>6, <2>1 DEF NewsOnce
<1>9. UntouchedFirst'
  <2>1. ASSUME NEW v \in Pucks, v # w, Untouched(v) PROVE Untouched(v)'
    <3>1. puck'[v] = puck[v] /\ cmds'[v] = cmds[v] /\ delivered'[v] = delivered[v]
      BY <1>2, <1>5, <2>1
    <3>. QED  BY <2>1, <3>1 DEF Untouched
  <2>. QED  BY <1>0, <1>3, <1>6, <2>1 DEF UntouchedFirst
<1>10. BaseRight'
  <2>1. \A i \in Slots : puckName[i] # NoWp => puckName[i] \in Pucks
    BY <1>0 DEF StorageTypeOK
  <2>. QED  BY <1>0, <1>1, <1>6, <2>1 DEF BaseRight
<1>11. ForeignBare'
  <2>1. ASSUME NEW v \in Pucks, v # w PROVE puck'[v] = puck[v] /\ cmds'[v] = cmds[v] /\ delivered'[v] = delivered[v]
    BY <1>2, <1>5, <2>1
  <2>2. ASSUME ~Mine(w)
        PROVE  /\ puck'[w].rings = <<>> /\ puck'[w].haveCap = FALSE
               /\ cmds'[w] = <<>> /\ delivered'[w] = <<"BASE", "RED">>
    <3>1. cmds[w] = <<Deliver>> /\ puck[w].rings = <<>>
      BY <1>0, <1>1, <2>2 DEF ForeignBare
    <3>2. puck[w].haveCap = FALSE
      BY <1>0, <2>2 DEF ForeignBare
    <3>3. puck[w].base = "RED"
      BY <1>0, <1>3, <2>2 DEF BaseRight
    <3>4. c = Deliver /\ Tail(cmds[w]) = <<>>
      BY <3>1
    <3>5. c.command = "DELIVER"
      BY <3>4 DEF Deliver, Storage!Command
    <3>6. /\ puck' = puck
          /\ delivered'[w] = <<"BASE", puck[w].base>> \o puck[w].rings
                \o IF puck[w].haveCap /\ puck[w].cap \in {"GREY", "BLACK"}
                   THEN <<"CAP", puck[w].cap>> ELSE <<>>
      BY <3>5, CommandEffect
    <3>7. delivered'[w] = <<"BASE", "RED">> \o <<>> \o <<>>
      BY <3>1, <3>2, <3>3, <3>6
    <3>8. <<"BASE", "RED">> \in Seq({"BASE", "RED"})
      OBVIOUS
    <3>9. <<"BASE", "RED">> \o <<>> = <<"BASE", "RED">>
      BY <3>8, ConcatEmptySeq
    <3>10. puck'[w].haveCap = FALSE
      BY <3>2, <3>6
    <3>. QED  BY <1>5, <3>1, <3>4, <3>6, <3>7, <3>9, <3>10
  <2>3. ASSUME NEW v \in Pucks, ~Mine(v)
        PROVE  /\ puck'[v].rings = <<>> /\ puck'[v].haveCap = FALSE
               /\ \/ cmds'[v] \in {<<>>, <<Deliver>>} /\ delivered'[v] = <<>>
                  \/ cmds'[v] = <<>> /\ delivered'[v] = <<"BASE", "RED">>
    <3>1. CASE v = w
      BY <2>2, <2>3, <3>1
    <3>2. CASE v # w
      BY <1>0, <2>1, <2>3, <3>2 DEF ForeignBare
    <3>. QED  BY <3>1, <3>2
  <2>. QED  BY <1>6, <2>3 DEF ForeignBare, Deliver
<1>12. StockInWork'
  <2>1. \A i \in Slots : puckName[i] # NoWp => puckName[i] \in Pucks /\ listing[i] \in Storage!Listings
    BY <1>0 DEF StorageTypeOK
  <2>2. ASSUME NEW v \in Pucks, v # w, NEW l, NEW k, NEW m, Progress(v, l, k, m)
        PROVE  Progress(v, l, k, m)'
    <3>1. puck'[v] = puck[v] /\ cmds'[v] = cmds[v] /\ delivered'[v] = delivered[v]
      BY <1>2, <1>5, <2>2
    <3>. QED  BY <2>2, <3>1 DEF Progress
  <2>3. ASSUME NEW i \in Slots, NEW v \in Pucks, v = puckName[i], NEW l, l = listing[i], v # NoWp,
               Promised(l), puck[v].life = "announced", ~InNews(v)
        PROVE  \E m \in {Full(l) - 1, Full(l)} : \E k \in 0 .. m : Progress(v, l, k, m)'
    <3>0. l \in Storage!Listings
      BY <2>1, <2>3
    <3>1. PICK m \in {Full(l) - 1, Full(l)} : \E k \in 0 .. m : Progress(v, l, k, m)
      BY <1>0, <2>3 DEF StockInWork
    <3>2. PICK k \in 0 .. m : Progress(v, l, k, m)
      BY <3>1
    <3>3. CASE v # w
      BY <2>2, <3>2, <3>3
    <3>4. CASE v = w
      <4>1. puck[w].base = Head(l)
        BY <1>0, <2>3, <3>4 DEF BaseRight, Promised
      <4>2. \E j \in 0 .. m : Progress(w, l, j, m)'
        BY <2>3, <3>0, <3>2, <3>4, <4>1, ProgressStep
      <4>. QED  BY <3>4, <4>2
    <3>. QED  BY <3>3, <3>4
  <2>. QED  BY <1>1, <1>6, <2>1, <2>3 DEF StockInWork
<1>. QED  BY <1>7, <1>8, <1>9, <1>10, <1>11, <1>12 DEF StorageIInv

\* A robot brings a workpiece to a delivery station.
LEMMA StockBring ==
    ASSUME StorageIInv, NEW w \in Pucks, Storage!Bring(w) PROVE StorageIInv'
<1>0. /\ StorageTypeOK /\ SpawnedType /\ StockNamed /\ NewsOnce /\ UntouchedFirst
      /\ BaseRight /\ ForeignBare /\ StockInWork
  BY DEF StorageIInv
<1>1. /\ puck[w].life = "announced" /\ ~InNews(w) /\ delivered[w] = <<>>
      /\ \A n \in DOMAIN cmds[w] : cmds[w][n].command # "DELIVER"
      /\ cmds' = [cmds EXCEPT ![w] = Append(@, Deliver)]
      /\ UNCHANGED <<listing, spawned, puckName, puck, news, delivered>>
  BY DEF Storage!Bring, InNews, Deliver
<1>2. Deliver \in Commands /\ Deliver.command = "DELIVER"
  BY DEF Deliver, Storage!Command, Commands, Colors
<1>. HIDE DEF Deliver
<1>3. cmds \in [Pucks -> Seq(Commands)] /\ Append(cmds[w], Deliver) \in Seq(Commands)
  <2>1. cmds \in [Pucks -> Seq(Commands)]
    BY <1>0 DEF StorageTypeOK
  <2>. QED  BY <1>2, <2>1, AppendProperties
<1>4. /\ cmds' \in [Pucks -> Seq(Commands)] /\ cmds'[w] = Append(cmds[w], Deliver)
      /\ \A v \in Pucks \ {w} : cmds'[v] = cmds[v]
  BY <1>1, <1>3
<1>5. \A v \in Pucks : InNews(v)' = InNews(v) /\ Mine(v)' = Mine(v)
  BY <1>1 DEF InNews, Mine
<1>6. StorageTypeOK' /\ SpawnedType' /\ StockNamed' /\ NewsOnce'
  BY <1>0, <1>1, <1>4 DEF StorageTypeOK, SpawnedType, StockNamed, NewsOnce
<1>7. UntouchedFirst'
  <2>1. ASSUME NEW v \in Pucks, v # w, Untouched(v) PROVE Untouched(v)'
    <3>1. cmds'[v] = cmds[v]
      BY <1>4, <2>1
    <3>. QED  BY <1>1, <2>1, <3>1 DEF Untouched
  <2>. QED  BY <1>0, <1>1, <1>5, <2>1 DEF UntouchedFirst
<1>8. BaseRight'
  BY <1>0, <1>1, <1>5 DEF BaseRight
<1>9. ForeignBare'
  <2>1. ~Mine(w) => cmds'[w] = <<Deliver>>
    <3>1. ~Mine(w) => cmds[w] = <<>> \/ cmds[w] = <<Deliver>>
      BY <1>0 DEF ForeignBare
    <3>2. cmds[w] # <<Deliver>>
      <4>1. cmds[w] = <<Deliver>> => 1 \in DOMAIN cmds[w] /\ cmds[w][1] = Deliver
        OBVIOUS
      <4>. QED  BY <1>1, <1>2, <4>1
    <3>. QED  BY <1>2, <1>4, <3>1, <3>2, AppendFacts
  <2>2. ASSUME NEW v \in Pucks, ~Mine(v)
        PROVE  \/ cmds'[v] \in {<<>>, <<Deliver>>} /\ delivered[v] = <<>>
               \/ cmds'[v] = <<>> /\ delivered[v] = <<"BASE", "RED">>
    <3>1. CASE v = w
      BY <1>1, <2>1, <2>2, <3>1
    <3>2. CASE v # w
      <4>1. cmds'[v] = cmds[v]
        BY <1>4, <3>2
      <4>. QED  BY <1>0, <2>2, <4>1 DEF ForeignBare
    <3>. QED  BY <3>1, <3>2
  <2>. QED  BY <1>0, <1>1, <1>5, <2>2 DEF ForeignBare, Deliver
<1>10. StockInWork'
  <2>1. \A i \in Slots : puckName[i] # NoWp => puckName[i] \in Pucks /\ listing[i] \in Storage!Listings
    BY <1>0 DEF StorageTypeOK
  <2>2. ASSUME NEW v \in Pucks, v # w, NEW l, NEW k, NEW m, Progress(v, l, k, m)
        PROVE  Progress(v, l, k, m)'
    <3>1. cmds'[v] = cmds[v]
      BY <1>4, <2>2
    <3>. QED  BY <1>1, <2>2, <3>1 DEF Progress
  <2>3. ASSUME NEW l \in Storage!Listings, Promised(l), NEW m \in {Full(l) - 1, Full(l)},
               NEW k \in 0 .. m, Progress(w, l, k, m)
        PROVE  Progress(w, l, k, Full(l))' /\ k \in 0 .. Full(l)
    <3>. DEFINE F == Full(l)
                P == Plan(l)
    <3>1. /\ F \in Nat /\ F >= 2 /\ P \in Seq(Commands) /\ Len(P) = F /\ P[F] = Deliver
      BY <2>3, PlanType
    <3>2. cmds[w] = SubSeq(P, k + 1, m) /\ k # F
      BY <1>1, <2>3, ProductFacts DEF Progress
    <3>. HIDE DEF F, P
    <3>3. m \in {F - 1, F} /\ k \in 0 .. m /\ k \in 0 .. F
      BY <3>1 DEF F
    <3>4. m # F
      <4>1. SUFFICES ASSUME m = F PROVE FALSE
        OBVIOUS
      <4>2. k + 1 \in 1 .. F /\ F - (k + 1) + 1 = F - k /\ F - k \in 1 .. F /\ (k + 1) + (F - k) - 1 = F
        BY <3>1, <3>2, <3>3
      <4>3. \A i \in k + 1 .. F : P[i] \in Commands
        <5>1. \A i \in k + 1 .. F : i \in 1 .. Len(P)
          BY <3>1, <4>2
        <5>. QED  BY <3>1, <5>1, ElementOfSeq
      <4>4. /\ SubSeq(P, k + 1, F) \in Seq(Commands)
            /\ Len(SubSeq(P, k + 1, F)) = IF k + 1 <= F THEN F - (k + 1) + 1 ELSE 0
            /\ \A i \in 1 .. F - (k + 1) + 1 : SubSeq(P, k + 1, F)[i] = P[(k + 1) + i - 1]
        BY <3>1, <4>2, <4>3, SubSeqProperties
      <4>5. Len(cmds[w]) = F - k
        BY <3>2, <4>1, <4>2, <4>4
      <4>6. cmds[w][F - k] = P[F]
        <5>1. F - k \in 1 .. F - (k + 1) + 1
          BY <3>1, <4>2
        <5>2. SubSeq(P, k + 1, F)[F - k] = P[(k + 1) + (F - k) - 1]
          BY <4>4, <5>1
        <5>. QED  BY <3>2, <4>1, <4>2, <5>2
      <4>7. F - k \in DOMAIN cmds[w]
        <5>1. cmds[w] \in Seq(Commands)
          BY <1>3
        <5>2. F - k \in 1 .. Len(cmds[w])
          BY <3>1, <4>2, <4>5
        <5>. QED  BY <5>1, <5>2, LenProperties
      <4>. QED  BY <1>1, <1>2, <3>1, <4>6, <4>7
    <3>5. m = F - 1 /\ F \in 1 .. Len(P) /\ k \in 0 .. F - 1
      BY <3>1, <3>3, <3>4
    <3>6. cmds'[w] = SubSeq(P, k + 1, F)
      <4>1. Append(SubSeq(P, k + 1, F - 1), P[F]) = SubSeq(P, k + 1, F)
        BY <3>1, <3>5, PlanFacts
      <4>. QED  BY <1>4, <3>1, <3>2, <3>5, <4>1
    <3>. QED  BY <1>1, <2>3, <3>3, <3>6 DEF Progress, F, P
  <2>4. ASSUME NEW i \in Slots, NEW v \in Pucks, v = puckName[i], NEW l, l = listing[i], v # NoWp,
               Promised(l), puck[v].life = "announced", ~InNews(v)
        PROVE  \E m \in {Full(l) - 1, Full(l)} : \E k \in 0 .. m : Progress(v, l, k, m)'
    <3>0. l \in Storage!Listings
      BY <2>1, <2>4
    <3>1. PICK m \in {Full(l) - 1, Full(l)} : \E k \in 0 .. m : Progress(v, l, k, m)
      BY <1>0, <2>4 DEF StockInWork
    <3>2. PICK k \in 0 .. m : Progress(v, l, k, m)
      BY <3>1
    <3>3. CASE v # w
      BY <2>2, <3>2, <3>3
    <3>4. CASE v = w
      <4>1. Progress(w, l, k, Full(l))' /\ k \in 0 .. Full(l)
        BY <2>3, <2>4, <3>0, <3>2, <3>4
      <4>. QED  BY <3>4, <4>1
    <3>. QED  BY <3>3, <3>4
  <2>. QED  BY <1>1, <1>5, <2>1, <2>4 DEF StockInWork
<1>. QED  BY <1>6, <1>7, <1>8, <1>9, <1>10 DEF StorageIInv

\* The steps of the storage station.
LEMMA StorageStep == ASSUME kind = "storage", StorageIInv, Step PROVE StorageIInv'
<1>1. ASSUME UNCHANGED storageVars PROVE StorageIInv'
  <2>0. UNCHANGED <<listing, spawned, puckName, puck, cmds, delivered, news>>
    BY <1>1 DEF storageVars, storageOnly
  <2>1. StorageTypeOK' /\ SpawnedType'
    BY <2>0 DEF StorageIInv, StorageTypeOK, SpawnedType
  <2>2. StockNamed' /\ NewsOnce'
    BY <2>0 DEF StorageIInv, StockNamed, NewsOnce
  <2>3. \A v : InNews(v)' = InNews(v) /\ Mine(v)' = Mine(v)
    BY <2>0 DEF InNews, Mine
  <2>4. UntouchedFirst'
    BY <2>0, <2>3 DEF StorageIInv, UntouchedFirst, Untouched
  <2>5. BaseRight' /\ ForeignBare'
    BY <2>0, <2>3 DEF StorageIInv, BaseRight, ForeignBare
  <2>6. StockInWork'
    <3>1. \A v, l, k, m : Progress(v, l, k, m) => Progress(v, l, k, m)'
      BY <2>0 DEF Progress
    <3>2. ASSUME NEW i \in Slots, NEW v, v = puckName[i], NEW l, l = listing[i], v # NoWp,
                 Promised(l), puck[v].life = "announced", ~InNews(v)
          PROVE  \E m \in {Full(l) - 1, Full(l)} : \E k \in 0 .. m : Progress(v, l, k, m)'
      <4>1. \E m \in {Full(l) - 1, Full(l)} : \E k \in 0 .. m : Progress(v, l, k, m)
        BY <3>2 DEF StorageIInv, StockInWork
      <4>. QED  BY <3>1, <4>1
    <3>. QED  BY <2>0, <2>3, <3>2 DEF StockInWork
  <2>. QED  BY <2>1, <2>2, <2>4, <2>5, <2>6 DEF StorageIInv
<1>2. Storage!Next \/ UNCHANGED storageVars
  BY DEF Step, Next, ShelfNext, StorageNext, GripNext, LightNext, DetectNext, PlaceNext, RobotNext,
         vars, storageVars
<1>. QED  BY <1>1, <1>2, StockOnUpdate, StockLoad, StockAnnounce, StockNews, StockCommand, StockBring
          DEF Storage!Next

\* What is delivered is what was configured.
LEMMA StockDelivered == StorageIInv => Storage!StockAsConfigured
<1>. SUFFICES ASSUME StorageIInv, NEW w \in Pucks, delivered[w] # <<>>
     PROVE  LET mine == {i \in Slots : puckName[i] = w}
            IN IF mine = {} THEN delivered[w] = <<"BASE", "RED">>
               ELSE LET l == listing[CHOOSE i \in mine : TRUE] IN Promised(l) => delivered[w] = Storage!Product(l)
  BY Zenon DEF Storage!StockAsConfigured, Promised
<1>. DEFINE mine == {i \in Slots : puckName[i] = w}
            i == CHOOSE j \in mine : TRUE
<1>0. StorageTypeOK /\ ForeignBare /\ StockInWork
  BY DEF StorageIInv
<1>1. CASE mine = {}
  <2>1. ~Mine(w)
    BY <1>1 DEF Mine
  <2>2. delivered[w] = <<"BASE", "RED">>
    BY <1>0, <2>1 DEF ForeignBare
  <2>. QED  BY <1>1, <2>2
<1>2. CASE mine # {}
  <2>1. i \in mine
    BY <1>2
  <2>. HIDE DEF i
  <2>2. i \in Slots /\ puckName[i] = w /\ w # NoWp
    BY <2>1, WorldAssumption
  <2>3. puck[w].life = "announced" /\ ~InNews(w)
    BY CommandedFacts
  <2>4. ASSUME Promised(listing[i]) PROVE delivered[w] = Storage!Product(listing[i])
    <3>1. PICK m \in {Full(listing[i]) - 1, Full(listing[i])} :
              \E k \in 0 .. m : Progress(w, listing[i], k, m)
      BY <1>0, <2>2, <2>3, <2>4 DEF StockInWork
    <3>. QED  BY <3>1 DEF Progress
  <2>. QED  BY <1>2, <2>4 DEF i
<1>. QED  BY <1>1, <1>2

-----------------------------------------------------------------------------
(* The world. *)

\* Each plugin keeps its invariant in the behaviours that are about it.
WorldIInv ==
    /\ kind = "shelf" => ShelfIInv
    /\ kind = "storage" => StorageIInv
    /\ kind = "gripper" => GripIInv
    /\ kind = "lights" => LightIInv
    /\ kind = "detection" => DetectIInv
    /\ kind = "placement" => PlaceIInv
    /\ kind = "robot" => RobotIInv

\* The invariant of the world, of which the properties are consequences.
LEMMA WorldInvariance == Spec => []WorldIInv
<1>1. Init => WorldIInv
  BY ShelfInit, StorageInit, GripInit, LightInit, DetectInit, PlaceInit, RobotInit DEF WorldIInv
<1>2. WorldIInv /\ Step => WorldIInv'
  BY KindKept, ShelfStep, StorageStep, GripStep, LightStep, DetectStep, PlaceStep, RobotStep
     DEF WorldIInv
<1>. QED  BY <1>1, <1>2, PTL DEF Spec, Step

\* Things stand where they belong: CapStation::OnUpdate() and on_new_puck() leave
\* one workpiece of the station in each place of the shelf, and it has a cap;
\* what StorageStation::on_new_puck() orders for a workpiece of the stock makes
\* it what init_storage() read, and nothing is put on the others;
\* MpsPlacementPlugin::on_machine_info_msg() puts up each machine once, in its
\* zone.
THEOREM PlacesAreKept == Spec => []ThingsInPlace
<1>1. WorldIInv => ThingsInPlace
  BY ShelfPlaces, StockDelivered, PlaceOnce DEF WorldIInv, ShelfIInv, ThingsInPlace
<1>. QED  BY <1>1, WorldInvariance, PTL

\* The plugins tell others what is: once the messages of Gripper::close() and
\* open() have arrived, who counts as holding a workpiece holds it; when
\* LightSignalDetection::on_light_msg() is through, the machine it calls visible is
\* the one of the last message, with its lights, and what send_light_detection()
\* published while no other thread took a step was so at that time.
THEOREM ReportsAreTrue == Spec => []ReportsTrue
<1>1. WorldIInv => ReportsTrue
  BY GripReports, DetectReports DEF WorldIInv, ReportsTrue
<1>. QED  BY <1>1, WorldInvariance, PTL

\* Between two runs of LightControl::OnUpdate() a light that was not written since
\* looks as the last message that on_light_msg() let through has it, whichever
\* machine that was for; left out are lights asked to blink, and those written
\* between the setting of prev_state and the publication in change_light() until a
\* later message is taken up.
THEOREM LightsAreFollowed == Spec => []LightsFollow
<1>1. WorldIInv => LightsFollow
  BY LightReports DEF WorldIInv, LightsFollow
<1>. QED  BY <1>1, WorldInvariance, PTL

\* A robot is served: its plugins send in time what somebody listens to, TagVision
\* has found the tags that have been in view and lost those that have not, the
\* Motor moves as the last command says, and the heading Odometry integrates is
\* the robot's, up to whole turns, until odometry.cpp:152 mirrors it.
THEOREM RobotsAreServed == Spec => []RobotServed
<1>1. WorldIInv => RobotServed
  BY RobotIsServed DEF WorldIInv, RobotServed
<1>. QED  BY <1>1, WorldInvariance, PTL

=============================================================================
