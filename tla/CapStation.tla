----------------------------- MODULE CapStation -----------------------------
(***************************************************************************)
(* The cap station (plugins/mps/cap_station.cpp) and the caps of the       *)
(* workpieces (plugins/puck/puck.cpp).  RETRIEVE_CAP and MOUNT_CAP are     *)
(* commands published to the workpiece in the middle; the cap itself comes *)
(* back in a result message.  A cap stands for its colour: the cap, or     *)
(* NoCap for Color::NONE.                                                  *)
(***************************************************************************)
EXTENDS Mps, FiniteSets

CONSTANTS Caps,     \* the caps there are
          NoCap     \* Color::NONE, not one of them

VARIABLES
    stored,         \* stored_cap_color_
    cap,            \* per workpiece: its cap_color_ if have_cap, else NoCap
    cmds,           \* per workpiece: WorkpieceCommands not delivered yet
    results         \* per workpiece: WorkpieceResults not delivered yet

csVars == <<stored, cap, cmds, results>>
vars == <<mpsVars, csVars>>

OPERATION_CAP_ACTION == 1
OPERATION_CAP_RETRIEVE == 1
OPERATION_CAP_MOUNT == 2

ADD_CAP(c) == [command |-> "ADD_CAP", color |-> c]
REMOVE_CAP == [command |-> "REMOVE_CAP", color |-> NoCap]

\* Nothing stored, nothing on its way; each cap of C is on a workpiece.
CSFresh(C) ==
    /\ stored = NoCap
    /\ cap \in [Wp -> C \cup {NoCap}]
    /\ \A c \in C : Cardinality({w \in Wp : cap[w] = c}) = 1
    /\ cmds = [w \in Wp |-> <<>>] /\ results = [w \in Wp |-> <<>>]

CSInit == Init /\ CSFresh(Caps)

Publish(w, cmd) == cmds' = [cmds EXCEPT ![w] = Append(@, cmd)]

-----------------------------------------------------------------------------
(* The worker: CapStation::process_command_in after the call of the base. *)

Wants(op) == IsOperation(actionId, OPERATION_CAP_ACTION) /\ payload1 = op

CanRetrieve == Wants(OPERATION_CAP_RETRIEVE) /\ mid # NoWp

CanMount == Wants(OPERATION_CAP_MOUNT) /\ mid # NoWp /\ loc[mid] = "middle"

\* retrieve_cap up to its sleep.
RetrieveCap ==
    /\ pc = "op" /\ CanRetrieve
    /\ busy' = TRUE
    /\ Publish(mid, REMOVE_CAP)
    /\ actionId' = 0 /\ payload1' = 0 /\ notice' = TRUE
    /\ pc' = "capSleep"
    /\ UNCHANGED <<ready, slots, world, locals, dtor, history, stored, cap, results>>

\* mount_cap up to the publication: without a stored cap nothing is published.
MountCap ==
    /\ pc = "op" /\ CanMount
    /\ busy' = TRUE
    /\ IF stored # NoCap
       THEN Publish(mid, ADD_CAP(stored)) /\ pc' = "capMounted"
       ELSE pc' = "capAck" /\ UNCHANGED cmds
    /\ UNCHANGED <<actionId, payload1, ready, notice, slots, world, locals, dtor, history>>
    /\ UNCHANGED <<stored, cap, results>>

\* Mutant: the mounted cap stays stored.
KeepStored ==
    /\ pc = "capMounted"
    /\ pc' = "capAck"
    /\ UNCHANGED <<nodes, notice, slots, world, locals, dtor, history, csVars>>

\* stored_cap_color_ = NONE, unsynchronised with on_puck_result.
ResetStored ==
    /\ pc = "capMounted"
    /\ stored' = NoCap
    /\ pc' = "capAck"
    /\ UNCHANGED <<nodes, notice, slots, world, locals, dtor, history, cap, cmds, results>>

CapAck ==
    /\ pc = "capAck"
    /\ actionId' = 0 /\ payload1' = 0 /\ notice' = TRUE
    /\ pc' = "capSleep"
    /\ UNCHANGED <<busy, ready, slots, world, locals, dtor, history, csVars>>

\* After the sleep, whether or not the workpiece has answered.
CapDone ==
    /\ pc = "capSleep"
    /\ busy' = FALSE
    /\ pc' = "check"
    /\ UNCHANGED <<actionId, payload1, ready, notice, slots, world, locals, dtor, history, csVars>>

\* Any other command, or one whose condition fails, is left in its register.
CapRefuse ==
    /\ ~CanRetrieve /\ ~CanMount
    /\ ReturnToLoop
    /\ UNCHANGED csVars

CapOperation == RetrieveCap \/ MountCap \/ ResetStored \/ CapAck \/ CapDone \/ CapRefuse

-----------------------------------------------------------------------------
(* The transport thread. *)

\* Mutant: the workpiece drops its cap without publishing a result.
OnCommandMsgMute(w) ==
    /\ cmds[w] # <<>> /\ callback = Idle
    /\ cmds' = [cmds EXCEPT ![w] = Tail(@)]
    /\ cap' = [cap EXCEPT ![w] = Head(cmds[w]).color]
    /\ UNCHANGED <<mpsVars, stored, results>>

\* Puck::on_command_msg of the workpiece that is addressed.
OnCommandMsg(w) ==
    /\ cmds[w] # <<>> /\ callback = Idle
    /\ cmds' = [cmds EXCEPT ![w] = Tail(@)]
    /\ LET cmd == Head(cmds[w]) IN
       \/ /\ cmd.command = "ADD_CAP"
          /\ cap' = [cap EXCEPT ![w] = cmd.color]
          /\ UNCHANGED results
       \/ /\ cmd.command = "REMOVE_CAP"
          /\ results' = [results EXCEPT ![w] = Append(@, cap[w])]
          /\ cap' = [cap EXCEPT ![w] = NoCap]
    /\ UNCHANGED <<mpsVars, stored>>

\* CapStation::on_puck_result: the result counts only while its workpiece is
\* in the middle, and an answer without a cap changes nothing.
OnPuckResult(w) ==
    /\ results[w] # <<>> /\ callback = Idle
    /\ results' = [results EXCEPT ![w] = Tail(@)]
    /\ LET color == Head(results[w]) IN
       stored' = IF mid = w /\ color # NoCap THEN color ELSE stored
    /\ UNCHANGED <<mpsVars, cap, cmds>>

-----------------------------------------------------------------------------
CSNext ==
    /\ ~Crashed
    /\ \/ CapOperation
       \/ \E w \in Wp : OnCommandMsg(w) \/ OnPuckResult(w)
       \/ (WorkerLoop \/ Wake) /\ UNCHANGED csVars
       \/ \E w \in Wp : OnPuckMsg(w) /\ UNCHANGED csVars
       \/ Destructor /\ UNCHANGED csVars
       \/ Environment /\ UNCHANGED csVars

-----------------------------------------------------------------------------
(* Properties. *)

\* Where cap c is: on workpieces, in the station, on its way to a workpiece,
\* on its way to the station.
Holders(c) ==
    {<<w, "cap", 0>> : w \in {v \in Wp : cap[v] = c}}
    \cup (IF stored = c /\ pc # "capMounted" THEN {<<NoWp, "stored", 0>>} ELSE {})
    \cup (UNION {{<<w, "cmd", i>> : i \in {j \in DOMAIN cmds[w] : cmds[w][j] = ADD_CAP(c)}} : w \in Wp})
    \cup (UNION {{<<w, "result", i>> : i \in {j \in DOMAIN results[w] : results[w][j] = c}} : w \in Wp})

AtMostOneHolder(c) == Cardinality(Holders(c)) <= 1

=============================================================================
