-------------------------- MODULE DeliveryStation --------------------------
(***************************************************************************)
(* The delivery station (plugins/mps/delivery_station.cpp).  DELIVER moves *)
(* the workpiece on the input to the gate and publishes a DELIVER command  *)
(* to it.  The worker uses wp_in_input_ across a sleep of 3.5 s, during    *)
(* which the transport thread may reset or replace the pointer.            *)
(***************************************************************************)
EXTENDS Mps

VARIABLE delivered      \* history: the workpieces DELIVER was published to

vars == <<mpsVars, delivered>>

OPERATION_DELIVER == 1
Slots == {1, 2, 3}

DSFresh == delivered = <<>>

DSInit == Init /\ DSFresh

-----------------------------------------------------------------------------
CanDeliver ==
    /\ IsOperation(actionId, OPERATION_DELIVER)
    /\ payload1 \in Slots
    /\ inp # NoWp

\* deliver() up to its sleep.
DeliverStart ==
    /\ pc = "op" /\ CanDeliver
    /\ busy' = TRUE
    /\ actionId' = 0 /\ payload1' = 0 /\ notice' = TRUE
    /\ pc' = "deliver"
    /\ UNCHANGED <<ready, slots, world, locals, dtor, history, delivered>>

\* wp_in_input_->SetWorldPose(...): the pointer is read again after the sleep,
\* and a null pointer ends the process.
DeliverMove ==
    /\ pc = "deliver"
    /\ IF inp = NoWp
       THEN pc' = "crashed" /\ UNCHANGED loc
       ELSE pc' = "announce" /\ loc' = [loc EXCEPT ![inp] = "gate"]
    /\ UNCHANGED <<nodes, notice, slots, poses, locals, dtor, history, delivered>>

\* wp_in_input_->GetName(): and read once more.
DeliverAnnounce ==
    /\ pc = "announce"
    /\ IF inp = NoWp
       THEN pc' = "crashed" /\ UNCHANGED delivered
       ELSE pc' = "reset" /\ delivered' = Append(delivered, inp)
    /\ UNCHANGED <<nodes, notice, slots, world, locals, dtor, history>>

DeliverReset ==
    /\ pc = "reset"
    /\ inp' = NoWp
    /\ pc' = "deliverDone"
    /\ UNCHANGED <<nodes, notice, mid, out, world, locals, dtor, history, delivered>>

DeliverDone ==
    /\ pc = "deliverDone"
    /\ busy' = FALSE
    /\ pc' = "check"
    /\ UNCHANGED <<actionId, payload1, ready, notice, slots, world, locals, dtor, history, delivered>>

DeliverRefuse ==
    /\ ~CanDeliver
    /\ ReturnToLoop
    /\ UNCHANGED delivered

Deliver ==
    \/ DeliverStart \/ DeliverMove \/ DeliverAnnounce
    \/ DeliverReset \/ DeliverDone \/ DeliverRefuse

DSNext ==
    /\ pc # "crashed" /\ ~Crashed
    /\ \/ Deliver
       \/ (WorkerLoop \/ Wake) /\ UNCHANGED delivered
       \/ \E w \in Wp : OnPuckMsg(w) /\ UNCHANGED delivered
       \/ Destructor /\ UNCHANGED delivered
       \/ Environment /\ UNCHANGED delivered

DSSpec == DSInit /\ [][DSNext]_vars

-----------------------------------------------------------------------------
(* Properties. *)

\* delivery_station.cpp:58-62 "If we have a puck in the input ... move the puck
\* to the selected gate and send a DELIVER command ... Otherwise, do nothing.":
\* a puck that is gone after the sleep is no reason to dereference nothing.
DeliversOrDoesNothing == pc # "crashed"

=============================================================================
