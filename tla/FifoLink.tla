------------------------------ MODULE FifoLink ------------------------------
(***************************************************************************)
(* What the sending side of a protobuf stream promises: the messages it    *)
(* accepts, numbered in the order of acceptance, go out in that order,     *)
(* none of them twice.  A message may be lost, but never overtaken.        *)
(***************************************************************************)
EXTENDS Naturals, Sequences

VARIABLES accepted,     \* how many messages have been accepted
          settled,      \* how many of them, the oldest, went out or were lost
          wire          \* the numbers of the messages that went out

vars == <<accepted, settled, wire>>

Init == accepted = 0 /\ settled = 0 /\ wire = <<>>

Accept == accepted' = accepted + 1 /\ UNCHANGED <<settled, wire>>

GoOut ==
    /\ settled < accepted
    /\ settled' = settled + 1
    /\ wire' = Append(wire, settled + 1)
    /\ UNCHANGED accepted

Lose ==
    /\ settled < accepted
    /\ settled' = settled + 1
    /\ UNCHANGED <<accepted, wire>>

Next == Accept \/ GoOut \/ Lose

Spec == Init /\ [][Next]_vars

=============================================================================
