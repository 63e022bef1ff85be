----------------------------- MODULE Rendezvous -----------------------------
(***************************************************************************)
(* What a barrier promises (core/threading/barrier.cpp, class Barrier): a  *)
(* thread that enters is held until every thread has entered, and then     *)
(* they are all let go; they leave one by one and may come again.  Once    *)
(* broken, it promises nothing any more.                                   *)
(***************************************************************************)
EXTENDS Naturals

CONSTANT Threads

VARIABLES inside,       \* threads held at the barrier
          released,     \* threads let go that have not left yet
          broken

vars == <<inside, released, broken>>

Init == inside = {} /\ released = {} /\ broken = FALSE

Enter(t) ==
    /\ t \notin inside \cup released
    /\ inside' = inside \cup {t}
    /\ UNCHANGED <<released, broken>>

Release ==
    /\ inside = Threads /\ Threads # {} /\ ~broken
    /\ inside' = {}
    /\ released' = Threads
    /\ UNCHANGED broken

Leave(t) ==
    /\ t \in released /\ ~broken
    /\ released' = released \ {t}
    /\ UNCHANGED <<inside, broken>>

Broken ==
    /\ broken' = TRUE
    /\ inside' \in SUBSET Threads
    /\ released' \in SUBSET Threads

Next == Release \/ Broken \/ \E t \in Threads : Enter(t) \/ Leave(t)

Spec == Init /\ [][Next]_vars /\ WF_vars(Release) /\ \A t \in Threads : WF_vars(Leave(t))

=============================================================================
