------------------------------- MODULE RefPtr -------------------------------
(***************************************************************************)
(* core/utils/refptr.h: reference counting pointers to shared objects.     *)
(* A pointer variable (slot) holds copies of the pointers in Fields, which *)
(* all lead to the same object or are null; the count is changed under the *)
(* object's __ref_mutex, the slots themselves are not protected.  A thread *)
(* works on its own slots; it may construct a copy in an empty slot of     *)
(* another thread, which is how a pointer is passed on by value.           *)
(*                                                                         *)
(* Every operation of the class is made of four steps: the fields are      *)
(* fetched from another pointer, the count is incremented, two pointers    *)
(* are swapped, a pointer is destroyed.  op[t] is what thread t still has  *)
(* to do: "count" its new copy, "swap" its temporary, "drop" a pointer.    *)
(***************************************************************************)
EXTENDS Naturals, FiniteSets

CONSTANTS Threads, Slots,
          Owner,      \* [Slots -> Threads]
          Temp,       \* [Threads -> Slots], the temporary of an operation
          Objects,
          Null,
          Fields      \* the members of the pointer class

VARIABLES slot,       \* [Slots -> [Fields -> Objects or Null]]
          counted,    \* slots that are included in the count
          refCount,   \* *__ref_count of an object
          alive,      \* objects that were created and not deleted
          op, arg     \* per thread: the step to come and the slot it is about

NullPtr == [f \in Fields |-> Null]
To(o) == [f \in Fields |-> o]
IsNull(s) == slot[s] = NullPtr
\* The pointers a thread can use: its own that nobody is constructing.
Named(t) == {s \in Slots : /\ Owner[s] = t /\ s # Temp[t]
                          /\ \A u \in Threads : ~(op[u] = "count" /\ arg[u] = s)}

Init ==
    /\ slot = [s \in Slots |-> NullPtr] /\ counted = {}
    /\ refCount = [o \in Objects |-> 0] /\ alive = {}
    /\ op = [t \in Threads |-> "idle"] /\ arg = [t \in Threads |-> Temp[t]]

Goto(t, step, s) == op' = [op EXCEPT ![t] = step] /\ arg' = [arg EXCEPT ![t] = s]

\* RefPtr(T *): a new object with a count of one.
Create(t, s) ==
    /\ op[t] = "idle" /\ s \in Named(t) /\ IsNull(s)
    /\ \E o \in Objects \ alive :
        /\ slot' = [slot EXCEPT ![s] = To(o)]
        /\ counted' = counted \cup {s}
        /\ refCount' = [refCount EXCEPT ![o] = 1]
        /\ alive' = alive \cup {o}
    /\ UNCHANGED <<op, arg>>

\* RefPtr(const RefPtr &) and the casts: the fields are taken from src.
Copy(t, src, dst) ==
    /\ op[t] = "idle" /\ src \in Named(t) /\ ~IsNull(src)
    /\ dst \in Named(Owner[dst]) /\ IsNull(dst)
    /\ slot' = [slot EXCEPT ![dst] = slot[src]]
    /\ Goto(t, "count", dst)
    /\ UNCHANGED <<counted, refCount, alive>>

\* operator=: a copy in the temporary, which is then swapped with the target.
\* The target is kept in the temporary's place until the swap.
AssignFrom(t, src) ==
    /\ op[t] = "idle" /\ src \in Named(t) /\ ~IsNull(src)
    /\ slot' = [slot EXCEPT ![Temp[t]] = slot[src]]
    /\ Goto(t, "count", Temp[t])
    /\ UNCHANGED <<counted, refCount, alive>>

\* ++(*__ref_count) under __ref_mutex.
Count(t) ==
    /\ op[t] = "count"
    /\ \E o \in Objects :
        /\ slot[arg[t]] = To(o)
        /\ refCount' = [refCount EXCEPT ![o] = @ + 1]
    /\ counted' = counted \cup {arg[t]}
    /\ Goto(t, IF arg[t] = Temp[t] THEN "swap" ELSE "idle", Temp[t])
    /\ UNCHANGED <<slot, alive>>

\* swap(temp), the second half of operator=.
Swap(t, s) ==
    /\ op[t] = "swap" /\ s \in Named(t)
    /\ slot' = [slot EXCEPT ![s] = slot[Temp[t]], ![Temp[t]] = slot[s]]
    /\ counted' = (counted \ {s, Temp[t]}) \cup
                  {x \in {s, Temp[t]} : (IF x = s THEN Temp[t] ELSE s) \in counted}
    /\ Goto(t, "drop", Temp[t])
    /\ UNCHANGED <<refCount, alive>>

\* clear() and reset(): a swap with an empty temporary.
Clear(t, s) ==
    /\ op[t] = "idle" /\ s \in Named(t)
    /\ slot' = [slot EXCEPT ![s] = NullPtr, ![Temp[t]] = slot[s]]
    /\ counted' = (counted \ {s}) \cup {x \in {Temp[t]} : s \in counted}
    /\ Goto(t, "drop", Temp[t])
    /\ UNCHANGED <<refCount, alive>>

\* ~RefPtr(): the last pointer deletes the object, the count and the mutex.
Drop(t) ==
    /\ op[t] = "drop"
    /\ IF slot[arg[t]] = NullPtr
       THEN UNCHANGED <<refCount, alive>>
       ELSE \E o \in Objects :
                /\ slot[arg[t]] = To(o)
                /\ refCount' = [refCount EXCEPT ![o] = @ - 1]
                /\ alive' = IF refCount[o] = 1 THEN alive \ {o} ELSE alive
    /\ slot' = [slot EXCEPT ![arg[t]] = NullPtr]
    /\ counted' = counted \ {arg[t]}
    /\ Goto(t, "idle", Temp[t])

Next ==
    \E t \in Threads :
        \/ Count(t) \/ Drop(t)
        \/ \E s \in Slots : Create(t, s) \/ AssignFrom(t, s) \/ Swap(t, s) \/ Clear(t, s)
        \/ \E s, d \in Slots : Copy(t, s, d)

-----------------------------------------------------------------------------
(* Properties. *)

\* The count of an object is the number of pointers that hold it, whatever is
\* in progress in other threads.
CountExact ==
    \A o \in alive : refCount[o] = Cardinality({s \in counted : slot[s] = To(o)})

\* No pointer, a fresh copy that is not counted yet included, leads to an object
\* that was deleted, and the members of a pointer belong to one object.
NoDangling == \A s \in Slots : slot[s] = NullPtr \/ \E o \in alive : slot[s] = To(o)

=============================================================================
