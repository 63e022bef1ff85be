-------------------------- MODULE MessageRegister --------------------------
(***************************************************************************)
(* protobuf_comm/message_register.{h,cpp}: message types by component and  *)
(* type number, and by name.  A type has the key of its CompType enum, or  *)
(* none (add_message_type by name throws); the template                    *)
(* add_message_type<MT>(component, type) gives it any key and takes no     *)
(* lock, so that its test and its insertion are two steps.                 *)
(***************************************************************************)
EXTENDS Naturals, FiniteSets, Functions

CONSTANTS Types,       \* message types, the names included
          Keys,
          KeyOf,       \* [Types -> Keys \cup {None}]: key_from_desc()
          Users, None

VARIABLES byComp,      \* message_by_comp_type_: from keys to types
          byName,      \* the names in message_by_typename_
          adding,      \* per user, the [key, type] it is about to insert, or None
          answer       \* the type of the last message that was made, "error" or None
registerVars == <<byComp, byName, adding, answer>>

Init ==
    /\ byComp = [k \in {} |-> None] /\ byName = {}
    /\ adding = [u \in Users |-> None] /\ answer = None

Insert(k, t) == [j \in DOMAIN byComp \cup {k} |-> IF j = k THEN t ELSE byComp[j]]

\* add_message_type(name), also for every type found by the constructor that
\* reads .proto files: under maps_mutex_; throws if the key is taken.
AddByName(t) ==
    /\ KeyOf[t] # None /\ KeyOf[t] \notin DOMAIN byComp
    /\ byComp' = Insert(KeyOf[t], t) /\ byName' = byName \cup {t}
    /\ UNCHANGED <<adding, answer>>

\* add_message_type<MT>() and add_message_type<MT>(component, type).
AddTemplateFind(u, t, k) ==
    /\ adding[u] = None /\ k \notin DOMAIN byComp
    /\ adding' = [adding EXCEPT ![u] = [key |-> k, type |-> t]]
    /\ UNCHANGED <<byComp, byName, answer>>
AddTemplateInsert(u) ==
    /\ adding[u] # None
    /\ byComp' = Insert(adding[u].key, adding[u].type)
    /\ byName' = byName \cup {adding[u].type}
    /\ adding' = [adding EXCEPT ![u] = None]
    /\ UNCHANGED answer

remove_message_type(k) ==
    /\ k \in DOMAIN byComp
    /\ byName' = byName \ {byComp[k]}
    /\ byComp' = Restrict(byComp, DOMAIN byComp \ {k})
    /\ UNCHANGED <<adding, answer>>

\* new_message_for(component, type) and deserialize()
new_message_for(k) ==
    /\ answer' = IF k \in DOMAIN byComp THEN byComp[k] ELSE "error"
    /\ UNCHANGED <<byComp, byName, adding>>

Next ==
    \/ \E t \in Types : AddByName(t)
    \/ \E u \in Users, t \in Types, k \in Keys : AddTemplateFind(u, t, k)
    \/ \E u \in Users : AddTemplateInsert(u)
    \/ \E k \in Keys : remove_message_type(k) \/ new_message_for(k)

-----------------------------------------------------------------------------
(* Properties. *)

\* A key names one type until it is removed, and only one thing may give it
\* another: a registration by the template form that found it free earlier, and
\* then takes it from whoever registered it in between.
KeysKept ==
    \A k \in DOMAIN byComp \cap DOMAIN byComp' :
        \/ byComp'[k] = byComp[k]
        \/ \E u \in Users : adding[u] = [key |-> k, type |-> byComp'[k]] /\ adding'[u] = None

=============================================================================
