-------------------------- MODULE YamlConfiguration --------------------------
(***************************************************************************)
(* libs/config: YamlConfiguration and its tree of nodes, as every plugin   *)
(* makes one for itself (libs/configurable).  load() reads config.yaml,    *)
(* the files it includes in the order of a queue, and last the             *)
(* host-specific file, each merged over the ones before.  set_*() and      *)
(* erase() change the tree and write the host-specific file, which the     *)
(* next start of the program reads again.                                  *)
(*                                                                         *)
(* A tree is a function from paths, sequences of keys, to nodes; a file    *)
(* that was read is such a tree too.  HAVE_FAM is not defined: nobody      *)
(* watches the files.                                                      *)
(***************************************************************************)
EXTENDS Integers, Sequences, FiniteSets, SequencesExt

CONSTANTS Bits,        \* the width of int and unsigned int
          MaxChanges,  \* bound: calls of set_*() and erase()
          None

Num(v) == [k |-> "num", v |-> v]
Word == [k |-> "word", v |-> 0]
Yes == [k |-> "bool", v |-> 1]
Empty == [k |-> "word", v |-> -1]

Paths == {<<1>>, <<1, 1>>, <<1, 2>>}
Parents(p) == {q \in Paths : Len(q) < Len(p) /\ q[1] = p[1]}

VARIABLES files,       \* the files on disk: [include, doc] by name
          phase,       \* "loading", "ready", "failed" (load() has thrown)
          queue,       \* load_queue
          hostFile, root, host,
          writing,     \* <<the new content>> of a file that is opened and not yet written
          iter,        \* the paths an iterator has yet to visit
          stored,      \* history: the scalar last set and written, by path
          changes
vars == <<files, phase, queue, hostFile, root, host, writing, iter, stored, changes>>
trees == <<root, host>>
load == <<files, phase, queue, hostFile>>

EmptyTree == [p \in {} |-> None]
\* Of a list it matters which element is its first; None: it is empty, or there is none.
Node(type, text, list) == [type |-> type, text |-> text, list |-> list]

(* Texts and types. *)

MaxInt == 2 ^ (Bits - 1) - 1
\* yaml_utils::convert(): a stream reads a negative number into an unsigned int too.
convert(type, t) ==
    CASE type = "uint" -> t.k = "num" /\ t.v \in -(2 ^ Bits - 1) .. 2 ^ Bits - 1
      [] type = "int" -> t.k = "num" /\ t.v \in -MaxInt - 1 .. MaxInt
      [] type = "float" -> t.k = "num"
      [] type = "bool" -> t.k = "bool"
      [] type = "string" -> TRUE

\* get_int() throws for a number between the largest int and unsigned int.
determine_scalar_type(t) ==
    CASE convert("uint", t) /\ ~convert("int", t) -> "throws"
      [] convert("uint", t) /\ convert("int", t) -> IF t.v >= 0 THEN "UINT32" ELSE "INT32"
      [] ~convert("uint", t) /\ convert("float", t) -> "FLOAT"
      [] convert("bool", t) -> "BOOL"
      [] OTHER -> "STRING"
is_scalar(n) == n.type \in {"UINT32", "INT32", "FLOAT", "BOOL", "STRING"}

(* Trees. *)

has_children(t, p) == \E q \in DOMAIN t : p \in Parents(q)
enum_leafs(t) == {p \in DOMAIN t : ~has_children(t, p)}
Scalar(t) == Node(determine_scalar_type(t), t, None)
\* A document with one leaf.
Leaf(p, n) == [q \in {p} \cup Parents(p) |-> IF q = p THEN n ELSE Node("MAP", Empty, None)]

\* Mutant: what is there stays.
MergeKeeps(t, sub) ==
    [p \in DOMAIN t \cup DOMAIN sub |-> IF p \in DOMAIN t THEN t[p] ELSE sub[p]]

\* operator+=: scalars are overwritten, new nodes are copied; a list or an empty
\* node that is there already stays as it is.
Merge(t, sub) ==
    [p \in DOMAIN t \cup DOMAIN sub |->
        CASE p \notin DOMAIN t -> sub[p]
          [] p \in DOMAIN t /\ p \in DOMAIN sub /\ is_scalar(t[p]) ->
                [t[p] EXCEPT !.type = determine_scalar_type(sub[p].text), !.text = sub[p].text]
          [] OTHER -> t[p]]
\* It throws if a scalar would be overwritten by something else.
MergeThrows(t, sub) ==
    \E p \in DOMAIN t \cap DOMAIN sub : is_scalar(t[p]) /\ ~is_scalar(sub[p])

\* find_or_insert()
find_or_insert(t, p) ==
    [q \in DOMAIN t \cup {p} \cup Parents(p) |->
        IF q \in Parents(p)
        THEN IF p \in DOMAIN t THEN t[q]
             ELSE IF q \in DOMAIN t THEN [t[q] EXCEPT !.type = "MAP"] ELSE Node("MAP", Empty, None)
        ELSE IF q \in DOMAIN t THEN t[q] ELSE Node("NONE", Empty, None)]

\* erase(): the sections that become empty go too.
Erase(t, p) ==
    LET gone == {p} \cup {q \in Parents(p) : \A r \in DOMAIN t \ {p} : q \notin Parents(r)}
    IN [q \in DOMAIN t \ gone |-> t[q]]

\* emit() and what reading the file again gives: the text of every leaf, which
\* is empty for a list.
emit(t) ==
    [p \in DOMAIN t |-> IF has_children(t, p) THEN Node("MAP", Empty, None) ELSE Scalar(t[p].text)]
-----------------------------------------------------------------------------
(* load() *)

Entry(name, tag) == [name |-> name, tag |-> tag]
\* The documents a file may hold.
Docs == {EmptyTree, Leaf(<<1>>, Scalar(Num(3))), Leaf(<<1, 1>>, Scalar(Word)),
         Leaf(<<1, 1>>, Node("SEQUENCE", Empty, Yes))}
HostDocs == {EmptyTree, Leaf(<<1, 1>>, Scalar(Yes)), Leaf(<<1, 1>>, Node("SEQUENCE", Empty, Num(1)))}
\* Nodes are made with their type: a file with a number that has none cannot be read.
ReadThrows(doc) == \E p \in DOMAIN doc : doc[p].type = "throws"
Includes == {<<>>, <<Entry("host", "host-specific")>>,
             <<Entry("inc", "ignore-missing"), Entry("host", "host-specific")>>,
             <<Entry("dir", "dir"), Entry("host", "host-specific")>>,
             <<Entry("config", "")>>, <<Entry("absent", "")>>}
\* The files of the directory, in order.
Listing == <<"inc">>

Init ==
    /\ \E i \in Includes, d \in Docs, h \in HostDocs :
           files = [n \in {"config", "inc", "host"} |->
                        CASE n = "config" -> [include |-> i, doc |-> d]
                          [] n = "inc" -> [include |-> <<>>, doc |-> Leaf(<<1, 2>>, Scalar(Word))]
                          [] n = "host" -> [include |-> <<>>, doc |-> h]]
    /\ phase = "loading" /\ queue = <<Entry("config", "")>>
    /\ hostFile = None /\ root = EmptyTree /\ host = EmptyTree
    /\ writing = <<>> /\ iter = <<>> /\ stored = EmptyTree /\ changes = 0

\* read_meta_doc(): what an include adds to the queue.
Queued(e) ==
    CASE e.tag = "host-specific" -> <<>>
      [] e.tag = "dir" -> <<e>> \o [n \in 1 .. Len(Listing) |-> Entry(Listing[n], "")]
      [] OTHER -> <<e>>
read_meta_doc(include) == FoldLeft(LAMBDA q, e : q \o Queued(e), <<>>, include)
HostOf(include) == {e.name : e \in {f \in ToSet(include) : f.tag = "host-specific"}}

Fail == phase' = "failed" /\ UNCHANGED <<queue, hostFile, trees>>

\* read_yaml_config(), one file of the queue.
ReadFile ==
    /\ phase = "loading" /\ queue # <<>>
    /\ LET e == Head(queue)
           missing == e.name \notin DOMAIN files
           f == files[e.name]
       IN IF e.tag = "dir" \/ (missing /\ e.tag = "ignore-missing")
          THEN queue' = Tail(queue) /\ UNCHANGED <<phase, hostFile, trees>>
          ELSE IF missing THEN Fail
          ELSE IF \/ HostOf(f.include) # {} /\ hostFile # None
                  \/ ReadThrows(f.doc) \/ MergeThrows(root, f.doc) THEN Fail
          ELSE /\ queue' = Tail(queue) \o read_meta_doc(f.include)
               /\ hostFile' = IF HostOf(f.include) # {} THEN CHOOSE h \in HostOf(f.include) : TRUE
                              ELSE hostFile
               /\ root' = Merge(root, f.doc)
               /\ UNCHANGED <<phase, host>>
    /\ UNCHANGED <<files, writing, iter, stored, changes>>

\* The host-specific file comes last.
ReadHostFile ==
    /\ phase = "loading" /\ queue = <<>>
    /\ IF hostFile = None THEN phase' = "ready" /\ UNCHANGED <<queue, hostFile, trees>>
       ELSE IF ReadThrows(files[hostFile].doc) \/ MergeThrows(root, files[hostFile].doc) THEN Fail
       ELSE /\ phase' = "ready"
            /\ host' = files[hostFile].doc /\ root' = Merge(root, files[hostFile].doc)
            /\ UNCHANGED <<queue, hostFile>>
    /\ UNCHANGED <<files, writing, iter, stored, changes>>

\* The program ends, or crashes while it writes, and starts again.
Restart ==
    /\ phase' = "loading" /\ queue' = <<Entry("config", "")>>
    /\ hostFile' = None /\ root' = EmptyTree /\ host' = EmptyTree
    /\ writing' = <<>> /\ iter' = <<>>
    /\ stored' = IF writing = <<>> THEN stored ELSE EmptyTree
    /\ phase # "loading" /\ changes < MaxChanges /\ changes' = changes + 1
    /\ UNCHANGED files
-----------------------------------------------------------------------------
(* Changing values. *)

Forget(p) == [q \in {r \in DOMAIN stored : r # p /\ r \notin Parents(p) /\ p \notin Parents(r)}
                 |-> stored[q]]
Busy == phase # "ready" \/ writing # <<>>

\* write_host_file() opens the file, which empties it; without one it throws.
OpenHostFile(h) ==
    IF hostFile = None THEN UNCHANGED <<writing, files>>
    ELSE writing' = <<emit(h)>> /\ files' = [files EXCEPT ![hostFile].doc = EmptyTree]

\* What set_scalar() makes of a node.  A node that is a list gets the type of its first
\* element, not that of the text; for a whole number get_int() throws, as it is a list.
TypeFor(n, t) ==
    CASE n.type # "SEQUENCE" -> determine_scalar_type(t)
      [] n.type = "SEQUENCE" /\ n.list = None -> "UNKNOWN"
      [] n.type = "SEQUENCE" /\ n.list # None ->
            IF convert("uint", n.list) THEN "throws" ELSE determine_scalar_type(n.list)

\* set_uint() and the like.
set_value(p, t) ==
    /\ ~Busy /\ changes < MaxChanges /\ changes' = changes + 1
    /\ LET r == find_or_insert(root, p)
           h == find_or_insert(host, p)
       IN IF has_children(r, p)
          THEN UNCHANGED <<trees, files, writing, stored>>
          ELSE IF TypeFor(r[p], t) = "throws"
          THEN /\ root' = [r EXCEPT ![p].text = t] /\ stored' = Forget(p)
               /\ UNCHANGED <<host, files, writing>>
          ELSE /\ root' = [r EXCEPT ![p].text = t, ![p].type = TypeFor(r[p], t)]
               /\ IF TypeFor(h[p], t) = "throws"
                  THEN /\ host' = [h EXCEPT ![p].text = t] /\ stored' = Forget(p)
                       /\ UNCHANGED <<files, writing>>
                  ELSE /\ host' = [h EXCEPT ![p].text = t, ![p].type = TypeFor(h[p], t)]
                       /\ OpenHostFile(host')
                       /\ stored' = IF hostFile = None THEN stored
                                    ELSE [q \in DOMAIN Forget(p) \cup {p} |->
                                             IF q = p THEN t ELSE stored[q]]
    /\ UNCHANGED <<phase, queue, hostFile, iter>>

\* set_uints() and the like.
set_list(p, l) ==
    /\ ~Busy /\ changes < MaxChanges /\ changes' = changes + 1
    /\ LET r == find_or_insert(root, p)
           h == find_or_insert(host, p)
       IN IF has_children(r, p) THEN UNCHANGED <<trees, files, writing, stored>>
          ELSE /\ root' = [r EXCEPT ![p].list = l, ![p].type = "SEQUENCE"]
               /\ host' = [h EXCEPT ![p].list = l, ![p].type = "SEQUENCE"]
               /\ OpenHostFile(host')
               /\ stored' = Forget(p)
    /\ UNCHANGED <<phase, queue, hostFile, iter>>

\* erase(): throws if the host-specific file does not have the value.
erase(p) ==
    /\ ~Busy /\ changes < MaxChanges /\ changes' = changes + 1
    /\ IF p \notin enum_leafs(host)
       THEN UNCHANGED <<trees, files, writing, stored>>
       ELSE /\ host' = Erase(host, p)
            /\ stored' = Forget(p)
            /\ IF p \in enum_leafs(root)
               THEN root' = Erase(root, p) /\ OpenHostFile(host')
               ELSE UNCHANGED <<root, files, writing>>
    /\ UNCHANGED <<phase, queue, hostFile, iter>>

WriteHostFile ==
    /\ writing # <<>>
    /\ files' = [files EXCEPT ![hostFile].doc = Head(writing)]
    /\ writing' = <<>>
    /\ UNCHANGED <<phase, queue, hostFile, trees, iter, stored, changes>>
-----------------------------------------------------------------------------
(* Queries. *)

\* get_value_as() and get_list(), with find(); is_uint() reads an int as well.
GetThrows(type, p) ==
    \/ p \notin DOMAIN root \/ has_children(root, p)
    \/ root[p].type = "SEQUENCE" \/ ~convert(type, root[p].text)

\* iterator() and search(); next() and valid() go through the leaves.
Weight(p) == 10 * p[1] + IF Len(p) = 2 THEN p[2] ELSE 0
iterator ==
    /\ ~Busy /\ iter = <<>>
    /\ iter' = SetToSortSeq(enum_leafs(root), LAMBDA p, q : Weight(p) < Weight(q))
    /\ UNCHANGED <<load, trees, writing, stored, changes>>
next ==
    /\ iter # <<>>
    /\ iter' = Tail(iter)
    /\ UNCHANGED <<load, trees, writing, stored, changes>>

Next ==
    \/ ReadFile \/ ReadHostFile \/ Restart \/ WriteHostFile
    \/ \E p \in Paths : \/ \E t \in {Num(-1), Num(2 ^ (Bits - 1)), Word} : set_value(p, t)
                        \/ \E l \in {None, Yes, Num(1)} : set_list(p, l)
                        \/ erase(p)
    \/ iterator \/ next

-----------------------------------------------------------------------------
(* Properties. *)

\* set_uint() of a number beyond the largest int throws when the text has been
\* changed and the type and the host-specific tree have not.
Halfway(n) == convert("uint", n.text) /\ ~convert("int", n.text)

\* The first value set where a list was: it has the type of the list's first element.
TypeOfList(n) == n.list # None /\ n.type = determine_scalar_type(n.list)

\* A scalar has the type its text can be read as, also when files and values of
\* other types were merged or set over it, and get_*() of that type does not throw.
\* The exception is a scalar that was set where a list was.
TypesConvert ==
    \A p \in enum_leafs(root) :
        is_scalar(root[p]) /\ ~Halfway(root[p]) /\ ~TypeOfList(root[p]) =>
            /\ root[p].type = "UINT32" => ~GetThrows("uint", p) /\ root[p].text.v >= 0
            /\ root[p].type = "INT32" => ~GetThrows("int", p)
            /\ root[p].type = "FLOAT" => ~GetThrows("float", p)
            /\ root[p].type = "BOOL" => ~GetThrows("bool", p)

\* What the host-specific file says of a scalar is what the program sees, after
\* every change and every restart.
HostScalarWins ==
    phase = "ready" =>
        \A p \in enum_leafs(host) \cap enum_leafs(root) :
            is_scalar(host[p]) /\ is_scalar(root[p]) /\ ~Halfway(root[p])
                => host[p].text = root[p].text

\* A section that is empty does not stay behind.
NoEmptySections == \A p \in DOMAIN host : host[p].type = "MAP" => has_children(host, p)

\* A scalar that was set and written is there after a restart, whatever was set
\* or erased since at other paths, unless the program crashed while it wrote or
\* the defaults have a list, a section or an empty value there.  (If they have a scalar
\* above it, or the value is a number between the largest int and unsigned int that was
\* set where a list was, the configuration cannot be loaded any more.)
SetSurvivesRestart ==
    phase = "ready" =>
        \A p \in DOMAIN stored :
            /\ p \in DOMAIN root
            /\ p \in enum_leafs(root) /\ is_scalar(root[p]) /\ ~Halfway(root[p])
                   => root[p].text = stored[p]

\* What a user of the configuration relies on.
ConfigurationHolds ==
    TypesConvert /\ HostScalarWins /\ NoEmptySections /\ SetSurvivesRestart

=============================================================================
