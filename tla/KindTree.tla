---- MODULE KindTree ----
(***************************************************************************)
(* The kinds of the manifest: a nested map in which a protocol ID such as  *)
(* /ma/stateless/python/0.0.1 is a path of segments. A node of the map is  *)
(* a leaf, which links a kind node, or a branch, which holds a map again.  *)
(* CRUD inserts and removes IDs, GET /bootstrap.yaml lists them in a       *)
(* descriptor, the operator edits it, and `ma --gen-root-cid` builds a new *)
(* manifest from it, ID by ID, for a daemon started with --root-cid.       *)
(*                                                                         *)
(* A path is the whole list of its segments and tree says what is there,   *)
(* so a nested map is a function on paths whose nodes hang together. How   *)
(* a manifest is stored and published is RuntimeHead; a request whose      *)
(* manifest write fails is no step; IDs that differ in leading slashes are *)
(* one path.                                                               *)
(***************************************************************************)
CONSTANTS
    Paths,      \* lists of segments
    Above,      \* <<p, q>>: p is a proper prefix of q
    Links,      \* kind nodes: what they say beside their ID
    Branch,     \* an inner map
    None        \* nothing there

ASSUME PathsAssumption ==
    /\ Above \subseteq Paths \X Paths
    /\ \A p \in Paths : <<p, p>> \notin Above
    /\ \A p, q, r \in Paths : <<p, q>> \in Above /\ <<q, r>> \in Above => <<p, r>> \in Above
    /\ \A p, q, r \in Paths :
          <<p, r>> \in Above /\ <<q, r>> \in Above
              => p = q \/ <<p, q>> \in Above \/ <<q, p>> \in Above
    /\ Branch # None /\ {Branch, None} \intersect Links = {}

VARIABLES
    tree,       \* KindTree of the current manifest
    yaml,       \* the kinds of the bootstrap descriptor
    edited,     \* the descriptor is no longer what was exported
    building,   \* ma --gen-root-cid is running, or has printed its root CID
    left,       \* the IDs of the descriptor it has still to insert
    draft       \* the KindTree it builds

vars == <<tree, yaml, edited, building, left, draft>>

----
(* The nested map *)

IsAbove(p, q) == <<p, q>> \in Above

\* Whatever is in the map is in a map that is in a branch.
Trees == {t \in [Paths -> Links \union {Branch, None}] :
             \A p, q \in Paths : IsAbove(p, q) /\ t[q] # None => t[p] = Branch}

Empty == [p \in Paths |-> None]

Get(t, p) == IF t[p] \in Links THEN t[p] ELSE None

\* What protocol_ids lists, and what get_protocol finds for each.
Protocols(t) == [p \in Paths |-> Get(t, p)]

SetOver(t, p, l) ==  \* faulty variant: what is below stays
    [q \in Paths |-> IF q = p THEN l ELSE IF IsAbove(q, p) THEN Branch ELSE t[q]]

SetAt(t, p, l) ==
    [q \in Paths |-> IF q = p THEN l
                     ELSE IF IsAbove(q, p) THEN Branch
                     ELSE IF IsAbove(p, q) THEN None
                     ELSE t[q]]

Forced(t, p, l) ==  \* faulty variant: a leaf on the way becomes a branch
    SetAt(t, p, l)

\* A leaf on the way ends the descent: nothing is inserted. A branch at the end of
\* the way is overwritten, with all that is in it.
Insert(t, p, l) ==
    IF \E q \in Paths : IsAbove(q, p) /\ t[q] \in Links THEN t ELSE SetAt(t, p, l)

CutAt(t, p) == [q \in Paths |-> IF q = p \/ IsAbove(p, q) THEN None ELSE t[q]]

\* In the map of branch q there is more than the way to p.
Holds(t, q, p) ==
    \E r \in Paths : IsAbove(q, r) /\ t[r] # None /\ ~(IsAbove(r, p) /\ t[r] = Branch)

\* The leaf or branch at p goes, and on the way back every map this leaves empty.
Remove(t, p) ==
    [q \in Paths |->
        IF IsAbove(q, p) /\ t[q] = Branch /\ ~Holds(CutAt(t, p), q, p)
        THEN None ELSE CutAt(t, p)[q]]

----
Init ==
    /\ tree = Empty                             \* the minimal manifest
    /\ yaml \in [Paths -> Links \union {None}]  \* a hand-written descriptor
    /\ edited = TRUE
    /\ building = FALSE /\ left = {} /\ draft = Empty

----
(* CRUD: `:kinds` with [id, cid] and with [id]; both are answered with :ok *)

Upsert(p, l) ==
    /\ tree' = Insert(tree, p, l)
    /\ UNCHANGED <<yaml, edited, building, left, draft>>

Delete(p) ==
    /\ tree' = Remove(tree, p)
    /\ UNCHANGED <<yaml, edited, building, left, draft>>

----
(* Bootstrap *)

\* iter_protocols lists the IDs; what it lists, get_protocol finds.
Export ==
    /\ ~building
    /\ yaml' = Protocols(tree)
    /\ edited' = FALSE
    /\ UNCHANGED <<tree, building, left, draft>>

\* The operator's editor.
Edit(p, l) ==
    /\ ~building
    /\ yaml' = [yaml EXCEPT ![p] = l]
    /\ edited' = TRUE
    /\ UNCHANGED <<tree, building, left, draft>>

BuildStart ==
    /\ ~building
    /\ building' = TRUE
    /\ left' = {p \in Paths : yaml[p] # None}
    /\ draft' = Empty
    /\ UNCHANGED <<tree, yaml, edited>>

\* The descriptor's map is ordered, so a shorter ID comes before those it begins.
BuildKind(p) ==
    /\ building /\ p \in left
    /\ \A q \in left : ~IsAbove(q, p)
    /\ draft' = Insert(draft, p, yaml[p])
    /\ left' = left \ {p}
    /\ UNCHANGED <<tree, yaml, edited, building>>

\* A dag/put fails: no manifest.
BuildFails ==
    /\ building
    /\ building' = FALSE /\ left' = {} /\ draft' = Empty
    /\ UNCHANGED <<tree, yaml, edited>>

\* The daemon is started with the root CID that was printed.
Adopt ==
    /\ building /\ left = {}
    /\ tree' = draft
    /\ building' = FALSE /\ draft' = Empty
    /\ UNCHANGED <<yaml, edited, left>>

----
Crud == \E p \in Paths : Delete(p) \/ \E l \in Links : Upsert(p, l)

Bootstrap ==
    \/ Export
    \/ \E p \in Paths, l \in Links \union {None} : Edit(p, l)
    \/ BuildStart
    \/ \E p \in Paths : BuildKind(p)
    \/ BuildFails
    \/ Adopt

Next == Crud \/ Bootstrap

Spec == Init /\ [][Next]_vars

----
(* Properties *)

\* Both trees are nested maps: what is in them is inside branches only (a leaf and a
\* map never share a key in kind_tree_insert and kind_tree_remove).
TypeOK ==
    /\ tree \in Trees /\ draft \in Trees
    /\ yaml \in [Paths -> Links \union {None}]
    /\ edited \in BOOLEAN /\ building \in BOOLEAN
    /\ left \subseteq Paths

NoEmptyMap(t) == \A q \in Paths : t[q] = Branch => \E r \in Paths : IsAbove(q, r) /\ t[r] \in Links

\* No inner map of a manifest is ever empty: every branch leads to a kind, so removing
\* the last kind of a family takes the family along (kind_tree_remove).
NoEmptyFamily == NoEmptyMap(tree) /\ NoEmptyMap(draft)

Store == INSTANCE KindStore WITH kinds <- Protocols(tree), descriptor <- yaml

\* A built manifest has the kinds of the descriptor that continue no other ID of it,
\* with the descriptor's nodes, and no others (build_manifest inserts them one by one).
BuiltAsWritten == building /\ left = {} => Protocols(draft) = Store!Minimal(yaml)

\* Exporting a manifest and building one from the descriptor, unedited, loses no kind
\* and changes none (export_bootstrap_yaml against build_manifest).
RoundTrip == building /\ left = {} /\ ~edited => Protocols(draft) = yaml

\* The nested map is a map from IDs to kind nodes in which no ID continues another,
\* for clients and for the operator (kind_tree_insert, kind_tree_remove).
StoreSpec == Store!Spec

====
