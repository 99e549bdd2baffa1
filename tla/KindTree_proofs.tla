---- MODULE KindTree_proofs ----
(***************************************************************************)
(* Proofs about KindTree, for every set of paths and every tree order on   *)
(* it. First what kind_tree_insert and kind_tree_remove do to one nested   *)
(* map and in which order they may do it, then the invariant, then the     *)
(* refinement of KindStore.                                                *)
(***************************************************************************)
EXTENDS KindTree, TLAPS

\* kind_tree_insert makes a nested map of a nested map.
LEMMA InsertInTrees ==
    ASSUME NEW t \in Trees, NEW p \in Paths, NEW l \in Links
    PROVE  Insert(t, p, l) \in Trees
<1> USE PathsAssumption DEF IsAbove
<1>1. CASE \E q \in Paths : IsAbove(q, p) /\ t[q] \in Links
    BY <1>1 DEF Insert
<1>2. CASE ~\E q \in Paths : IsAbove(q, p) /\ t[q] \in Links
    <2> DEFINE s == SetAt(t, p, l)
    <2>1. s \in [Paths -> Links \union {Branch, None}]
        BY DEF SetAt, Trees
    <2>2. ASSUME NEW a \in Paths, NEW b \in Paths, IsAbove(a, b), s[b] # None
          PROVE  s[a] = Branch
        <3>1. CASE b = p \/ IsAbove(b, p)
            BY <2>2, <3>1 DEF SetAt
        <3>2. CASE ~(b = p \/ IsAbove(b, p))
            <4>1. ~IsAbove(p, b) /\ t[b] # None
                BY <2>2, <3>2 DEF SetAt
            <4>2. t[a] = Branch
                BY <2>2, <4>1 DEF Trees
            <4>3. a # p /\ ~IsAbove(p, a)
                BY <2>2, <4>1
            <4> QED
                BY <4>2, <4>3 DEF SetAt
        <3> QED
            BY <3>1, <3>2
    <2>3. Insert(t, p, l) = s
        BY <1>2 DEF Insert
    <2> HIDE DEF s
    <2> QED
        BY <2>1, <2>2, <2>3 DEF Trees
<1> QED
    BY <1>1, <1>2

\* An insertion leaves every map with a kind in it.
LEMMA InsertLeavesNoEmptyMap ==
    ASSUME NEW t \in Trees, NEW p \in Paths, NEW l \in Links, NoEmptyMap(t)
    PROVE  NoEmptyMap(Insert(t, p, l))
<1> USE PathsAssumption DEF IsAbove
<1>1. CASE \E q \in Paths : IsAbove(q, p) /\ t[q] \in Links
    BY <1>1 DEF Insert
<1>2. CASE ~\E q \in Paths : IsAbove(q, p) /\ t[q] \in Links
    <2> DEFINE s == SetAt(t, p, l)
    <2>1. ASSUME NEW q \in Paths, s[q] = Branch
          PROVE  \E r \in Paths : IsAbove(q, r) /\ s[r] \in Links
        <3>1. CASE IsAbove(q, p)
            BY <3>1 DEF SetAt
        <3>2. CASE ~IsAbove(q, p)
            <4>1. t[q] = Branch /\ q # p /\ ~IsAbove(p, q)
                BY <2>1, <3>2 DEF SetAt
            <4>2. PICK r \in Paths : IsAbove(q, r) /\ t[r] \in Links
                BY <4>1 DEF NoEmptyMap
            <4>3. r # p /\ ~IsAbove(r, p) /\ ~IsAbove(p, r)
                BY <3>2, <4>1, <4>2
            <4>4. s[r] = t[r]
                BY <4>3 DEF SetAt
            <4> QED
                BY <4>2, <4>4
        <3> QED
            BY <3>1, <3>2
    <2>2. Insert(t, p, l) = s
        BY <1>2 DEF Insert
    <2> HIDE DEF s
    <2> QED
        BY <2>1, <2>2 DEF NoEmptyMap
<1> QED
    BY <1>1, <1>2

\* kind_tree_remove makes a nested map of a nested map: no emptied map is taken away
\* from under what is still in it.
LEMMA RemoveInTrees ==
    ASSUME NEW t \in Trees, NEW p \in Paths
    PROVE  Remove(t, p) \in Trees
<1> USE PathsAssumption DEF IsAbove
<1> DEFINE s == Remove(t, p)
           c == CutAt(t, p)
<1>1. s \in [Paths -> Links \union {Branch, None}]
    BY DEF Remove, CutAt, Trees
<1>2. ASSUME NEW a \in Paths, NEW b \in Paths, IsAbove(a, b), s[b] # None
      PROVE  s[a] = Branch
    <2>1. b # p /\ ~IsAbove(p, b) /\ c[b] = t[b] /\ t[b] # None
        BY <1>2 DEF Remove, CutAt
    <2>2. t[a] = Branch /\ c[a] = Branch
        BY <1>2, <2>1 DEF Trees, CutAt
    <2>3. SUFFICES ASSUME IsAbove(a, p)
                   PROVE  Holds(c, a, p)
        BY <2>2 DEF Remove
    <2>4. CASE IsAbove(b, p) /\ c[b] = Branch
        <3>1. Holds(c, b, p)
            BY <1>2, <2>1, <2>4 DEF Remove
        <3> QED
            BY <1>2, <3>1 DEF Holds
    <2>5. CASE ~(IsAbove(b, p) /\ c[b] = Branch)
        BY <1>2, <2>1, <2>5 DEF Holds
    <2> QED
        BY <2>4, <2>5
<1> QED
    BY <1>1, <1>2 DEF Trees

\* It takes away the kinds at and below the path, and no others.
LEMMA RemoveTakesBelow ==
    ASSUME NEW t \in Trees, NEW p \in Paths, NEW q \in Paths
    PROVE  Get(Remove(t, p), q) = IF q = p \/ IsAbove(p, q) THEN None ELSE Get(t, q)
BY PathsAssumption DEF Remove, CutAt, Get, Trees

\* It leaves no empty map.
LEMMA RemoveLeavesNoEmptyMap ==
    ASSUME NEW t \in Trees, NEW p \in Paths, NoEmptyMap(t)
    PROVE  NoEmptyMap(Remove(t, p))
<1> USE PathsAssumption DEF IsAbove
<1> DEFINE s == Remove(t, p)
           c == CutAt(t, p)
<1>1. ASSUME NEW q \in Paths, s[q] = Branch
      PROVE  \E r \in Paths : IsAbove(q, r) /\ s[r] \in Links
    <2>1. t[q] = Branch /\ q # p /\ ~IsAbove(p, q)
        BY <1>1 DEF Remove, CutAt
    <2>2. ASSUME NEW r \in Paths, t[r] \in Links, r # p, ~IsAbove(p, r)
          PROVE  s[r] \in Links
        BY <2>2 DEF Remove, CutAt
    <2>3. CASE IsAbove(q, p)
        <3>1. Holds(c, q, p)
            BY <1>1, <2>1, <2>3 DEF Remove
        <3>2. PICK r \in Paths : IsAbove(q, r) /\ c[r] # None /\ ~(IsAbove(r, p) /\ c[r] = Branch)
            BY <3>1 DEF Holds
        <3>3. r # p /\ ~IsAbove(p, r) /\ c[r] = t[r]
            BY <3>2 DEF CutAt
        <3>4. CASE t[r] \in Links
            BY <2>2, <3>2, <3>3, <3>4
        <3>5. CASE t[r] = Branch
            <4>1. PICK x \in Paths : IsAbove(r, x) /\ t[x] \in Links
                BY <3>5 DEF NoEmptyMap
            <4>2. x # p /\ ~IsAbove(p, x)
                BY <3>2, <3>3, <3>5, <4>1
            <4> QED
                BY <2>2, <3>2, <4>1, <4>2
        <3> QED
            BY <3>2, <3>3, <3>4, <3>5 DEF Trees
    <2>4. CASE ~IsAbove(q, p)
        <3>1. PICK r \in Paths : IsAbove(q, r) /\ t[r] \in Links
            BY <2>1 DEF NoEmptyMap
        <3>2. r # p /\ ~IsAbove(p, r)
            BY <2>1, <2>4, <3>1
        <3> QED
            BY <2>2, <3>1, <3>2
    <2> QED
        BY <2>3, <2>4
<1> QED
    BY <1>1 DEF NoEmptyMap

----
(* Order and undoing *)

\* The kinds of a manifest determine its nested map, and so its CID: the way its kinds
\* came to it leaves no trace (kind_tree_insert, kind_tree_remove).
THEOREM KindsMakeTheTree ==
    ASSUME NEW s \in Trees, NEW t \in Trees, NoEmptyMap(s), NoEmptyMap(t),
           Protocols(s) = Protocols(t)
    PROVE  s = t
<1>1. \A q \in Paths : Get(s, q) = Get(t, q)
    BY DEF Protocols
<1>2. \A q \in Paths : (s[q] \in Links <=> t[q] \in Links) /\ (s[q] \in Links => s[q] = t[q])
    BY <1>1, PathsAssumption DEF Get
<1>3. ASSUME NEW q \in Paths
      PROVE  s[q] = Branch <=> t[q] = Branch
    <2>1. s[q] = Branch <=> \E r \in Paths : IsAbove(q, r) /\ s[r] \in Links
        BY PathsAssumption DEF NoEmptyMap, Trees
    <2>2. t[q] = Branch <=> \E r \in Paths : IsAbove(q, r) /\ t[r] \in Links
        BY PathsAssumption DEF NoEmptyMap, Trees
    <2> QED
        BY <1>2, <2>1, <2>2
<1>4. \A q \in Paths : s[q] = t[q]
    BY <1>2, <1>3 DEF Trees
<1> QED
    BY <1>4 DEF Trees

\* What an insertion does to the kinds, whether or not it is let in.
LEMMA InsertGets ==
    ASSUME NEW t \in Trees, NEW p \in Paths, NEW l \in Links, NEW q \in Paths
    PROVE  Get(Insert(t, p, l), q) =
               IF \E r \in Paths : IsAbove(r, p) /\ t[r] \in Links THEN Get(t, q)
               ELSE IF q = p THEN l ELSE IF IsAbove(p, q) THEN None ELSE Get(t, q)
BY PathsAssumption DEF Insert, SetAt, Get, IsAbove

\* Two upserts of IDs of which none continues the other may come in either order
\* (CRUD `:kinds`, kind_tree_insert).
THEOREM InsertionsCommute ==
    ASSUME NEW t \in Trees, NoEmptyMap(t), NEW p \in Paths, NEW q \in Paths,
           p # q, ~IsAbove(p, q), ~IsAbove(q, p), NEW l \in Links, NEW m \in Links
    PROVE  Insert(Insert(t, p, l), q, m) = Insert(Insert(t, q, m), p, l)
<1> DEFINE pt == Insert(t, p, l)
           qt == Insert(t, q, m)
<1>1. pt \in Trees /\ NoEmptyMap(pt) /\ qt \in Trees /\ NoEmptyMap(qt)
    BY InsertInTrees, InsertLeavesNoEmptyMap
<1>2. /\ Insert(pt, q, m) \in Trees /\ NoEmptyMap(Insert(pt, q, m))
      /\ Insert(qt, p, l) \in Trees /\ NoEmptyMap(Insert(qt, p, l))
    BY <1>1, InsertInTrees, InsertLeavesNoEmptyMap
<1>3. \A r \in Paths : /\ IsAbove(r, q) => (pt[r] \in Links <=> t[r] \in Links)
                       /\ IsAbove(r, p) => (qt[r] \in Links <=> t[r] \in Links)
    BY PathsAssumption DEF Insert, SetAt, IsAbove
<1>4. ASSUME NEW r \in Paths
      PROVE  Get(Insert(pt, q, m), r) = Get(Insert(qt, p, l), r)
    <2>1. /\ Get(pt, r) = IF \E x \in Paths : IsAbove(x, p) /\ t[x] \in Links THEN Get(t, r)
                          ELSE IF r = p THEN l ELSE IF IsAbove(p, r) THEN None ELSE Get(t, r)
          /\ Get(qt, r) = IF \E x \in Paths : IsAbove(x, q) /\ t[x] \in Links THEN Get(t, r)
                          ELSE IF r = q THEN m ELSE IF IsAbove(q, r) THEN None ELSE Get(t, r)
        BY InsertGets
    <2>2. /\ Get(Insert(pt, q, m), r) =
                IF \E x \in Paths : IsAbove(x, q) /\ t[x] \in Links THEN Get(pt, r)
                ELSE IF r = q THEN m ELSE IF IsAbove(q, r) THEN None ELSE Get(pt, r)
          /\ Get(Insert(qt, p, l), r) =
                IF \E x \in Paths : IsAbove(x, p) /\ t[x] \in Links THEN Get(qt, r)
                ELSE IF r = p THEN l ELSE IF IsAbove(p, r) THEN None ELSE Get(qt, r)
        <3> HIDE DEF pt, qt
        <3> QED
            BY <1>1, <1>3, InsertGets
    <2>3. ~(IsAbove(p, r) /\ IsAbove(q, r))
        BY PathsAssumption DEF IsAbove
    <2> QED
        BY <2>1, <2>2, <2>3
<1> HIDE DEF pt, qt
<1>5. Protocols(Insert(pt, q, m)) = Protocols(Insert(qt, p, l))
    BY <1>4 DEF Protocols
<1>6. Insert(pt, q, m) = Insert(qt, p, l)
    BY <1>2, <1>5, KindsMakeTheTree
<1> QED
    BY <1>6 DEF pt, qt

\* Two deletes may come in either order, also where one ID continues the other
\* (kind_tree_remove).
THEOREM RemovalsCommute ==
    ASSUME NEW t \in Trees, NoEmptyMap(t), NEW p \in Paths, NEW q \in Paths
    PROVE  Remove(Remove(t, p), q) = Remove(Remove(t, q), p)
<1> DEFINE pt == Remove(t, p)
           qt == Remove(t, q)
<1>1. pt \in Trees /\ NoEmptyMap(pt) /\ qt \in Trees /\ NoEmptyMap(qt)
    BY RemoveInTrees, RemoveLeavesNoEmptyMap
<1>2. \A r \in Paths : /\ Get(pt, r) = IF r = p \/ IsAbove(p, r) THEN None ELSE Get(t, r)
                       /\ Get(qt, r) = IF r = q \/ IsAbove(q, r) THEN None ELSE Get(t, r)
    BY RemoveTakesBelow
<1> HIDE DEF pt, qt
<1>3. /\ Remove(pt, q) \in Trees /\ NoEmptyMap(Remove(pt, q))
      /\ Remove(qt, p) \in Trees /\ NoEmptyMap(Remove(qt, p))
    BY <1>1, RemoveInTrees, RemoveLeavesNoEmptyMap
<1>4. \A r \in Paths : Get(Remove(pt, q), r) = Get(Remove(qt, p), r)
    <2> TAKE r \in Paths
    <2>1. Get(Remove(pt, q), r) = IF r = q \/ IsAbove(q, r) THEN None ELSE Get(pt, r)
        BY <1>1, RemoveTakesBelow
    <2>2. Get(Remove(qt, p), r) = IF r = p \/ IsAbove(p, r) THEN None ELSE Get(qt, r)
        BY <1>1, RemoveTakesBelow
    <2> QED
        BY <1>2, <2>1, <2>2
<1>5. Protocols(Remove(pt, q)) = Protocols(Remove(qt, p))
    BY <1>4 DEF Protocols
<1>6. Remove(pt, q) = Remove(qt, p)
    BY <1>1, <1>3, <1>5, KindsMakeTheTree
<1> QED
    BY <1>6 DEF pt, qt

\* Removing a kind that was inserted where there was none gives back the manifest as it
\* was (kind_tree_remove takes away the maps kind_tree_insert made).
THEOREM RemoveUndoesInsert ==
    ASSUME NEW t \in Trees, NoEmptyMap(t), NEW p \in Paths, NEW l \in Links, t[p] = None,
           ~\E q \in Paths : IsAbove(q, p) /\ t[q] \in Links
    PROVE  Remove(Insert(t, p, l), p) = t
<1> DEFINE pt == Insert(t, p, l)
<1>1. pt \in Trees /\ NoEmptyMap(pt)
    BY InsertInTrees, InsertLeavesNoEmptyMap
<1>2. ASSUME NEW q \in Paths
      PROVE  Get(pt, q) = IF q = p THEN l ELSE IF IsAbove(p, q) THEN None ELSE Get(t, q)
    BY InsertGets
<1> HIDE DEF pt
<1>3. Remove(pt, p) \in Trees /\ NoEmptyMap(Remove(pt, p))
    BY <1>1, RemoveInTrees, RemoveLeavesNoEmptyMap
<1>4. \A q \in Paths : q = p \/ IsAbove(p, q) => Get(t, q) = None
    BY PathsAssumption DEF Trees, Get
<1>5. \A q \in Paths : Get(Remove(pt, p), q) = Get(t, q)
    BY <1>1, <1>2, <1>4, RemoveTakesBelow
<1>6. Protocols(Remove(pt, p)) = Protocols(t)
    BY <1>5 DEF Protocols
<1>7. Remove(pt, p) = t
    BY <1>3, <1>6, KindsMakeTheTree
<1> QED
    BY <1>7 DEF pt

\* A kind that is removed and written again is where it was.
THEOREM InsertUndoesRemove ==
    ASSUME NEW t \in Trees, NoEmptyMap(t), NEW p \in Paths, t[p] \in Links
    PROVE  Insert(Remove(t, p), p, t[p]) = t
<1> DEFINE pt == Remove(t, p)
<1>1. pt \in Trees /\ NoEmptyMap(pt)
    BY RemoveInTrees, RemoveLeavesNoEmptyMap
<1>2. \A q \in Paths : Get(pt, q) = IF q = p \/ IsAbove(p, q) THEN None ELSE Get(t, q)
    BY RemoveTakesBelow
<1>3. ~\E q \in Paths : IsAbove(q, p) /\ pt[q] \in Links
    BY PathsAssumption DEF Trees, Remove, CutAt
<1> HIDE DEF pt
<1>4. Insert(pt, p, t[p]) \in Trees /\ NoEmptyMap(Insert(pt, p, t[p]))
    BY <1>1, InsertInTrees, InsertLeavesNoEmptyMap
<1>5. \A q \in Paths : IsAbove(p, q) => Get(t, q) = None
    BY PathsAssumption DEF Trees, Get
<1>6. ASSUME NEW q \in Paths
      PROVE  Get(Insert(pt, p, t[p]), q) = Get(t, q)
    <2>1. Get(t, p) = t[p]
        BY DEF Get
    <2>2. Get(Insert(pt, p, t[p]), q) =
              IF q = p THEN t[p] ELSE IF IsAbove(p, q) THEN None ELSE Get(pt, q)
        BY <1>1, <1>3, InsertGets
    <2> QED
        BY <1>2, <1>5, <2>1, <2>2
<1>7. Protocols(Insert(pt, p, t[p])) = Protocols(t)
    BY <1>6 DEF Protocols
<1>8. Insert(pt, p, t[p]) = t
    BY <1>4, <1>7, KindsMakeTheTree
<1> QED
    BY <1>8 DEF pt

----
(* The invariant *)

LeafAtOrAbove(t, p) == \E q \in Paths : (q = p \/ IsAbove(q, p)) /\ t[q] \in Links

\* So far, the draft has the shortest IDs of the descriptor that were inserted, and for
\* every ID inserted, it or one it continues.
BuiltSoFar ==
    building =>
        /\ left \subseteq {p \in Paths : yaml[p] # None}
        /\ \A p \in Paths : draft[p] \in Links =>
              /\ p \notin left /\ draft[p] = yaml[p]
              /\ \A q \in Paths : IsAbove(q, p) => yaml[q] = None
        /\ \A p \in Paths : yaml[p] # None /\ p \notin left => LeafAtOrAbove(draft, p)

\* An exported descriptor has no two IDs of which one continues the other.
ExportedApart ==
    ~edited => \A p, q \in Paths : IsAbove(p, q) => yaml[p] = None \/ yaml[q] = None

Inv == TypeOK /\ NoEmptyFamily /\ BuiltSoFar /\ ExportedApart

LEMMA EmptyIsTree == Empty \in Trees /\ NoEmptyMap(Empty)
BY PathsAssumption DEF Empty, Trees, NoEmptyMap

LEMMA InitInv == Init => Inv
BY EmptyIsTree
   DEF Init, Inv, TypeOK, NoEmptyFamily, BuiltSoFar, ExportedApart

LEMMA CrudInv ==
    ASSUME Inv, Crud
    PROVE  Inv'
<1>1. UNCHANGED <<yaml, edited, building, left, draft>>
    BY DEF Crud, Upsert, Delete
<1>2. tree' \in Trees /\ NoEmptyMap(tree')
    <2>1. ASSUME NEW p \in Paths, Delete(p)
          PROVE  tree' \in Trees /\ NoEmptyMap(tree')
        BY <2>1, RemoveInTrees, RemoveLeavesNoEmptyMap
           DEF Delete, Inv, TypeOK, NoEmptyFamily
    <2>2. ASSUME NEW p \in Paths, NEW l \in Links, Upsert(p, l)
          PROVE  tree' \in Trees /\ NoEmptyMap(tree')
        BY <2>2, InsertInTrees, InsertLeavesNoEmptyMap
           DEF Upsert, Inv, TypeOK, NoEmptyFamily
    <2> QED
        BY <2>1, <2>2 DEF Crud
<1>3. TypeOK' /\ NoEmptyFamily'
    BY <1>1, <1>2 DEF Inv, TypeOK, NoEmptyFamily, NoEmptyMap
<1>4. BuiltSoFar' /\ ExportedApart'
    BY <1>1 DEF Inv, BuiltSoFar, ExportedApart, LeafAtOrAbove
<1> QED
    BY <1>3, <1>4 DEF Inv

LEMMA ExportInv ==
    ASSUME Inv, Export
    PROVE  Inv'
<1>1. ExportedApart'
    BY PathsAssumption DEF Export, Inv, TypeOK, Trees, ExportedApart, Protocols, Get, IsAbove
<1>2. TypeOK'
    BY DEF Export, Inv, TypeOK, Protocols, Get
<1>3. NoEmptyFamily' /\ BuiltSoFar'
    BY DEF Export, Inv, NoEmptyFamily, NoEmptyMap, BuiltSoFar
<1> QED
    BY <1>1, <1>2, <1>3 DEF Inv

\* One more ID, the IDs it continues being in already.
LEMMA BuildKindInv ==
    ASSUME Inv, NEW p \in Paths, BuildKind(p)
    PROVE  Inv'
<1> USE DEF IsAbove
<1>1. UNCHANGED <<tree, yaml, edited, building>> /\ left' = left \ {p} /\ p \in left
    BY DEF BuildKind
<1>2. yaml[p] \in Links /\ draft' = Insert(draft, p, yaml[p]) /\ building
    BY DEF BuildKind, Inv, TypeOK, BuiltSoFar
<1>3. draft \in Trees /\ NoEmptyMap(draft)
    BY DEF Inv, TypeOK, NoEmptyFamily
<1>4. draft' \in Trees /\ NoEmptyMap(draft')
    BY <1>2, <1>3, InsertInTrees, InsertLeavesNoEmptyMap
<1>5. TypeOK' /\ NoEmptyFamily' /\ ExportedApart'
    BY <1>1, <1>4 DEF Inv, TypeOK, NoEmptyFamily, NoEmptyMap, ExportedApart
<1>6. CASE \E q \in Paths : IsAbove(q, p) /\ draft[q] \in Links
    <2>1. draft' = draft
        BY <1>2, <1>6 DEF Insert
    <2>2. LeafAtOrAbove(draft, p)
        BY <1>6 DEF LeafAtOrAbove
    <2> QED
        BY <1>1, <1>5, <2>1, <2>2 DEF Inv, BuiltSoFar, LeafAtOrAbove
<1>7. CASE ~\E q \in Paths : IsAbove(q, p) /\ draft[q] \in Links
    <2>1. draft' = SetAt(draft, p, yaml[p])
        BY <1>2, <1>7 DEF Insert
    <2>2. ASSUME NEW q \in Paths, IsAbove(q, p)
          PROVE  yaml[q] = None
        <3>1. q \notin left
            BY <2>2 DEF BuildKind
        <3>2. SUFFICES ASSUME LeafAtOrAbove(draft, q)
                       PROVE  FALSE
            BY <1>2, <3>1 DEF Inv, BuiltSoFar
        <3>3. PICK r \in Paths : (r = q \/ IsAbove(r, q)) /\ draft[r] \in Links
            BY <3>2 DEF LeafAtOrAbove
        <3>4. IsAbove(r, p)
            BY <2>2, <3>3, PathsAssumption
        <3> QED
            BY <1>7, <3>3, <3>4
    <2>3. ASSUME NEW q \in Paths, draft[q] \in Links
          PROVE  draft'[q] = draft[q]
        <3>1. q # p
            BY <1>1, <1>2, <2>3 DEF Inv, BuiltSoFar
        <3>2. ~IsAbove(p, q)
            BY <1>1, <1>2, <2>3, PathsAssumption DEF Inv, BuiltSoFar, TypeOK
        <3> QED
            BY <1>7, <2>1, <2>3, <3>1, <3>2 DEF SetAt
    <2>4. draft'[p] = yaml[p]
        BY <2>1 DEF SetAt
    <2>5. ASSUME NEW q \in Paths, draft'[q] \in Links
          PROVE  /\ q \notin left' /\ draft'[q] = yaml[q]
                 /\ \A r \in Paths : IsAbove(r, q) => yaml[r] = None
        <3>1. CASE q = p
            BY <1>1, <2>2, <2>4, <3>1
        <3>2. CASE q # p
            <4>1. draft'[q] = draft[q]
                BY <2>1, <2>5, <3>2, PathsAssumption DEF SetAt
            <4> QED
                BY <1>1, <1>2, <2>5, <4>1 DEF Inv, BuiltSoFar
        <3> QED
            BY <3>1, <3>2
    <2>6. ASSUME NEW q \in Paths, yaml[q] # None, q \notin left'
          PROVE  LeafAtOrAbove(draft', q)
        <3>1. CASE q = p
            BY <1>2, <2>4, <3>1 DEF LeafAtOrAbove
        <3>2. CASE q # p
            <4>1. LeafAtOrAbove(draft, q)
                BY <1>1, <1>2, <2>6, <3>2 DEF Inv, BuiltSoFar
            <4> QED
                BY <2>3, <4>1 DEF LeafAtOrAbove
        <3> QED
            BY <3>1, <3>2
    <2>7. left' \subseteq {q \in Paths : yaml[q] # None}
        BY <1>1, <1>2 DEF Inv, BuiltSoFar
    <2>8. BuiltSoFar'
        BY <1>1, <2>5, <2>6, <2>7 DEF BuiltSoFar, LeafAtOrAbove
    <2> QED
        BY <1>5, <2>8 DEF Inv
<1> QED
    BY <1>6, <1>7

LEMMA NextInv == Inv /\ [Next]_vars => Inv'
<1> SUFFICES ASSUME Inv, [Next]_vars
             PROVE  Inv'
    OBVIOUS
<1> USE DEF Inv
<1>1. CASE Crud
    BY <1>1, CrudInv
<1>2. CASE Export
    BY <1>2, ExportInv
<1>3. ASSUME NEW p \in Paths, NEW l \in Links \union {None}, Edit(p, l)
      PROVE  Inv'
    BY <1>3 DEF Edit, TypeOK, NoEmptyFamily, NoEmptyMap, BuiltSoFar, ExportedApart
<1>4. CASE BuildStart
    <2>1. TypeOK' /\ NoEmptyFamily' /\ ExportedApart'
        BY <1>4, EmptyIsTree DEF BuildStart, TypeOK, NoEmptyFamily, NoEmptyMap, ExportedApart
    <2>2. BuiltSoFar'
        BY <1>4, PathsAssumption DEF BuildStart, BuiltSoFar, Empty
    <2> QED
        BY <2>1, <2>2
<1>5. ASSUME NEW p \in Paths, BuildKind(p)
      PROVE  Inv'
    BY <1>5, BuildKindInv
<1>6. CASE BuildFails
    BY <1>6, EmptyIsTree
       DEF BuildFails, TypeOK, NoEmptyFamily, NoEmptyMap, BuiltSoFar, ExportedApart
<1>7. CASE Adopt
    BY <1>7, EmptyIsTree
       DEF Adopt, TypeOK, NoEmptyFamily, NoEmptyMap, BuiltSoFar, ExportedApart
<1>8. CASE UNCHANGED vars
    BY <1>8 DEF vars, TypeOK, NoEmptyFamily, NoEmptyMap, BuiltSoFar, ExportedApart, LeafAtOrAbove
<1> QED
    BY <1>1, <1>2, <1>3, <1>4, <1>5, <1>6, <1>7, <1>8 DEF Next, Bootstrap

\* Every state satisfies the invariant.
THEOREM Invariance == Spec => []Inv
BY InitInv, NextInv, PTL DEF Spec

----
(* The properties *)

\* The manifest and the draft are nested maps (KindTree, kind_tree_insert,
\* kind_tree_remove).
THEOREM TypeCorrect == Spec => []TypeOK
<1>1. Inv => TypeOK
    BY DEF Inv
<1> QED
    BY <1>1, Invariance, PTL

\* No family of kinds is ever empty (kind_tree_remove prunes what it empties).
THEOREM NoEmptyFamilyEver == Spec => []NoEmptyFamily
<1>1. Inv => NoEmptyFamily
    BY DEF Inv
<1> QED
    BY <1>1, Invariance, PTL

LEMMA BuiltFollows == Inv => BuiltAsWritten
<1> SUFFICES ASSUME Inv, building, left = {}, NEW p \in Paths
             PROVE  Get(draft, p) = Store!Minimal(yaml)[p]
    BY DEF BuiltAsWritten, Protocols, Store!Minimal
<1> USE PathsAssumption DEF IsAbove
<1>1. CASE draft[p] \in Links
    BY <1>1 DEF Inv, BuiltSoFar, Get, Store!Minimal
<1>2. CASE draft[p] \notin Links
    <2>1. CASE yaml[p] = None
        BY <1>2, <2>1 DEF Get, Store!Minimal
    <2>2. CASE yaml[p] # None
        <3>1. PICK q \in Paths : IsAbove(q, p) /\ draft[q] \in Links
            BY <1>2, <2>2 DEF Inv, BuiltSoFar, LeafAtOrAbove
        <3>2. yaml[q] # None
            BY <3>1 DEF Inv, BuiltSoFar
        <3> QED
            BY <1>2, <3>1, <3>2 DEF Get, Store!Minimal
    <2> QED
        BY <2>1, <2>2
<1> QED
    BY <1>1, <1>2

\* What build_manifest builds holds the shortest IDs of the descriptor, as written.
THEOREM BuiltIsWritten == Spec => []BuiltAsWritten
BY BuiltFollows, Invariance, PTL

\* An exported descriptor, unedited, is built into the kinds that were exported
\* (export_bootstrap_yaml, build_manifest).
THEOREM RoundTrips == Spec => []RoundTrip
<1>1. Inv => RoundTrip
    <2> SUFFICES ASSUME Inv, building, left = {}, ~edited
                 PROVE  Protocols(draft) = yaml
        BY DEF RoundTrip
    <2>1. Protocols(draft) = Store!Minimal(yaml)
        BY BuiltFollows DEF BuiltAsWritten
    <2>2. \A p \in Paths : Store!Minimal(yaml)[p] = yaml[p]
        BY DEF Inv, ExportedApart, IsAbove, Store!Minimal
    <2>3. yaml \in [Paths -> Links \union {None}]
        BY DEF Inv, TypeOK
    <2> QED
        BY <2>1, <2>2, <2>3 DEF Store!Minimal
<1> QED
    BY <1>1, Invariance, PTL

\* If the manifest has the kinds of the exported descriptor still, or again, what is
\* built from the descriptor is its nested map to the last branch, and so has its CID.
THEOREM RebuiltIsSame ==
    Spec => [](building /\ left = {} /\ ~edited /\ Protocols(tree) = yaml => draft = tree)
<1>1. Inv /\ RoundTrip => (building /\ left = {} /\ ~edited /\ Protocols(tree) = yaml => draft = tree)
    BY KindsMakeTheTree DEF Inv, TypeOK, NoEmptyFamily, RoundTrip
<1> QED
    BY <1>1, RoundTrips, Invariance, PTL

----
(* The refinement *)

LEMMA ProtocolsChange ==
    ASSUME NEW t \in Trees, NEW p \in Paths, NEW l \in Links,
           ~\E q \in Paths : IsAbove(q, p) /\ t[q] \in Links
    PROVE  Protocols(Insert(t, p, l)) =
               [q \in Paths |-> IF q = p THEN l
                                ELSE IF IsAbove(p, q) THEN None ELSE Protocols(t)[q]]
<1> USE PathsAssumption DEF IsAbove
<1>1. ASSUME NEW q \in Paths
      PROVE  Get(Insert(t, p, l), q) =
                 IF q = p THEN l ELSE IF IsAbove(p, q) THEN None ELSE Get(t, q)
    BY DEF Insert, SetAt, Get
<1> QED
    BY <1>1 DEF Protocols

LEMMA StepRefines == Inv /\ Inv' /\ [Next]_vars => [Store!Next]_(Store!vars)
<1> SUFFICES ASSUME Inv, Inv', [Next]_vars
             PROVE  [Store!Next]_(Store!vars)
    OBVIOUS
<1> USE PathsAssumption DEF Store!vars
<1>1. ASSUME NEW p \in Paths, NEW l \in Links, Upsert(p, l)
      PROVE  [Store!Next]_(Store!vars)
    <2>1. tree \in Trees
        BY DEF Inv, TypeOK
    <2>2. CASE \E q \in Paths : IsAbove(q, p) /\ tree[q] \in Links
        BY <1>1, <2>2 DEF Upsert, Insert
    <2>3. CASE ~\E q \in Paths : IsAbove(q, p) /\ tree[q] \in Links
        <3>1. ~\E q \in Paths : <<q, p>> \in Above /\ Protocols(tree)[q] # None
            BY <2>3 DEF Protocols, Get, IsAbove
        <3>2. Protocols(tree)' =
                  [q \in Paths |-> IF q = p THEN l
                                   ELSE IF <<p, q>> \in Above THEN None
                                   ELSE Protocols(tree)[q]]
            BY <1>1, <2>1, <2>3, ProtocolsChange DEF Upsert, IsAbove
        <3>3. Store!Put(p, l)
            BY <1>1, <3>1, <3>2 DEF Store!Put, Upsert
        <3> QED
            BY <3>3 DEF Store!Next
    <2> QED
        BY <2>2, <2>3
<1>2. ASSUME NEW p \in Paths, Delete(p)
      PROVE  [Store!Next]_(Store!vars)
    <2>1. tree \in Trees
        BY DEF Inv, TypeOK
    <2>2. Protocols(tree)' =
              [q \in Paths |-> IF q = p \/ <<p, q>> \in Above THEN None ELSE Protocols(tree)[q]]
        BY <1>2, <2>1, RemoveTakesBelow DEF Delete, Protocols, IsAbove
    <2>3. Store!Drop(p)
        BY <1>2, <2>2 DEF Store!Drop, Delete
    <2> QED
        BY <2>3 DEF Store!Next
<1>3. CASE Export
    <2>1. Store!Export
        BY <1>3 DEF Export, Store!Export
    <2> QED
        BY <2>1 DEF Store!Next
<1>4. ASSUME NEW p \in Paths, NEW l \in Links \union {None}, Edit(p, l)
      PROVE  [Store!Next]_(Store!vars)
    <2>1. Store!Edit(p)
        BY <1>4 DEF Edit, Store!Edit
    <2> QED
        BY <2>1 DEF Store!Next
<1>5. CASE BuildStart \/ BuildFails \/ \E p \in Paths : BuildKind(p)
    BY <1>5 DEF BuildStart, BuildFails, BuildKind
<1>6. CASE Adopt
    <2>1. Protocols(tree)' = Store!Minimal(yaml)
        BY <1>6, BuiltFollows DEF Adopt, BuiltAsWritten
    <2>2. Store!Adopt
        BY <1>6, <2>1 DEF Adopt, Store!Adopt
    <2> QED
        BY <2>2 DEF Store!Next
<1>7. CASE UNCHANGED vars
    BY <1>7 DEF vars
<1> QED
    BY <1>1, <1>2, <1>3, <1>4, <1>5, <1>6, <1>7 DEF Next, Crud, Bootstrap

\* The nested map implements the map from IDs to kind nodes (KindStore), whoever
\* writes to it.
THEOREM Refinement == Spec => StoreSpec
<1>1. Init => Store!Init
    BY PathsAssumption DEF Init, Store!Init, Store!Maps, Protocols, Get, Empty
<1> QED
    BY <1>1, StepRefines, Invariance, PTL DEF Spec, StoreSpec, Store!Spec

====
