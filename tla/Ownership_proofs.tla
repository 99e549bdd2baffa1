---- MODULE Ownership_proofs ----
(***************************************************************************)
(* Proofs about Ownership, for any set of principals and any bounds.       *)
(*                                                                         *)
(* Given says that whatever is on its way into one of the copies of the    *)
(* owners (a claim between its steps, the manifest a CRUD request is about *)
(* to write, the manifests the runtime's name leads to or may come to lead *)
(* to) was given authority too. Phases relates the history flags to the    *)
(* state they speak of, and the guard of the ACL to the handler that holds *)
(* it, and config.yaml to the copy of it in memory. The last part is the   *)
(* refinement of Power.                                                    *)
(***************************************************************************)
EXTENDS Ownership, TLAPS

Given ==
    /\ AuthorityIsGiven
    /\ ListOf(manifest) \subseteq authority
    /\ ListOf(published) \subseteq authority
    /\ \A m \in sent : ListOf(m) \subseteq authority /\ m.acl \subseteq authority
    /\ \A d \in Dids : Accepted(d) => d \in authority
    /\ crud.pc \in {"write", "swap"} =>
         ListOf(crud.to) \subseteq authority /\ crud.to.acl \subseteq authority

Phases ==
    /\ settled => owners # {}
    /\ crud.pc = "swap" => edited
    /\ ~up => crud = Idle
    /\ guard => up /\ crud = Idle
    /\ \A d \in Dids : claim[d].pc # "none" => up
    /\ mem # {} => file # {}

Held == Phases /\ NoLateClaim /\ OwnersAreGranted

Inv == TypeOK /\ Given /\ Held

----
\* Types survive every step.
LEMMA TypeStep ==
    ASSUME TypeOK, [Next]_vars
    PROVE  TypeOK'
<1> USE OwnershipAssumption
    DEF TypeOK, ConfigTypes, OwnerTypes, CrudTypes, ClaimTypes, FlagTypes, BoundTypes,
        Manifests, Idle, Writes, Swaps, Keys
<1>1. CASE Start
  <2> USE <1>1 DEF Start, BootAcl, durable
  <2>1. ConfigTypes'  OBVIOUS
  <2>2. OwnerTypes'  OBVIOUS
  <2>3. CrudTypes'  OBVIOUS
  <2>4. ClaimTypes'  OBVIOUS
  <2>5. FlagTypes'  OBVIOUS
  <2>6. BoundTypes'  OBVIOUS
  <2> QED
    BY <2>1, <2>2, <2>3, <2>4, <2>5, <2>6
<1>2. CASE Stop
  <2> USE <1>2 DEF Stop, NoClaim, NoManifest, durable
  <2>1. ConfigTypes'  OBVIOUS
  <2>2. OwnerTypes'  OBVIOUS
  <2>3. CrudTypes'  OBVIOUS
  <2>4. ClaimTypes'  OBVIOUS
  <2>5. FlagTypes'  OBVIOUS
  <2>6. BoundTypes'  OBVIOUS
  <2> QED
    BY <2>1, <2>2, <2>3, <2>4, <2>5, <2>6
<1>3. ASSUME NEW d \in Dids, ClaimCheck(d) PROVE TypeOK'
  <2> USE <1>3 DEF ClaimCheck, Unclaimed, durable
  <2>1. ConfigTypes'  OBVIOUS
  <2>2. OwnerTypes'  OBVIOUS
  <2>3. CrudTypes'  OBVIOUS
  <2>4. ClaimTypes'
    <3> HIDE DEF TypeOK, ConfigTypes, OwnerTypes, CrudTypes, FlagTypes, BoundTypes
    <3>1. ClaimTypes /\ FlagTypes
      BY DEF TypeOK
    <3> QED
      BY <3>1 DEF FlagTypes
  <2>5. FlagTypes'  OBVIOUS
  <2>6. BoundTypes'  OBVIOUS
  <2> QED
    BY <2>1, <2>2, <2>3, <2>4, <2>5, <2>6
<1>4. ASSUME NEW d \in Dids, ClaimOwn(d) PROVE TypeOK'
  BY <1>4 DEF ClaimOwn, durable, auxVars
<1>5. ASSUME NEW d \in Dids, ClaimGrant(d) PROVE TypeOK'
  BY <1>5 DEF ClaimGrant, durable, auxVars
<1>6. CASE Publish \/ PublishSettles
  <2> USE <1>6 DEF Publish, PublishSettles, process, auxVars
  <2>1. ConfigTypes'  OBVIOUS
  <2>2. OwnerTypes'  OBVIOUS
  <2>3. CrudTypes'  OBVIOUS
  <2>4. ClaimTypes'  OBVIOUS
  <2>5. FlagTypes'  OBVIOUS
  <2>6. BoundTypes'  OBVIOUS
  <2> QED
    BY <2>1, <2>2, <2>3, <2>4, <2>5, <2>6
<1>7. ASSUME NEW d \in Dids, ClaimPersist(d) PROVE TypeOK'
  <2> USE <1>7 DEF ClaimPersist
  <2>1. ConfigTypes'  OBVIOUS
  <2>2. OwnerTypes'  OBVIOUS
  <2>3. CrudTypes'  OBVIOUS
  <2>4. ClaimTypes'  OBVIOUS
  <2>5. FlagTypes'  OBVIOUS
  <2>6. BoundTypes'  OBVIOUS
  <2> QED
    BY <2>1, <2>2, <2>3, <2>4, <2>5, <2>6
<1>8. CASE RpcBegin
  BY <1>8 DEF RpcBegin, durable, auxVars
<1>9. CASE RpcEnd
  BY <1>9 DEF RpcEnd, durable, auxVars
<1>10. ASSUME NEW d \in Dids, CrudBegin(d) PROVE TypeOK'
  <2> USE <1>10 DEF CrudBegin, Gate, CrudGuard, Requested, durable
  <2>1. ConfigTypes'  OBVIOUS
  <2>2. OwnerTypes'  OBVIOUS
  <2>3. CrudTypes'  OBVIOUS
  <2>4. ClaimTypes'  OBVIOUS
  <2>5. FlagTypes'  OBVIOUS
  <2>6. BoundTypes'  OBVIOUS
  <2> QED
    BY <2>1, <2>2, <2>3, <2>4, <2>5, <2>6
<1>11. CASE CrudWrite
  <2> USE <1>11 DEF CrudWrite, Synced, durable
  <2>1. ConfigTypes'  OBVIOUS
  <2>2. OwnerTypes'  OBVIOUS
  <2>3. CrudTypes'  OBVIOUS
  <2>4. ClaimTypes'  OBVIOUS
  <2>5. FlagTypes'  OBVIOUS
  <2>6. BoundTypes'  OBVIOUS
  <2> QED
    BY <2>1, <2>2, <2>3, <2>4, <2>5, <2>6
<1>12. CASE CrudSwapAcl
  <2> USE <1>12 DEF CrudSwapAcl, durable, auxVars
  <2>1. ConfigTypes'  OBVIOUS
  <2>2. OwnerTypes'  OBVIOUS
  <2>3. CrudTypes'  OBVIOUS
  <2>4. ClaimTypes'  OBVIOUS
  <2>5. FlagTypes'  OBVIOUS
  <2>6. BoundTypes'  OBVIOUS
  <2> QED
    BY <2>1, <2>2, <2>3, <2>4, <2>5, <2>6
<1>13. CASE CrudSetKey
  <2> USE <1>13 DEF CrudSetKey, auxVars
  <2>1. ConfigTypes'  OBVIOUS
  <2>2. OwnerTypes'  OBVIOUS
  <2>3. CrudTypes'  OBVIOUS
  <2>4. ClaimTypes'  OBVIOUS
  <2>5. FlagTypes'  OBVIOUS
  <2>6. BoundTypes'  OBVIOUS
  <2> QED
    BY <2>1, <2>2, <2>3, <2>4, <2>5, <2>6
<1>14. CASE UNCHANGED vars
  BY <1>14 DEF vars, durable, process, auxVars
<1> QED
  BY <1>1, <1>2, <1>3, <1>4, <1>5, <1>6, <1>7, <1>8, <1>9, <1>10, <1>11, <1>12,
     <1>13, <1>14
     DEF Next, Claim, MainLoop

\* No step hands power to somebody without authority: claims were accepted while the
\* runtime had no owner, requests passed the gate.
LEMMA GivenStep ==
    ASSUME TypeOK, Given, [Next]_vars
    PROVE  Given'
<1> USE DEF Given, AuthorityIsGiven, ListOf, Accepted, Manifests, Idle,
      TypeOK, ConfigTypes, OwnerTypes, CrudTypes, ClaimTypes, FlagTypes, BoundTypes
<1>1. CASE Start
  BY <1>1 DEF Start, BootAcl, durable
<1>2. CASE Stop
  BY <1>2 DEF Stop, NoClaim, NoManifest, durable
<1>3. ASSUME NEW d \in Dids, ClaimCheck(d) PROVE Given'
  <2> USE <1>3 DEF ClaimCheck, Unclaimed, durable
  <2>1. authority \subseteq authority' /\ owners' = owners /\ acl' = acl
    OBVIOUS
  <2>2. \A e \in Dids : e # d => claim'[e] = claim[e]
    OBVIOUS
  <2>3. Accepted(d)' => d \in authority'
    OBVIOUS
  <2> QED
    BY <2>1, <2>2, <2>3
<1>4. ASSUME NEW d \in Dids, ClaimOwn(d) PROVE Given'
  BY <1>4 DEF ClaimOwn, durable, auxVars
<1>5. ASSUME NEW d \in Dids, ClaimGrant(d) PROVE Given'
  BY <1>5 DEF ClaimGrant, durable, auxVars
<1>6. CASE Publish \/ PublishSettles
  BY <1>6 DEF Publish, PublishSettles, process, auxVars
<1>7. ASSUME NEW d \in Dids, ClaimPersist(d) PROVE Given'
  BY <1>7 DEF ClaimPersist
<1>8. CASE RpcBegin
  BY <1>8 DEF RpcBegin, durable, auxVars
<1>9. CASE RpcEnd
  BY <1>9 DEF RpcEnd, durable, auxVars
<1>10. ASSUME NEW d \in Dids, CrudBegin(d) PROVE Given'
  BY <1>10 DEF CrudBegin, Gate, CrudGuard, Requested, durable
<1>11. CASE CrudWrite
  <2> USE <1>11 DEF CrudWrite, Synced, durable
  <2>1. crud'.pc # "write"
    OBVIOUS
  <2> QED
    BY <2>1
<1>12. CASE CrudSwapAcl
  BY <1>12 DEF CrudSwapAcl, durable, auxVars
<1>13. CASE CrudSetKey
  BY <1>13 DEF CrudSetKey, auxVars
<1>14. CASE UNCHANGED vars
  BY <1>14 DEF vars, durable, process, auxVars
<1> QED
  BY <1>1, <1>2, <1>3, <1>4, <1>5, <1>6, <1>7, <1>8, <1>9, <1>10, <1>11, <1>12,
     <1>13, <1>14
     DEF Next, Claim, MainLoop

\* The list of owners and their grants survive every step that is not a CRUD write.
LEMMA HeldStep ==
    ASSUME TypeOK, Held, [Next]_vars
    PROVE  Held'
<1> USE DEF Held, Phases, NoLateClaim, OwnersAreGranted, Accepted, Idle,
      TypeOK, ConfigTypes, OwnerTypes, CrudTypes, ClaimTypes, FlagTypes, BoundTypes
<1>1. CASE Start
  BY <1>1 DEF Start, BootAcl, durable
<1>2. CASE Stop
  BY <1>2 DEF Stop, NoClaim, durable
<1>3. ASSUME NEW d \in Dids, ClaimCheck(d) PROVE Held'
  BY <1>3 DEF ClaimCheck, Unclaimed, durable
<1>4. ASSUME NEW d \in Dids, ClaimOwn(d) PROVE Held'
  BY <1>4 DEF ClaimOwn, durable, auxVars
<1>5. ASSUME NEW d \in Dids, ClaimGrant(d) PROVE Held'
  BY <1>5 DEF ClaimGrant, durable, auxVars
<1>6. CASE Publish \/ PublishSettles
  BY <1>6 DEF Publish, PublishSettles, process, auxVars
<1>7. ASSUME NEW d \in Dids, ClaimPersist(d) PROVE Held'
  BY <1>7 DEF ClaimPersist
<1>8. CASE RpcBegin
  BY <1>8 DEF RpcBegin, durable, auxVars
<1>9. CASE RpcEnd
  BY <1>9 DEF RpcEnd, durable, auxVars
<1>10. ASSUME NEW d \in Dids, CrudBegin(d) PROVE Held'
  BY <1>10 DEF CrudBegin, Gate, CrudGuard, Requested, durable
<1>11. CASE CrudWrite
  BY <1>11 DEF CrudWrite, Synced, durable
<1>12. CASE CrudSwapAcl
  BY <1>12 DEF CrudSwapAcl, durable, auxVars
<1>13. CASE CrudSetKey
  BY <1>13 DEF CrudSetKey, auxVars
<1>14. CASE UNCHANGED vars
  BY <1>14 DEF vars, durable, process, auxVars
<1> QED
  BY <1>1, <1>2, <1>3, <1>4, <1>5, <1>6, <1>7, <1>8, <1>9, <1>10, <1>11, <1>12,
     <1>13, <1>14
     DEF Next, Claim, MainLoop

\* The first start finds all of this established.
LEMMA InitInv == Init => Inv
<1> SUFFICES ASSUME Init PROVE Inv
  OBVIOUS
<1> USE OwnershipAssumption DEF Init, NoClaim, Idle
<1>1. ConfigTypes /\ BoundTypes
  BY DEF ConfigTypes, BoundTypes, NoManifest, Manifests
<1>2. OwnerTypes /\ FlagTypes
  BY DEF OwnerTypes, FlagTypes
<1>3. CrudTypes
  BY DEF CrudTypes
<1>4. ClaimTypes
  BY DEF ClaimTypes
<1>5. Given
  BY DEF Given, AuthorityIsGiven, ListOf, NoManifest, Accepted
<1>6. Held
  BY DEF Held, Phases, NoLateClaim, OwnersAreGranted
<1> QED
  BY <1>1, <1>2, <1>3, <1>4, <1>5, <1>6 DEF Inv, TypeOK

\* The inductive invariant holds throughout.
LEMMA Always == Spec => []Inv
<1>1. Inv /\ [Next]_vars => Inv'
  BY TypeStep, GivenStep, HeldStep DEF Inv
<1> QED
  BY InitInv, <1>1, PTL DEF Spec

\* stats.owners stays a list of DIDs, whatever CRUD writes into the manifest.
THEOREM TypeCorrect == Spec => []TypeOK
<1>1. Inv => TypeOK
  BY DEF Inv
<1> QED
  BY Always, <1>1, PTL

\* Power over the runtime is only held by those who were entitled to it.
THEOREM AuthorityNeedsAuthority == Spec => []AuthorityIsGiven
<1>1. Inv => AuthorityIsGiven
  BY DEF Inv, Given
<1> QED
  BY Always, <1>1, PTL

\* Once a claim was answered, later ones get a conflict until CRUD writes the
\* manifest.
THEOREM LateClaimsConflict == Spec => []NoLateClaim
<1>1. Inv => NoLateClaim
  BY DEF Inv, Held
<1> QED
  BY Always, <1>1, PTL

\* Until CRUD first writes the manifest, every owner has a grant in the live ACL.
THEOREM OwnersPassTheAcl == Spec => []OwnersAreGranted
<1>1. Inv => OwnersAreGranted
  BY DEF Inv, Held
<1> QED
  BY Always, <1>1, PTL

\* The main loop never waits for a guard it holds: CRUD swaps the live ACL when no
\* handler reads it, and who waits for his grant waits for an RPC or IPFS handler of a
\* runtime that is up, which waits for no guard. Every claim is answered because of this
\* (main.rs's CRUD branch works on a snapshot of the ACL).
THEOREM WritersGetIn ==
    Spec => [](/\ crud.pc \in {"write", "swap", "key"} => ~guard
               /\ \A d \in Dids : claim[d].pc = "owner" /\ guard => up /\ crud = Idle)
<1>1. Inv => /\ crud.pc \in {"write", "swap", "key"} => ~guard
             /\ \A d \in Dids : claim[d].pc = "owner" /\ guard => up /\ crud = Idle
  BY DEF Inv, Held, Phases, Idle
<1> QED
  BY Always, <1>1, PTL

\* What costs config.yaml its owners is a daemon key that is set in the process that was
\* claimed: a process that found owners there, or a later one, never leaves it without
\* (persist_owners_to_config, and CRUD's save of shared_config).
THEOREM ConfiguredOwnersStay == Spec => [](mem # {} => file # {})
<1>1. Inv => (mem # {} => file # {})
  BY DEF Inv, Held, Phases
<1> QED
  BY Always, <1>1, PTL

----
(* The refinement of Power *)

\* Who is in the middle of a claim, after a step of d's own.
LEMMA ClaimingSteps ==
    ASSUME TypeOK, NEW d \in Dids
    PROVE  /\ Claim(d) => Claiming' \subseteq Claiming /\ d \in Claiming
           /\ ClaimCheck(d) =>
                IF owners = {} THEN Claiming' = Claiming \union {d}
                ELSE Claiming' \subseteq Claiming
<1> USE DEF TypeOK, ClaimTypes, Claiming
<1>1. ASSUME Claim(d)
      PROVE  Claiming' \subseteq Claiming /\ d \in Claiming
  BY <1>1 DEF Claim, ClaimOwn, ClaimGrant, ClaimPersist
<1>2. ASSUME ClaimCheck(d), owners = {}
      PROVE  Claiming' = Claiming \union {d}
  BY <1>2 DEF ClaimCheck, Unclaimed
<1>3. ASSUME ClaimCheck(d), owners # {}
      PROVE  Claiming' \subseteq Claiming
  BY <1>3 DEF ClaimCheck, Unclaimed
<1> QED
  BY <1>1, <1>2, <1>3

\* Who lasting copies and live ones name changes with these copies only.
LEMMA SameHolders ==
    /\ UNCHANGED durable => UNCHANGED Lasting
    /\ UNCHANGED <<owners, acl, mem, manifest, Writing>> => UNCHANGED Live
<1>1. ASSUME UNCHANGED durable PROVE UNCHANGED Lasting
  BY <1>1 DEF durable, Lasting, Named, ListOf
<1>2. ASSUME UNCHANGED <<owners, acl, mem, manifest, Writing>> PROVE UNCHANGED Live
  BY <1>2 DEF Live, Named, ListOf
<1> QED
  BY <1>1, <1>2

\* Seen from Power, the check of a claim on a runtime without owners is Claim, an accepted
\* CRUD request is Name, and every other step loses power or leaves it.
LEMMA PowerStep ==
    ASSUME TypeOK, [Next]_vars
    PROVE  Rights!Next
<1> USE DEF Holders
<1>0. Holders' \subseteq Holders \union Claiming /\ Claiming' \subseteq Claiming => Rights!Next
  BY DEF Rights!Next, Rights!Settle
<1>1. CASE Start
  <2>1. acl' \subseteq published.acl \union file
    BY <1>1 DEF Start, BootAcl
  <2>2. /\ owners' = file /\ mem' = file /\ manifest' = published
        /\ UNCHANGED <<durable, Claiming, Writing>>
    BY <1>1 DEF Start, Claiming, Writing
  <2>3. Named(manifest)' = Named(published)
    BY <2>2 DEF Named, ListOf
  <2>4. Live' \subseteq Holders
    BY <2>1, <2>2, <2>3 DEF Live, Lasting, Named
  <2> QED
    BY <1>0, <2>2, <2>4, SameHolders
<1>2. CASE Stop
  <2>1. Claiming' = {} /\ Writing' = {} /\ UNCHANGED durable
    BY <1>2 DEF Stop, Claiming, Writing, NoClaim, Idle
  <2>2. Live' = {}
    BY <1>2, <2>1 DEF Stop, Live, Named, ListOf, NoManifest
  <2> QED
    BY <1>0, <2>1, <2>2, SameHolders
<1>3. CASE Publish
  <2>1. UNCHANGED <<owners, acl, mem, manifest, Writing, file, published, Claiming>>
    BY <1>3 DEF Publish, process, Writing, Claiming
  <2>2. Named(published)' = Named(published) /\ \A m : Named(m)' = Named(m)
    BY <2>1 DEF Named, ListOf
  <2>3. Lasting' \subseteq Lasting \union Named(manifest)
    BY <1>3, <2>1, <2>2 DEF Publish, Lasting
  <2> QED
    BY <1>0, <2>1, <2>3, SameHolders DEF Live
<1>4. CASE PublishSettles
  <2>1. UNCHANGED <<owners, acl, mem, manifest, Writing, file, Claiming>>
    BY <1>4 DEF PublishSettles, process, Writing, Claiming
  <2>2. PICK m \in sent : sent' = sent \ {m} /\ published' \in {published, m}
    BY <1>4 DEF PublishSettles
  <2>3. Named(published)' \in {Named(published), Named(m)} /\ \A n : Named(n)' = Named(n)
    BY <2>2 DEF Named, ListOf
  <2>4. Lasting' \subseteq Lasting
    BY <2>1, <2>2, <2>3 DEF Lasting
  <2> QED
    BY <1>0, <2>1, <2>4, SameHolders
<1>5. ASSUME NEW d \in Dids, ClaimCheck(d)
      PROVE  Rights!Next
  <2>1. UNCHANGED <<owners, acl, mem, manifest, Writing, durable>>
    BY <1>5 DEF ClaimCheck, Writing
  <2>2. UNCHANGED Holders
    BY <2>1, SameHolders
  <2>3. CASE owners = {}
    <3>1. Claiming' = Claiming \union {d}
      BY <1>5, <2>3, ClaimingSteps
    <3>2. UNCHANGED (owners = {})
      BY <2>1
    <3>3. Rights!Claim(d)
      BY <2>2, <2>3, <3>1, <3>2 DEF Rights!Claim
    <3> QED
      BY <3>3 DEF Rights!Next
  <2>4. CASE owners # {}
    <3>1. Claiming' \subseteq Claiming
      BY <1>5, <2>4, ClaimingSteps
    <3> QED
      BY <1>0, <2>2, <3>1
  <2> QED
    BY <2>3, <2>4
<1>6. ASSUME NEW d \in Dids, Claim(d)
      PROVE  Rights!Next
  <2>1. Claiming' \subseteq Claiming /\ d \in Claiming
    BY <1>6, ClaimingSteps
  <2>2. /\ owners' \subseteq owners \union {d} /\ acl' \subseteq acl \union {d}
        /\ file' \subseteq file \union {d}
        /\ UNCHANGED <<mem, manifest, Writing, published, sent>>
    BY <1>6 DEF Claim, ClaimOwn, ClaimGrant, ClaimPersist, durable, Writing
  <2>3. Named(manifest)' = Named(manifest)
    BY <2>2 DEF Named, ListOf
  <2>4. Live' \subseteq Live \union {d}
    BY <2>2, <2>3 DEF Live
  <2>5. Named(published)' = Named(published) /\ \A n : Named(n)' = Named(n)
    BY <2>2 DEF Named, ListOf
  <2>6. Lasting' \subseteq Lasting \union {d}
    BY <2>2, <2>5 DEF Lasting
  <2> QED
    BY <1>0, <2>1, <2>4, <2>6
<1>7. CASE RpcBegin \/ RpcEnd \/ UNCHANGED vars
  <2>1. UNCHANGED <<owners, acl, mem, manifest, Writing, durable, Claiming>>
    BY <1>7 DEF RpcBegin, RpcEnd, vars, process, Claiming, Writing
  <2> QED
    BY <1>0, <2>1, SameHolders
<1>8. ASSUME NEW d \in Dids, CrudBegin(d)
      PROVE  Rights!Next
  <2>1. UNCHANGED <<owners, acl, mem, manifest, durable, Claiming>> /\ d \in Holders
    BY <1>8 DEF CrudBegin, Gate, Claiming, Live
  <2>2. Writing = {} /\ Named(manifest)' = Named(manifest)
    BY <1>8, <2>1 DEF CrudBegin, Writing, Idle, Named, ListOf
  <2>3. Live' = Live \union Writing'
    BY <2>1, <2>2 DEF Live
  <2>4. CASE crud' = [pc |-> "key"]
    <3>1. Writing' = {}
      BY <2>4 DEF Writing
    <3> QED
      BY <1>0, <2>1, <2>3, <3>1, SameHolders
  <2>5. ASSUME NEW m \in Manifests, NEW swap \in BOOLEAN, NEW named \in SUBSET Dids,
               Requested(m, swap, named), crud' = [pc |-> "write", to |-> m, swap |-> swap]
        PROVE  Rights!Next
    <3>1. Writing' = Named(m)
      BY <2>5 DEF Writing, Named, ListOf
    <3>2. Named(m) \subseteq Named(manifest) \union named /\ named \subseteq Named(m)
      BY <2>5 DEF Requested, Named, ListOf, Manifests
    <3>3. Live' = Live \union named
      BY <2>3, <3>1, <3>2 DEF Live
    <3>4. UNCHANGED (owners = {}) /\ UNCHANGED Claiming /\ UNCHANGED Lasting
      BY <2>1, SameHolders
    <3>5. Rights!Name(d, named)
      BY <2>1, <3>3, <3>4 DEF Rights!Name
    <3> QED
      BY <3>5 DEF Rights!Next
  <2> QED
    BY <1>8, <2>4, <2>5 DEF CrudBegin
<1>9. CASE CrudWrite
  <2>1. UNCHANGED <<acl, mem, durable, Claiming>> /\ Writing' \subseteq Writing
    BY <1>9 DEF CrudWrite, Claiming, Writing, Idle, Named, ListOf
  <2>2. Writing = Named(crud.to)
    BY <1>9 DEF CrudWrite, Writing
  <2>3. \/ UNCHANGED <<manifest, owners>>
        \/ manifest' = crud.to /\ owners' = Synced(crud.to)
    BY <1>9 DEF CrudWrite
  <2>4. owners' \subseteq owners \union Writing
    BY <2>2, <2>3 DEF Synced, Named, ListOf
  <2>5. Named(manifest)' \subseteq Named(manifest) \union Writing
    BY <2>2, <2>3 DEF Named, ListOf
  <2>6. Live' \subseteq Live
    BY <2>1, <2>4, <2>5 DEF Live
  <2> QED
    BY <1>0, <2>1, <2>6, SameHolders
<1>10. CASE CrudSwapAcl
  <2>1. UNCHANGED <<owners, mem, manifest, durable, Claiming>> /\ Writing' = {}
    BY <1>10 DEF CrudSwapAcl, Claiming, Writing, Idle
  <2>2. acl' \subseteq Writing /\ Named(manifest)' = Named(manifest)
    BY <1>10, <2>1 DEF CrudSwapAcl, Writing, Named, ListOf
  <2>3. Live' \subseteq Live
    BY <2>1, <2>2 DEF Live
  <2> QED
    BY <1>0, <2>1, <2>3, SameHolders
<1>11. CASE CrudSetKey
  <2>1. UNCHANGED <<owners, acl, mem, manifest, published, sent, Claiming>> /\ Writing' = {}
    BY <1>11 DEF CrudSetKey, Claiming, Writing, Idle
  <2>2. Named(manifest)' = Named(manifest) /\ Named(published)' = Named(published)
        /\ \A n : Named(n)' = Named(n)
    BY <2>1 DEF Named, ListOf
  <2>3. Live' \subseteq Live
    BY <2>1, <2>2 DEF Live
  <2>4. file' \in {file, mem}
    BY <1>11 DEF CrudSetKey
  <2>5. Lasting' \subseteq Lasting \union mem
    BY <2>1, <2>2, <2>4 DEF Lasting
  <2> QED
    BY <1>0, <2>1, <2>3, <2>5 DEF Live
<1> QED
  BY <1>1, <1>2, <1>3, <1>4, <1>5, <1>6, <1>7, <1>8, <1>9, <1>10, <1>11
     DEF Next, MainLoop

\* Ownership implements Power: power over the runtime comes from a claim while it has no
\* owners, or from someone who has power then, whichever of the copies it rests on and
\* however claims, CRUD requests, saves, crashes and starts follow each other.
THEOREM PowerComesFromPower == Spec => PowerIsHandedOn
<1>1. Init => Rights!Init
  BY OwnershipAssumption
     DEF Init, Rights!Init, Holders, Live, Lasting, Claiming, Writing, Named, ListOf, NoClaim,
         NoManifest, Idle
<1>2. TypeOK /\ [Next]_vars => [Rights!Next]_Rights!vars
  BY PowerStep
<1> QED
  BY TypeCorrect, <1>1, <1>2, PTL DEF Spec, PowerIsHandedOn, Rights!Spec

====
