---- MODULE Acl ----
(***************************************************************************)
(* How an entity's ACL decides about one caller: check_full with           *)
(* query_actor_group as its resolver.                                      *)
(*                                                                         *)
(* The document is a copy taken before the check. Its entries for the      *)
(* caller and for "*" are looked at in one go; then each group entry is    *)
(* put to the entity that keeps the group, one await after the other,      *)
(* while scheduled calls go on changing who is in the groups.              *)
(*                                                                         *)
(* Simplifications:                                                        *)
(* - an entry that allows capabilities admits the caller (it has the verb  *)
(*   or "*") or allows other things only;                                  *)
(* - there is one caller, already normalized; the "#" entry for callers of *)
(*   this runtime, which ma_core resolves, is left out;                    *)
(* - groups are numbered in the order of their keys. A group that no       *)
(*   loaded entity keeps, or whose key is not of the form "+#<fragment>"   *)
(*   ("+owners" is not), never answers.                                    *)
(***************************************************************************)
EXTENDS Naturals

CONSTANT Groups  \* the group entries a document may have

ASSUME GroupsAssumption == Groups \subseteq Nat

VARIABLES
    member,  \* groups the caller is in
    acl,     \* the document being checked
    step,    \* where the check is
    todo,    \* groups still to be asked in this step
    ever,    \* groups the caller was in at some time since the check began
    always,  \* groups the caller was in all the time since
    unheard  \* groups whose entity did not answer

vars == <<member, acl, step, todo, ever, always, unheard>>

----
Entries   == {"none", "deny", "admit", "other"}
Documents == [own : Entries, wild : Entries, group : [Groups -> Entries]]

Blank == [own |-> "none", wild |-> "none", group |-> [g \in Groups |-> "none"]]

\* The groups with an entry of one of the given kinds
With(kinds) == {g \in Groups : acl.group[g] \in kinds}

First(g) == g \in todo /\ \A h \in todo : g <= h

TypeOK ==
    /\ member \subseteq Groups /\ ever \subseteq Groups /\ always \subseteq Groups
    /\ unheard \subseteq Groups
    /\ acl \in Documents
    /\ step \in {"idle", "deny", "allow", "admitted", "refused"}
    /\ todo \subseteq Groups

Init ==
    /\ member \in SUBSET Groups
    /\ acl = Blank
    /\ step = "idle"
    /\ todo = {} /\ ever = member /\ always = member /\ unheard = {}

----
\* A scheduled call adds the caller to a group or removes it.
Change(g) ==
    /\ member' = IF g \in member THEN member \ {g} ELSE member \union {g}
    /\ ever' = ever \union member'
    /\ always' = always \intersect member'
    /\ UNCHANGED <<acl, step, todo, unheard>>

\* Step 1: the caller's own entry or the wildcard denies.
Denied(d) == d.own = "deny" \/ d.wild = "deny"

GrantedByEither(d) == d.own = "admit" \/ d.wild = "admit"  \* faulty variant

\* Step 2: check_cap; the wildcard counts only for callers without an own entry.
Granted(d) == d.own = "admit" \/ (d.own = "none" /\ d.wild = "admit")

Begin(d) ==
    /\ step = "idle"
    /\ acl' = d
    /\ step' = IF Denied(d) THEN "refused" ELSE IF Granted(d) THEN "admitted" ELSE "deny"
    /\ todo' = IF step' = "deny" THEN {g \in Groups : d.group[g] = "deny"} ELSE {}
    /\ ever' = member /\ always' = member /\ unheard' = {}
    /\ UNCHANGED member

AnswersOnFailure(g, says) ==  \* faulty variant: a failed query counts as a member
    \/ says = (g \in member) /\ UNCHANGED unheard
    \/ says = TRUE /\ unheard' = unheard \union {g}

\* query_actor_group: what the entity says, or an error, which counts as "no".
Answers(g, says) ==
    \/ says = (g \in member) /\ UNCHANGED unheard
    \/ says = FALSE /\ unheard' = unheard \union {g}

DenialIgnored(says) ==  \* faulty variant: asks all groups before it looks
    UNCHANGED step

DenialHeeded(says) == step' = IF says THEN "refused" ELSE step

\* Step 3a
AskDenying(g) ==
    /\ step = "deny" /\ First(g)
    /\ \E says \in BOOLEAN : Answers(g, says) /\ DenialHeeded(says)
    /\ todo' = todo \ {g}
    /\ UNCHANGED <<member, acl, ever, always>>

NotDenied ==
    /\ step = "deny" /\ todo = {}
    /\ step' = "allow"
    /\ todo' = With({"admit", "other"})
    /\ UNCHANGED <<member, acl, ever, always, unheard>>

\* Step 3b: membership of the group and one of the capabilities
AskAllowing(g) ==
    /\ step = "allow" /\ First(g)
    /\ \E says \in BOOLEAN :
          /\ Answers(g, says)
          /\ step' = IF says /\ acl.group[g] = "admit" THEN "admitted" ELSE step
    /\ todo' = todo \ {g}
    /\ UNCHANGED <<member, acl, ever, always>>

NothingMatched ==
    /\ step = "allow" /\ todo = {}
    /\ step' = "refused"
    /\ UNCHANGED <<member, acl, todo, ever, always, unheard>>

\* The caller of check_full goes on with the verdict.
Done ==
    /\ step \in {"admitted", "refused"}
    /\ step' = "idle"
    /\ acl' = Blank
    /\ todo' = {} /\ ever' = member /\ always' = member /\ unheard' = {}
    /\ UNCHANGED member

Next ==
    \/ \E g \in Groups : Change(g) \/ AskDenying(g) \/ AskAllowing(g)
    \/ \E d \in Documents : Begin(d)
    \/ NotDenied \/ NothingMatched \/ Done

Spec == Init /\ [][Next]_vars

----
(* Properties *)

\* The entry that counts for the caller: his own before the wildcard
Direct(d) == IF d.own = "none" THEN d.wild ELSE d.own

\* What a document says about a caller who is in the groups m
Admits(d, m) ==
    /\ "deny" \notin {d.own, d.wild}
    /\ \/ Direct(d) = "admit"
       \/ /\ \E g \in m : d.group[g] = "admit"
          /\ \A g \in m : d.group[g] # "deny"

\* When every group answered and the caller's groups stayed as they were, the verdict
\* is what the document says, in whatever order its groups were asked (check_full).
VerdictFollowsRule ==
    step \in {"admitted", "refused"} /\ unheard = {} /\ ever = always =>
        (step = "admitted" <=> Admits(acl, member))

\* Nobody is admitted without a grant of his own or of a group he was in during the
\* check, whichever groups fail to answer (the unwrap_or_default of check_full).
AdmittedWasGranted ==
    step = "admitted" =>
        /\ "deny" \notin {acl.own, acl.wild}
        /\ Direct(acl) = "admit" \/ \E g \in ever : acl.group[g] = "admit"

\* A caller who was in a denying group throughout is not admitted by another group,
\* however his groups change meanwhile, as long as that group answers.
DenialHolds ==
    step = "admitted" /\ Direct(acl) # "admit" =>
        \A g \in always : acl.group[g] = "deny" => g \in unheard

====
