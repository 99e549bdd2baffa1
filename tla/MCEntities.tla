---- MODULE MCEntities ----
(* Entities, an ACL name and a caller of Entities as model values. *)
EXTENDS Entities, TLC
CONSTANTS a, b, acl, u

\* Entities are alike.
Alike == Permutations(Names)
====
