---- MODULE MCOwnership ----
(* Principals of Ownership as model values. *)
EXTENDS Ownership
CONSTANTS ann, bob
====
