---- MODULE MCRuntimeHead ----
(* Model values for the manifests of RuntimeHead. *)
EXTENDS RuntimeHead
CONSTANTS c0, c1
====
