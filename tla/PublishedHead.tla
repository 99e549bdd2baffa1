---- MODULE PublishedHead ----
(***************************************************************************)
(* What the runtime promises about its durable name: the IPNS record of    *)
(* the runtime only ever points to a manifest that is stored in Kubo, and  *)
(* manifests are never taken back once stored. A restart therefore finds   *)
(* either no record or a manifest it can fetch.                            *)
(*                                                                         *)
(* RuntimeHead implements this with a write path (the main loop), two      *)
(* publishers (the periodic task and the shutdown branch) and requests     *)
(* that outlive their callers.                                             *)
(***************************************************************************)
CONSTANTS
    Cids,       \* every manifest CID there can be
    Overrides,  \* manifests generated before the first start
    NoCid       \* the name has no record

VARIABLES
    stored,     \* the manifests Kubo has
    name        \* what the runtime's IPNS name resolves to

vars == <<stored, name>>

Init ==
    /\ stored = Overrides
    /\ name = NoCid

Store ==
    /\ \E c \in Cids : stored' = stored \union {c}
    /\ UNCHANGED name

Repoint ==
    /\ name' \in stored
    /\ UNCHANGED stored

Next == Store \/ Repoint

Spec == Init /\ [][Next]_vars

====
