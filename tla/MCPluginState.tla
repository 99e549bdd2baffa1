---- MODULE MCPluginState ----
(* States and scheduled jobs of PluginState as model values. *)
EXTENDS PluginState, TLC
CONSTANTS s0, s1, s2, j1, j2

\* Fresh apart, states are alike, and so are jobs.
Alike == Permutations(States \ {Fresh}) \union Permutations(Jobs)
====
