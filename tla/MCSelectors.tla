---------------------------- MODULE MCSelectors -----------------------------
(***************************************************************************)
(* Constants of Selectors for model checking.                              *)
(***************************************************************************)
EXTENDS Selectors

Meta(empty, shown, w, d) == [empty |-> empty, shown |-> shown, weight |-> w, distance |-> d]

\* No metadata, which is weight 1, two weights of which one is 0, and a server that is filtered out.
MCMetas == {Meta(TRUE, TRUE, {}, {}), Meta(FALSE, TRUE, {3}, {1}), Meta(FALSE, TRUE, {0}, {2}),
            Meta(FALSE, FALSE, {3}, {1})}
MCModes == {"RandomSelect", "RoundRobin", "WeightedRoundRobin", "WeightedICMP", "ConsistentHash", "Closest"}
=============================================================================
