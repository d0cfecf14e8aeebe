------------------------------ MODULE MCTryPool ------------------------------
(* Two domains, of three genes and of one, for the order of the tries; one *)
(* domain of two for processes side by side; and what `init`, `compile`,   *)
(* `install` and an editor leave on disk: all of it, or, for the processes *)
(* side by side, a gene that runs and one whose import throws.             *)
EXTENDS TryPool
OneDomain == {"x"}
TwoGenes == [d \in OneDomain |-> <<"a", "b">>]
TwoDomains == {"x", "y"}
FourInTwo == [d \in TwoDomains |-> IF d = "x" THEN <<"a", "b", "c">> ELSE <<"d">>]
Source(s) == [wasm |-> FALSE, external |-> FALSE, l0 |-> "pass", source |-> s]
MCBroken == {Source("express"), Source("throws")}
MCSetups == {Source("express"), Source("throws"),
             [Source("express") EXCEPT !.external = TRUE],
             [wasm |-> TRUE, external |-> TRUE, l0 |-> "violation", source |-> "other"]}
=============================================================================
