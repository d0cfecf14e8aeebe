-------------------------- MODULE MCBootstrapKeeper --------------------------
(* Two addresses, the second with its PeerId; one identity more to restart   *)
(* under.                                                                    *)
EXTENDS BootstrapKeeper, TLC

CONSTANTS n1, n2, n3
MCHosts == 0 :> n1 @@ 1 :> n2
MCConfigured == 0 :> Unknown @@ 1 :> n2
=============================================================================
