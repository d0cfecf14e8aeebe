---------------------------- MODULE MCAgentMemory ----------------------------
(* Two genes of two domains; three keys: one for the policies, one for the   *)
(* retentions, one that only takes room.                                     *)
EXTENDS AgentMemory, TLC

CONSTANTS a, b
Domains == a :> "x" @@ b :> "y"
Open == [read |-> "ALL_GENES", write |-> "ALL_GENES"]
Closed == [read |-> "ALL_GENES", write |-> "CREATOR_GENE_ONLY"]

Asks(genes, k, sizes, cats, policies, rets) ==
  [gene : genes, key : {k}, size : sizes, cat : cats, policy : policies, ret : rets]

MCRequests ==
  Asks({a, b}, 1, {1}, {"CACHE"}, {Unchanged, Open}, {Omitted})
  \cup Asks({a}, 1, {1}, {"PREFERENCE"}, {Unchanged}, {Omitted})
  \cup Asks({a}, 2, {1, 2}, {"PATTERN"}, {Unchanged}, {Omitted, 1})
  \cup Asks({b}, 3, {1, 2}, {"PATTERN", "CONTEXT"}, {Unchanged}, {Omitted, Unlimited})
  \cup Asks({b}, 1, {1}, {"CACHE"}, {Closed}, {Omitted})
  \cup Asks({b}, 2, {1}, {"PATTERN"}, {Unchanged, Deployer}, {Inherit})

Symmetries == Permutations(Runs)
=============================================================================
