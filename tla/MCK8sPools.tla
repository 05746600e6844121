----------------------------- MODULE MCK8sPools -----------------------------
(* Small instances of K8sPools: all lists of one or two pools. *)
EXTENDS K8sPools, TLC

ListsUpToTwo ==
  {<<p>> : p \in Pools} \cup
  {<<p, q>> : <<p, q>> \in {<<p, q>> \in Pools \X Pools : p.name # q.name}}

Renamings == Permutations(Names) \cup Permutations(Flavors) \cup Permutations(Sizes)
=============================================================================
