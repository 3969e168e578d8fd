---------------------------- MODULE MCResourcePool ----------------------------
(* One user of high and two of low priority compete for a pool of one or two *)
(* resources; the second is added and removed by its owner.                  *)
EXTENDS ResourcePool
CONSTANTS high, low1, low2, owner, r1, r2
MCUser == {high, low1, low2}
MCOwner == {owner}
MCPriority == [t \in MCUser |-> IF t = high THEN 10 ELSE 1]
MCInitial == <<r1>>
MCOwned == [t \in MCOwner |-> r2]
=============================================================================
