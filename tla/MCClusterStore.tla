--------------------------- MODULE MCClusterStore ---------------------------
(***************************************************************************)
(* Two masters, one of which may be moved between two clusters, and the    *)
(* whitelists that tell the code's cases apart: none, one cluster, both,   *)
(* and a cluster with no master under it.                                  *)
(***************************************************************************)
EXTENDS ClusterStore

CONSTANTS A, B, m1, m2

MCClusters == {A, B}
MCMasters == {m1, m2}

Whitelist(ofA, ofB, keys) ==
    [keys |-> keys, masters |-> [c \in MCClusters |-> IF c = A THEN ofA ELSE ofB]]

MCConfigs ==
    {Whitelist({}, {}, {}),
     Whitelist({m1, m2}, {}, {A}),
     Whitelist({m2}, {m1}, {A, B}),
     Whitelist({m1}, {}, {A, B})}

MCHomes == [m \in MCMasters |-> IF m = m1 THEN {A, B} ELSE {A}]

=============================================================================
