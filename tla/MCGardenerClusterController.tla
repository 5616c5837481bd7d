-------------------- MODULE MCGardenerClusterController --------------------
(***************************************************************************)
(* Model-checking instance of GardenerClusterController: two CRs, each     *)
(* naming its own shoot and its own Secret, both carrying the shoot-name  *)
(* label, as the provisioner creates them.                                 *)
(***************************************************************************)
EXTENDS GardenerClusterController

CONSTANTS c1, c2, s1, s2, k1, k2

MCClusters == {c1, c2}
MCShoots == {s1, s2}
MCSecretNames == {k1, k2}
MCShootOf == [c \in Clusters |-> IF c = c1 THEN s1 ELSE s2]
MCSecretOf == [c \in Clusters |-> IF c = c1 THEN k1 ELSE k2]

(* Two CRs naming the same shoot, each with its own Secret.              *)
MCSharedShootOf == [c \in Clusters |-> s1]

(* One CR only, for the runs whose time bound makes two too many.         *)
MCOneCluster == {c1}

(* No CR carries the shoot-name label.                                    *)
MCNoneLabelled == {}
=============================================================================
