------------------------ MODULE MCRuntimeCreateShoot ------------------------
(***************************************************************************)
(* RuntimeCreateShoot for TLC: two regions, AWS and OpenStack, and every  *)
(* Runtime spec over them.                                                  *)
(***************************************************************************)
EXTENDS RuntimeCreateShoot, TLC

CONSTANTS r1, r2, aws, openstack

MCRegions == {r1, r2}

MCProviders == {aws, openstack}

MCRuntimeSpecs == RuntimeSpec

(* The specs whose only possible stop is SeedNotFound: the seed location  *)
(* is enforced and the labels are valid (audit logging is optional).      *)
MCSeedStopSpecs == {r \in RuntimeSpec : r.enforceSeed /\ r.labelsValid}

(* Regions are interchangeable: every spec and every environment over one *)
(* has its image over the other.                                           *)
MCSymmetry == Permutations(MCRegions)

=============================================================================
