------------------------- MODULE RuntimeProvisioning -------------------------
(***************************************************************************)
(* What the Runtime FSM promises about provisioning one Runtime, without  *)
(* its lookups, conditions or queue (spec, state table and failure        *)
(* semantics). Whether the desired state is refused (no seed in its       *)
(* region, no audit-log data when it is mandatory, invalid labels) is a   *)
(* property of the desired state. Provisioning ends in a decision that    *)
(* agrees with it: a terminal stop of a refused desired state, or a Shoot  *)
(* created for an accepted one, which then becomes ready. Transient       *)
(* failures are not visible here: a retry is a stutter. The watch         *)
(* delivers events at least once, so a stopped Runtime may be run again   *)
(* without a change; it is then decided again, the same way. A change of *)
(* the desired state may change the verdict, and reopens a stopped        *)
(* Runtime; it does not undo a created Shoot.                              *)
(***************************************************************************)
EXTENDS Naturals

VARIABLES
    phase,       \* "Provisioning", "Stopped", "Creating" or "Ready"
    generation,  \* how often the desired state was changed
    refused      \* the current desired state is refused by the policy

pvars == <<phase, generation, refused>>

Phases == {"Provisioning", "Stopped", "Creating", "Ready"}

Init == phase = "Provisioning" /\ generation = 0 /\ refused \in BOOLEAN

(* The step decides, as the verdict on the desired state says.            *)
Decide ==
    /\ phase = "Provisioning"
    /\ phase' = IF refused THEN "Stopped" ELSE "Creating"
    /\ UNCHANGED <<generation, refused>>

(* The created Shoot is ready.                                             *)
Complete ==
    /\ phase = "Creating"
    /\ phase' = "Ready"
    /\ UNCHANGED <<generation, refused>>

(* An event for the unchanged desired state runs a stopped Runtime again. *)
Reconsider ==
    /\ phase = "Stopped"
    /\ phase' = "Provisioning"
    /\ UNCHANGED <<generation, refused>>

(* The desired state changes; only a stopped Runtime is reconsidered.     *)
ChangeSpec ==
    /\ generation' = generation + 1
    /\ refused' \in BOOLEAN
    /\ phase' = IF phase = "Stopped" THEN "Provisioning" ELSE phase

Next == Decide \/ Complete \/ Reconsider \/ ChangeSpec

SafetySpec == Init /\ [][Next]_pvars

(* Provisioning is decided and a created Shoot becomes ready.              *)
Spec == SafetySpec /\ WF_pvars(Decide) /\ WF_pvars(Complete)

=============================================================================
