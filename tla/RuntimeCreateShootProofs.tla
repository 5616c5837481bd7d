---------------------- MODULE RuntimeCreateShootProofs ----------------------
(***************************************************************************)
(* Proofs about the create-shoot step for every set of regions, providers *)
(* and Runtime specs and every bound: type correctness, that every Shoot  *)
(* honours the checks of sFnCreateShoot, and that the step implements the *)
(* safety part of the abstract RuntimeProvisioning lifecycle, with        *)
(* transient failures and redelivered events.                             *)
(***************************************************************************)
EXTENDS RuntimeCreateShoot, TLAPS

USE RuntimeCreateShootAssumption

(* The Shoot that convertCreate builds from a Runtime spec is a Shoot.    *)
LEMMA ConvertCreateType ==
    ASSUME NEW r \in RuntimeSpecs
    PROVE  ConvertCreate(r) \in Shoot
BY DEF ConvertCreate, Shoot, AuditLogAvailable, ExtendWithExposureClassName,
       MaintenanceWindow

(* A stop or a requeue writes a condition and keeps the counter in range. *)
LEMMA StatusWriteType ==
    ASSUME TypeOK, NEW reason \in Reasons, NEW cond \in {"True", "False", "Unknown"}
    PROVE  /\ StopWith(reason) => status' \in Status /\ stops' \in 0..StopCap
           /\ RequeueWith(reason, cond) => status' \in Status /\ stops' \in 0..StopCap
BY DEF StopWith, RequeueWith, Status, TypeOK

(* Each reconcile of CreateShoot keeps the type.                          *)
LEMMA CreateShootType ==
    ASSUME TypeOK, CreateShoot PROVE TypeOK'
<1>1. ConvertCreate(runtime) \in Shoot
  BY ConvertCreateType DEF TypeOK
<1>2. "GardenerError" \in Reasons /\ "ShootCreationPending" \in Reasons
      /\ StopReasons \subseteq Reasons
  BY DEF Reasons, StopReasons
<1>3. status' \in Status /\ stops' \in 0..StopCap
  BY <1>2, StatusWriteType
     DEF CreateShoot, SeedLookupFails, SeedNotFound, AuditLogStop, ConversionStop,
         CreateAtGardener, StopReasons
<1>4. shoot' \in Shoot \cup {NoShoot} /\ failures' \in 0..MaxFailures
  BY <1>1 DEF CreateShoot, SeedLookupFails, SeedNotFound, AuditLogStop,
              ConversionStop, CreateAtGardener, TypeOK, MayFail, Fail
<1>5. pending' \in BOOLEAN
  BY DEF CreateShoot, SeedLookupFails, SeedNotFound, AuditLogStop, ConversionStop,
         CreateAtGardener, StopWith, RequeueWith
<1>6. QED
  BY <1>3, <1>4, <1>5 DEF CreateShoot, TypeOK

(* Every step keeps the type.                                            *)
LEMMA TypeStep == TypeOK /\ [Next]_vars => TypeOK'
<1> SUFFICES ASSUME TypeOK, [Next]_vars PROVE TypeOK'
  OBVIOUS
<1>1. CASE CreateShoot
  BY <1>1, CreateShootType
<1>2. CASE WaitForShoot
  BY <1>2 DEF WaitForShoot, RequeueWith, TypeOK, Status, Reasons
<1>3. CASE ShootReady
  BY <1>3 DEF ShootReady, TypeOK, Status, Reasons
<1>4. CASE GardenerCompletes
  BY <1>4 DEF GardenerCompletes, TypeOK, Shoot, NoShoot
<1>5. ASSUME NEW r \in RuntimeSpecs, EditRuntime(r) PROVE TypeOK'
  BY <1>5 DEF EditRuntime, TypeOK
<1>6. CASE Redeliver
  BY <1>6 DEF Redeliver, TypeOK
<1>7. CASE UNCHANGED vars
  BY <1>7 DEF vars, TypeOK
<1>8. QED
  BY <1>1, <1>2, <1>3, <1>4, <1>5, <1>6, <1>7 DEF Next, Reconcile

(* The model stays in its types.                                           *)
THEOREM TypeCorrect == Spec => []TypeOK
<1>1. Init => TypeOK
  BY DEF Init, TypeOK, Status, Reasons
<1>2. QED
  BY <1>1, TypeStep, PTL DEF Spec

-----------------------------------------------------------------------------
(* The inductive form of ShootHonoursPolicy: the type, and the policy.    *)
PolicyInv == TypeOK /\ ShootHonoursPolicy

(* A Shoot that CreateShoot stores passed the seed, audit-log and label   *)
(* checks of the same reconcile.                                           *)
LEMMA CreateShootPolicy ==
    ASSUME PolicyInv, CreateShoot PROVE ShootHonoursPolicy'
<1>1. CASE shoot' = shoot
  BY <1>1 DEF CreateShoot, PolicyInv, ShootHonoursPolicy
<1>2. CASE shoot' = ConvertCreate(runtime)
  <2>1. /\ runtime.labelsValid
        /\ SeedCheckPassed
        /\ ~AuditLogBlocks(runtime)
    BY <1>2 DEF CreateShoot, SeedLookupFails, SeedNotFound, AuditLogStop,
                ConversionStop, CreateAtGardener, ConvertCreate, NoShoot
  <2>2. QED
    BY <1>2, <2>1 DEF CreateShoot, ShootHonoursPolicy, ConvertCreate, SeedCheckPassed,
                      AuditLogBlocks, NoShoot
<1>3. QED
  BY <1>1, <1>2 DEF CreateShoot, SeedLookupFails, SeedNotFound, AuditLogStop,
                    ConversionStop, CreateAtGardener

(* No Shoot at Gardener was built from a spec that failed a check of      *)
(* sFnCreateShoot (ShootHonoursPolicy), for every instance.               *)
THEOREM ShootHonoursPolicyHolds == Spec => []ShootHonoursPolicy
<1>1. Init => PolicyInv
  BY DEF Init, PolicyInv, TypeOK, Status, Reasons, ShootHonoursPolicy, NoShoot
<1>2. PolicyInv /\ [Next]_vars => PolicyInv'
  <2> SUFFICES ASSUME PolicyInv, [Next]_vars PROVE PolicyInv'
    OBVIOUS
  <2>1. TypeOK'
    BY TypeStep DEF PolicyInv
  <2>2. CASE CreateShoot
    BY <2>1, <2>2, CreateShootPolicy DEF PolicyInv
  <2>3. CASE GardenerCompletes
    BY <2>1, <2>3 DEF GardenerCompletes, PolicyInv, ShootHonoursPolicy, TypeOK, Shoot
  <2>4. CASE WaitForShoot \/ ShootReady \/ Redeliver \/ UNCHANGED vars
    BY <2>1, <2>4 DEF WaitForShoot, ShootReady, Redeliver, vars, PolicyInv,
                      ShootHonoursPolicy
  <2>5. ASSUME NEW r \in RuntimeSpecs, EditRuntime(r) PROVE PolicyInv'
    BY <2>1, <2>5 DEF EditRuntime, PolicyInv, ShootHonoursPolicy
  <2>6. QED
    BY <2>2, <2>3, <2>4, <2>5 DEF Next, Reconcile
<1>3. QED
  BY <1>1, <1>2, PTL DEF Spec, PolicyInv

-----------------------------------------------------------------------------
(* A Shoot built by convertCreate is never NoShoot.                       *)
LEMMA ConvertCreateNotNoShoot ==
    ASSUME NEW r PROVE ConvertCreate(r) # NoShoot
BY DEF ConvertCreate, NoShoot

(* The inductive invariant of the refinement: a Ready condition is only   *)
(* written for a Shoot whose last operation succeeded, so a Shoot still   *)
(* pending maps to "Creating".                                             *)
ReadyHasShoot ==
    status.reason = "Ready" => shoot # NoShoot /\ shoot.lastOp = "Succeeded"

RefInv == TypeOK /\ ReadyHasShoot

LEMMA RefInvStep == RefInv /\ [Next]_vars => RefInv'
<1> SUFFICES ASSUME RefInv, [Next]_vars PROVE RefInv'
  OBVIOUS
<1>1. TypeOK'
  BY TypeStep DEF RefInv
<1> SUFFICES ReadyHasShoot'
  BY <1>1 DEF RefInv
<1>2. CASE CreateShoot
  BY <1>2 DEF CreateShoot, SeedLookupFails, SeedNotFound, AuditLogStop, ConversionStop,
              CreateAtGardener, StopWith, RequeueWith, RefInv, ReadyHasShoot
<1>3. CASE WaitForShoot \/ ShootReady
  BY <1>3 DEF WaitForShoot, ShootReady, RequeueWith, RefInv, ReadyHasShoot
<1>4. CASE GardenerCompletes
  BY <1>4 DEF GardenerCompletes, RefInv, ReadyHasShoot, NoShoot
<1>5. CASE (\E r \in RuntimeSpecs : EditRuntime(r)) \/ Redeliver \/ UNCHANGED vars
  BY <1>5 DEF EditRuntime, Redeliver, vars, RefInv, ReadyHasShoot
<1>6. QED
  BY <1>2, <1>3, <1>4, <1>5 DEF Next, Reconcile

(* The verdict on the desired state changes only with the desired state. *)
LEMMA RefusedKept ==
    ASSUME runtime' = runtime, env' = env PROVE Refused' = Refused
BY DEF Refused, SeedCheckPassed, AuditLogBlocks, AuditLogAvailable

(* A reconcile of CreateShoot starts from a provisioning Runtime and      *)
(* either stays there (a retry), or decides as the verdict says: it stops *)
(* only a refused spec and creates a Shoot only for an accepted one.      *)
LEMMA CreateShootRefines ==
    ASSUME CreateShoot PROVE [Provisioning!Next]_Provisioning!pvars
<1>1. /\ Phase = "Provisioning" /\ edits' = edits
      /\ Refused' = Refused
  BY RefusedKept DEF CreateShoot, Phase
<1>2. CASE SeedLookupFails
  <2>1. Phase' = "Provisioning"
    BY <1>2 DEF CreateShoot, SeedLookupFails, RequeueWith, Phase
  <2>2. QED
    BY <1>1, <2>1 DEF Provisioning!pvars
<1>3. CASE SeedNotFound \/ (SeedCheckPassed /\ AuditLogStop)
           \/ (SeedCheckPassed /\ ~AuditLogBlocks(runtime) /\ ConversionStop)
  <2>1. Phase' = "Stopped"
    BY <1>3 DEF CreateShoot, SeedNotFound, AuditLogStop, ConversionStop, StopWith,
                Phase, StopReasons
  <2>2. Refused
    BY <1>3 DEF SeedNotFound, AuditLogStop, ConversionStop, Refused, SeedCheckPassed
  <2>3. QED
    BY <1>1, <2>1, <2>2 DEF Provisioning!Next, Provisioning!Decide
<1>4. CASE SeedCheckPassed /\ ~AuditLogBlocks(runtime) /\ runtime.labelsValid
           /\ CreateAtGardener
  <2>1. ~Refused
    BY <1>4 DEF Refused
  <2>2. Phase' \in {"Provisioning", "Creating"}
    BY <1>4, ConvertCreateNotNoShoot
       DEF CreateShoot, CreateAtGardener, RequeueWith, Phase
  <2>3. QED
    BY <1>1, <2>1, <2>2 DEF Provisioning!Next, Provisioning!Decide, Provisioning!pvars
<1>5. QED
  BY <1>2, <1>3, <1>4 DEF CreateShoot

(* Every step maps to a step of RuntimeProvisioning or to a stutter.      *)
LEMMA StepRefines ==
    ASSUME RefInv, [Next]_vars
    PROVE  [Provisioning!Next]_Provisioning!pvars
<1>1. CASE CreateShoot
  BY <1>1, CreateShootRefines
<1>2. CASE WaitForShoot \/ GardenerCompletes
  <2>1. /\ Phase = "Creating" /\ Phase' = "Creating" /\ edits' = edits
        /\ Refused' = Refused
    BY <1>2, RefusedKept
       DEF WaitForShoot, GardenerCompletes, RequeueWith, RefInv, ReadyHasShoot,
           Phase, NoShoot
  <2>2. QED
    BY <2>1 DEF Provisioning!pvars
<1>3. CASE ShootReady
  <2>1. /\ Phase \in {"Creating", "Ready"} /\ Phase' = "Ready" /\ edits' = edits
        /\ Refused' = Refused
    BY <1>3, RefusedKept DEF ShootReady, Phase
  <2>2. QED
    BY <2>1 DEF Provisioning!Next, Provisioning!Complete, Provisioning!pvars
<1>4. ASSUME NEW r \in RuntimeSpecs, EditRuntime(r)
      PROVE  [Provisioning!Next]_Provisioning!pvars
  <2>1. /\ edits' = edits + 1
        /\ Phase' = IF Phase = "Stopped" THEN "Provisioning" ELSE Phase
    BY <1>4 DEF EditRuntime, Phase
  <2>2. Refused' \in BOOLEAN
    BY DEF Refused, SeedCheckPassed, AuditLogBlocks, AuditLogAvailable
  <2>3. QED
    BY <2>1, <2>2 DEF Provisioning!Next, Provisioning!ChangeSpec
<1>5. CASE Redeliver
  <2>1. edits' = edits /\ Refused' = Refused
    BY <1>5, RefusedKept DEF Redeliver
  <2>2. CASE Phase = "Stopped"
    <3>1. Phase' = "Provisioning"
      BY <1>5, <2>2 DEF Redeliver, Phase
    <3>2. QED
      BY <2>1, <2>2, <3>1 DEF Provisioning!Next, Provisioning!Reconsider
  <2>3. CASE Phase # "Stopped"
    <3>1. Phase' = Phase
      BY <1>5, <2>3 DEF Redeliver, Phase
    <3>2. QED
      BY <2>1, <3>1 DEF Provisioning!pvars
  <2>4. QED
    BY <2>2, <2>3
<1>6. CASE UNCHANGED vars
  BY <1>6 DEF vars, Provisioning!pvars, Phase, Refused, SeedCheckPassed,
              AuditLogBlocks, AuditLogAvailable
<1>7. QED
  BY <1>1, <1>2, <1>3, <1>4, <1>5, <1>6 DEF Next, Reconcile

(* The create step implements the safety part of RuntimeProvisioning      *)
(* under the mapping Phase, with transient failures and redelivered       *)
(* events (ImplementsProvisioning), for every instance: a Runtime is      *)
(* stopped only when its spec is refused and a Shoot is created only for  *)
(* an accepted spec, a stopped Runtime run again without an edit is        *)
(* decided the same way, and a created Shoot never falls back.            *)
THEOREM ProvisioningRefined == Spec => ImplementsProvisioning
<1>1. Init => Provisioning!Init
  BY DEF Init, Provisioning!Init, Phase, Refused
<1>2. Init => RefInv
  BY DEF Init, RefInv, ReadyHasShoot, TypeOK, Status, Reasons
<1>3. RefInv /\ [Next]_vars => RefInv'
  BY RefInvStep
<1>4. RefInv /\ [Next]_vars => [Provisioning!Next]_Provisioning!pvars
  BY StepRefines
<1>5. QED
  BY <1>1, <1>2, <1>3, <1>4, PTL DEF Spec, ImplementsProvisioning, Provisioning!SafetySpec

=============================================================================
