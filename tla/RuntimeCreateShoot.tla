------------------------- MODULE RuntimeCreateShoot -------------------------
(***************************************************************************)
(* The Runtime FSM while no Shoot exists: sFnCreateShoot (runtime_fsm_    *)
(* create_shoot.go) with convertCreate and the create-mode extenders it   *)
(* runs, against Gardener, the operator who edits the Runtime and the     *)
(* work queue.                                                              *)
(*                                                                         *)
(* One reconcile of the step is one action: its lookups (seed, audit-log  *)
(* data, maintenance window) and its Create are calls whose outcome is    *)
(* chosen from what the environment holds, with transient failures of the *)
(* seed lookup and of Create injected up to MaxFailures. Create may also  *)
(* fail after Gardener stored the Shoot (a timeout racing the answer).    *)
(* The FSM states for an existing Shoot (wait for creation, ready) are    *)
(* not under src/ and are modelled from the spec's state table.           *)
(*                                                                         *)
(* The Shoot is abstracted to what the create pipeline decides: the      *)
(* Runtime spec it was built from, whether it carries audit-log data,     *)
(* the exposure class and the maintenance window, and Gardener's last      *)
(* operation state.                                                         *)
(***************************************************************************)
EXTENDS Naturals

CONSTANTS
    Regions,              \* regions of the provider
    Providers,            \* provider types
    OpenStack,            \* hyperscaler.TypeOpenStack
    AuditLogMandatory,    \* m.RCCfg.AuditLogMandatory
    WindowMapConfigured,  \* MaintenanceWindow.WindowMapPath != ""
    RuntimeSpecs,         \* the Runtime specs an operator writes
    MaxFailures,          \* bound on transient Gardener failures
    MaxEdits,             \* bound on operator edits of the Runtime spec
    MaxRedeliveries,      \* bound on events that re-run an unchanged Runtime
    StopCap               \* where the stop counter saturates

RuntimeSpec ==
    [enforceSeed : BOOLEAN, region : Regions, provider : Providers,
     production : BOOLEAN, labelsValid : BOOLEAN]

ASSUME RuntimeCreateShootAssumption ==
    /\ OpenStack \in Providers
    /\ AuditLogMandatory \in BOOLEAN
    /\ WindowMapConfigured \in BOOLEAN
    /\ RuntimeSpecs \subseteq RuntimeSpec /\ RuntimeSpecs # {}
    /\ {MaxFailures, MaxEdits, MaxRedeliveries, StopCap} \subseteq Nat

VARIABLES
    runtime,       \* Runtime.Spec (the parts the step reads)
    env,           \* regions with seeds, with audit-log data, with windows
    shoot,         \* the Shoot at Gardener, or NoShoot
    status,        \* the RuntimeProvisioned condition: reason and status
    pending,       \* the Runtime's key is queued or due (RequeueAfter)
    stops,         \* the runtime FSM stop counter (metric)
    failures, edits, redeliveries

vars == <<runtime, env, shoot, status, pending, stops, failures, edits, redeliveries>>

Env == [seedRegions : SUBSET Regions, auditRegions : SUBSET Regions,
        windowRegions : SUBSET Regions]

NoShoot == [lastOp |-> "None"]

Shoot ==
    [spec : RuntimeSpec, auditlog : BOOLEAN, exposureClass : BOOLEAN,
     maintenance : BOOLEAN, lastOp : {"Pending", "Succeeded"}]

StopReasons == {"SeedNotFound", "AuditLogError", "ConversionError"}

Reasons == {"None", "GardenerError", "ShootCreationPending", "Ready"} \cup StopReasons

Status == [reason : Reasons, cond : {"True", "False", "Unknown"}]

TypeOK ==
    /\ runtime \in RuntimeSpecs
    /\ env \in Env
    /\ shoot \in Shoot \cup {NoShoot}
    /\ status \in Status
    /\ pending \in BOOLEAN
    /\ stops \in 0..StopCap
    /\ failures \in 0..MaxFailures
    /\ edits \in 0..MaxEdits
    /\ redeliveries \in 0..MaxRedeliveries

-----------------------------------------------------------------------------
(* Helpers of the step.                                                    *)

MayFail == failures < MaxFailures
Fail == failures' = failures + 1

(* UpdateStatePending(RuntimeProvisioned, reason, cond, msg) and return   *)
(* updateStatusAndRequeueAfter(GardenerRequeueDuration).                  *)
RequeueWith(reason, cond) ==
    /\ status' = [reason |-> reason, cond |-> cond]
    /\ pending' = TRUE
    /\ UNCHANGED stops

(* Mutant: the stop is returned as a requeue.                             *)
StopWithRequeue(reason) ==
    /\ status' = [reason |-> reason, cond |-> "False"]
    /\ pending' = TRUE
    /\ stops' = IF stops < StopCap THEN stops + 1 ELSE stops

(* m.Metrics.IncRuntimeFSMStopCounter() and return                        *)
(* updateStatePendingWithErrorAndStop(RuntimeProvisioned, reason, msg).   *)
StopWith(reason) ==
    /\ status' = [reason |-> reason, cond |-> "False"]
    /\ pending' = FALSE
    /\ stops' = IF stops < StopCap THEN stops + 1 ELSE stops

(* GetAuditLogData(provider, region) returns data, or an error when the   *)
(* region has no audit-log configuration.                                  *)
AuditLogAvailable(r) == r.region \in env.auditRegions

(* Mutant: the mandatory check is dropped.                                *)
AuditLogBlocksNever(r) == FALSE

(* err != nil && m.RCCfg.AuditLogMandatory                                *)
AuditLogBlocks(r) == ~AuditLogAvailable(r) /\ AuditLogMandatory

(* A window only for purpose "production" with a configured window map,  *)
(* and only when GetMaintenanceWindow finds the region (an error is       *)
(* logged and the window left nil).                                        *)
MaintenanceWindow(r) ==
    r.production /\ WindowMapConfigured /\ r.region \in env.windowRegions

(* ExtendWithExposureClassName: set only for OpenStack.                   *)
ExtendWithExposureClassName(r) == r.provider = OpenStack

(* convertCreate after ValidateRequiredLabels: the create pipeline, with  *)
(* NewAuditlogExtenderForCreate setting the audit-log secret from data    *)
(* (empty when the lookup failed), the exposure class and the window.     *)
ConvertCreate(r) ==
    [spec |-> r, auditlog |-> AuditLogAvailable(r),
     exposureClass |-> ExtendWithExposureClassName(r),
     maintenance |-> MaintenanceWindow(r), lastOp |-> "Pending"]

-----------------------------------------------------------------------------
(* The outcomes of one run of sFnCreateShoot, in the order of its checks. *)

(* Mutant: a failed seed lookup is taken for "no seed" and stops.        *)
SeedLookupFailsStops ==
    /\ runtime.enforceSeed
    /\ MayFail /\ Fail
    /\ StopWith("SeedNotFound")
    /\ UNCHANGED shoot

(* The seed lookup fails: a GardenerError condition and a requeue.        *)
SeedLookupFails ==
    /\ runtime.enforceSeed
    /\ MayFail /\ Fail
    /\ RequeueWith("GardenerError", "False")
    /\ UNCHANGED shoot

(* The lookup finds no seed in the region: a terminal stop.               *)
SeedNotFound ==
    /\ runtime.enforceSeed
    /\ runtime.region \notin env.seedRegions
    /\ StopWith("SeedNotFound")
    /\ UNCHANGED <<shoot, failures>>

SeedCheckPassed == ~runtime.enforceSeed \/ runtime.region \in env.seedRegions

(* Mandatory audit logging without audit-log data: a terminal stop.       *)
AuditLogStop ==
    /\ AuditLogBlocks(runtime)
    /\ StopWith("AuditLogError")
    /\ UNCHANGED <<shoot, failures>>

(* convertCreate fails on the required labels: a terminal stop.           *)
ConversionStop ==
    /\ ~runtime.labelsValid
    /\ StopWith("ConversionError")
    /\ UNCHANGED <<shoot, failures>>

(* Mutant: a failed Create is not requeued.                               *)
CreateAtGardenerNoRetry ==
    \/ /\ MayFail /\ Fail
       /\ status' = [reason |-> "GardenerError", cond |-> "False"]
       /\ pending' = FALSE /\ UNCHANGED stops
       /\ shoot' \in {shoot, ConvertCreate(runtime)}
    \/ /\ shoot' = ConvertCreate(runtime)
       /\ RequeueWith("ShootCreationPending", "Unknown")
       /\ UNCHANGED failures

(* ShootClient.Create: an error requeues with GardenerError, whether or   *)
(* not Gardener stored the Shoot before the error; success requeues with  *)
(* ShootCreationPending.                                                   *)
CreateAtGardener ==
    \/ /\ MayFail /\ Fail
       /\ RequeueWith("GardenerError", "False")
       /\ shoot' \in {shoot, ConvertCreate(runtime)}
    \/ /\ shoot' = ConvertCreate(runtime)
       /\ RequeueWith("ShootCreationPending", "Unknown")
       /\ UNCHANGED failures

(* One reconcile of a Runtime whose Shoot does not exist.                 *)
CreateShoot ==
    /\ pending /\ shoot = NoShoot
    /\ \/ SeedLookupFails
       \/ SeedNotFound
       \/ /\ SeedCheckPassed
          /\ \/ AuditLogStop
             \/ /\ ~AuditLogBlocks(runtime)
                /\ \/ ConversionStop
                   \/ runtime.labelsValid /\ CreateAtGardener
    /\ UNCHANGED <<runtime, env, edits, redeliveries>>

(* Spec, state table: a Shoot whose last operation is not finished: an    *)
(* Unknown condition and a requeue.                                        *)
WaitForShoot ==
    /\ pending /\ shoot # NoShoot /\ shoot.lastOp = "Pending"
    /\ RequeueWith("ShootCreationPending", "Unknown")
    /\ UNCHANGED <<runtime, env, shoot, failures, edits, redeliveries>>

(* Spec, state table: the Shoot succeeded: Ready, and no more requeues.   *)
ShootReady ==
    /\ pending /\ shoot # NoShoot /\ shoot.lastOp = "Succeeded"
    /\ status' = [reason |-> "Ready", cond |-> "True"]
    /\ pending' = FALSE
    /\ UNCHANGED <<runtime, env, shoot, stops, failures, edits, redeliveries>>

-----------------------------------------------------------------------------
(* The environment.                                                        *)

(* Gardener finishes the creation of the Shoot.                           *)
GardenerCompletes ==
    /\ shoot # NoShoot /\ shoot.lastOp = "Pending"
    /\ shoot' = [shoot EXCEPT !.lastOp = "Succeeded"]
    /\ UNCHANGED <<runtime, env, status, pending, stops, failures, edits, redeliveries>>

(* The operator changes the Runtime spec: a new generation, a new event.  *)
EditRuntime(r) ==
    /\ edits < MaxEdits /\ r # runtime
    /\ runtime' = r
    /\ pending' = TRUE
    /\ edits' = edits + 1
    /\ UNCHANGED <<env, shoot, status, stops, failures, redeliveries>>

(* An event for an unchanged spec (the status write, a cache resync)      *)
(* queues the Runtime again.                                               *)
Redeliver ==
    /\ redeliveries < MaxRedeliveries /\ ~pending
    /\ pending' = TRUE
    /\ redeliveries' = redeliveries + 1
    /\ UNCHANGED <<runtime, env, shoot, status, stops, failures, edits>>

Init ==
    /\ runtime \in RuntimeSpecs
    /\ env \in Env
    /\ shoot = NoShoot
    /\ status = [reason |-> "None", cond |-> "Unknown"]
    /\ pending = TRUE
    /\ stops = 0 /\ failures = 0 /\ edits = 0 /\ redeliveries = 0

Reconcile == CreateShoot \/ WaitForShoot \/ ShootReady

Next ==
    \/ Reconcile
    \/ GardenerCompletes
    \/ \E r \in RuntimeSpecs : EditRuntime(r)
    \/ Redeliver

(* The queue eventually runs a queued key, and Gardener eventually        *)
(* finishes a creation it accepted.                                        *)
Spec == Init /\ [][Next]_vars /\ WF_vars(Reconcile) /\ WF_vars(GardenerCompletes)

-----------------------------------------------------------------------------
(* Every Shoot at Gardener was built from a Runtime spec that passed the  *)
(* checks of sFnCreateShoot: a seed in its region when the seed location  *)
(* is enforced, audit-log data when audit logging is mandatory, and the   *)
(* required labels, whatever edits and failed or lost Creates came first. *)
ShootHonoursPolicy ==
    shoot # NoShoot =>
        /\ shoot.spec.labelsValid
        /\ shoot.spec.enforceSeed => shoot.spec.region \in env.seedRegions
        /\ AuditLogMandatory => shoot.auditlog

(* The stop counter counts give-ups: it is incremented once per terminal  *)
(* stop of a spec generation, so never more often than the spec was       *)
(* written (spec, scenario: "stop counter incremented exactly once").     *)
StopCountedOnce == stops <= edits + 1

(* Provisioning is decided: the Runtime eventually rests, unqueued, with  *)
(* Ready or with a terminal stop reason. Transient seed-lookup and Create *)
(* failures, lost Create answers and edits never leave it waiting on a    *)
(* requeue that does not come or retrying for ever.                        *)
ProvisioningDecided ==
    <>[](~pending /\ status.reason \in StopReasons \cup {"Ready"})

-----------------------------------------------------------------------------
(* The refinement mapping to RuntimeProvisioning: without a Shoot, the    *)
(* Runtime is stopped when it rests unqueued on a stop reason, and is     *)
(* provisioning otherwise; with a Shoot it is ready once the Ready         *)
(* condition is written, and creating before. The generation is the       *)
(* number of spec edits. The desired state is refused when one of the     *)
(* three checks of sFnCreateShoot rejects it in the environment.           *)
Phase ==
    IF shoot = NoShoot
    THEN IF ~pending /\ status.reason \in StopReasons THEN "Stopped" ELSE "Provisioning"
    ELSE IF status.reason = "Ready" THEN "Ready" ELSE "Creating"

Refused == ~SeedCheckPassed \/ AuditLogBlocks(runtime) \/ ~runtime.labelsValid

Provisioning == INSTANCE RuntimeProvisioning
                    WITH phase <- Phase, generation <- edits, refused <- Refused

(* The create step implements the provisioning lifecycle, with redelivered *)
(* events and transient failures: a Runtime is stopped only when its       *)
(* desired state is refused and a Shoot is created only when it is         *)
(* accepted, so a transient seed-lookup or Create failure never turns     *)
(* into a terminal stop; a stopped Runtime run again by an event for the   *)
(* same spec is decided the same way; a created Shoot never falls back.    *)
ImplementsProvisioning == Provisioning!SafetySpec

=============================================================================
