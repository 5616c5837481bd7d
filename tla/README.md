# TLA+ models of infrastructure-manager

This directory holds TLA+ models of the infrastructure-manager controllers
(the source is under `../src`). It has TLC configurations that model-check
them on small instances and TLAPS proofs of the results that hold for every
instance. `PROJECT.json` lists the components, the runs, the mutants, where
each definition comes from in the source, the findings, the hazards and the
theorems.

## The system

| Part | Source | What it does |
|---|---|---|
| GardenerCluster controller | `internal/controller/gardener_cluster_controller.go` | Keeps one kubeconfig Secret per GardenerCluster CR. It creates the Secret, rotates it at 95% of the rotation period or when the CR carries the force-rotation annotation, and deletes it when the CR is gone. It records the outcome as a condition on the CR. |
| Runtime FSM, create-shoot step | `internal/controller/runtime/fsm/runtime_fsm_create_shoot.go` | Checks the seed, fetches the audit-log data, builds the Shoot and creates it at Gardener. It then requeues, or stops for good on a policy failure. |
| Audit-log extenders | `pkg/gardener/shoot/extender/auditlogs/*.go` | The create and patch mutation pipelines for the Shoot. `oSetExtension` upserts the auditlog extension by its type. |
| Migrator CLI | `unnamed/part_000` | A one-shot program that turns existing Shoots into Runtime YAML files. |

### How the controller and its environment interact

controller-runtime calls `Reconcile` once per key. It never calls it
concurrently for the same key. It queues the key on every write to the CR:
the watch has no predicates, so a status write or an annotation removal
counts. It also queues the key when a `RequeueAfter` timer expires (the
delaying queue keeps the earliest pending time of a key) and, with back-off,
after a reconcile returns an error.

A reconcile does the following:

1. It reads the CR.
2. If the CR is not found, it deletes the Secret labelled with the CR's name.
3. Otherwise it runs `handleKubeconfig`:
   - It looks the Secret up by the shoot-name label and fetches a kubeconfig.
   - If the CR carries the annotation, it strips the Secret, removes the
     annotation and requeues after the period.
   - If the Secret is not yet due, it requeues after the period.
   - If the Secret is due, it updates it; if there is none, it creates one.
4. It writes the status from the copy read in step 1, ignoring any error.

## Modules

### `GardenerClusterController.tla`

This module models the controller against the API server, the work queue,
the operator and time.

**Constants.** The CRs (`Clusters`), the shoots, the Secret names, the shoot
and the Secret of each CR, the CRs that carry the shoot-name label
(`ShootLabelled`), the rotation period in ticks, and bounds on injected API
failures (`MaxFailures`) and operator edits (`MaxEdits`), and whether the
status write may fail too (`StatusUpdateMayFail`).

**State.**

| Variable | Corresponds to |
|---|---|
| `cluster` | The stored CRs: whether each exists, whether it carries the force annotation, and the reason of its condition. |
| `secret` | The stored Secrets: the owner CR (the cluster-name label), the shoot-name label, and the age of the last-sync annotation, or `NoKubeconfig` after `removeKubeconfig`. |
| `pc`, `snap`, `err` | Where a reconcile is, its in-memory copy of the CR (`stale` once the stored CR has been written since the Get), and `handleKubeconfig`'s error. |
| `queued`, `timer`, `backoff` | The work queue: key queued, ticks left until the earliest `RequeueAfter`, and a pending rate-limited retry. |
| `failures`, `edits` | Counters that bound the environment. |

**Actions.** One action per step of `Reconcile`:

| Action | Step of `Reconcile` |
|---|---|
| `GetCluster` / `GetClusterFails` | The Get, found or failing. |
| `DeleteKubeconfigSecret` | The Get returned NotFound; delete the Secret. |
| `HandleKubeconfig` | All of `handleKubeconfig`, with one disjunct per outcome, including `createNewSecret`, `removeKubeconfig` and `updateExistingSecret`. |
| `ReconcileError` / `ReconcileReady` | `persistStatusChange` and the result. The write succeeds, is refused (the stored CR is gone or was written since the Get), or fails with a transient error when `StatusUpdateMayFail`; both callers drop the error. |
| `RemoveForceRotationAnnotation` | A fresh Get, the Update and the requeue. |

The environment has these actions:

- `ForceRotation`, `EditCluster` and `DeleteCluster` (the operator).
- `FireTimer` and `FireBackoff` (the queue).
- `Tick`.

API failures are injected at every call that can fail, up to `MaxFailures`.

**Time.** Time is discrete. Ages count up to `AgeCap` (two periods) and
timers count down. `Tick` happens only when no reconcile runs, no key is
queued and no timer is due. This is the urgency assumption: a reconcile
takes no time at the scale of the rotation period.

**Fairness.** Each CR's controller steps (the reconcile steps and the
firing of its timers) are weakly fair, and so is `Tick`. Together these say
that a worker eventually takes a queued key and finishes the reconcile, and
that time passes. The firing of a CR's back-off (`FireBackoff`) is weakly
fair on its own, because the rate limiter's delay always expires. Fairness
of the controller steps as a whole would not be enough: other steps of the
same CR could satisfy it while a pending retry waits forever. The operator and the failures are not fair: they may stop
at any time.

### `MCGardenerClusterController.tla`

This module instantiates the model for TLC with two CRs, two shoots and two
Secret names as model values. It also defines the shared-shoot mapping and
the one-CR set. Runs with `MaxFailures = 0` inject no failure, so their
`StatusUpdateMayFail` has no effect.

### `RuntimeCreateShoot.tla`

This module models the Runtime FSM while the Runtime has no Shoot. Its core
is `sFnCreateShoot`, with `convertCreate` and the create-mode extenders it
runs. Around it are Gardener, the operator who edits the Runtime, and the
work queue.

**State.**

| Variable | Corresponds to |
|---|---|
| `runtime` | The parts of `Runtime.Spec` the step reads: `EnforceSeedLocation`, region, provider type, purpose "production", and whether the required labels are present. |
| `env` | The regions with a seed, with audit-log data and with a maintenance window. They are chosen once in `Init`. |
| `shoot` | The Shoot at Gardener, or `NoShoot`. It records the spec it was built from, the audit-log secret, the exposure class, the maintenance window and Gardener's last operation (Pending or Succeeded). |
| `status` | The RuntimeProvisioned condition: its reason and its status (True, False or Unknown). |
| `pending` | The Runtime's key is queued or has a `RequeueAfter` due. |
| `stops` | The FSM stop counter metric. It saturates at `StopCap`. |
| `failures`, `edits`, `redeliveries` | Counters that bound the environment. |

**Actions.**

- `CreateShoot` is one run of `sFnCreateShoot`. Its disjuncts follow the
  order of the code's checks, and each is a named operator:
  - `SeedLookupFails`
  - `SeedNotFound`
  - `AuditLogStop`
  - `ConversionStop`
  - `CreateAtGardener`: the Create fails, fails after Gardener stored the
    Shoot, or succeeds.
- Every stop goes through `StopWith`: the counter is incremented and no
  requeue follows.
- Every transient outcome goes through `RequeueWith`.
- `WaitForShoot` and `ShootReady` are the FSM states for an existing
  Shoot. They are not under `src/` and are modelled from the spec's state
  table.
- The environment has these actions:
  - `GardenerCompletes`.
  - `EditRuntime`: a new spec generation, which queues the key.
  - `Redeliver`: an event for an unchanged Runtime, such as the stop's own
    status write, a cache resync or the at-least-once delivery the spec
    assumes.

**Fairness.** `Reconcile` is weakly fair: the queue runs a queued key. So is
`GardenerCompletes`: Gardener finishes a creation it accepted. The operator,
the redeliveries and the failures are not fair.

### `AuditlogExtension.tla`

This module models the Shoot's extension list and `oSetExtension`. The
operator upserts the auditlog extension by its type:

- It looks up the first entry of the type with `IndexFunc`.
- It replaces that entry in place, or appends the extension when there is
  none.

Other writers of the Shoot (other extenders, Gardener) append and remove
extensions of other types in between. `UpsertedByType` is the reference
definition of an upsert: the list ends with exactly one auditlog entry,
carrying the new config; the other entries keep their positions; and the
list grows only when there was no auditlog entry.

Neither create-mode extender under `src/` calls `oSetExtension`. The create
extender sets the audit-log secret and the policy config map, and the patch
extender sets only the config map. The spec's "extension list seeded with an
auditlog extension" must therefore come from a converter extender outside
`src/`. No finding is recorded for this.

### `RuntimeProvisioning.tla`: the abstract lifecycle

This module is written from the spec, not the code. It states what the
create step promises about one Runtime, without lookups, conditions or the
queue. It has three variables: `phase` ("Provisioning", "Stopped",
"Creating" or "Ready"), `generation`, and `refused`, the policy's verdict
on the current desired state. It has four actions:

- `Decide`: provisioning ends in a stop if the desired state is refused,
  and in a created Shoot if it is accepted.
- `Complete`: a created Shoot becomes ready.
- `Reconsider`: an event for the unchanged desired state runs a stopped
  Runtime again (the watch delivers at least once).
- `ChangeSpec`: a new generation with a new verdict; a stopped Runtime is
  provisioned again, and no other phase changes.

A transient failure and its retry are stutters. `Spec` adds weak fairness
on `Decide` and `Complete`.

`RuntimeCreateShoot` instantiates it as `Provisioning` with the refinement
mapping `Phase`, `generation <- edits` and `refused <- Refused`, where
`Refused` is true when the seed check, the mandatory audit-log check or the
label check of `sFnCreateShoot` rejects the spec in the environment:

- without a Shoot, the Runtime is "Stopped" when it rests unqueued on a
  stop reason, and "Provisioning" otherwise;
- with a Shoot, it is "Ready" once the Ready condition is written, and
  "Creating" before.

`ImplementsProvisioning == Provisioning!SafetySpec` is checked as a
PROPERTY by run provisioning_refined and proved by `ProvisioningRefined`.
It is broken by a transient seed-lookup failure that stops the Runtime
(the mutant `SeedLookupFailsStops`). The abstract fairness is covered by
`ProvisioningDecided` in run create_policy.

### `MCRuntimeCreateShoot.tla`, `MCAuditlogExtension.tla`

These modules instantiate the two models for TLC.

- `MCRuntimeCreateShoot` has two regions, AWS and OpenStack, and every
  Runtime spec over them. Its regions are symmetric.
- `MCAuditlogExtension` has the auditlog type, two other extension types
  and two configurations.

### `GardenerClusterControllerProofs.tla`, `RuntimeCreateShootProofs.tla`, `AuditlogExtensionProofs.tla`

These modules hold the TLAPS proofs (see below).

## Runs

| Run | cfg | Expect | What it shows |
|---|---|---|---|
| rotation | MCRotation | pass | With one CR, period 20 (so the 95% threshold, 19, is not the period) and 3 edits: kubeconfigs are renewed before they are two periods old (`KubeconfigRenewedInTime`); the controller never rests with a Ready condition on a missing or stripped Secret (`ReadyOnlyWithKubeconfig`); forced rotations complete (`ForcedRotationCompletes`); a deleted CR's Secret is removed (`DeletedSecretRemoved`). |
| failures | MCFailures | pass | With up to 3 failing API calls (the status write excepted): forced rotations complete, deleted CRs' Secrets are removed, and retries of an existing CR come to an end (`RetriesCease`). |
| lost_status_write | MCLostStatusWrite | violation | `KubeconfigRenewedInTime` fails after one transient failure of the status write that follows a rotation. |
| unlabelled | MCUnlabelled | violation | `RetriesCease` fails for a CR without the shoot-name label: its Secret is never found, and Create fails with AlreadyExists on every retry. |
| stale_kubeconfig | MCStaleKubeconfig | violation | `KubeconfigFresh` (age ≤ period, the spec's promise) fails. |
| deletion_loop | MCDeletionLoop | violation | `DeletionSettles` fails: a deleted CR is reconciled forever. |
| stale_condition | MCStaleCondition | violation | `StatusReflectsSecret` fails: a lost status write leaves the CR without Ready. |
| cross_cluster | MCCrossCluster | violation | `OwnSecretOnly` fails: a CR's reconcile writes another CR's Secret. |
| auditlog_upsert | MCAuditlogExtension | pass | On lists of up to 3 extensions, built by every interleaving of `oSetExtension` with other writers: every call is an upsert by type (`SetExtensionUpserts`). |
| create_policy | MCCreatePolicy | pass | With mandatory audit logging, 2 transient failures, 1 edit and 1 redelivered event: every created Shoot passed the seed, audit-log and label checks (`ShootHonoursPolicy`), and every Runtime ends unqueued, Ready or with a stop reason (`ProvisioningDecided`). |
| provisioning_refined | MCProvisioning | pass | With 2 transient failures, 2 edits and 2 redelivered events: the step implements the safety part of the abstract lifecycle (`ImplementsProvisioning`). |
| stop_redelivered | MCStopRedelivered | violation | `StopCountedOnce` fails once one event re-runs a Runtime stopped by SeedNotFound. |

### Bounds

- A period of 20 ticks separates the 95% threshold from the period. With a
  period of 2, the threshold would be the period itself and the late
  requeue would be invisible.
- The runs with two CRs, with failures or with period 20 stay under a few
  minutes, so each checks at most two of these dimensions.
- Three failures are enough to fail every call on one reconcile path and
  then retry it.
- Edits are bounded because each is an operator action that may come at any
  point. Three edits give an edit during each step of a forced rotation.

- The create-shoot runs use two regions, so a Runtime can be edited from a
  region without a seed or audit-log data to one with them. They use both
  providers, so the exposure-class branch is taken both ways. They use every
  Runtime spec, so an edit can fix or break the labels, the seed enforcement
  and the purpose.
- Two failures are enough to fail the seed lookup and then the Create, or
  to fail a Create after Gardener stored the Shoot.
- These runs stop by design: a terminal stop and Ready both leave nothing
  queued. For that reason they say `CHECK_DEADLOCK FALSE`.
- Extension lists of length 3 hold the auditlog entry at the first, a middle
  and the last position.

### Findings

Each finding is described in `PROJECT.json` with its trace:

- **Late requeue** (`stale_kubeconfig`). A not-due reconcile requeues after
  the full period, not after the remaining time, so a kubeconfig can live
  almost two periods.
- **Deletion never settles** (`deletion_loop`). Zero Secrets found is an
  error, so a deleted CR is retried forever.
- **Lost status write** (`stale_condition`). A status write that conflicts
  is dropped, and nothing writes it again.
- **Rotation never checked again** (`lost_status_write`). After a rotation,
  `Reconcile` returns without a requeue and relies on the watch event of
  its own status write. When that write fails for a transient reason, the
  error is dropped and no event comes, so the kubeconfig is never renewed.
- **Selection by shoot name** (`cross_cluster`). The Secret is selected by
  shoot name, not by the CR's identity.
- **Stop counted again** (`stop_redelivered`). `sFnCreateShoot` increments
  the stop counter whenever it reaches a policy stop. An event that re-runs
  the unchanged Runtime counts the same stop again, while the spec says the
  counter is incremented exactly once. The refinement shows that a
  redelivery decides a stopped Runtime again the same way; it is only the
  counter that is wrong.
- **Unlabelled CR retried forever** (`unlabelled`). `newSecret` copies
  the CR's labels, and `getSecret` selects by the shoot-name label. A CR
  without that label gets a Secret that is never found again, so every
  reconcile fails Create with AlreadyExists and is retried forever. The
  spec calls a missing required label a terminal validation error.
The spec's state table asks for an Unknown condition after a transient
seed-lookup error. The code writes False, and `SeedLookupFails` follows the
code. No run is kept for this one-assignment difference.

## Proofs

`GardenerClusterControllerProofs.tla` proves its results for every choice
of constants that satisfies the module's assumptions:

- `ConstantsAssumption`: the shoot and Secret maps are functions, the period
  is positive, the bounds are natural numbers, and the sentinels `NoLabel`,
  `NoKubeconfig` and `NoTimer` are no shoot, age or timer value.
- `NoSecretAssumption`: `NoSecret` is no Secret record.

Every cfg gives the sentinels as model values, so TLC evaluates both
assumptions on every run.

**`TypeCorrect`: `Spec => []TypeOK`.** TypeOK is inductive as it stands.
Lemma `TypeStep` has one step per action:

- Record-update lemmas show that changing one field of a CR, a Secret or an
  in-memory copy keeps it in its record type.
- Lemmas about `PersistStatusChange`, `Touch`, `HandleFailure` and `Finish`
  are each cited by the actions that use them.
- The `Tick` case uses the urgency guard (no timer is at 0) to keep the
  timers in `0..RotationPeriod`.

**`ReadyOnlyWithKubeconfigHolds`:
`ShootsDistinct /\ NoStatusUpdateFailure => (Spec => []ReadyOnlyWithKubeconfig)`.**
The first hypothesis says that distinct CRs name distinct shoots. Without
it the property fails: run cross_cluster's instance lets one CR's reconcile
strip the other's Secret. The second says that the status write does not
fail (`~StatusUpdateMayFail \/ MaxFailures = 0`). Without it the property
fails too: a forced rotation strips the Secret, the next Fetch returns
NotFound, and the failed write of the error condition leaves the old Ready
condition on the CR, with nothing queued. TLC finds this trace with
`StatusUpdateMayFail`; lemma `PersistEffects` separates the three outcomes
of the write. The invariant alone is not inductive. The strengthening `ReadyInv`
adds TypeOK and five auxiliary invariants (`Aux`, lemma `AuxStep`):

- `IdleFresh`: no reconcile at rest holds a stale copy of its CR.
- `StaleQueued`: a stale copy means a write to the CR queued the key. So a
  refused status write still leaves the CR queued.
- `ForceHeld`: a copy that says "forced" is backed by the annotation on the
  stored CR.
- `RemovingForced`: the annotation is removed only by a reconcile that read
  it. With `ForceHeld`, removing it is a real write, and so a watch event.
- `LabelsOwned`: a Secret carries its owner's shoot label, or none.
  With distinct shoots, lemma `OwnedShootSecrets` turns this into "the
  Secrets `getSecret` finds for a CR are its own".

Lemma `HandleEffects` sums up `handleKubeconfig`:

- It writes at most one Secret: one found by the CR's shoot label, or a new
  one under an unused name.
- It ends the reconcile only on the not-due path, which found a kubeconfig.

Lemma `ReadyStep` then checks each action. A Ready condition that
`persistStatusChange` writes is a watch event, so the CR is queued and not
quiescent. Another CR's reconcile never touches this CR's Secret.

**`OwnSecretOnlyHolds`:
`ShootsDistinct => (Spec => OwnSecretOnly)`.** This is the action property
that run cross_cluster finds violated when two CRs share a shoot. With
distinct shoots, `handleKubeconfig` writes only Secrets of its own CR
(lemma `HandleWritesOwn`, from `LabelsOwned`). It rests on
`AuxHolds == Spec => [](TypeOK /\ Aux)`, which needs no hypothesis, so
the theorem holds with every failure, the status write's included.

**`KubeconfigRenewedInTimeHolds`:
`MaxFailures = 0 /\ ShootsDistinct => (Spec => []KubeconfigRenewedInTime)`.**
The strengthening `RenewInv` adds three invariants to `ReadyInv`'s
auxiliaries:

- `SecretPlaced`: a Secret lives under its owner's `SecretOf` name.
- `GoneStale`: a running reconcile of a deleted CR holds a stale copy.
- `RenewalPending`: for every kubeconfig, the next look at its owner is
  pending and comes in time. Either the owner's reconcile runs or its key
  is queued, and time does not pass then. Or its RequeueAfter timer fires
  before the kubeconfig is two periods old.

Lemma `RenewStep` shows `RenewalPending` is kept by every action:

- The not-due path leaves an age under 95% of the period and a timer of at
  most one period.
- A rotation or creation sets the age to 0 while the reconcile still runs.
- Ending a reconcile through `persistStatusChange` always leaves the key
  queued (lemma `PersistQueues`, from `StaleQueued` and `GoneStale`).
- A tick takes one tick off the timer and adds one to the age.

The hypothesis `MaxFailures = 0` is needed. When `GetCluster` fails, the
only pending work left is a rate-limited retry. The model does not bound the
retry's delay, so time can pass until the kubeconfig is too old. TLC finds
this on the failures instance. Missing shoot labels and shared Secret names
need no hypothesis: the failing reconcile then writes its status, which
queues the CR again, so time stands still.

`RuntimeCreateShootProofs.tla` proves these results for every set of
regions, providers and Runtime specs that satisfies
`RuntimeCreateShootAssumption`:

- `TypeCorrect`.
- `ShootHonoursPolicyHolds`: `Spec => []ShootHonoursPolicy`. The inductive
  invariant is the policy together with TypeOK. Lemma `CreateShootPolicy`
  shows that the only step that stores a Shoot does so under the three
  checks of the same reconcile. Every other step keeps the Shoot's spec and
  its audit-log field.
- `ProvisioningRefined`: `Spec => ImplementsProvisioning`, with
  transient failures, edits and redelivered events. The create step
  implements the safety part of the abstract lifecycle. Following the
  usual refinement proof, it shows that initial states map to the abstract
  initial state, and that under an invariant every step maps to a step of
  `RuntimeProvisioning` or a stutter (`StepRefines`):
  - `CreateShoot` is split by outcome (`CreateShootRefines`): a failed seed
    lookup or Create requeues and is a stutter; each stop is `Decide` of a
    refused spec; the Create is `Decide` of an accepted one.
  - `WaitForShoot` and `GardenerCompletes` stay in "Creating".
  - `ShootReady` completes.
  - `Redeliver` of a stopped Runtime is `Reconsider`; otherwise a stutter.
  - `EditRuntime` is `ChangeSpec`.

  Lemma `RefusedKept` says that the verdict changes only with the spec,
  so a decision made by one reconcile agrees with the abstract `refused`.

  The invariant `ReadyHasShoot` says that the Ready condition is written
  only for a Shoot whose last operation succeeded. Without it, a Shoot
  still pending could carry Ready, and `WaitForShoot` would map to a step
  back from "Ready". The stop counter is not part of the mapping: the
  lifecycle allows a Runtime to be decided again, and stop_redelivered
  shows the counter then counts the same stop twice.

`AuditlogExtensionProofs.tla` proves `SetExtensionUpsertsHolds` for every
set of types and configs and every length of list. The inductive invariant
is "at most one auditlog entry" (`AtMostOne`). Lemma `SetExtensionCorrect` shows that on such a list
`SetExtension` is an upsert by type:

- In the append case it uses the library's `AppendProperties`.
- In the replace case it uses `ExceptSeq`.
- Removals and appends of other types keep `AtMostOne`.

Only TLC checks these, on the instances above:

- The liveness properties, which need fairness and `ENABLED`; TLAPS cannot
  prove them. These are `ForcedRotationCompletes`, `DeletedSecretRemoved`,
  `RetriesCease` and `ProvisioningDecided`.
- `KubeconfigRenewedInTime` and `ReadyOnlyWithKubeconfig` for instances
  outside the theorems' hypotheses. `ReadyOnlyWithKubeconfig` on shared
  shoots, or with a failing status write, is false. `KubeconfigRenewedInTime` with failures is false in the
  model, since the retry delay is not modelled.

## Not modelled

- **Migrator CLI.** A one-shot batch of I/O with no concurrency. Its only
  state is the files it writes. Every lookup error except the
  ClusterRoleBindings `List` is fatal, and a re-run overwrites every file.
- **Test suite.** Not part of the system.
- **Runtime FSM beyond creation.** The patch, update and deletion states
  are not modelled. Neither is the audit-log patch extender, which only
  sets the policy config map.
- **The converter's other extenders.** They are not under `src/`. Only the
  parts of the Shoot that a property reads are modelled.
- **What the controller reads and writes.** The kubeconfig content, labels
  other than the two selectors, logging and the condition messages are left
  out. No property depends on them.
- **List errors in getSecret and deleteKubeconfigSecret.** These follow the
  same path as the other injected failures of those calls.

## Plan

1. An abstract rotation specification: per CR, a Secret exists while the
   CR does, and it is rotated or forced. The controller will be shown to
   refine it, under the hypotheses that make it true (labelled CRs,
   distinct shoots).
2. TLAPS: the refinement of the abstract rotation specification, step by
   step, from `ReadyInv` and `RenewInv`.
3. The Runtime FSM after creation, from the spec's state table: the
   patch of the audit-log configuration and drift updates.
