---------------------- MODULE GardenerClusterController ----------------------
(***************************************************************************)
(* The kubeconfig-rotation controller of internal/controller/              *)
(* gardener_cluster_controller.go: one reconcile loop per GardenerCluster  *)
(* CR, which keeps a Secret holding the cluster's kubeconfig, rotates it   *)
(* when 95% of the rotation period has passed or when the CR carries the   *)
(* force-rotation annotation, and deletes it when the CR is gone.          *)
(*                                                                         *)
(* Around the controller the module models the parts of its environment   *)
(* its correctness depends on: the controller-runtime work queue (watch    *)
(* events on the CR, RequeueAfter timers, rate-limited retries after an    *)
(* error), the operator (annotating, editing and deleting CRs), the        *)
(* Gardener kubeconfig API (which may fail) and the passing of time.       *)
(* Time is discrete; an age is the number of ticks since a kubeconfig was  *)
(* written.                                                                *)
(***************************************************************************)
EXTENDS Naturals, FiniteSets

CONSTANTS
    Clusters,       \* names of GardenerCluster CRs
    Shoots,         \* names of Gardener shoots
    SecretNames,    \* names of kubeconfig Secrets
    ShootOf,        \* cluster.Spec.Shoot.Name
    SecretOf,       \* cluster.Spec.Kubeconfig.Secret.Name
    ShootLabelled,  \* CRs that carry the kyma-project.io/shoot-name label
    RotationPeriod, \* controller.rotationPeriod, in ticks
    MaxFailures,    \* bound on the API failures the environment injects
    StatusUpdateMayFail, \* Status().Update may fail with a transient error
    MaxEdits,       \* bound on the operator's edits of CRs
    NoSecret, NoLabel, NoKubeconfig, NoTimer   \* sentinels (model values)

ASSUME ConstantsAssumption ==
    /\ ShootOf \in [Clusters -> Shoots]
    /\ SecretOf \in [Clusters -> SecretNames]
    /\ ShootLabelled \subseteq Clusters
    /\ RotationPeriod \in Nat \ {0}
    /\ MaxFailures \in Nat
    /\ StatusUpdateMayFail \in BOOLEAN
    /\ MaxEdits \in Nat
    /\ NoLabel \notin Shoots
    /\ NoKubeconfig \notin Nat
    /\ NoTimer \notin Nat

VARIABLES
    cluster,   \* the GardenerCluster CRs as stored by the API server
    secret,    \* the kubeconfig Secrets as stored by the API server
    pc,        \* where each CR's reconcile is ("Idle" between reconciles)
    snap,      \* the reconcile's in-memory copy of the CR (Get at line 86)
    err,       \* the error handleKubeconfig returned
    queued,    \* the CR's key is in the work queue, ready to be processed
    timer,     \* ticks until the earliest pending RequeueAfter fires
    backoff,   \* a rate-limited requeue after an error is pending
    failures,  \* API failures injected so far
    edits      \* operator edits so far

vars == <<cluster, secret, pc, snap, err, queued, timer, backoff, failures, edits>>

AgeCap == 2 * RotationPeriod
Ages == 0..AgeCap

(* The conditions the controller writes, by their reason. *)
ReadyReasons == {"KubeconfigSecretCreated", "KubeconfigSecretRotated"}
Reasons == {"None", "FailedToGetSecret", "FailedToGetKubeconfig",
            "FailedToDeleteSecret", "FailedToCreateSecret",
            "FailedToUpdateSecret"} \cup ReadyReasons

ClusterRec == [exists : BOOLEAN, force : BOOLEAN, cond : Reasons]
SecretRec == [owner : Clusters, shoot : Shoots \cup {NoLabel},
              kubeconfig : Ages \cup {NoKubeconfig}]
SnapRec == [force : BOOLEAN, cond : Reasons, stale : BOOLEAN]
Steps == {"Idle", "Handle", "PersistError", "PersistReady", "RemoveAnnotation"}

(* A missing Secret is not a Secret.                                       *)
ASSUME NoSecretAssumption == NoSecret \notin SecretRec

NoSnap == [force |-> FALSE, cond |-> "None", stale |-> FALSE]

TypeOK ==
    /\ cluster \in [Clusters -> ClusterRec]
    /\ secret \in [SecretNames -> SecretRec \cup {NoSecret}]
    /\ pc \in [Clusters -> Steps]
    /\ snap \in [Clusters -> SnapRec]
    /\ err \in [Clusters -> {"nil", "error", "notFound"}]
    /\ queued \in [Clusters -> BOOLEAN]
    /\ timer \in [Clusters -> (0..RotationPeriod) \cup {NoTimer}]
    /\ backoff \in [Clusters -> BOOLEAN]
    /\ failures \in 0..MaxFailures
    /\ edits \in 0..MaxEdits

-----------------------------------------------------------------------------
(***************************************************************************)
(* Helpers translated from the controller.                                 *)
(***************************************************************************)

(* Mutant: rotationPeriodRatio 1.05 instead of 0.95.                      *)
SecretRotationTimePassedLate(n) ==
    \/ n = NoSecret
    \/ n # NoSecret /\ secret[n].kubeconfig = NoKubeconfig
    \/ n # NoSecret /\ secret[n].kubeconfig \in Nat
                    /\ secret[n].kubeconfig * 100 >= 105 * RotationPeriod

(* secretRotationTimePassed: a missing secret or a missing last-sync      *)
(* annotation means "due"; otherwise due once 95% of the period passed.   *)
(* Minutes() >= 0.95 * period is age * 100 >= 95 * period on ticks.       *)
SecretRotationTimePassed(n) ==
    \/ n = NoSecret
    \/ n # NoSecret /\ secret[n].kubeconfig = NoKubeconfig
    \/ n # NoSecret /\ secret[n].kubeconfig \in Nat
                    /\ secret[n].kubeconfig * 100 >= 95 * RotationPeriod

(* getSecret: the Secrets whose kyma-project.io/shoot-name label names    *)
(* the CR's shoot.                                                         *)
SecretsOfShoot(c) ==
    {n \in SecretNames : secret[n] # NoSecret /\ secret[n].shoot = ShootOf[c]}

(* deleteKubeconfigSecret: the Secrets whose cluster-name label names the *)
(* CR.                                                                     *)
SecretsOfCluster(c) ==
    {n \in SecretNames : secret[n] # NoSecret /\ secret[n].owner = c}

(* Mutant: the shoot-name label is not copied onto the new Secret.        *)
NewSecretUnlabelled(c) == [owner |-> c, shoot |-> NoLabel, kubeconfig |-> 0]

(* newSecret: the CR's labels are copied onto the Secret, and the         *)
(* cluster-name label is added.                                            *)
NewSecret(c) ==
    [owner |-> c,
     shoot |-> IF c \in ShootLabelled THEN ShootOf[c] ELSE NoLabel,
     kubeconfig |-> 0]

(* A write to the CR: the watch (SetupWithManager, no predicates) queues  *)
(* the key, and a reconcile that already read the CR now holds a stale    *)
(* copy, so its Status().Update will be refused with a conflict.           *)
Touch(c) ==
    /\ queued' = [queued EXCEPT ![c] = TRUE]
    /\ snap' = [snap EXCEPT ![c].stale = (pc[c] # "Idle")]

(* Mutant: the requeue delay is one tick longer than the period.          *)
RequeueAfterPeriodLate(c) ==
    timer' = [timer EXCEPT ![c] = IF timer[c] = NoTimer THEN RotationPeriod + 1
                                  ELSE timer[c]]

(* resultWithRequeue: RequeueAfter(rotationPeriod). The delaying queue    *)
(* keeps the earliest pending time of a key.                               *)
RequeueAfterPeriod(c) ==
    timer' = [timer EXCEPT ![c] = IF timer[c] = NoTimer THEN RotationPeriod
                                  ELSE timer[c]]

(* A reconcile returns a non-nil error: a rate-limited requeue.           *)
RequeueWithError(c) == backoff' = [backoff EXCEPT ![c] = TRUE]

(* The reconcile ends; its in-memory copy of the CR is dropped.           *)
Finish(c) ==
    /\ pc' = [pc EXCEPT ![c] = "Idle"]
    /\ snap' = [snap EXCEPT ![c] = NoSnap]
    /\ err' = [err EXCEPT ![c] = "nil"]

MayFail == failures < MaxFailures
Fail == failures' = failures + 1

-----------------------------------------------------------------------------
(***************************************************************************)
(* Reconcile                                                               *)
(***************************************************************************)

Init ==
    /\ cluster = [c \in Clusters |-> [exists |-> TRUE, force |-> FALSE, cond |-> "None"]]
    /\ secret = [n \in SecretNames |-> NoSecret]
    /\ pc = [c \in Clusters |-> "Idle"]
    /\ snap = [c \in Clusters |-> NoSnap]
    /\ err = [c \in Clusters |-> "nil"]
    /\ queued = [c \in Clusters |-> TRUE]
    /\ timer = [c \in Clusters |-> NoTimer]
    /\ backoff = [c \in Clusters |-> FALSE]
    /\ failures = 0
    /\ edits = 0

(* Reconcile, lines 84-97, the CR exists: the controller reads it.        *)
GetCluster(c) ==
    /\ pc[c] = "Idle"
    /\ queued[c]
    /\ cluster[c].exists
    /\ queued' = [queued EXCEPT ![c] = FALSE]
    /\ pc' = [pc EXCEPT ![c] = "Handle"]
    /\ snap' = [snap EXCEPT ![c] = [force |-> cluster[c].force,
                                    cond |-> cluster[c].cond,
                                    stale |-> FALSE]]
    /\ UNCHANGED <<cluster, secret, err, timer, backoff, failures, edits>>

(* Reconcile, lines 86-97, the Get fails with an error other than         *)
(* NotFound: the error is returned.                                        *)
GetClusterFails(c) ==
    /\ pc[c] = "Idle"
    /\ queued[c]
    /\ MayFail
    /\ Fail
    /\ queued' = [queued EXCEPT ![c] = FALSE]
    /\ RequeueWithError(c)
    /\ UNCHANGED <<cluster, secret, pc, snap, err, timer, edits>>

(* Mutant: a NotFound CR ends the reconcile without deleting its Secret.  *)
DeleteKubeconfigSecretSkipped(c) ==
    /\ pc[c] = "Idle"
    /\ queued[c]
    /\ ~cluster[c].exists
    /\ queued' = [queued EXCEPT ![c] = FALSE]
    /\ UNCHANGED <<cluster, secret, pc, snap, err, timer, backoff, failures, edits>>

(* Reconcile, lines 86-97, the CR is gone: deleteKubeconfigSecret lists   *)
(* the Secrets labelled with the CR's name and deletes the one it finds;  *)
(* any other count is returned as an error.                                *)
DeleteKubeconfigSecret(c) ==
    /\ pc[c] = "Idle"
    /\ queued[c]
    /\ ~cluster[c].exists
    /\ queued' = [queued EXCEPT ![c] = FALSE]
    /\ LET owned == SecretsOfCluster(c) IN
       IF Cardinality(owned) = 1
       THEN /\ secret' = [n \in SecretNames |-> IF n \in owned THEN NoSecret ELSE secret[n]]
            /\ UNCHANGED backoff
       ELSE /\ RequeueWithError(c)
            /\ UNCHANGED secret
    /\ UNCHANGED <<cluster, pc, snap, err, timer, failures, edits>>

(* handleKubeconfig, lines 206-243, with the calls it makes. Each         *)
(* disjunct is one path through it; a path that fails records the         *)
(* condition on the in-memory CR and sets err.                             *)
HandleFailure(c, reason, e) ==
    /\ snap' = [snap EXCEPT ![c].cond = reason]
    /\ err' = [err EXCEPT ![c] = e]
    /\ pc' = [pc EXCEPT ![c] = "PersistError"]

HandleKubeconfig(c) ==
    /\ pc[c] = "Handle"
    /\ LET found == SecretsOfShoot(c)
           existing == IF found = {} THEN NoSecret ELSE CHOOSE n \in found : TRUE
       IN
       \/ \* getSecret: more than one Secret for the shoot (lines 190-192, 208-211)
          /\ Cardinality(found) > 1
          /\ HandleFailure(c, "FailedToGetSecret", "error")
          /\ UNCHANGED <<secret, timer, failures>>
       \/ \* KubeconfigProvider.Fetch fails (lines 213-217)
          /\ Cardinality(found) <= 1
          /\ MayFail
          /\ Fail
          /\ \E e \in {"error", "notFound"} : HandleFailure(c, "FailedToGetKubeconfig", e)
          /\ UNCHANGED <<secret, timer>>
       \/ \* forced: removeKubeconfig strips data and last-sync (lines 219-230, 301-313)
          /\ Cardinality(found) <= 1
          /\ snap[c].force
          /\ IF existing = NoSecret
             THEN UNCHANGED secret
             ELSE secret' = [secret EXCEPT ![existing].kubeconfig = NoKubeconfig]
          /\ pc' = [pc EXCEPT ![c] = "RemoveAnnotation"]
          /\ UNCHANGED <<snap, err, timer, failures>>
       \/ \* forced, and the Update of the stripped Secret fails (lines 224-227)
          /\ Cardinality(found) <= 1
          /\ snap[c].force
          /\ existing # NoSecret
          /\ MayFail
          /\ Fail
          /\ HandleFailure(c, "FailedToDeleteSecret", "error")
          /\ UNCHANGED <<secret, timer>>
       \/ \* not due: ksZero, RequeueAfter(rotationPeriod) (lines 232-236, 124)
          /\ Cardinality(found) <= 1
          /\ ~snap[c].force
          /\ ~SecretRotationTimePassed(existing)
          /\ RequeueAfterPeriod(c)
          /\ Finish(c)
          /\ UNCHANGED <<secret, failures>>
       \/ \* updateExistingSecret succeeds: ksModified (lines 238-239, 315-341)
          /\ Cardinality(found) <= 1
          /\ ~snap[c].force
          /\ existing # NoSecret
          /\ SecretRotationTimePassed(existing)
          /\ secret' = [secret EXCEPT ![existing].kubeconfig = 0]
          /\ snap' = [snap EXCEPT ![c].cond = "KubeconfigSecretRotated"]
          /\ pc' = [pc EXCEPT ![c] = "PersistReady"]
          /\ UNCHANGED <<err, timer, failures>>
       \/ \* updateExistingSecret: the Update fails (lines 328-333)
          /\ Cardinality(found) <= 1
          /\ ~snap[c].force
          /\ existing # NoSecret
          /\ SecretRotationTimePassed(existing)
          /\ MayFail
          /\ Fail
          /\ HandleFailure(c, "FailedToUpdateSecret", "error")
          /\ UNCHANGED <<secret, timer>>
       \/ \* createNewSecret succeeds: ksCreated (lines 242, 285-299, 368-386)
          /\ existing = NoSecret
          /\ ~snap[c].force
          /\ secret[SecretOf[c]] = NoSecret
          /\ secret' = [secret EXCEPT ![SecretOf[c]] = NewSecret(c)]
          /\ snap' = [snap EXCEPT ![c].cond = "KubeconfigSecretCreated"]
          /\ pc' = [pc EXCEPT ![c] = "PersistReady"]
          /\ UNCHANGED <<err, timer, failures>>
       \/ \* createNewSecret: Create refused, AlreadyExists or injected (lines 287-291)
          /\ existing = NoSecret
          /\ ~snap[c].force
          /\ \/ secret[SecretOf[c]] # NoSecret /\ UNCHANGED failures
             \/ MayFail /\ Fail
          /\ HandleFailure(c, "FailedToCreateSecret", "error")
          /\ UNCHANGED <<secret, timer>>
    /\ UNCHANGED <<cluster, queued, backoff, edits>>

(* persistStatusChange, lines 146-152: Status().Update of the in-memory   *)
(* CR. It is refused when the CR is gone or was written since the Get,    *)
(* and it may fail with a transient error (a timeout, throttling); the    *)
(* error is logged and returned, and both callers drop it. A successful   *)
(* write is itself a watch event (the condition carries a fresh           *)
(* transition time).                                                       *)
PersistStatusChange(c) ==
    \/ /\ cluster[c].exists /\ ~snap[c].stale
       /\ cluster' = [cluster EXCEPT ![c].cond = snap[c].cond]
       /\ queued' = [queued EXCEPT ![c] = TRUE]
       /\ UNCHANGED failures
    \/ /\ ~(cluster[c].exists /\ ~snap[c].stale)
       /\ UNCHANGED <<cluster, queued, failures>>
    \/ /\ cluster[c].exists /\ ~snap[c].stale
       /\ StatusUpdateMayFail /\ MayFail /\ Fail
       /\ UNCHANGED <<cluster, queued>>

(* Reconcile, lines 101-109: handleKubeconfig failed. The status is       *)
(* persisted (its failure ignored); a NotFound error ends the reconcile   *)
(* without requeue, any other is returned.                                 *)
ReconcileError(c) ==
    /\ pc[c] = "PersistError"
    /\ PersistStatusChange(c)
    /\ IF err[c] = "notFound" THEN UNCHANGED backoff ELSE RequeueWithError(c)
    /\ Finish(c)
    /\ UNCHANGED <<secret, timer, edits>>

(* Reconcile, lines 119-122: ksCreated or ksModified. The status is       *)
(* persisted (its failure ignored) and the reconcile ends without requeue. *)
ReconcileReady(c) ==
    /\ pc[c] = "PersistReady"
    /\ PersistStatusChange(c)
    /\ Finish(c)
    /\ UNCHANGED <<secret, timer, backoff, edits>>

(* Mutant: the annotation is deleted from a copy that is never written    *)
(* back, so the Update changes nothing.                                    *)
ClearForceAnnotationNoop(c) == UNCHANGED <<cluster, queued>>

(* Mutant: the annotation's removal is filtered out of the watch (as a     *)
(* GenerationChangedPredicate would: annotations do not bump generation).  *)
ClearForceAnnotationSilently(c) ==
    /\ cluster' = [cluster EXCEPT ![c].force = FALSE]
    /\ UNCHANGED queued

(* removeForceRotationAnnotation, lines 358-362: delete the annotation     *)
(* from the freshly read CR and Update it. Deleting an absent annotation  *)
(* leaves the CR unchanged, so the Update is no write and no event.       *)
ClearForceAnnotation(c) ==
    /\ cluster' = [cluster EXCEPT ![c].force = FALSE]
    /\ IF cluster[c].force
       THEN queued' = [queued EXCEPT ![c] = TRUE]
       ELSE UNCHANGED queued

(* Reconcile, lines 111-117 and 124, with removeForceRotationAnnotation,  *)
(* lines 343-366: the CR is read again, the annotation deleted and the CR *)
(* updated; then RequeueAfter(rotationPeriod). A failed Get or Update is   *)
(* returned as an error.                                                   *)
RemoveForceRotationAnnotation(c) ==
    /\ pc[c] = "RemoveAnnotation"
    /\ \/ /\ cluster[c].exists
          /\ ClearForceAnnotation(c)
          /\ RequeueAfterPeriod(c)
          /\ UNCHANGED <<backoff, failures>>
       \/ /\ ~cluster[c].exists
          /\ RequeueWithError(c)
          /\ UNCHANGED <<cluster, queued, timer, failures>>
       \/ /\ cluster[c].exists
          /\ MayFail
          /\ Fail
          /\ RequeueWithError(c)
          /\ UNCHANGED <<cluster, queued, timer>>
    /\ Finish(c)
    /\ UNCHANGED <<secret, edits>>

-----------------------------------------------------------------------------
(***************************************************************************)
(* The environment: the operator, the work queue, time.                    *)
(***************************************************************************)

(* The operator sets the force-rotation annotation on a CR.               *)
ForceRotation(c) ==
    /\ cluster[c].exists
    /\ ~cluster[c].force
    /\ edits < MaxEdits
    /\ edits' = edits + 1
    /\ cluster' = [cluster EXCEPT ![c].force = TRUE]
    /\ Touch(c)
    /\ UNCHANGED <<secret, pc, err, timer, backoff, failures>>

(* The operator changes something else on a CR (a label, the spec).       *)
EditCluster(c) ==
    /\ cluster[c].exists
    /\ edits < MaxEdits
    /\ edits' = edits + 1
    /\ Touch(c)
    /\ UNCHANGED <<cluster, secret, pc, err, timer, backoff, failures>>

(* The CR is deleted (it has no finalizer).                                *)
DeleteCluster(c) ==
    /\ cluster[c].exists
    /\ cluster' = [cluster EXCEPT ![c].exists = FALSE]
    /\ Touch(c)
    /\ UNCHANGED <<secret, pc, err, timer, backoff, failures, edits>>

(* A RequeueAfter comes due and the delaying queue adds the key.          *)
FireTimer(c) ==
    /\ timer[c] = 0
    /\ timer' = [timer EXCEPT ![c] = NoTimer]
    /\ queued' = [queued EXCEPT ![c] = TRUE]
    /\ UNCHANGED <<cluster, secret, pc, snap, err, backoff, failures, edits>>

(* The rate limiter's delay after an error passes and the key is added.   *)
FireBackoff(c) ==
    /\ backoff[c]
    /\ backoff' = [backoff EXCEPT ![c] = FALSE]
    /\ queued' = [queued EXCEPT ![c] = TRUE]
    /\ UNCHANGED <<cluster, secret, pc, snap, err, timer, failures, edits>>

(* One tick passes. A reconcile and the processing of a queued key take   *)
(* no time at this scale, so time stands still while there is one.        *)
Tick ==
    /\ \A c \in Clusters : pc[c] = "Idle" /\ ~queued[c] /\ timer[c] # 0
    /\ secret' = [n \in SecretNames |->
                    IF secret[n] = NoSecret \/ secret[n].kubeconfig = NoKubeconfig
                    THEN secret[n]
                    ELSE [secret[n] EXCEPT !.kubeconfig =
                            IF @ < AgeCap THEN @ + 1 ELSE AgeCap]]
    /\ timer' = [c \in Clusters |-> IF timer[c] = NoTimer THEN NoTimer ELSE timer[c] - 1]
    /\ UNCHANGED <<cluster, pc, snap, err, queued, backoff, failures, edits>>

Controller(c) ==
    \/ GetCluster(c)
    \/ DeleteKubeconfigSecret(c)
    \/ HandleKubeconfig(c)
    \/ ReconcileError(c)
    \/ ReconcileReady(c)
    \/ RemoveForceRotationAnnotation(c)
    \/ FireTimer(c)
    \/ FireBackoff(c)

Next ==
    \/ \E c \in Clusters :
          \/ Controller(c)
          \/ GetClusterFails(c)
          \/ ForceRotation(c)
          \/ EditCluster(c)
          \/ DeleteCluster(c)
    \/ Tick

(* The controller and the work queue are weakly fair: a worker picks up a *)
(* queued key and finishes the reconcile. The rate limiter's delay after  *)
(* an error always expires, so a pending retry is weakly fair on its own   *)
(* (other steps of the CR may not starve it). Time is weakly fair, so it  *)
(* does not stop. The operator and the injected failures are not fair.    *)
Spec == Init /\ [][Next]_vars
        /\ \A c \in Clusters : WF_vars(Controller(c)) /\ WF_vars(FireBackoff(c))
        /\ WF_vars(Tick)

-----------------------------------------------------------------------------
(***************************************************************************)
(* Properties                                                              *)
(***************************************************************************)

(* Nothing is left to do for the CR: no reconcile runs, its key is not    *)
(* queued and no retry is pending (a RequeueAfter timer may be).          *)
Quiescent(c) == pc[c] = "Idle" /\ ~queued[c] /\ ~backoff[c]

HasKubeconfig(n) == secret[n] # NoSecret /\ secret[n].kubeconfig # NoKubeconfig

(* Every kubeconfig a Secret holds was written at most one rotation       *)
(* period ago: the spec (4.2, 4.4) rotates at 95% of the period so that    *)
(* the Secret is refreshed before the issued credential expires, and      *)
(* requeues a not-yet-due Secret after the time remaining until then.     *)
KubeconfigFresh ==
    \A n \in SecretNames : HasKubeconfig(n) => secret[n].kubeconfig <= RotationPeriod

(* What the code does guarantee: every kubeconfig is replaced before it   *)
(* is two rotation periods old. This rests on a chain nobody states in    *)
(* the code: a rotation (ksModified/ksCreated) returns without requeue,   *)
(* its status write is a watch event, the reconcile of that event finds   *)
(* the Secret not due and sets RequeueAfter(rotationPeriod), and that     *)
(* timer, or an earlier one still pending, brings the next check.         *)
KubeconfigRenewedInTime ==
    \A n \in SecretNames : HasKubeconfig(n) => secret[n].kubeconfig < 2 * RotationPeriod

(* The reconcile of a CR writes only the Secret that belongs to that CR   *)
(* (spec 3: one Secret per access object, selected by a label matching    *)
(* the access object's identity). getSecret selects by the shoot-name     *)
(* label instead, the deletion path by the cluster-name label.            *)
OwnSecretOnly ==
    [][\A c \in Clusters :
         HandleKubeconfig(c) =>
            \A n \in SecretNames :
                secret'[n] # secret[n] =>
                    \/ secret[n] # NoSecret /\ secret[n].owner = c
                    \/ secret'[n] # NoSecret /\ secret'[n].owner = c]_vars

(* The controller never comes to rest with the CR's condition saying the  *)
(* kubeconfig Secret is ready while the Secret is missing or was stripped *)
(* by a forced rotation (removeKubeconfig, lines 219-230).                 *)
ReadyOnlyWithKubeconfig ==
    \A c \in Clusters :
        (Quiescent(c) /\ cluster[c].exists /\ cluster[c].cond \in ReadyReasons)
            => \E n \in SecretsOfShoot(c) : HasKubeconfig(n)

(* Once the controller has come to rest with a working kubeconfig Secret, *)
(* the CR's condition says so (spec 4.4: CREATED/MODIFIED persist a Ready *)
(* condition), rather than an earlier failure.                             *)
StatusReflectsSecret ==
    \A c \in Clusters :
        (Quiescent(c) /\ cluster[c].exists /\ \E n \in SecretsOfShoot(c) : HasKubeconfig(n))
            => cluster[c].cond \in ReadyReasons

(* A forced rotation is carried through: once the operator sets the       *)
(* annotation, the controller eventually removes it and the Secret holds  *)
(* a kubeconfig issued after the request (Reconcile lines 111-117 and the *)
(* following reconcile), unless the CR is deleted.                         *)
ForcedRotationCompletes ==
    \A c \in Clusters :
        (cluster[c].exists /\ cluster[c].force)
            ~> (\/ ~cluster[c].exists
               \/ /\ ~cluster[c].force
                  /\ \E n \in SecretsOfShoot(c) : HasKubeconfig(n) /\ secret[n].kubeconfig = 0)

(* The Secret of a deleted CR is eventually deleted (Reconcile lines      *)
(* 86-97), also when a reconcile in flight recreates it after the delete. *)
DeletedSecretRemoved ==
    \A c \in Clusters : ~cluster[c].exists ~> SecretsOfCluster(c) = {}

(* Once a CR is deleted and its Secret removed, its reconciles stop: the  *)
(* spec (4.4 step 1) says zero Secrets found means "already gone,         *)
(* success".                                                               *)
DeletionSettles ==
    \A c \in Clusters : <>[](~cluster[c].exists => Quiescent(c))


(* Retries of a CR that exists come to an end: once the injected failures *)
(* are spent, every reconcile of the CR eventually succeeds, so no error  *)
(* keeps it in the rate limiter. This needs the Secret that createNewSecret *)
(* writes (newSecret copies the CR's labels) to be the one getSecret finds *)
(* by shoot-name label, and that label to select one Secret only.          *)
RetriesCease ==
    \A c \in Clusters : <>[](cluster[c].exists => ~backoff[c])

=============================================================================
