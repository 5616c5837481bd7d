------------------- MODULE GardenerClusterControllerProofs -------------------
(***************************************************************************)
(* Proofs about GardenerClusterController, for every value of the         *)
(* constants that satisfies ConstantsAssumption.                           *)
(***************************************************************************)
EXTENDS GardenerClusterController, FiniteSetTheorems, TLAPS

USE ConstantsAssumption, NoSecretAssumption

(* The sets the record components range over.                              *)
LEMMA AgesNat == Ages \subseteq Nat
  BY DEF Ages, AgeCap

(* Changing one field of a record keeps it in its record type.            *)
LEMMA ClusterRecExcept ==
    ASSUME NEW r \in ClusterRec, NEW x \in Reasons, NEW b \in BOOLEAN
    PROVE  /\ [r EXCEPT !.cond = x] \in ClusterRec
           /\ [r EXCEPT !.force = b] \in ClusterRec
           /\ [r EXCEPT !.exists = b] \in ClusterRec
  BY Zenon DEF ClusterRec

LEMMA SnapRecExcept ==
    ASSUME NEW r \in SnapRec, NEW x \in Reasons, NEW b \in BOOLEAN
    PROVE  /\ [r EXCEPT !.cond = x] \in SnapRec
           /\ [r EXCEPT !.stale = b] \in SnapRec
  BY Zenon DEF SnapRec

LEMMA SecretRecExcept ==
    ASSUME NEW r \in SecretRec, NEW a \in Ages \cup {NoKubeconfig}
    PROVE  [r EXCEPT !.kubeconfig = a] \in SecretRec
  BY Zenon DEF SecretRec

(* persistStatusChange either writes the condition, which queues the key, *)
(* or leaves the CR and the queue alone: when it is refused (the CR gone   *)
(* or written since the Get) or fails. Only an injected failure keeps a    *)
(* write that would be accepted from happening.                            *)
LEMMA PersistEffects ==
    ASSUME NEW c \in Clusters, PersistStatusChange(c)
    PROVE  /\ \/ /\ cluster' = [cluster EXCEPT ![c].cond = snap[c].cond]
                 /\ queued' = [queued EXCEPT ![c] = TRUE]
              \/ UNCHANGED <<cluster, queued>>
           /\ (cluster[c].exists /\ ~snap[c].stale /\ ~(StatusUpdateMayFail /\ MayFail))
                 => /\ cluster' = [cluster EXCEPT ![c].cond = snap[c].cond]
                    /\ queued' = [queued EXCEPT ![c] = TRUE]
           /\ ~(cluster[c].exists /\ ~snap[c].stale) => UNCHANGED <<cluster, queued>>
           /\ failures' = failures \/ (MayFail /\ Fail)
BY DEF PersistStatusChange

(* The status write of persistStatusChange keeps the CRs, the queue and  *)
(* the failure count in their types.                                       *)
LEMMA PersistStatusChangeType ==
    ASSUME TypeOK, NEW c \in Clusters, PersistStatusChange(c)
    PROVE  /\ cluster' \in [Clusters -> ClusterRec]
           /\ queued' \in [Clusters -> BOOLEAN]
           /\ failures' \in 0..MaxFailures
<1>1. ASSUME /\ cluster' = [cluster EXCEPT ![c].cond = snap[c].cond]
             /\ queued' = [queued EXCEPT ![c] = TRUE]
      PROVE  cluster' \in [Clusters -> ClusterRec] /\ queued' \in [Clusters -> BOOLEAN]
  <2>1. [cluster[c] EXCEPT !.cond = snap[c].cond] \in ClusterRec
    BY ClusterRecExcept DEF TypeOK, SnapRec
  <2>2. cluster' = [cluster EXCEPT ![c] = [cluster[c] EXCEPT !.cond = snap[c].cond]]
    BY <1>1, Zenon
  <2>3. QED
    BY <1>1, <2>1, <2>2 DEF TypeOK
<1>2. UNCHANGED <<cluster, queued>>
        => cluster' \in [Clusters -> ClusterRec] /\ queued' \in [Clusters -> BOOLEAN]
  BY DEF TypeOK
<1>3. failures' \in 0..MaxFailures
  BY PersistEffects DEF TypeOK, MayFail, Fail
<1>4. QED
  BY <1>1, <1>2, <1>3, PersistEffects

(* A watch event (Touch) keeps the queue and the in-memory copies in type. *)
LEMMA TouchType ==
    ASSUME TypeOK, NEW c \in Clusters, Touch(c)
    PROVE  /\ queued' \in [Clusters -> BOOLEAN]
           /\ snap' \in [Clusters -> SnapRec]
<1>1. [snap[c] EXCEPT !.stale = (pc[c] # "Idle")] \in SnapRec
  BY SnapRecExcept, "None" \in Reasons DEF TypeOK, Reasons
<1>2. snap' = [snap EXCEPT ![c] = [snap[c] EXCEPT !.stale = (pc[c] # "Idle")]]
  BY Zenon DEF Touch
<1>3. QED
  BY <1>1, <1>2 DEF Touch, TypeOK

(* Setting or clearing one flag of a CR keeps the CRs in their type.       *)
LEMMA ClusterFlagType ==
    ASSUME TypeOK, NEW c \in Clusters, NEW b \in BOOLEAN
    PROVE  /\ [cluster EXCEPT ![c].force = b] \in [Clusters -> ClusterRec]
           /\ [cluster EXCEPT ![c].exists = b] \in [Clusters -> ClusterRec]
<1>1. /\ [cluster[c] EXCEPT !.force = b] \in ClusterRec
      /\ [cluster[c] EXCEPT !.exists = b] \in ClusterRec
  BY ClusterRecExcept, "None" \in Reasons DEF TypeOK, Reasons
<1>2. /\ [cluster EXCEPT ![c].force = b] = [cluster EXCEPT ![c] = [cluster[c] EXCEPT !.force = b]]
      /\ [cluster EXCEPT ![c].exists = b] = [cluster EXCEPT ![c] = [cluster[c] EXCEPT !.exists = b]]
  BY Zenon
<1>3. QED
  BY <1>1, <1>2 DEF TypeOK

-----------------------------------------------------------------------------
(* Writing a reason into one in-memory copy keeps the copies in type.      *)
LEMMA SnapCondType ==
    ASSUME TypeOK, NEW c \in Clusters, NEW r \in Reasons
    PROVE  [snap EXCEPT ![c].cond = r] \in [Clusters -> SnapRec]
<1>1. [snap[c] EXCEPT !.cond = r] \in SnapRec
  BY SnapRecExcept DEF TypeOK
<1>2. [snap EXCEPT ![c].cond = r] = [snap EXCEPT ![c] = [snap[c] EXCEPT !.cond = r]]
  BY Zenon
<1>3. QED
  BY <1>1, <1>2 DEF TypeOK

(* Setting the last-sync age of an existing Secret keeps the Secrets in   *)
(* type.                                                                   *)
LEMMA SecretKubeconfigType ==
    ASSUME TypeOK, NEW n \in SecretNames, secret[n] # NoSecret,
           NEW a \in Ages \cup {NoKubeconfig}
    PROVE  [secret EXCEPT ![n].kubeconfig = a]
             \in [SecretNames -> SecretRec \cup {NoSecret}]
<1>1. secret[n] \in SecretRec
  BY DEF TypeOK
<1>2. [secret[n] EXCEPT !.kubeconfig = a] \in SecretRec
  BY <1>1, SecretRecExcept
<1>3. [secret EXCEPT ![n].kubeconfig = a] = [secret EXCEPT ![n] = [secret[n] EXCEPT !.kubeconfig = a]]
  BY Zenon
<1>4. QED
  BY <1>2, <1>3 DEF TypeOK

(* handleKubeconfig's failure paths keep the reconcile's state in type.    *)
LEMMA HandleFailureType ==
    ASSUME TypeOK, NEW c \in Clusters, NEW r \in Reasons,
           NEW e \in {"error", "notFound"}, HandleFailure(c, r, e)
    PROVE  /\ snap' \in [Clusters -> SnapRec]
           /\ err' \in [Clusters -> {"nil", "error", "notFound"}]
           /\ pc' \in [Clusters -> Steps]
<1>1. snap' \in [Clusters -> SnapRec]
  BY SnapCondType DEF HandleFailure
<1>2. QED
  BY <1>1 DEF HandleFailure, TypeOK, Steps

(* The end of a reconcile keeps the reconcile's state in type.             *)
LEMMA FinishType ==
    ASSUME TypeOK, NEW c \in Clusters, Finish(c)
    PROVE  /\ snap' \in [Clusters -> SnapRec]
           /\ err' \in [Clusters -> {"nil", "error", "notFound"}]
           /\ pc' \in [Clusters -> Steps]
  BY DEF Finish, NoSnap, SnapRec, Steps, Reasons, TypeOK

-----------------------------------------------------------------------------
(* Every step of the controller, the operator, the work queue and the     *)
(* clock keeps every variable in its type: the records of the CRs, the    *)
(* Secrets and the in-memory copies keep their fields, the ages of the    *)
(* kubeconfigs stay under the cap, the timers within one rotation period  *)
(* and the failure and edit counters within their bounds.                 *)
LEMMA TypeStep == TypeOK /\ [Next]_vars => TypeOK'
<1> SUFFICES ASSUME TypeOK, [Next]_vars PROVE TypeOK'
  OBVIOUS
<1>1. ASSUME NEW c \in Clusters, GetCluster(c) PROVE TypeOK'
  <2>1. [force |-> cluster[c].force, cond |-> cluster[c].cond, stale |-> FALSE]
          \in SnapRec
    BY DEF TypeOK, ClusterRec, SnapRec
  <2>2. QED
    BY <1>1, <2>1 DEF GetCluster, TypeOK, Steps
<1>2. ASSUME NEW c \in Clusters, DeleteKubeconfigSecret(c) PROVE TypeOK'
  BY <1>2 DEF DeleteKubeconfigSecret, RequeueWithError, TypeOK
<1>3. ASSUME NEW c \in Clusters, HandleKubeconfig(c) PROVE TypeOK'
  <2> DEFINE found == SecretsOfShoot(c)
             existing == IF found = {} THEN NoSecret ELSE CHOOSE n \in found : TRUE
             SecretT == [SecretNames -> SecretRec \cup {NoSecret}]
  <2>1. existing # NoSecret => existing \in SecretNames /\ secret[existing] # NoSecret
    BY DEF SecretsOfShoot
  <2>2. existing # NoSecret =>
          /\ [secret EXCEPT ![existing].kubeconfig = NoKubeconfig] \in SecretT
          /\ [secret EXCEPT ![existing].kubeconfig = 0] \in SecretT
    <3> SUFFICES ASSUME existing # NoSecret
                 PROVE  /\ [secret EXCEPT ![existing].kubeconfig = NoKubeconfig] \in SecretT
                        /\ [secret EXCEPT ![existing].kubeconfig = 0] \in SecretT
      OBVIOUS
    <3>1. existing \in SecretNames /\ secret[existing] # NoSecret
      BY <2>1
    <3>2. 0 \in Ages /\ NoKubeconfig \in Ages \cup {NoKubeconfig}
      BY DEF Ages, AgeCap
    <3>3. QED
      BY <3>1, <3>2, SecretKubeconfigType
  <2>3. [secret EXCEPT ![SecretOf[c]] = NewSecret(c)] \in SecretT
    BY DEF NewSecret, SecretRec, Ages, AgeCap, TypeOK
  <2>4. secret' \in SecretT
    BY <1>3, <2>2, <2>3 DEF HandleKubeconfig, TypeOK
  <2>5. /\ [snap EXCEPT ![c].cond = "KubeconfigSecretRotated"] \in [Clusters -> SnapRec]
        /\ [snap EXCEPT ![c].cond = "KubeconfigSecretCreated"] \in [Clusters -> SnapRec]
    BY SnapCondType DEF Reasons, ReadyReasons
  <2>6. \A r \in Reasons, e \in {"error", "notFound"} :
           HandleFailure(c, r, e) =>
             /\ snap' \in [Clusters -> SnapRec]
             /\ err' \in [Clusters -> {"nil", "error", "notFound"}]
             /\ pc' \in [Clusters -> Steps]
    BY HandleFailureType
  <2>7. Finish(c) => /\ snap' \in [Clusters -> SnapRec]
                     /\ err' \in [Clusters -> {"nil", "error", "notFound"}]
                     /\ pc' \in [Clusters -> Steps]
    BY FinishType
  <2>8. /\ snap' \in [Clusters -> SnapRec]
        /\ err' \in [Clusters -> {"nil", "error", "notFound"}]
        /\ pc' \in [Clusters -> Steps]
    BY <1>3, <2>5, <2>6, <2>7 DEF HandleKubeconfig, Reasons, TypeOK, Steps
  <2>9. timer' \in [Clusters -> (0..RotationPeriod) \cup {NoTimer}]
    BY <1>3 DEF HandleKubeconfig, RequeueAfterPeriod, TypeOK
  <2>10. failures' \in 0..MaxFailures
    BY <1>3 DEF HandleKubeconfig, MayFail, Fail, TypeOK
  <2>11. QED
    BY <1>3, <2>4, <2>8, <2>9, <2>10 DEF HandleKubeconfig, TypeOK
<1>4. ASSUME NEW c \in Clusters, ReconcileError(c) PROVE TypeOK'
  <2>1. /\ cluster' \in [Clusters -> ClusterRec] /\ queued' \in [Clusters -> BOOLEAN]
        /\ failures' \in 0..MaxFailures
    BY <1>4, PersistStatusChangeType DEF ReconcileError
  <2>2. QED
    BY <1>4, <2>1, FinishType DEF ReconcileError, RequeueWithError, TypeOK
<1>5. ASSUME NEW c \in Clusters, ReconcileReady(c) PROVE TypeOK'
  <2>1. /\ cluster' \in [Clusters -> ClusterRec] /\ queued' \in [Clusters -> BOOLEAN]
        /\ failures' \in 0..MaxFailures
    BY <1>5, PersistStatusChangeType DEF ReconcileReady
  <2>2. QED
    BY <1>5, <2>1, FinishType DEF ReconcileReady, TypeOK
<1>6. ASSUME NEW c \in Clusters, RemoveForceRotationAnnotation(c) PROVE TypeOK'
  <2>1. [cluster EXCEPT ![c].force = FALSE] \in [Clusters -> ClusterRec]
    BY ClusterFlagType
  <2>2. cluster' \in [Clusters -> ClusterRec] /\ queued' \in [Clusters -> BOOLEAN]
    BY <1>6, <2>1 DEF RemoveForceRotationAnnotation, ClearForceAnnotation, TypeOK
  <2>3. timer' \in [Clusters -> (0..RotationPeriod) \cup {NoTimer}]
    BY <1>6 DEF RemoveForceRotationAnnotation, RequeueAfterPeriod, TypeOK
  <2>4. backoff' \in [Clusters -> BOOLEAN]
    BY <1>6 DEF RemoveForceRotationAnnotation, RequeueWithError, TypeOK
  <2>5. failures' \in 0..MaxFailures
    BY <1>6 DEF RemoveForceRotationAnnotation, MayFail, Fail, TypeOK
  <2>6. QED
    BY <1>6, <2>2, <2>3, <2>4, <2>5, FinishType DEF RemoveForceRotationAnnotation, TypeOK
<1>7. ASSUME NEW c \in Clusters, FireTimer(c) \/ FireBackoff(c) PROVE TypeOK'
  BY <1>7 DEF FireTimer, FireBackoff, TypeOK
<1>8. ASSUME NEW c \in Clusters, GetClusterFails(c) PROVE TypeOK'
  BY <1>8 DEF GetClusterFails, RequeueWithError, MayFail, Fail, TypeOK
<1>9. ASSUME NEW c \in Clusters,
             ForceRotation(c) \/ EditCluster(c) \/ DeleteCluster(c)
      PROVE TypeOK'
  <2>1. queued' \in [Clusters -> BOOLEAN] /\ snap' \in [Clusters -> SnapRec]
    BY <1>9, TouchType DEF ForceRotation, EditCluster, DeleteCluster
  <2>2. CASE ForceRotation(c)
    <3>1. cluster' \in [Clusters -> ClusterRec]
      BY <2>2, ClusterFlagType, TRUE \in BOOLEAN DEF ForceRotation
    <3>2. edits' \in 0..MaxEdits
      BY <2>2 DEF ForceRotation, TypeOK
    <3>3. QED
      BY <2>1, <2>2, <3>1, <3>2 DEF ForceRotation, TypeOK
  <2>3. CASE EditCluster(c)
    BY <2>1, <2>3 DEF EditCluster, TypeOK
  <2>4. CASE DeleteCluster(c)
    BY <2>1, <2>4, ClusterFlagType DEF DeleteCluster, TypeOK
  <2>5. QED
    BY <1>9, <2>2, <2>3, <2>4
<1>10. CASE Tick
  <2>1. secret' \in [SecretNames -> SecretRec \cup {NoSecret}]
    BY <1>10 DEF Tick, SecretRec, Ages, AgeCap, TypeOK
  <2>2. timer' \in [Clusters -> (0..RotationPeriod) \cup {NoTimer}]
    <3>1. ASSUME NEW d \in Clusters
          PROVE  (IF timer[d] = NoTimer THEN NoTimer ELSE timer[d] - 1)
                   \in (0..RotationPeriod) \cup {NoTimer}
      <4>1. timer[d] # 0
        BY <1>10 DEF Tick
      <4>2. QED
        BY <4>1 DEF TypeOK
    <3>2. QED
      BY <1>10, <3>1 DEF Tick
  <2>3. QED
    BY <1>10, <2>1, <2>2 DEF Tick, TypeOK
<1>11. CASE UNCHANGED vars
  BY <1>11 DEF vars, TypeOK
<1>12. QED
  BY <1>1, <1>2, <1>3, <1>4, <1>5, <1>6, <1>7, <1>8, <1>9, <1>10, <1>11
  DEF Next, Controller

(* Every reachable state is well typed (see TypeStep).                    *)
THEOREM TypeCorrect == Spec => []TypeOK
<1>1. Init => TypeOK
  BY DEF Init, TypeOK, ClusterRec, SnapRec, NoSnap, Steps, Reasons
<1>2. QED
  BY <1>1, TypeStep, PTL DEF Spec

-----------------------------------------------------------------------------
(***************************************************************************)
(* ReadyOnlyWithKubeconfig, for CRs that name distinct shoots.             *)
(***************************************************************************)

(* Distinct CRs name distinct shoots: one Secret per access object (spec  *)
(* 3). With a shared shoot the property fails: the reconcile of one CR    *)
(* strips the Secret of the other (the instance of run cross_cluster).    *)
ShootsDistinct == \A c, d \in Clusters : ShootOf[c] = ShootOf[d] => c = d

(* No status write fails with a transient error (or no failure is left to *)
(* inject). persistStatusChange's error is dropped at lines 102 and 120:   *)
(* after a Fetch NotFound (no requeue) a failed write leaves the old Ready *)
(* condition over a Secret a forced rotation stripped.                     *)
NoStatusUpdateFailure == ~StatusUpdateMayFail \/ MaxFailures = 0

(* Under NoStatusUpdateFailure no status write fails.                     *)
LEMMA StatusUpdateSucceeds ==
    ASSUME NoStatusUpdateFailure, TypeOK PROVE ~(StatusUpdateMayFail /\ MayFail)
BY DEF NoStatusUpdateFailure, MayFail, TypeOK

(* The CR has a Secret, found by its shoot-name label, with a kubeconfig. *)
Good(c) == \E n \in SecretsOfShoot(c) : HasKubeconfig(n)

(* A reconcile that is not running holds no stale copy of its CR.         *)
IdleFresh == \A c \in Clusters : pc[c] = "Idle" => ~snap[c].stale

(* A copy is stale only through a write to the CR, which queued the key.  *)
StaleQueued == \A c \in Clusters : snap[c].stale => queued[c]

(* A copy says "forced" only while the CR carries the annotation: only    *)
(* the reconcile holding that copy removes it, and then drops the copy.   *)
ForceHeld == \A c \in Clusters : snap[c].force => cluster[c].force

(* The annotation is removed only by a reconcile whose copy carried it.   *)
RemovingForced == \A c \in Clusters : pc[c] = "RemoveAnnotation" => snap[c].force

(* A Secret carries its owner's shoot-name label, or none (newSecret      *)
(* copies the owner's labels).                                             *)
LabelsOwned ==
    \A n \in SecretNames :
        secret[n] # NoSecret => secret[n].shoot \in {ShootOf[secret[n].owner], NoLabel}

Aux == IdleFresh /\ StaleQueued /\ ForceHeld /\ RemovingForced /\ LabelsOwned

(* The inductive invariant of ReadyOnlyWithKubeconfig.                    *)
ReadyInv == TypeOK /\ Aux /\ ReadyOnlyWithKubeconfig

(* With distinct shoots, the Secrets found by a CR's shoot label are its  *)
(* own.                                                                    *)
LEMMA OwnedShootSecrets ==
    ASSUME ShootsDistinct, TypeOK, LabelsOwned, NEW c \in Clusters,
           NEW n \in SecretsOfShoot(c)
    PROVE  secret[n].owner = c
<1>1. secret[n] \in SecretRec /\ secret[n].shoot = ShootOf[c]
  BY DEF SecretsOfShoot, TypeOK
<1>2. ShootOf[c] # NoLabel
  BY DEF ShootsDistinct
<1>3. ShootOf[secret[n].owner] = ShootOf[c]
  BY <1>1, <1>2 DEF LabelsOwned, SecretsOfShoot
<1>4. QED
  BY <1>1, <1>3 DEF ShootsDistinct, SecretRec

(* Writing a reason into one copy changes no other field of any copy.     *)
LEMMA SnapCondFrame ==
    ASSUME TypeOK, NEW c \in Clusters, NEW r, NEW x \in Clusters
    PROVE  /\ [snap EXCEPT ![c].cond = r][x].force = snap[x].force
           /\ [snap EXCEPT ![c].cond = r][x].stale = snap[x].stale
BY DEF TypeOK, SnapRec

(* What one run of handleKubeconfig for d does: it touches no CR, queue   *)
(* entry or retry, nor another CR's reconcile or timer; it moves d's      *)
(* reconcile on, ending it only on the not-due path, where d's Secret     *)
(* holds a kubeconfig younger than 95% of the period and RequeueAfter is  *)
(* set; and it writes at most one Secret: one of d's shoot, stripped or   *)
(* renewed, or a new one under an unused name.                            *)
LEMMA HandleEffects ==
    ASSUME TypeOK, NEW d \in Clusters, HandleKubeconfig(d)
    PROVE  /\ UNCHANGED <<cluster, queued, backoff>>
           /\ \A x \in Clusters \ {d} : pc'[x] = pc[x] /\ snap'[x] = snap[x]
                                       /\ timer'[x] = timer[x]
           /\ \/ /\ pc'[d] \in {"PersistError", "PersistReady"}
                 /\ snap'[d].force = snap[d].force /\ snap'[d].stale = snap[d].stale
              \/ pc'[d] = "RemoveAnnotation" /\ snap'[d] = snap[d] /\ snap[d].force
              \/ pc'[d] = "Idle" /\ snap'[d] = NoSnap /\ secret' = secret /\ Good(d)
           /\ pc'[d] = "Idle" =>
                 /\ timer'[d] = IF timer[d] = NoTimer THEN RotationPeriod ELSE timer[d]
                 /\ \E m \in SecretsOfShoot(d) :
                       /\ secret[m].kubeconfig \in Nat
                       /\ secret[m].kubeconfig * 100 < 95 * RotationPeriod
           /\ \/ secret' = secret
              \/ \E m \in SecretsOfShoot(d) :
                    \/ secret' = [secret EXCEPT ![m].kubeconfig = NoKubeconfig]
                    \/ secret' = [secret EXCEPT ![m].kubeconfig = 0]
              \/ /\ secret[SecretOf[d]] = NoSecret
                 /\ secret' = [secret EXCEPT ![SecretOf[d]] = NewSecret(d)]
<1> DEFINE found == SecretsOfShoot(d)
           existing == IF found = {} THEN NoSecret ELSE CHOOSE n \in found : TRUE
<1>1. existing # NoSecret => existing \in found
  BY DEF SecretsOfShoot
<1>2. ~SecretRotationTimePassed(existing) =>
         /\ existing \in found /\ Good(d)
         /\ secret[existing].kubeconfig \in Nat
         /\ secret[existing].kubeconfig * 100 < 95 * RotationPeriod
  <2> SUFFICES ASSUME ~SecretRotationTimePassed(existing)
               PROVE  /\ existing \in found /\ Good(d)
                      /\ secret[existing].kubeconfig \in Nat
                      /\ secret[existing].kubeconfig * 100 < 95 * RotationPeriod
    OBVIOUS
  <2>1. existing \in found /\ existing # NoSecret
           /\ secret[existing].kubeconfig # NoKubeconfig
    BY <1>1 DEF SecretRotationTimePassed
  <2>2. secret[existing].kubeconfig \in Nat
    BY <2>1, AgesNat DEF SecretsOfShoot, TypeOK, SecretRec
  <2>3. Good(d)
    BY <2>1 DEF Good, HasKubeconfig, SecretsOfShoot
  <2>4. secret[existing].kubeconfig * 100 < 95 * RotationPeriod
    BY <2>1, <2>2 DEF SecretRotationTimePassed
  <2>5. QED
    BY <2>1, <2>2, <2>3, <2>4
<1>3. UNCHANGED <<cluster, queued, backoff>>
  BY DEF HandleKubeconfig
<1>4. \A x \in Clusters \ {d} : pc'[x] = pc[x] /\ snap'[x] = snap[x] /\ timer'[x] = timer[x]
  BY DEF HandleKubeconfig, HandleFailure, Finish, RequeueAfterPeriod, TypeOK
<1>5. \A r : /\ [snap EXCEPT ![d].cond = r][d].force = snap[d].force
             /\ [snap EXCEPT ![d].cond = r][d].stale = snap[d].stale
  BY SnapCondFrame
(* What each kind of path does to d's reconcile.                          *)
<1>6. \A r, e : HandleFailure(d, r, e) =>
                 /\ pc'[d] = "PersistError"
                 /\ snap'[d].force = snap[d].force /\ snap'[d].stale = snap[d].stale
  BY <1>5 DEF HandleFailure, TypeOK
<1>7. Finish(d) => pc'[d] = "Idle" /\ snap'[d] = NoSnap
  BY DEF Finish, TypeOK
<1>8. \A r : (snap' = [snap EXCEPT ![d].cond = r] /\ pc' = [pc EXCEPT ![d] = "PersistReady"])
            => /\ pc'[d] = "PersistReady"
               /\ snap'[d].force = snap[d].force /\ snap'[d].stale = snap[d].stale
  BY <1>5 DEF TypeOK
<1>9. pc' = [pc EXCEPT ![d] = "RemoveAnnotation"] => pc'[d] = "RemoveAnnotation"
  BY DEF TypeOK
<1>10. \/ /\ pc'[d] \in {"PersistError", "PersistReady"}
          /\ snap'[d].force = snap[d].force /\ snap'[d].stale = snap[d].stale
       \/ pc'[d] = "RemoveAnnotation" /\ snap'[d] = snap[d] /\ snap[d].force
       \/ /\ pc'[d] = "Idle" /\ snap'[d] = NoSnap /\ secret' = secret
          /\ ~SecretRotationTimePassed(existing) /\ RequeueAfterPeriod(d)
  BY <1>6, <1>7, <1>8, <1>9 DEF HandleKubeconfig
<1>11. pc'[d] = "Idle" =>
          /\ timer'[d] = IF timer[d] = NoTimer THEN RotationPeriod ELSE timer[d]
          /\ \E m \in SecretsOfShoot(d) :
                /\ secret[m].kubeconfig \in Nat
                /\ secret[m].kubeconfig * 100 < 95 * RotationPeriod
  <2> SUFFICES ASSUME pc'[d] = "Idle"
               PROVE  /\ timer'[d] = IF timer[d] = NoTimer THEN RotationPeriod ELSE timer[d]
                      /\ \E m \in SecretsOfShoot(d) :
                            /\ secret[m].kubeconfig \in Nat
                            /\ secret[m].kubeconfig * 100 < 95 * RotationPeriod
    OBVIOUS
  <2>1. ~SecretRotationTimePassed(existing) /\ RequeueAfterPeriod(d)
    BY <1>10
  <2>2. QED
    BY <1>2, <2>1 DEF RequeueAfterPeriod, TypeOK
<1>12. \/ secret' = secret
       \/ \E m \in SecretsOfShoot(d) :
             \/ secret' = [secret EXCEPT ![m].kubeconfig = NoKubeconfig]
             \/ secret' = [secret EXCEPT ![m].kubeconfig = 0]
       \/ /\ secret[SecretOf[d]] = NoSecret
          /\ secret' = [secret EXCEPT ![SecretOf[d]] = NewSecret(d)]
  <2>1. \/ secret' = secret
        \/ existing # NoSecret /\ secret' = [secret EXCEPT ![existing].kubeconfig = NoKubeconfig]
        \/ existing # NoSecret /\ secret' = [secret EXCEPT ![existing].kubeconfig = 0]
        \/ /\ secret[SecretOf[d]] = NoSecret
           /\ secret' = [secret EXCEPT ![SecretOf[d]] = NewSecret(d)]
    BY DEF HandleKubeconfig
  <2>2. QED
    BY <1>1, <2>1
<1>13. QED
  BY <1>2, <1>3, <1>4, <1>10, <1>11, <1>12

(* A tick only ages kubeconfigs: it creates and deletes no Secret and     *)
(* keeps every Secret's labels.                                             *)
LEMMA TickSecrets ==
    ASSUME TypeOK, Tick, NEW n \in SecretNames
    PROVE  /\ secret[n] = NoSecret => secret'[n] = NoSecret
           /\ secret[n] # NoSecret => /\ secret'[n].owner = secret[n].owner
                                      /\ secret'[n].shoot = secret[n].shoot
<1>1. CASE secret[n] = NoSecret \/ secret[n].kubeconfig = NoKubeconfig
  BY <1>1 DEF Tick
<1>2. CASE ~(secret[n] = NoSecret \/ secret[n].kubeconfig = NoKubeconfig)
  <2>1. secret[n] \in SecretRec
    BY <1>2 DEF TypeOK
  <2>2. PICK k : secret'[n] = [secret[n] EXCEPT !.kubeconfig = k]
    BY <1>2 DEF Tick
  <2>3. secret'[n].owner = secret[n].owner /\ secret'[n].shoot = secret[n].shoot
    BY <2>1, <2>2, Zenon DEF SecretRec
  <2>4. QED
    BY <1>2, <2>3
<1>3. QED
  BY <1>1, <1>2

(* The auxiliary invariants are kept by every step.                       *)
LEMMA AuxStep == TypeOK /\ Aux /\ [Next]_vars => Aux'
<1> SUFFICES ASSUME TypeOK, Aux, [Next]_vars PROVE Aux'
  OBVIOUS
<1> USE DEF Aux
<1>1. ASSUME NEW d \in Clusters, GetCluster(d) PROVE Aux'
  BY <1>1 DEF GetCluster, IdleFresh, StaleQueued, ForceHeld, RemovingForced,
              LabelsOwned, TypeOK
<1>2. ASSUME NEW d \in Clusters, GetClusterFails(d) PROVE Aux'
  BY <1>2 DEF GetClusterFails, RequeueWithError, IdleFresh, StaleQueued,
              ForceHeld, RemovingForced, LabelsOwned, TypeOK
<1>3. ASSUME NEW d \in Clusters, DeleteKubeconfigSecret(d) PROVE Aux'
  <2>1. LabelsOwned'
    BY <1>3 DEF DeleteKubeconfigSecret, LabelsOwned
  <2>2. QED
    BY <1>3, <2>1 DEF DeleteKubeconfigSecret, RequeueWithError, IdleFresh,
                      StaleQueued, ForceHeld, RemovingForced, TypeOK
<1>4. ASSUME NEW d \in Clusters, HandleKubeconfig(d) PROVE Aux'
  <2>1. LabelsOwned'
    <3>2. NewSecret(d).shoot \in {ShootOf[NewSecret(d).owner], NoLabel}
      BY DEF NewSecret
    <3>3. \/ secret' = secret
          \/ \E m \in SecretsOfShoot(d) :
                \/ secret' = [secret EXCEPT ![m].kubeconfig = NoKubeconfig]
                \/ secret' = [secret EXCEPT ![m].kubeconfig = 0]
          \/ /\ secret[SecretOf[d]] = NoSecret
             /\ secret' = [secret EXCEPT ![SecretOf[d]] = NewSecret(d)]
      BY <1>4, HandleEffects
    <3>4. CASE secret' = secret
      BY <3>4 DEF LabelsOwned
    <3>5. CASE \E m \in SecretsOfShoot(d) :
                \/ secret' = [secret EXCEPT ![m].kubeconfig = NoKubeconfig]
                \/ secret' = [secret EXCEPT ![m].kubeconfig = 0]
      <4>0. PICK m \in SecretsOfShoot(d) :
                \E k : secret' = [secret EXCEPT ![m].kubeconfig = k]
        BY <3>5
      <4>1. PICK k : secret' = [secret EXCEPT ![m].kubeconfig = k]
        BY <4>0
      <4>2. \A n \in SecretNames \ {m} : secret'[n] = secret[n]
        BY <4>1 DEF TypeOK
      <4>3. secret'[m].owner = secret[m].owner
            /\ secret'[m].shoot = secret[m].shoot /\ secret[m] # NoSecret
        <5>1. m \in SecretNames /\ secret[m] # NoSecret /\ secret[m] \in SecretRec
          BY DEF SecretsOfShoot, TypeOK
        <5>2. secret'[m] = [secret[m] EXCEPT !.kubeconfig = k]
          BY <4>1, <5>1 DEF TypeOK
        <5>3. QED
          BY <5>1, <5>2, Zenon DEF SecretRec
      <4>4. QED
        BY <4>2, <4>3 DEF LabelsOwned, SecretsOfShoot
    <3>6. CASE /\ secret[SecretOf[d]] = NoSecret
               /\ secret' = [secret EXCEPT ![SecretOf[d]] = NewSecret(d)]
      BY <3>6, <3>2 DEF LabelsOwned, TypeOK
    <3>7. QED
      BY <3>3, <3>4, <3>5, <3>6
  <2>2. IdleFresh'
    BY <1>4, HandleEffects DEF IdleFresh, NoSnap, TypeOK
  <2>3. StaleQueued'
    BY <1>4, HandleEffects DEF StaleQueued, NoSnap, TypeOK
  <2>4. ForceHeld'
    BY <1>4, HandleEffects DEF ForceHeld, NoSnap, TypeOK
  <2>5. RemovingForced'
    BY <1>4, HandleEffects DEF RemovingForced, NoSnap, TypeOK
  <2>6. QED
    BY <2>1, <2>2, <2>3, <2>4, <2>5
<1>5. ASSUME NEW d \in Clusters, ReconcileError(d) \/ ReconcileReady(d) PROVE Aux'
  <2>1. /\ \A x \in Clusters : cluster'[x].force = cluster[x].force
        /\ \A x \in Clusters : queued[x] => queued'[x]
    <3>1. PersistStatusChange(d)
      BY <1>5 DEF ReconcileError, ReconcileReady
    <3>2. CASE /\ cluster' = [cluster EXCEPT ![d].cond = snap[d].cond]
               /\ queued' = [queued EXCEPT ![d] = TRUE]
      <4>2. cluster'[d] = [cluster[d] EXCEPT !.cond = snap[d].cond] /\ cluster[d] \in ClusterRec
        BY <3>2 DEF TypeOK
      <4>3. cluster'[d].force = cluster[d].force
        BY <4>2, Zenon DEF ClusterRec
      <4>4. QED
        BY <3>2, <4>3 DEF TypeOK
    <3>3. CASE UNCHANGED <<cluster, queued>>
      BY <3>3
    <3>4. QED
      BY <3>1, <3>2, <3>3, PersistEffects
  <2>2. pc' = [pc EXCEPT ![d] = "Idle"] /\ snap' = [snap EXCEPT ![d] = NoSnap]
    BY <1>5 DEF ReconcileError, ReconcileReady, Finish
  <2>3. QED
    BY <1>5, <2>1, <2>2 DEF ReconcileError, ReconcileReady, NoSnap, IdleFresh,
                            StaleQueued, ForceHeld, RemovingForced, LabelsOwned, TypeOK
<1>6. ASSUME NEW d \in Clusters, RemoveForceRotationAnnotation(d) PROVE Aux'
  <2>1. /\ \A x \in Clusters \ {d} : cluster'[x].force = cluster[x].force
        /\ \A x \in Clusters : queued[x] => queued'[x]
    BY <1>6 DEF RemoveForceRotationAnnotation, ClearForceAnnotation, TypeOK
  <2>2. pc' = [pc EXCEPT ![d] = "Idle"] /\ snap' = [snap EXCEPT ![d] = NoSnap]
    BY <1>6 DEF RemoveForceRotationAnnotation, Finish
  <2>3. QED
    BY <1>6, <2>1, <2>2 DEF RemoveForceRotationAnnotation, NoSnap, IdleFresh,
                            StaleQueued, ForceHeld, RemovingForced, LabelsOwned, TypeOK
<1>7. ASSUME NEW d \in Clusters, ForceRotation(d) \/ EditCluster(d) \/ DeleteCluster(d)
      PROVE  Aux'
  <2>1. /\ \A x \in Clusters : cluster[x].force => cluster'[x].force
        /\ queued' = [queued EXCEPT ![d] = TRUE]
        /\ snap' = [snap EXCEPT ![d].stale = (pc[d] # "Idle")]
        /\ UNCHANGED <<secret, pc>>
    <3>1. CASE ForceRotation(d)
      BY <3>1 DEF ForceRotation, Touch, TypeOK, ClusterRec
    <3>2. CASE EditCluster(d)
      BY <3>2 DEF EditCluster, Touch
    <3>3. CASE DeleteCluster(d)
      BY <3>3 DEF DeleteCluster, Touch, TypeOK, ClusterRec
    <3>4. QED
      BY <1>7, <3>1, <3>2, <3>3
  <2>2. \A x \in Clusters : /\ snap'[x].force = snap[x].force
                            /\ snap'[x].stale = IF x = d THEN pc[d] # "Idle" ELSE snap[x].stale
    BY <2>1 DEF TypeOK, SnapRec
  <2>3. QED
    BY <2>1, <2>2 DEF IdleFresh, StaleQueued, ForceHeld, RemovingForced,
                      LabelsOwned, TypeOK
<1>8. ASSUME NEW d \in Clusters, FireTimer(d) \/ FireBackoff(d) PROVE Aux'
  BY <1>8 DEF FireTimer, FireBackoff, IdleFresh, StaleQueued, ForceHeld,
              RemovingForced, LabelsOwned, TypeOK
<1>9. ASSUME Tick PROVE Aux'
  <2>1. \A n \in SecretNames :
          /\ secret[n] = NoSecret => secret'[n] = NoSecret
          /\ secret[n] # NoSecret => /\ secret'[n].owner = secret[n].owner
                                     /\ secret'[n].shoot = secret[n].shoot
    BY <1>9, TickSecrets
  <2>2. QED
    BY <1>9, <2>1 DEF Tick, IdleFresh, StaleQueued, ForceHeld, RemovingForced,
                      LabelsOwned
<1>10. CASE UNCHANGED vars
  BY <1>10 DEF vars, IdleFresh, StaleQueued, ForceHeld, RemovingForced, LabelsOwned
<1>11. QED
  BY <1>1, <1>2, <1>3, <1>4, <1>5, <1>6, <1>7, <1>8, <1>9, <1>10 DEF Next, Controller

(* A CR keeps its good Secret across a step that leaves that Secret as it *)
(* was.                                                                     *)
LEMMA GoodKept ==
    ASSUME NEW c \in Clusters,
           \A n \in SecretsOfShoot(c) : HasKubeconfig(n) => secret'[n] = secret[n]
    PROVE  Good(c) => Good(c)'
BY DEF Good, SecretsOfShoot, HasKubeconfig

(* A tick only ages kubeconfigs: an age stays an age.                      *)
LEMMA TickKeepsGood ==
    ASSUME TypeOK, Tick, NEW c \in Clusters
    PROVE  Good(c) => Good(c)'
<1> SUFFICES ASSUME NEW n \in SecretsOfShoot(c), HasKubeconfig(n) PROVE Good(c)'
  BY DEF Good
<1>1. secret[n] \in SecretRec /\ secret[n].kubeconfig \in Ages
  BY DEF SecretsOfShoot, HasKubeconfig, TypeOK, SecretRec
<1>2. secret'[n] = [secret[n] EXCEPT !.kubeconfig =
                      IF secret[n].kubeconfig < AgeCap THEN secret[n].kubeconfig + 1
                      ELSE AgeCap]
  BY <1>1, AgesNat DEF Tick, HasKubeconfig, SecretsOfShoot
<1>3. secret'[n].kubeconfig \in Nat /\ secret'[n] \in SecretRec
  <2>1. (IF secret[n].kubeconfig < AgeCap THEN secret[n].kubeconfig + 1 ELSE AgeCap) \in Ages
    BY <1>1 DEF Ages, AgeCap
  <2>2. QED
    BY <1>1, <1>2, <2>1, AgesNat, SecretRecExcept
<1>4. secret'[n].shoot = ShootOf[c]
  <2>1. secret'[n].shoot = secret[n].shoot
    BY <1>1, <1>2, Zenon DEF SecretRec
  <2>2. QED
    BY <2>1 DEF SecretsOfShoot
<1>5. QED
  BY <1>3, <1>4, NoSecretAssumption DEF Good, SecretsOfShoot, HasKubeconfig

(* Every step keeps ReadyOnlyWithKubeconfig, given the auxiliary           *)
(* invariants. A CR's reconcile can only end in a quiescent Ready state    *)
(* on the not-due path, which found a kubeconfig; a Ready condition        *)
(* written to the CR is itself a watch event, so the CR is queued again;   *)
(* a removed annotation queues it too (ForceHeld, RemovingForced); and     *)
(* the reconcile of another CR never strips, renews or deletes this CR's  *)
(* Secret (OwnedShootSecrets).                                              *)
LEMMA ReadyStep ==
    ASSUME ShootsDistinct, NoStatusUpdateFailure, TypeOK, Aux, ReadyOnlyWithKubeconfig, [Next]_vars
    PROVE  ReadyOnlyWithKubeconfig'
<1> SUFFICES ASSUME NEW c \in Clusters, Quiescent(c)', cluster'[c].exists,
                    cluster'[c].cond \in ReadyReasons
             PROVE  Good(c)'
  BY DEF ReadyOnlyWithKubeconfig, Good
<1>0. Quiescent(c)' => pc'[c] = "Idle" /\ ~queued'[c] /\ ~backoff'[c]
  BY DEF Quiescent
<1>00. \A n \in SecretsOfShoot(c) :
          secret[n].owner = c /\ n \in SecretNames /\ secret[n] # NoSecret
  <2>1. LabelsOwned
    BY DEF Aux
  <2>2. QED
    BY <2>1, OwnedShootSecrets DEF SecretsOfShoot
<1> DEFINE Same == /\ cluster'[c] = cluster[c] /\ pc'[c] = pc[c]
                   /\ queued'[c] = queued[c] /\ backoff'[c] = backoff[c]
(* A step that leaves c's CR and work alone keeps c's Secret good.       *)
<1>1. Same /\ (Good(c) => Good(c)') => Good(c)'
  <2>1. Same => Quiescent(c) /\ cluster[c].exists /\ cluster[c].cond \in ReadyReasons
    BY <1>0 DEF Quiescent
  <2>2. QED
    BY <2>1 DEF ReadyOnlyWithKubeconfig, Good
<1>2. secret' = secret => (Good(c) => Good(c)')
  BY GoodKept
<1>3. ASSUME NEW d \in Clusters, GetCluster(d) \/ GetClusterFails(d) PROVE Good(c)'
  <2>1. CASE d = c
    BY <1>0, <1>3, <2>1 DEF GetCluster, GetClusterFails, RequeueWithError, TypeOK
  <2>2. CASE d # c
    BY <1>1, <1>2, <1>3, <2>2 DEF GetCluster, GetClusterFails, RequeueWithError, TypeOK
  <2>3. QED
    BY <2>1, <2>2
<1>4. ASSUME NEW d \in Clusters, DeleteKubeconfigSecret(d) PROVE Good(c)'
  <2>1. CASE d = c
    BY <1>4, <2>1 DEF DeleteKubeconfigSecret
  <2>2. CASE d # c
    <3>1. Same
      BY <1>4, <2>2 DEF DeleteKubeconfigSecret, RequeueWithError, TypeOK
    <3>2. \A n \in SecretsOfShoot(c) : secret'[n] = secret[n]
      <4>1. \A n \in SecretsOfShoot(c) : n \notin SecretsOfCluster(d)
        BY <1>00, <2>2 DEF SecretsOfCluster
      <4>2. QED
        BY <1>4, <4>1 DEF DeleteKubeconfigSecret, SecretsOfShoot
    <3>3. QED
      BY <1>1, <3>1, <3>2, GoodKept
  <2>3. QED
    BY <2>1, <2>2
<1>5. ASSUME NEW d \in Clusters, HandleKubeconfig(d) PROVE Good(c)'
  <2>1. CASE d = c
    BY <1>0, <1>2, <1>5, <2>1, HandleEffects
  <2>2. CASE d # c
    <3>1. Same
      BY <1>5, <2>2, HandleEffects
    <3>2. \A n \in SecretsOfShoot(c) : secret'[n] = secret[n]
      <4> SUFFICES ASSUME NEW n \in SecretsOfShoot(c) PROVE secret'[n] = secret[n]
        OBVIOUS
      <4>1. secret[n].owner = c /\ n \in SecretNames /\ secret[n] # NoSecret
        BY <1>00
      <4>2. \A m \in SecretsOfShoot(d) : m # n
        <5>1. LabelsOwned
          BY DEF Aux
        <5>2. QED
          BY <2>2, <4>1, <5>1, OwnedShootSecrets
      <4>3. \/ secret' = secret
            \/ \E m \in SecretsOfShoot(d) :
                  \/ secret' = [secret EXCEPT ![m].kubeconfig = NoKubeconfig]
                  \/ secret' = [secret EXCEPT ![m].kubeconfig = 0]
            \/ /\ secret[SecretOf[d]] = NoSecret
               /\ secret' = [secret EXCEPT ![SecretOf[d]] = NewSecret(d)]
        BY <1>5, HandleEffects
      <4>4. QED
        BY <4>1, <4>2, <4>3 DEF TypeOK
    <3>3. QED
      BY <1>1, <3>1, <3>2, GoodKept
  <2>3. QED
    BY <2>1, <2>2
<1>6. ASSUME NEW d \in Clusters, ReconcileError(d) \/ ReconcileReady(d) PROVE Good(c)'
  <2>1. PersistStatusChange(d) /\ secret' = secret
    BY <1>6 DEF ReconcileError, ReconcileReady
  <2>2. CASE d = c
    <3>1. CASE cluster[c].exists /\ ~snap[c].stale
      <4>1. queued' = [queued EXCEPT ![c] = TRUE]
        BY <2>1, <2>2, <3>1, PersistEffects, StatusUpdateSucceeds
      <4>2. QED
        BY <1>0, <4>1 DEF TypeOK
    <3>2. CASE ~(cluster[c].exists /\ ~snap[c].stale)
      <4>1. cluster' = cluster /\ queued' = queued
        BY <2>1, <2>2, <3>2 DEF PersistStatusChange
      <4>2. snap[c].stale
        BY <3>2, <4>1
      <4>3. QED
        BY <1>0, <4>1, <4>2 DEF Aux, StaleQueued
    <3>3. QED
      BY <3>1, <3>2
  <2>3. CASE d # c
    <3>1. Same
      <4>1. cluster'[c] = cluster[c] /\ queued'[c] = queued[c]
        BY <2>1, <2>3 DEF PersistStatusChange, TypeOK
      <4>2. QED
        BY <1>6, <2>3, <4>1 DEF ReconcileError, ReconcileReady, Finish,
                                 RequeueWithError, TypeOK
    <3>2. QED
      BY <1>1, <1>2, <2>1, <3>1
  <2>4. QED
    BY <2>2, <2>3
<1>7. ASSUME NEW d \in Clusters, RemoveForceRotationAnnotation(d) PROVE Good(c)'
  <2>1. CASE d = c
    <3>1. cluster[c].force
      BY <1>7, <2>1 DEF RemoveForceRotationAnnotation, Aux, RemovingForced, ForceHeld
    <3>2. QED
      BY <1>0, <1>7, <2>1, <3>1 DEF RemoveForceRotationAnnotation, ClearForceAnnotation,
                                    RequeueWithError, TypeOK
  <2>2. CASE d # c
    BY <1>1, <1>2, <1>7, <2>2 DEF RemoveForceRotationAnnotation, ClearForceAnnotation,
                                  RequeueWithError, Finish, TypeOK
  <2>3. QED
    BY <2>1, <2>2
<1>8. ASSUME NEW d \in Clusters,
             \/ ForceRotation(d) \/ EditCluster(d) \/ DeleteCluster(d)
             \/ FireTimer(d) \/ FireBackoff(d)
      PROVE  Good(c)'
  <2>1. CASE d = c
    BY <1>0, <1>8, <2>1 DEF ForceRotation, EditCluster, DeleteCluster, Touch,
                            FireTimer, FireBackoff, TypeOK
  <2>2. CASE d # c
    BY <1>1, <1>2, <1>8, <2>2 DEF ForceRotation, EditCluster, DeleteCluster, Touch,
                                  FireTimer, FireBackoff, TypeOK
  <2>3. QED
    BY <2>1, <2>2
<1>9. CASE Tick
  BY <1>1, <1>9, TickKeepsGood DEF Tick
<1>10. CASE UNCHANGED vars
  BY <1>1, <1>2, <1>10 DEF vars
<1>11. QED
  BY <1>3, <1>4, <1>5, <1>6, <1>7, <1>8, <1>9, <1>10 DEF Next, Controller

(* The type and Aux hold in every reachable state, whatever fails.       *)
LEMMA AuxHolds == Spec => [](TypeOK /\ Aux)
<1>1. Init => TypeOK /\ Aux
  BY DEF Init, TypeOK, Aux, IdleFresh, StaleQueued, ForceHeld, RemovingForced,
         LabelsOwned, ClusterRec, SnapRec, NoSnap, Steps, Reasons
<1>2. QED
  BY <1>1, TypeStep, AuxStep, PTL DEF Spec

(* ReadyInv is inductive.                                                  *)
LEMMA ReadyInvInductive ==
    ASSUME ShootsDistinct, NoStatusUpdateFailure
    PROVE  ReadyInv /\ [Next]_vars => ReadyInv'
BY TypeStep, AuxStep, ReadyStep DEF ReadyInv

(* ReadyInv holds in every reachable state.                               *)
LEMMA ReadyInvHolds ==
    ASSUME ShootsDistinct, NoStatusUpdateFailure
    PROVE  Spec => []ReadyInv
<1>1. Init => ReadyInv
  BY DEF Init, ReadyInv, TypeOK, Aux, IdleFresh, StaleQueued, ForceHeld,
         RemovingForced, LabelsOwned, ReadyOnlyWithKubeconfig, Quiescent,
         ClusterRec, SnapRec, NoSnap, Steps, Reasons
<1>2. QED
  BY <1>1, ReadyInvInductive, PTL DEF Spec

(* When distinct CRs name distinct shoots, a CR whose reconcile is done   *)
(* and whose key is not queued for another, and which carries a Ready     *)
(* condition (KubeconfigSecretCreated or KubeconfigSecretRotated), has a  *)
(* Secret of its shoot that holds a kubeconfig: the condition written by  *)
(* Reconcile is not left standing over a stripped or deleted Secret.      *)
THEOREM ReadyOnlyWithKubeconfigHolds ==
    ASSUME ShootsDistinct, NoStatusUpdateFailure
    PROVE  Spec => []ReadyOnlyWithKubeconfig
<1>1. ReadyInv => ReadyOnlyWithKubeconfig
  BY DEF ReadyInv
<1>2. QED
  BY <1>1, ReadyInvHolds, PTL

(* A run of handleKubeconfig for a CR changes only Secrets owned by that  *)
(* CR, whether it strips, renews or creates one: in a well-typed state in *)
(* which every Secret carries its owner's shoot label, the Secrets that   *)
(* getSecret finds by that label are the CR's own.                         *)
LEMMA HandleWritesOwn ==
    ASSUME ShootsDistinct, TypeOK, LabelsOwned, NEW c \in Clusters, HandleKubeconfig(c),
           NEW n \in SecretNames, secret'[n] # secret[n]
    PROVE  \/ secret[n] # NoSecret /\ secret[n].owner = c
           \/ secret'[n] # NoSecret /\ secret'[n].owner = c
<1>1. \/ secret' = secret
      \/ \E m \in SecretsOfShoot(c) :
            \/ secret' = [secret EXCEPT ![m].kubeconfig = NoKubeconfig]
            \/ secret' = [secret EXCEPT ![m].kubeconfig = 0]
      \/ /\ secret[SecretOf[c]] = NoSecret
         /\ secret' = [secret EXCEPT ![SecretOf[c]] = NewSecret(c)]
  BY HandleEffects
<1>2. CASE \E m \in SecretsOfShoot(c) :
              \/ secret' = [secret EXCEPT ![m].kubeconfig = NoKubeconfig]
              \/ secret' = [secret EXCEPT ![m].kubeconfig = 0]
  <2>1. PICK m \in SecretsOfShoot(c) :
            \/ secret' = [secret EXCEPT ![m].kubeconfig = NoKubeconfig]
            \/ secret' = [secret EXCEPT ![m].kubeconfig = 0]
    BY <1>2
  <2>2. n = m
    BY <2>1 DEF TypeOK
  <2>3. QED
    BY <2>2, OwnedShootSecrets DEF SecretsOfShoot
<1>3. CASE /\ secret[SecretOf[c]] = NoSecret
           /\ secret' = [secret EXCEPT ![SecretOf[c]] = NewSecret(c)]
  <2>1. n = SecretOf[c] /\ secret'[n] = NewSecret(c)
    BY <1>3 DEF TypeOK
  <2>2. NewSecret(c) \in SecretRec
    BY DEF NewSecret, SecretRec, Ages, AgeCap
  <2>3. QED
    BY <2>1, <2>2, NoSecretAssumption DEF NewSecret
<1>4. QED
  BY <1>1, <1>2, <1>3

(* When distinct CRs name distinct shoots, the reconcile of a CR writes   *)
(* only Secrets that CR owns: getSecret's shoot-name selection then       *)
(* agrees with ownership. Run cross_cluster shows the property fails when *)
(* two CRs share a shoot.                                                   *)
THEOREM OwnSecretOnlyHolds ==
    ASSUME ShootsDistinct
    PROVE  Spec => OwnSecretOnly
<1> DEFINE Own ==
      \A c \in Clusters :
         HandleKubeconfig(c) =>
            \A n \in SecretNames :
                secret'[n] # secret[n] =>
                    \/ secret[n] # NoSecret /\ secret[n].owner = c
                    \/ secret'[n] # NoSecret /\ secret'[n].owner = c
<1>1. TypeOK /\ Aux => Own
  BY HandleWritesOwn DEF Aux
<1>2. Own => [Own]_vars
  OBVIOUS
<1>3. QED
  BY <1>1, <1>2, AuxHolds, PTL DEF OwnSecretOnly

-----------------------------------------------------------------------------
(***************************************************************************)
(* KubeconfigRenewedInTime, without injected API failures and for CRs     *)
(* that name distinct shoots.                                               *)
(***************************************************************************)

Owner(n) == secret[n].owner
Age(n) == secret[n].kubeconfig

(* A Secret lives under the name its owner's CR gives it: the controller  *)
(* creates Secrets only there (createNewSecret).                           *)
SecretPlaced == \A n \in SecretNames : secret[n] # NoSecret => n = SecretOf[Owner(n)]

(* A reconcile in progress for a deleted CR holds a stale copy: the Get   *)
(* found the CR, so it was deleted since.                                  *)
GoneStale == \A c \in Clusters : pc[c] # "Idle" /\ ~cluster[c].exists => snap[c].stale

(* The next look at a Secret's owner is pending, and comes before the     *)
(* kubeconfig is two periods old: the owner's reconcile is running or     *)
(* queued (time does not pass then), or its RequeueAfter timer fires in   *)
(* time.                                                                    *)
Renewal(n) ==
    /\ Age(n) < 2 * RotationPeriod
    /\ \/ pc[Owner(n)] # "Idle"
       \/ queued[Owner(n)]
       \/ timer[Owner(n)] # NoTimer /\ Age(n) + timer[Owner(n)] < 2 * RotationPeriod

RenewalPending == \A n \in SecretNames : HasKubeconfig(n) => Renewal(n)

(* The inductive invariant of KubeconfigRenewedInTime.                     *)
RenewInv == TypeOK /\ Aux /\ SecretPlaced /\ GoneStale /\ RenewalPending

(* The steps that write Secrets.                                           *)
LEMMA SecretWriters ==
    [Next]_vars => \/ \E d \in Clusters : DeleteKubeconfigSecret(d) \/ HandleKubeconfig(d)
                   \/ Tick
                   \/ secret' = secret
BY DEF Next, Controller, GetCluster, GetClusterFails, ReconcileError, ReconcileReady,
       RemoveForceRotationAnnotation, FireTimer, FireBackoff, ForceRotation,
       EditCluster, DeleteCluster, vars

LEMMA PlacedStep == TypeOK /\ SecretPlaced /\ [Next]_vars => SecretPlaced'
<1> SUFFICES ASSUME TypeOK, SecretPlaced, [Next]_vars PROVE SecretPlaced'
  OBVIOUS
<1>1. CASE \E d \in Clusters : DeleteKubeconfigSecret(d)
  BY <1>1 DEF DeleteKubeconfigSecret, SecretPlaced, Owner
<1>2. ASSUME NEW d \in Clusters, HandleKubeconfig(d) PROVE SecretPlaced'
  <2> SUFFICES ASSUME NEW n \in SecretNames, secret'[n] # NoSecret
               PROVE  n = SecretOf[Owner(n)']
    BY DEF SecretPlaced
  <2>1. CASE secret'[n] = secret[n]
    BY <2>1 DEF SecretPlaced, Owner
  <2>2. CASE secret'[n] # secret[n]
    <3>1. \/ \E m \in SecretsOfShoot(d) :
                \/ secret' = [secret EXCEPT ![m].kubeconfig = NoKubeconfig]
                \/ secret' = [secret EXCEPT ![m].kubeconfig = 0]
          \/ /\ secret[SecretOf[d]] = NoSecret
             /\ secret' = [secret EXCEPT ![SecretOf[d]] = NewSecret(d)]
      BY <1>2, <2>2, HandleEffects
    <3>2. CASE \E m \in SecretsOfShoot(d) :
                \/ secret' = [secret EXCEPT ![m].kubeconfig = NoKubeconfig]
                \/ secret' = [secret EXCEPT ![m].kubeconfig = 0]
      <4>0. PICK m \in SecretsOfShoot(d) : \E k : secret' = [secret EXCEPT ![m].kubeconfig = k]
        BY <3>2
      <4>1. PICK k : secret' = [secret EXCEPT ![m].kubeconfig = k]
        BY <4>0
      <4>2. n = m /\ secret[m] \in SecretRec /\ secret[m] # NoSecret
        BY <2>2, <4>1 DEF SecretsOfShoot, TypeOK
      <4>3. secret'[m] = [secret[m] EXCEPT !.kubeconfig = k]
        BY <4>1, <4>2 DEF TypeOK
      <4>4. secret'[m].owner = secret[m].owner
        BY <4>2, <4>3, Zenon DEF SecretRec
      <4>5. QED
        BY <4>2, <4>4 DEF SecretPlaced, Owner
    <3>3. CASE /\ secret[SecretOf[d]] = NoSecret
               /\ secret' = [secret EXCEPT ![SecretOf[d]] = NewSecret(d)]
      BY <2>2, <3>3 DEF NewSecret, Owner, TypeOK
    <3>4. QED
      BY <3>1, <3>2, <3>3
  <2>3. QED
    BY <2>1, <2>2
<1>3. CASE Tick
  BY <1>3, TickSecrets DEF SecretPlaced, Owner
<1>4. CASE secret' = secret
  BY <1>4 DEF SecretPlaced, Owner
<1>5. QED
  BY <1>1, <1>2, <1>3, <1>4, SecretWriters

(* The steps that end a reconcile keep every CR in existence or not.       *)
LEMMA ExistsKept ==
    ASSUME TypeOK, NEW d \in Clusters,
           ReconcileError(d) \/ ReconcileReady(d) \/ RemoveForceRotationAnnotation(d)
    PROVE  \A x \in Clusters : cluster'[x].exists = cluster[x].exists
<1>1. \/ cluster' = cluster
      \/ \E v : cluster' = [cluster EXCEPT ![d].cond = v]
      \/ cluster' = [cluster EXCEPT ![d].force = FALSE]
  BY DEF ReconcileError, ReconcileReady, RemoveForceRotationAnnotation,
         PersistStatusChange, ClearForceAnnotation
<1>2. cluster[d] \in ClusterRec
  BY DEF TypeOK
<1>3. \A v : [cluster[d] EXCEPT !.cond = v].exists = cluster[d].exists
  BY <1>2, Zenon DEF ClusterRec
<1>4. [cluster[d] EXCEPT !.force = FALSE].exists = cluster[d].exists
  BY <1>2, Zenon DEF ClusterRec
<1>5. CASE \E v : cluster' = [cluster EXCEPT ![d].cond = v]
  <2>1. PICK v : cluster' = [cluster EXCEPT ![d].cond = v]
    BY <1>5
  <2>2. QED
    BY <1>3, <2>1 DEF TypeOK
<1>6. CASE cluster' = [cluster EXCEPT ![d].force = FALSE]
  BY <1>4, <1>6 DEF TypeOK
<1>7. QED
  BY <1>1, <1>5, <1>6

LEMMA GoneStaleStep == TypeOK /\ GoneStale /\ [Next]_vars => GoneStale'
<1> SUFFICES ASSUME TypeOK, GoneStale, [Next]_vars PROVE GoneStale'
  OBVIOUS
<1>1. ASSUME NEW d \in Clusters, GetCluster(d) PROVE GoneStale'
  BY <1>1 DEF GetCluster, GoneStale, TypeOK
<1>2. ASSUME NEW d \in Clusters,
             \/ GetClusterFails(d) \/ DeleteKubeconfigSecret(d)
             \/ FireTimer(d) \/ FireBackoff(d)
      PROVE  GoneStale'
  BY <1>2 DEF GetClusterFails, DeleteKubeconfigSecret, FireTimer, FireBackoff, GoneStale
<1>3. ASSUME NEW d \in Clusters, HandleKubeconfig(d) PROVE GoneStale'
  <2>1. pc[d] = "Handle"
    BY <1>3 DEF HandleKubeconfig
  <2>2. QED
    BY <1>3, <2>1, HandleEffects DEF GoneStale
<1>4. ASSUME NEW d \in Clusters,
             ReconcileError(d) \/ ReconcileReady(d) \/ RemoveForceRotationAnnotation(d)
      PROVE  GoneStale'
  <2>1. pc' = [pc EXCEPT ![d] = "Idle"] /\ snap' = [snap EXCEPT ![d] = NoSnap]
    BY <1>4 DEF ReconcileError, ReconcileReady, RemoveForceRotationAnnotation, Finish
  <2>2. QED
    BY <1>4, <2>1, ExistsKept DEF GoneStale, TypeOK
<1>5. ASSUME NEW d \in Clusters, ForceRotation(d) \/ EditCluster(d) \/ DeleteCluster(d)
      PROVE  GoneStale'
  <2>1. /\ \A x \in Clusters \ {d} : cluster'[x].exists = cluster[x].exists
        /\ cluster[d].exists
        /\ snap' = [snap EXCEPT ![d].stale = (pc[d] # "Idle")]
        /\ pc' = pc
    BY <1>5 DEF ForceRotation, EditCluster, DeleteCluster, Touch, TypeOK
  <2>2. \A x \in Clusters :
           snap'[x].stale = IF x = d THEN pc[d] # "Idle" ELSE snap[x].stale
    BY <2>1 DEF TypeOK, SnapRec
  <2>3. cluster'[d].exists \/ pc[d] = "Idle" \/ snap'[d].stale
    BY <2>2
  <2>4. QED
    BY <2>1, <2>2 DEF GoneStale
<1>6. CASE Tick
  BY <1>6 DEF Tick, GoneStale
<1>7. CASE UNCHANGED vars
  BY <1>7 DEF vars, GoneStale
<1>8. QED
  BY <1>1, <1>2, <1>3, <1>4, <1>5, <1>6, <1>7 DEF Next, Controller

(* When no status write fails, persistStatusChange leaves the key of a    *)
(* running reconcile queued: a write is a watch event, and a refused write *)
(* means the CR was written or deleted since the Get, which queued it.     *)
LEMMA PersistQueues ==
    ASSUME TypeOK, StaleQueued, GoneStale, NEW d \in Clusters, pc[d] # "Idle",
           ~(StatusUpdateMayFail /\ MayFail), PersistStatusChange(d)
    PROVE  queued'[d]
<1>1. CASE cluster[d].exists /\ ~snap[d].stale
  BY <1>1, PersistEffects DEF TypeOK
<1>2. CASE ~(cluster[d].exists /\ ~snap[d].stale)
  <2>1. snap[d].stale
    BY <1>2 DEF GoneStale
  <2>2. QED
    BY <1>2, <2>1 DEF PersistStatusChange, StaleQueued
<1>3. QED
  BY <1>1, <1>2

(* Without injected failures no path that needs one is taken.             *)
LEMMA NoFailure ==
    ASSUME MaxFailures = 0, TypeOK
    PROVE  ~MayFail
BY DEF MayFail, TypeOK

(* Every step keeps a renewal pending for every kubeconfig. The owner's   *)
(* reconcile either keeps running, or leaves its key queued (a status      *)
(* write, a removed annotation, a watch event), or ends on the not-due     *)
(* path, where the kubeconfig is younger than 95% of the period and the    *)
(* RequeueAfter timer is at most one period; a tick takes a tick off both *)
(* the timer and the remaining life of the kubeconfig. Without failures,  *)
(* no step leaves a retry as the only pending work: that is what           *)
(* GetClusterFails would do while the Secret ages.                         *)
LEMMA RenewStep ==
    ASSUME MaxFailures = 0, ShootsDistinct, RenewInv, [Next]_vars
    PROVE  RenewalPending'
<1> SUFFICES ASSUME NEW n \in SecretNames, HasKubeconfig(n)' PROVE Renewal(n)'
  BY DEF RenewalPending
<1> DEFINE o == Owner(n)
<1>0. /\ TypeOK /\ StaleQueued /\ ForceHeld /\ RemovingForced /\ LabelsOwned
      /\ SecretPlaced /\ GoneStale /\ RenewalPending /\ ~MayFail
  BY NoFailure DEF RenewInv, Aux
<1>1. secret'[n] = secret[n] => o \in Clusters
  BY <1>0 DEF HasKubeconfig, TypeOK, SecretRec, Owner
(* A step that leaves the Secret alone and keeps its owner's look         *)
(* pending keeps the renewal.                                              *)
<1>2. ASSUME secret'[n] = secret[n],
             \/ pc'[o] # "Idle" \/ queued'[o]
             \/ pc'[o] = pc[o] /\ queued'[o] = queued[o] /\ timer'[o] = timer[o]
      PROVE  Renewal(n)'
  <2>1. HasKubeconfig(n) /\ Renewal(n)
    BY <1>0, <1>2 DEF HasKubeconfig, RenewalPending
  <2>2. Owner(n)' = o /\ Age(n)' = Age(n)
    BY <1>2 DEF Owner, Age
  <2>3. QED
    BY <1>2, <2>1, <2>2 DEF Renewal
<1>3. ASSUME NEW d \in Clusters, GetCluster(d) \/ GetClusterFails(d) PROVE Renewal(n)'
  <2>1. GetCluster(d)
    BY <1>0, <1>3 DEF GetClusterFails
  <2>2. QED
    BY <1>0, <1>1, <1>2, <2>1 DEF GetCluster, TypeOK
<1>4. ASSUME NEW d \in Clusters, DeleteKubeconfigSecret(d) PROVE Renewal(n)'
  <2>1. secret'[n] = secret[n] /\ secret[n] # NoSecret
    BY <1>4 DEF DeleteKubeconfigSecret, HasKubeconfig
  <2>2. d # o
    <3> SUFFICES ASSUME d = o PROVE FALSE
      OBVIOUS
    <3>1. SecretsOfCluster(d) = {n}
      BY <1>0, <2>1 DEF SecretsOfCluster, SecretPlaced, Owner
    <3>2. Cardinality(SecretsOfCluster(d)) = 1
      BY <3>1, FS_Singleton
    <3>3. secret'[n] = NoSecret
      BY <1>4, <3>1, <3>2 DEF DeleteKubeconfigSecret
    <3>4. QED
      BY <3>3 DEF HasKubeconfig
  <2>3. QED
    BY <1>0, <1>1, <1>2, <1>4, <2>1, <2>2 DEF DeleteKubeconfigSecret, RequeueWithError, TypeOK
<1>5. ASSUME NEW d \in Clusters, HandleKubeconfig(d) PROVE Renewal(n)'
  <2>1. CASE secret'[n] = secret[n]
    <3>1. CASE d # o
      <4>1. o \in Clusters \ {d}
        BY <1>1, <2>1, <3>1
      <4>2. QED
        BY <1>0, <1>2, <1>5, <2>1, <4>1, HandleEffects
    <3>2. CASE d = o /\ pc'[d] # "Idle"
      BY <1>2, <2>1, <3>2
    <3>3. CASE d = o /\ pc'[d] = "Idle"
      <4>1. PICK m \in SecretsOfShoot(d) :
               /\ secret[m].kubeconfig \in Nat
               /\ secret[m].kubeconfig * 100 < 95 * RotationPeriod
        BY <1>0, <1>5, <3>3, HandleEffects
      <4>2. m = n
        <5>1. secret[m].owner = d /\ m \in SecretNames /\ secret[m] # NoSecret
          BY <1>0, OwnedShootSecrets DEF SecretsOfShoot
        <5>2. secret[n] # NoSecret
          BY <2>1 DEF HasKubeconfig
        <5>3. QED
          BY <1>0, <3>3, <5>1, <5>2 DEF SecretPlaced, Owner
      <4>3. Age(n) < RotationPeriod /\ Age(n) \in Nat
        BY <4>1, <4>2 DEF Age
      <4>4. /\ timer'[d] = IF timer[d] = NoTimer THEN RotationPeriod ELSE timer[d]
            /\ timer[d] \in (0..RotationPeriod) \cup {NoTimer}
        BY <1>0, <1>5, <3>3, HandleEffects DEF TypeOK
      <4>5. timer'[d] \in 0..RotationPeriod
        BY <4>4
      <4>6. Owner(n)' = d /\ Age(n)' = Age(n)
        BY <2>1, <3>3 DEF Owner, Age
      <4>7. QED
        BY <4>3, <4>5, <4>6 DEF Renewal
    <3>4. QED
      BY <3>1, <3>2, <3>3
  <2>2. CASE secret'[n] # secret[n]
    <3>1. pc'[d] # "Idle"
      BY <1>0, <1>5, <2>2, HandleEffects
    <3>2. \/ \E m \in SecretsOfShoot(d) :
                \/ secret' = [secret EXCEPT ![m].kubeconfig = NoKubeconfig]
                \/ secret' = [secret EXCEPT ![m].kubeconfig = 0]
          \/ /\ secret[SecretOf[d]] = NoSecret
             /\ secret' = [secret EXCEPT ![SecretOf[d]] = NewSecret(d)]
      BY <1>0, <1>5, <2>2, HandleEffects
    <3>3. Owner(n)' = d /\ Age(n)' = 0
      <4>1. CASE \E m \in SecretsOfShoot(d) :
                  \/ secret' = [secret EXCEPT ![m].kubeconfig = NoKubeconfig]
                  \/ secret' = [secret EXCEPT ![m].kubeconfig = 0]
        <5>1. PICK m \in SecretsOfShoot(d) :
                  \/ secret' = [secret EXCEPT ![m].kubeconfig = NoKubeconfig]
                  \/ secret' = [secret EXCEPT ![m].kubeconfig = 0]
          BY <4>1
        <5>2. n = m /\ secret[m] \in SecretRec /\ secret[m].owner = d
          BY <1>0, <2>2, <5>1, OwnedShootSecrets DEF SecretsOfShoot, TypeOK
        <5>3. \/ secret'[m] = [secret[m] EXCEPT !.kubeconfig = NoKubeconfig]
              \/ secret'[m] = [secret[m] EXCEPT !.kubeconfig = 0]
          BY <1>0, <5>1, <5>2 DEF TypeOK
        <5>4. secret'[m].owner = d
              /\ secret'[m].kubeconfig \in {NoKubeconfig, 0}
          BY <5>2, <5>3, Zenon DEF SecretRec
        <5>5. QED
          BY <5>2, <5>4 DEF Owner, Age, HasKubeconfig
      <4>2. CASE /\ secret[SecretOf[d]] = NoSecret
                 /\ secret' = [secret EXCEPT ![SecretOf[d]] = NewSecret(d)]
        BY <1>0, <2>2, <4>2 DEF Owner, Age, NewSecret, TypeOK
      <4>3. QED
        BY <3>2, <4>1, <4>2
    <3>4. QED
      BY <3>1, <3>3 DEF Renewal
  <2>3. QED
    BY <2>1, <2>2
<1>6. ASSUME NEW d \in Clusters, ReconcileError(d) \/ ReconcileReady(d) PROVE Renewal(n)'
  <2>1. secret' = secret /\ UNCHANGED timer /\ PersistStatusChange(d)
        /\ pc[d] # "Idle" /\ pc' = [pc EXCEPT ![d] = "Idle"]
    BY <1>6 DEF ReconcileError, ReconcileReady, Finish
  <2>2. CASE d = o
    BY <1>0, <1>2, <2>1, <2>2, PersistQueues, NoFailure
  <2>3. CASE d # o
    <3>1. queued'[o] = queued[o]
      BY <1>0, <1>1, <2>1, <2>3 DEF PersistStatusChange, TypeOK
    <3>2. QED
      BY <1>0, <1>1, <1>2, <2>1, <2>3, <3>1 DEF TypeOK
  <2>4. QED
    BY <2>2, <2>3
<1>7. ASSUME NEW d \in Clusters, RemoveForceRotationAnnotation(d) PROVE Renewal(n)'
  <2>1. secret' = secret /\ pc[d] = "RemoveAnnotation" /\ pc' = [pc EXCEPT ![d] = "Idle"]
    BY <1>7 DEF RemoveForceRotationAnnotation, Finish
  <2>2. CASE d = o
    <3>1. CASE cluster[d].exists
      <4>1. cluster[d].force
        BY <1>0, <2>1 DEF RemovingForced, ForceHeld
      <4>2. queued'[d]
        BY <1>0, <1>7, <3>1, <4>1 DEF RemoveForceRotationAnnotation, ClearForceAnnotation,
                                      TypeOK
      <4>3. QED
        BY <1>2, <2>1, <2>2, <4>2
    <3>2. CASE ~cluster[d].exists
      <4>1. queued[d] /\ queued' = queued
        BY <1>0, <1>7, <2>1, <3>2 DEF RemoveForceRotationAnnotation, GoneStale, StaleQueued
      <4>2. QED
        BY <1>2, <2>1, <2>2, <4>1
    <3>3. QED
      BY <3>1, <3>2
  <2>3. CASE d # o
    BY <1>0, <1>1, <1>2, <1>7, <2>1, <2>3 DEF RemoveForceRotationAnnotation, ClearForceAnnotation,
                                       RequeueAfterPeriod, TypeOK
  <2>4. QED
    BY <2>2, <2>3
<1>8. ASSUME NEW d \in Clusters,
             \/ ForceRotation(d) \/ EditCluster(d) \/ DeleteCluster(d)
             \/ FireTimer(d) \/ FireBackoff(d)
      PROVE  Renewal(n)'
  <2>1. secret' = secret /\ pc' = pc
        /\ queued' = [queued EXCEPT ![d] = TRUE]
        /\ \A x \in Clusters \ {d} : timer'[x] = timer[x]
    <3>1. CASE ForceRotation(d)
      BY <3>1 DEF ForceRotation, Touch
    <3>2. CASE EditCluster(d)
      BY <3>2 DEF EditCluster, Touch
    <3>3. CASE DeleteCluster(d)
      BY <3>3 DEF DeleteCluster, Touch
    <3>4. CASE FireTimer(d)
      BY <3>4, <1>0 DEF FireTimer, TypeOK
    <3>5. CASE FireBackoff(d)
      BY <3>5 DEF FireBackoff
    <3>6. QED
      BY <1>8, <3>1, <3>2, <3>3, <3>4, <3>5
  <2>2. QED
    BY <1>0, <1>1, <1>2, <2>1 DEF TypeOK
<1>9. CASE Tick
  <2>1. secret[n] # NoSecret /\ secret[n].kubeconfig # NoKubeconfig
    BY <1>9 DEF Tick, HasKubeconfig
  <2>2. Renewal(n) /\ pc[o] = "Idle" /\ ~queued[o] /\ timer[o] # 0
    <3>1. o \in Clusters
      BY <1>0, <2>1 DEF TypeOK, SecretRec, Owner
    <3>2. QED
      BY <1>0, <1>9, <2>1, <3>1 DEF Tick, RenewalPending, HasKubeconfig
  <2>3. timer[o] \in 1..RotationPeriod /\ Age(n) \in Nat
        /\ Age(n) + timer[o] < 2 * RotationPeriod
    <3>1. o \in Clusters /\ secret[n] \in SecretRec
      BY <1>0, <2>1 DEF TypeOK, SecretRec, Owner
    <3>2. Age(n) \in Nat
      BY <2>1, <3>1, AgesNat DEF SecretRec, Age
    <3>3. timer[o] # NoTimer /\ Age(n) + timer[o] < 2 * RotationPeriod
      BY <2>2 DEF Renewal
    <3>4. timer[o] \in 0..RotationPeriod
      BY <1>0, <3>1, <3>3 DEF TypeOK
    <3>5. QED
      BY <2>2, <3>2, <3>3, <3>4
  <2>4. Owner(n)' = o /\ Age(n)' = Age(n) + 1
    <3>1. secret[n] \in SecretRec
      BY <1>0, <2>1 DEF TypeOK
    <3>2. Age(n) < AgeCap
      BY <2>3 DEF AgeCap
    <3>3. secret'[n] = [secret[n] EXCEPT !.kubeconfig = Age(n) + 1]
      BY <1>9, <2>1, <3>2 DEF Tick, Age
    <3>4. QED
      BY <3>1, <3>3, Zenon DEF SecretRec, Owner, Age
  <2>5. timer'[o] = timer[o] - 1 /\ pc' = pc /\ queued' = queued
    <3>1. o \in Clusters
      BY <1>0, <2>1 DEF TypeOK, SecretRec, Owner
    <3>2. QED
      BY <1>9, <2>3, <3>1 DEF Tick
  <2>6. QED
    BY <2>3, <2>4, <2>5 DEF Renewal
<1>10. CASE UNCHANGED vars
  BY <1>2, <1>10 DEF vars
<1>11. QED
  BY <1>3, <1>4, <1>5, <1>6, <1>7, <1>8, <1>9, <1>10 DEF Next, Controller

(* RenewInv is inductive.                                                  *)
LEMMA RenewInvInductive ==
    ASSUME MaxFailures = 0, ShootsDistinct
    PROVE  RenewInv /\ [Next]_vars => RenewInv'
BY TypeStep, AuxStep, PlacedStep, GoneStaleStep, RenewStep DEF RenewInv

(* Without injected API failures, and when distinct CRs name distinct     *)
(* shoots, every kubeconfig a Secret holds is replaced before it is two   *)
(* rotation periods old, for every rotation period: the rotation at 95%   *)
(* of the period, the status write's watch event, the not-due reconcile   *)
(* that sets RequeueAfter(rotationPeriod) and the timer it leaves always  *)
(* bring the next look in time. With failures, a Get of the CR that fails *)
(* leaves only a rate-limited retry pending, and TLC finds the bound      *)
(* broken when the retry comes later than the period.                      *)
THEOREM KubeconfigRenewedInTimeHolds ==
    ASSUME MaxFailures = 0, ShootsDistinct
    PROVE  Spec => []KubeconfigRenewedInTime
<1>1. Init => RenewInv
  BY DEF Init, RenewInv, TypeOK, Aux, IdleFresh, StaleQueued, ForceHeld,
         RemovingForced, LabelsOwned, SecretPlaced, GoneStale, RenewalPending,
         HasKubeconfig, ClusterRec, SnapRec, NoSnap, Steps, Reasons
<1>2. RenewInv => KubeconfigRenewedInTime
  BY DEF RenewInv, RenewalPending, Renewal, KubeconfigRenewedInTime, Age
<1>3. QED
  BY <1>1, <1>2, RenewInvInductive, PTL DEF Spec

=============================================================================
