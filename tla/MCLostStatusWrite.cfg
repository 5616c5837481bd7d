\* Violation: one status write fails after a rotation, and nothing ever
\* checks the Secret again (Reconcile returns without requeue at line 121).
CONSTANTS
    c1 = c1
    c2 = c2
    s1 = s1
    s2 = s2
    k1 = k1
    k2 = k2
    Clusters <- MCOneCluster
    Shoots <- MCShoots
    SecretNames <- MCSecretNames
    ShootOf <- MCShootOf
    SecretOf <- MCSecretOf
    ShootLabelled <- MCOneCluster
    RotationPeriod = 2
    MaxFailures = 1
    StatusUpdateMayFail = TRUE
    MaxEdits = 0
    NoSecret = NoSecret
    NoLabel = NoLabel
    NoKubeconfig = NoKubeconfig
    NoTimer = NoTimer
SPECIFICATION Spec
INVARIANT
    KubeconfigRenewedInTime
