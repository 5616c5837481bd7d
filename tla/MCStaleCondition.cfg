\* Violation: the controller comes to rest with an error condition on a
\* CR whose kubeconfig Secret is fine.
CONSTANTS
    c1 = c1
    c2 = c2
    s1 = s1
    s2 = s2
    k1 = k1
    k2 = k2
    Clusters <- MCOneCluster
    Shoots <- MCShoots
    SecretNames <- MCSecretNames
    ShootOf <- MCShootOf
    SecretOf <- MCSecretOf
    ShootLabelled <- MCOneCluster
    RotationPeriod = 2
    MaxFailures = 0
    StatusUpdateMayFail = TRUE
    MaxEdits = 1
    NoSecret = NoSecret
    NoLabel = NoLabel
    NoKubeconfig = NoKubeconfig
    NoTimer = NoTimer
SPECIFICATION Spec
INVARIANT
    StatusReflectsSecret
