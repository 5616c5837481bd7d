\* Violation: the reconciles of a deleted CR whose Secret is gone never
\* stop (deleteKubeconfigSecret returns an error for zero Secrets).
CONSTANTS
    c1 = c1
    c2 = c2
    s1 = s1
    s2 = s2
    k1 = k1
    k2 = k2
    Clusters <- MCOneCluster
    Shoots <- MCShoots
    SecretNames <- MCSecretNames
    ShootOf <- MCShootOf
    SecretOf <- MCSecretOf
    ShootLabelled <- MCOneCluster
    RotationPeriod = 2
    MaxFailures = 0
    StatusUpdateMayFail = TRUE
    MaxEdits = 0
    NoSecret = NoSecret
    NoLabel = NoLabel
    NoKubeconfig = NoKubeconfig
    NoTimer = NoTimer
SPECIFICATION Spec
PROPERTY
    DeletionSettles
