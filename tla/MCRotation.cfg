\* The rotation schedule with a working Gardener API: one CR, a rotation
\* period of 20 ticks (so the 95% threshold, 19, differs from the period),
\* operator edits, forced rotations and deletion.
CONSTANTS
    c1 = c1
    c2 = c2
    s1 = s1
    s2 = s2
    k1 = k1
    k2 = k2
    Clusters <- MCOneCluster
    Shoots <- MCShoots
    SecretNames <- MCSecretNames
    ShootOf <- MCShootOf
    SecretOf <- MCSecretOf
    ShootLabelled <- MCOneCluster
    RotationPeriod = 20
    MaxFailures = 0
    StatusUpdateMayFail = TRUE
    MaxEdits = 3
    NoSecret = NoSecret
    NoLabel = NoLabel
    NoKubeconfig = NoKubeconfig
    NoTimer = NoTimer
SPECIFICATION Spec
INVARIANTS
    TypeOK
    KubeconfigRenewedInTime
    ReadyOnlyWithKubeconfig
PROPERTIES
    ForcedRotationCompletes
    DeletedSecretRemoved
