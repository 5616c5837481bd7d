\* One CR against a failing API: the Get, the Fetch (error and NotFound), the
\* Secret Update and Create and the annotation Update fail, three times in
\* all. The status write does not fail here: what a failed one does is the
\* subject of MCLostStatusWrite.cfg.
CONSTANTS
    c1 = c1
    c2 = c2
    s1 = s1
    s2 = s2
    k1 = k1
    k2 = k2
    Clusters <- MCOneCluster
    Shoots <- MCShoots
    SecretNames <- MCSecretNames
    ShootOf <- MCShootOf
    SecretOf <- MCSecretOf
    ShootLabelled <- MCOneCluster
    RotationPeriod = 2
    MaxFailures = 3
    StatusUpdateMayFail = FALSE
    MaxEdits = 2
    NoSecret = NoSecret
    NoLabel = NoLabel
    NoKubeconfig = NoKubeconfig
    NoTimer = NoTimer
SPECIFICATION Spec
PROPERTIES
    ForcedRotationCompletes
    DeletedSecretRemoved
    RetriesCease
