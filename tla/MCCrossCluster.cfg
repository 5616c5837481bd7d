\* Violation: with two CRs naming the same shoot, the reconcile of one CR
\* updates or strips the Secret of the other (getSecret selects by shoot).
CONSTANTS
    c1 = c1
    c2 = c2
    s1 = s1
    s2 = s2
    k1 = k1
    k2 = k2
    Clusters <- MCClusters
    Shoots <- MCShoots
    SecretNames <- MCSecretNames
    ShootOf <- MCSharedShootOf
    SecretOf <- MCSecretOf
    ShootLabelled <- MCClusters
    RotationPeriod = 2
    MaxFailures = 0
    StatusUpdateMayFail = TRUE
    MaxEdits = 1
    NoSecret = NoSecret
    NoLabel = NoLabel
    NoKubeconfig = NoKubeconfig
    NoTimer = NoTimer
SPECIFICATION Spec
PROPERTY
    OwnSecretOnly
