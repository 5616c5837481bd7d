\* oSetExtension interleaved with other writers of the extension list, on
\* lists of up to three entries of the other writers (four with the auditlog).
CONSTANTS
    auditlog = auditlog
    dns = dns
    networking = networking
    d1 = d1
    d2 = d2
    ExtensionTypes <- MCExtensionTypes
    AuditlogType = auditlog
    Configs <- MCConfigs
    MaxExtensions = 3
SPECIFICATION Spec
PROPERTY
    SetExtensionUpserts
