------------------------ MODULE MCAuditlogExtension ------------------------
(***************************************************************************)
(* Model-checking instance of AuditlogExtension: the auditlog type and    *)
(* two other extension types, two audit-log configurations.               *)
(***************************************************************************)
EXTENDS AuditlogExtension

CONSTANTS auditlog, dns, networking, d1, d2

MCExtensionTypes == {auditlog, dns, networking}
MCConfigs == {d1, d2}
=============================================================================
