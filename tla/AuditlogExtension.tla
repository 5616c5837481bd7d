------------------------- MODULE AuditlogExtension -------------------------
(***************************************************************************)
(* The Shoot's extension list and oSetExtension (auditlogs/set_extension. *)
(* go), which upserts the shoot-auditlog-service extension by its type:   *)
(* the first entry of that type is replaced in place, or the extension is *)
(* appended when there is none. Other writers of the Shoot (other         *)
(* extenders, Gardener, an operator) add and remove extensions of other   *)
(* types in between.                                                       *)
(*                                                                         *)
(* An extension is its type and its provider config. The config           *)
(* oSetExtension writes (tenant, service URL, the fixed secret reference  *)
(* name, JSON-encoded) is abstracted to the audit-log data it is built    *)
(* from; encoding a struct of strings cannot fail, so oSetExtension has   *)
(* no error path here.                                                     *)
(***************************************************************************)
EXTENDS Naturals, Sequences

CONSTANTS
    ExtensionTypes,   \* extension types, the auditlog type among them
    AuditlogType,     \* "shoot-auditlog-service"
    Configs,          \* provider configs (for the auditlog: the audit-log data)
    MaxExtensions     \* bound on the length of the list other writers build

ASSUME AuditlogExtensionAssumption ==
    /\ AuditlogType \in ExtensionTypes
    /\ MaxExtensions \in Nat

VARIABLE extensions   \* Shoot.Spec.Extensions

Extension == [type : ExtensionTypes, config : Configs]

TypeOK == extensions \in Seq(Extension)

(* The positions of the entries of type t.                                *)
IndicesOfType(s, t) == {i \in 1..Len(s) : s[i].type = t}

(* slices.IndexFunc(s.Spec.Extensions, e.Type == auditlogExtensionType):  *)
(* the first position of an entry of type t, with 0 for IndexFunc's -1.   *)
IndexOfType(s, t) ==
    IF IndicesOfType(s, t) = {} THEN 0
    ELSE CHOOSE i \in IndicesOfType(s, t) : \A j \in IndicesOfType(s, t) : i <= j

(* Mutant: an entry found at the first position is taken for "none", as  *)
(* "if index <= 0" would do on IndexFunc's 0-based result.                *)
SetExtensionFirstMissed(s, cfg) ==
    LET ext == [type |-> AuditlogType, config |-> cfg]
        index == IndexOfType(s, AuditlogType)
    IN  IF index <= 1 THEN Append(s, ext) ELSE [s EXCEPT ![index] = ext]

(* oSetExtension(d)(shoot): replace the first auditlog entry, or append.  *)
SetExtension(s, cfg) ==
    LET ext == [type |-> AuditlogType, config |-> cfg]
        index == IndexOfType(s, AuditlogType)
    IN  IF index = 0 THEN Append(s, ext) ELSE [s EXCEPT ![index] = ext]

-----------------------------------------------------------------------------
Init == extensions = << >>

(* An extender runs oSetExtension with the audit-log data cfg.            *)
SetAuditlogExtension(cfg) == extensions' = SetExtension(extensions, cfg)

(* Another writer appends an extension of another type.                   *)
AddOtherExtension(t, cfg) ==
    /\ t # AuditlogType
    /\ Len(extensions) < MaxExtensions
    /\ extensions' = Append(extensions, [type |-> t, config |-> cfg])

(* Another writer removes the entry at position i.                        *)
RemoveExtension(i) ==
    extensions' = [j \in 1..(Len(extensions) - 1) |->
                     IF j < i THEN extensions[j] ELSE extensions[j + 1]]

Next ==
    \/ \E cfg \in Configs : SetAuditlogExtension(cfg)
    \/ \E t \in ExtensionTypes, cfg \in Configs : AddOtherExtension(t, cfg)
    \/ \E i \in 1..Len(extensions) : RemoveExtension(i)

Spec == Init /\ [][Next]_extensions

-----------------------------------------------------------------------------
(* Reference for an upsert by type: after oSetExtension(cfg) the list     *)
(* holds exactly one auditlog entry, carrying cfg; every entry of another *)
(* type keeps its position and value; an auditlog entry that was there is *)
(* replaced in place, and only when there was none does the list grow,    *)
(* by one entry at its end.                                                *)
UpsertedByType(s, r, cfg) ==
    LET ext == [type |-> AuditlogType, config |-> cfg]
    IN  /\ \E i \in 1..Len(r) : IndicesOfType(r, AuditlogType) = {i} /\ r[i] = ext
        /\ \A i \in 1..Len(s) : s[i].type # AuditlogType => r[i] = s[i]
        /\ IF IndicesOfType(s, AuditlogType) = {}
           THEN Len(r) = Len(s) + 1
           ELSE /\ Len(r) = Len(s)
                /\ IndicesOfType(r, AuditlogType) = IndicesOfType(s, AuditlogType)

(* Every step of oSetExtension is an upsert by type as defined above.     *)
SetExtensionUpserts ==
    [][\A cfg \in Configs :
          SetAuditlogExtension(cfg) => UpsertedByType(extensions, extensions', cfg)
      ]_extensions

=============================================================================
