----------------------- MODULE AuditlogExtensionProofs -----------------------
(***************************************************************************)
(* Proofs about oSetExtension's upsert by type, for every set of          *)
(* extension types and configurations and every length of the list.       *)
(***************************************************************************)
EXTENDS AuditlogExtension, SequenceTheorems, TLAPS

USE AuditlogExtensionAssumption

(* A list holds at most one entry of type t.                              *)
AtMostOne(s, t) == \A i, j \in IndicesOfType(s, t) : i = j

(* On a list with at most one entry of type t, IndexOfType finds that     *)
(* entry, or returns 0 when there is none.                                 *)
LEMMA IndexOfTypeUnique ==
    ASSUME NEW s \in Seq(Extension), NEW t, AtMostOne(s, t)
    PROVE  /\ IndicesOfType(s, t) = {} => IndexOfType(s, t) = 0
           /\ IndicesOfType(s, t) # {} => IndicesOfType(s, t) = {IndexOfType(s, t)}
<1>1. IndicesOfType(s, t) = {} => IndexOfType(s, t) = 0
  BY DEF IndexOfType
<1>2. ASSUME IndicesOfType(s, t) # {}
      PROVE  IndicesOfType(s, t) = {IndexOfType(s, t)}
  <2>1. PICK k \in IndicesOfType(s, t) : TRUE
    BY <1>2
  <2>2. IndicesOfType(s, t) = {k}
    BY <2>1 DEF AtMostOne
  <2>3. k \in Nat
    BY <2>1 DEF IndicesOfType
  <2>4. IndexOfType(s, t) = k
    BY <1>2, <2>2, <2>3 DEF IndexOfType
  <2>5. QED
    BY <2>2, <2>4
<1>3. QED
  BY <1>1, <1>2

(* oSetExtension on a list with at most one auditlog entry is an upsert   *)
(* by type (UpsertedByType) and returns a list of extensions.             *)
LEMMA SetExtensionCorrect ==
    ASSUME NEW s \in Seq(Extension), NEW cfg \in Configs,
           AtMostOne(s, AuditlogType)
    PROVE  /\ SetExtension(s, cfg) \in Seq(Extension)
           /\ UpsertedByType(s, SetExtension(s, cfg), cfg)
<1> DEFINE ext == [type |-> AuditlogType, config |-> cfg]
           r == SetExtension(s, cfg)
<1>1. ext \in Extension
  BY DEF Extension
<1>2. CASE IndicesOfType(s, AuditlogType) = {}
  <2>1. r = Append(s, ext)
    BY <1>2, IndexOfTypeUnique DEF SetExtension
  <2>2. /\ r \in Seq(Extension)
        /\ Len(r) = Len(s) + 1
        /\ \A i \in 1..Len(s) : r[i] = s[i]
        /\ r[Len(s) + 1] = ext
    BY <1>1, <2>1, AppendProperties
  <2>3. IndicesOfType(r, AuditlogType) = {Len(s) + 1}
    BY <1>2, <2>2 DEF IndicesOfType
  <2>4. QED
    BY <1>2, <2>2, <2>3 DEF UpsertedByType
<1>3. CASE IndicesOfType(s, AuditlogType) # {}
  <2>1. PICK k \in IndicesOfType(s, AuditlogType) :
               IndicesOfType(s, AuditlogType) = {k} /\ IndexOfType(s, AuditlogType) = k
    BY <1>3, IndexOfTypeUnique
  <2>2. k \in 1..Len(s) /\ k # 0
    BY <2>1 DEF IndicesOfType
  <2>3. r = [s EXCEPT ![k] = ext]
    BY <2>1, <2>2 DEF SetExtension
  <2>4. /\ r \in Seq(Extension)
        /\ Len(r) = Len(s)
        /\ \A j \in 1..Len(s) : r[j] = IF j = k THEN ext ELSE s[j]
    BY <1>1, <2>2, <2>3, ExceptSeq
  <2>5. IndicesOfType(r, AuditlogType) = {k}
    BY <2>1, <2>4 DEF IndicesOfType
  <2>6. r[k] = ext
    BY <2>2, <2>4
  <2>7. \A j \in 1..Len(s) : s[j].type # AuditlogType => r[j] = s[j]
    BY <2>1, <2>4 DEF IndicesOfType
  <2>8. QED
    BY <1>3, <2>1, <2>2, <2>4, <2>5, <2>6, <2>7 DEF UpsertedByType
<1>4. QED
  BY <1>2, <1>3

-----------------------------------------------------------------------------
(* The inductive invariant: the list is a list of extensions with at most *)
(* one auditlog entry.                                                     *)
Inv == TypeOK /\ AtMostOne(extensions, AuditlogType)

(* Removing the entry at position i leaves a list of extensions, and no   *)
(* type gains an entry.                                                    *)
LEMMA RemoveKeepsUnique ==
    ASSUME Inv, NEW i \in 1..Len(extensions), RemoveExtension(i)
    PROVE  Inv'
<1>1. Len(extensions) \in Nat /\ Len(extensions) - 1 \in Nat
  BY DEF Inv, TypeOK
<1>2. extensions' \in Seq(Extension)
  BY <1>1, RemoveExtension(i) DEF RemoveExtension, Inv, TypeOK
<1>3. Len(extensions') = Len(extensions) - 1
  BY <1>1, <1>2, RemoveExtension(i) DEF RemoveExtension
<1>4. AtMostOne(extensions', AuditlogType)
  BY <1>1, <1>3, RemoveExtension(i) DEF RemoveExtension, Inv, AtMostOne, IndicesOfType
<1>5. QED
  BY <1>2, <1>4 DEF Inv, TypeOK

(* Every step keeps Inv: oSetExtension by SetExtensionCorrect, an append *)
(* of another type adds no auditlog entry, a removal by RemoveKeepsUnique. *)
LEMMA InvStep == Inv /\ [Next]_extensions => Inv'
<1> SUFFICES ASSUME Inv, [Next]_extensions PROVE Inv'
  OBVIOUS
<1>1. ASSUME NEW cfg \in Configs, SetAuditlogExtension(cfg) PROVE Inv'
  <2>1. /\ extensions' \in Seq(Extension)
        /\ UpsertedByType(extensions, extensions', cfg)
    BY <1>1, SetExtensionCorrect DEF SetAuditlogExtension, Inv, TypeOK
  <2>2. AtMostOne(extensions', AuditlogType)
    BY <2>1 DEF UpsertedByType, AtMostOne
  <2>3. QED
    BY <2>1, <2>2 DEF Inv, TypeOK
<1>2. ASSUME NEW t \in ExtensionTypes, NEW cfg \in Configs, AddOtherExtension(t, cfg)
      PROVE Inv'
  <2> DEFINE e == [type |-> t, config |-> cfg]
  <2>1. e \in Extension /\ e.type # AuditlogType
    BY <1>2 DEF Extension, AddOtherExtension
  <2>2. /\ extensions' \in Seq(Extension)
        /\ Len(extensions') = Len(extensions) + 1
        /\ \A i \in 1..Len(extensions) : extensions'[i] = extensions[i]
        /\ extensions'[Len(extensions) + 1] = e
    BY <1>2, <2>1, AppendProperties DEF AddOtherExtension, Inv, TypeOK
  <2>3. IndicesOfType(extensions', AuditlogType) = IndicesOfType(extensions, AuditlogType)
    BY <2>1, <2>2 DEF IndicesOfType, Inv, TypeOK
  <2>4. QED
    BY <2>2, <2>3 DEF Inv, TypeOK, AtMostOne
<1>3. ASSUME NEW i \in 1..Len(extensions), RemoveExtension(i) PROVE Inv'
  BY <1>3, RemoveKeepsUnique
<1>4. CASE UNCHANGED extensions
  BY <1>4 DEF Inv, TypeOK, AtMostOne, IndicesOfType
<1>5. QED
  BY <1>1, <1>2, <1>3, <1>4 DEF Next

(* Every call of oSetExtension in any behaviour is an upsert by type      *)
(* (SetExtensionUpserts): the reference definition holds on every reached *)
(* list, because every reached list has at most one auditlog entry.       *)
THEOREM SetExtensionUpsertsHolds == Spec => SetExtensionUpserts
<1>1. Init => Inv
  BY EmptySeq DEF Init, Inv, TypeOK, AtMostOne, IndicesOfType
<1>2. Inv /\ [Next]_extensions
        => [\A cfg \in Configs :
              SetAuditlogExtension(cfg) => UpsertedByType(extensions, extensions', cfg)
           ]_extensions
  BY SetExtensionCorrect DEF Inv, TypeOK, SetAuditlogExtension
<1>3. QED
  BY <1>1, <1>2, InvStep, PTL DEF Spec, SetExtensionUpserts

=============================================================================
