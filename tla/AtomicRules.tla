------------------------------ MODULE AtomicRules ------------------------------
(***************************************************************************)
(* The rules of the Atomic Operations extension that atomic.go checks      *)
(* before a transaction begins (validateAtomicOperations) and before it    *)
(* commits (validateAtomicResult).                                         *)
(*                                                                         *)
(* The values of the rules:                                                *)
(*   - a type, an id or an lid is a value or None (see Identities);        *)
(*   - an identifier is [type, id, lid];                                   *)
(*   - a resource is [type, id, lid, form, linkage]: linkage is the        *)
(*     sequence of the identifiers in its relationships, form is "bare"    *)
(*     when it has no attributes, relationships or links, "malformed" when *)
(*     it breaks a rule of validateResource other than those on identity   *)
(*     and linkage, and "full" otherwise;                                  *)
(*   - data is None or [kind, items] with kind "zero" (the invalid zero    *)
(*     value of PrimaryData), "null", "one" or "many";                     *)
(*   - a reference is [type, id, lid, relationship] with relationship      *)
(*     "absent", "valid" or "invalid";                                     *)
(*   - an operation is [op, ref, href, data] with href "absent", "valid"   *)
(*     or "invalid".                                                       *)
(***************************************************************************)
EXTENDS Identities

-----------------------------------------------------------------------------
(* Resources, identifiers and references *)

IdentifierValid(i) ==
  /\ Present(i.type)
  /\ Present(i.id) \/ Present(i.lid)

ResourceValid(r, identity) ==
  /\ Present(r.type)
  /\ identity = "id" => Present(r.id)
  /\ identity = "either" => Present(r.id) \/ Present(r.lid)
  /\ r.form # "malformed"
  /\ \A i \in ItemsOf(r.linkage) : IdentifierValid(i)

ResourceDataValid(data, identity) ==
  data.kind = "one" /\ ResourceValid(data.items[1], identity)

RelationshipDataValid(data, requireMany) ==
  /\ data.kind # "zero"
  /\ requireMany => data.kind = "many"
  /\ \A r \in ItemsOf(data.items) : IdentifierValid(r) /\ r.form = "bare"

HasRelationship(ref) == ref.relationship # "absent"

ReferenceValid(ref) ==
  /\ Present(ref.type)
  /\ Present(ref.id) # Present(ref.lid)
  /\ ref.relationship # "invalid"

TargetMatches(ref, r) ==
  \A member \in {"type", "id", "lid"} :
    Present(ref[member]) /\ Present(r[member]) => ref[member] = r[member]

-----------------------------------------------------------------------------
(* One operation *)

HasHref(o) == o.href # "absent"

RelationshipTarget(o) == Present(o.ref) /\ HasRelationship(o.ref)

AddValid(o) ==
  /\ Present(o.data)
  /\ \/ RelationshipTarget(o) /\ RelationshipDataValid(o.data, TRUE)
     \/ ~Present(o.ref) /\ HasHref(o) /\ RelationshipDataValid(o.data, TRUE)
     \/ ~Present(o.ref) /\ ResourceDataValid(o.data, "optional")

UpdateValid(o) ==
  /\ Present(o.data)
  /\ \/ RelationshipTarget(o) /\ RelationshipDataValid(o.data, FALSE)
     \/ /\ ~Present(o.ref) /\ HasHref(o)
        /\ o.data.kind # "one" /\ RelationshipDataValid(o.data, FALSE)
     \/ /\ ~RelationshipTarget(o) /\ ResourceDataValid(o.data, "either")
        /\ Present(o.ref) => TargetMatches(o.ref, o.data.items[1])

RemoveValid(o) ==
  /\ Present(o.ref) \/ HasHref(o)
  /\ \/ RelationshipTarget(o) /\ Present(o.data) /\ RelationshipDataValid(o.data, TRUE)
     \/ ~RelationshipTarget(o) /\ ~Present(o.data)
     \/ ~Present(o.ref) /\ Present(o.data) /\ RelationshipDataValid(o.data, TRUE)

OperationValid(o) ==
  /\ ~(Present(o.ref) /\ HasHref(o))
  /\ Present(o.ref) => ReferenceValid(o.ref)
  /\ o.href # "invalid"
  /\ \/ o.op = "add" /\ AddValid(o)
     \/ o.op = "update" /\ UpdateValid(o)
     \/ o.op = "remove" /\ RemoveValid(o)

-----------------------------------------------------------------------------
(* Local identities: which one an operation assigns and which ones it uses *)

Assigns(o) ==
  IF /\ o.op = "add" /\ Present(o.data) /\ o.data.kind = "one"
     /\ Present(o.data.items[1].type) /\ Present(o.data.items[1].lid)
  THEN {LidKey(o.data.items[1])}
  ELSE {}

RefUses(o) ==
  IF Present(o.ref) /\ Present(o.ref.lid) THEN {LidKey(o.ref)} ELSE {}

\* The identifiers of the data whose lid must be assigned: every item of an
\* array, the linkage of a single resource, and that resource itself unless
\* the operation creates it.
Observed(o) ==
  IF ~Present(o.data) THEN {}
  ELSE IF o.data.kind = "many" THEN ItemsOf(o.data.items)
  ELSE IF o.data.kind = "one"
       THEN ItemsOf(o.data.items[1].linkage)
            \cup (IF o.op = "add" THEN {} ELSE {o.data.items[1]})
  ELSE {}

DataUses(o) ==
  {LidKey(x) : x \in {y \in Observed(o) : ~Present(y.id) /\ Present(y.lid)}}

AssignedBy(ops, n) == UNION {Assigns(ops[k]) : k \in 1..n}

-----------------------------------------------------------------------------
(* The whole request, declaratively: AtomicRequestPass shows that the loop  *)
(* of validateAtomicOperations computes exactly this.                       *)

LocalReferencesOrdered(ops) ==
  \A k \in DOMAIN ops :
    /\ RefUses(ops[k]) \subseteq AssignedBy(ops, k - 1)
    /\ DataUses(ops[k]) \subseteq AssignedBy(ops, k)

OperationsValid(ops) ==
  /\ ops # <<>>
  /\ \A k \in DOMAIN ops : OperationValid(ops[k])
  /\ LocalReferencesOrdered(ops)

-----------------------------------------------------------------------------
(* Results *)

RelationshipOperation(o) ==
  IF Present(o.ref)
  THEN HasRelationship(o.ref)
  ELSE /\ Present(o.data)
       /\ \/ o.op = "add" /\ o.data.kind = "many"
          \/ o.op = "update" /\ o.data.kind # "one"

CreateRequiresResultData(o) ==
  /\ o.op = "add" /\ ~RelationshipOperation(o)
  /\ Present(o.data) /\ o.data.kind = "one" /\ ~Present(o.data.items[1].id)

\* result is the data member of an AtomicResult: None, or data.
ResultValid(result, o) ==
  IF Present(result)
  THEN o.op # "remove" /\ ~RelationshipOperation(o) /\ ResourceDataValid(result, "id")
  ELSE ~CreateRequiresResultData(o)

ResultsValid(results, ops) ==
  /\ Len(results) = Len(ops)
  /\ \A k \in DOMAIN results : ResultValid(results[k], ops[k])
=============================================================================
