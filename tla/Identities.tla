------------------------------- MODULE Identities -------------------------------
(***************************************************************************)
(* How the validators of go-jsonapi name resources (validation.go): a type *)
(* with a server id, or with a local id (lid).  The two domains are kept   *)
(* apart even for equal text.  None stands for an absent member, and as a  *)
(* type also for one that is no member name.                               *)
(***************************************************************************)
EXTENDS Naturals, Sequences

CONSTANT None

Present(member) == member # None

ItemsOf(sequence) == {sequence[k] : k \in DOMAIN sequence}

IdKey(x) == <<x.type, "id", x.id>>

LidKey(x) == <<x.type, "lid", x.lid>>

\* The names a resource object is indexed under (resourceObjectKeys).
ResourceKeys(r) ==
  IF ~Present(r.type) THEN {}
  ELSE (IF Present(r.id) THEN {IdKey(r)} ELSE {})
       \cup (IF Present(r.lid) THEN {LidKey(r)} ELSE {})

\* The one name an identifier is looked up by (identifierKey).
IdentifierKey(i) == IF Present(i.id) THEN IdKey(i) ELSE LidKey(i)
=============================================================================
