------------------------------ MODULE ResourceGraph ------------------------------
(***************************************************************************)
(* The resources of a document and the linkage between them, as the        *)
(* validators of validation.go see them.                                   *)
(*                                                                         *)
(* A document is [resources, primary]: the sequence documentResources      *)
(* returns, primary data first and then the included resources, and how    *)
(* many of them are primary data (0 when it is absent or null).  A         *)
(* resource is [type, id, lid, linkage], linkage being the sequence of the *)
(* resource identifiers in its relationships other than those named "@x",  *)
(* by relationship name; an identifier is [type, id, lid].                 *)
(***************************************************************************)
EXTENDS Identities

IsDocument(d) ==
  /\ d.resources \in Seq(ItemsOf(d.resources))
  /\ d.primary \in 0..Len(d.resources)
  /\ \A r \in ItemsOf(d.resources) : r.linkage \in Seq(ItemsOf(r.linkage))

Primary(document) == 1..document.primary

Included(document) == (document.primary + 1)..Len(document.resources)

-----------------------------------------------------------------------------
(* An occurrence <<k, n>> is the n-th identifier in the linkage of the k-th *)
(* resource: the same identifier may occur many times.                      *)

Linkage(document, K) ==
  UNION {{k} \X DOMAIN document.resources[k].linkage : k \in K}

IdentifierAt(document, occurrence) ==
  document.resources[occurrence[1]].linkage[occurrence[2]]

\* The included resources an occurrence finds.
Targets(document, occurrence) ==
  {k \in Included(document) :
     IdentifierKey(IdentifierAt(document, occurrence))
       \in ResourceKeys(document.resources[k])}

-----------------------------------------------------------------------------
(* Full linkage, declaratively *)

\* S holds whatever primary data links to, and whatever a member of S links to.
LinkageClosed(document, S) ==
  \A o \in Linkage(document, Primary(document) \cup S) : Targets(document, o) \subseteq S

\* The included resources linked from primary data by a chain of identifiers:
\* the least closed set.
Linked(document) ==
  {k \in Included(document) :
     \A S \in SUBSET Included(document) : LinkageClosed(document, S) => k \in S}
=============================================================================
