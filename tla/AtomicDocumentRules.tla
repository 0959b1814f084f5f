-------------------------- MODULE AtomicDocumentRules --------------------------
(***************************************************************************)
(* AtomicDocument.ValidateWith (atomic.go) on the Go values of             *)
(* DocumentCodec: the members of the document here, its operations and     *)
(* results by AtomicRules, which sees of them what the operators under     *)
(* "Views" say.                                                            *)
(***************************************************************************)
EXTENDS DocumentRules, Integers

CONSTANT AtomicExtensionURI

Rules == INSTANCE AtomicRules

AtomicContexts == {"atomicGeneric", "atomicRequest", "atomicResponse"}

-----------------------------------------------------------------------------
(* Views *)

TypeOf(core) == IF core.type.text \in TypeNames THEN core.type.text ELSE None

\* Of a resource beyond its identity and its linkage.
FormOf(resource) ==
  IF \A member \in {"attributes", "relationships", "links"} : resource.core[member] = Nil
  THEN "bare"
  ELSE IF ResourceValid(resource, "optional", TRUE, "optional") THEN "full" ELSE "malformed"

ResourceView(resource) ==
  LET core == resource.core
  IN [type |-> TypeOf(core), id |-> NameOf(core.id), lid |-> NameOf(core.lid),
      form |-> FormOf(resource), linkage |-> LinkageOf(core.relationships)]

DataView(data) ==
  IF data = Nil THEN None
  ELSE [kind |-> data.kind, items |-> [k \in DOMAIN data.items |-> ResourceView(data.items[k])]]

\* Whether a string member is there, and of the syntax it must have.
SyntaxOf(field, texts) ==
  IF ~HasText(field) THEN "absent" ELSE IF field.text \in texts THEN "valid" ELSE "invalid"

ReferenceView(reference) ==
  IF reference = Nil THEN None
  ELSE LET core == reference.core
       IN [type |-> TypeOf(core), id |-> NameOf(core.id), lid |-> NameOf(core.lid),
           relationship |-> SyntaxOf(core.relationship, TypeNames)]

OperationView(operation) ==
  LET core == operation.core
  IN [op |-> core.op.text, ref |-> ReferenceView(core.ref), href |-> SyntaxOf(core.href, Valid.uri),
      data |-> DataView(core.data)]

-----------------------------------------------------------------------------

\* Which members may and must be there.  asked are the operations whose results
\* are expected, or Nil; count is the number of results, where it is positive.
AtomicMembersAgree(core, context, count, asked) ==
  LET expected == IF asked # Nil THEN Len(asked.items) ELSE count
  IN /\ \E member \in {"operations", "results", "errors", "meta"} : core[member] # Nil
     /\ \A member \in {"operations", "results"} : core[member] # Nil => core[member].items # <<>>
     /\ core.operations = Nil \/ core.results = Nil
     /\ core.errors = Nil \/ (core.operations = Nil /\ core.results = Nil)
     /\ context = "atomicRequest" =>
          core.operations # Nil /\ core.results = Nil /\ core.errors = Nil
     /\ context = "atomicResponse" =>
          /\ core.operations = Nil
          /\ IF core.results = Nil THEN core.errors # Nil \/ expected = 0
             ELSE asked # Nil \/ count > 0 => Len(core.results.items) = expected

ExpectationsAgree(count, asked) ==
  /\ count >= 0
  /\ asked # Nil /\ count > 0 => count = Len(asked.items)

\* An ext declaration names the Atomic extension and no other.
AtomicDeclared(jsonapi) ==
  jsonapi = Nil \/
    /\ URIListValid(jsonapi.core.ext) /\ URIListValid(jsonapi.core.profile)
    /\ jsonapi.core.ext # Nil => ItemsOf(jsonapi.core.ext.items) = {AtomicExtensionURI}

AtomicOperationsValid(operations) ==
  operations = Nil \/
    Rules!OperationsValid([k \in DOMAIN operations.items |-> OperationView(operations.items[k])])

\* A result beyond the operations asked is judged by itself.
AtomicResultsValid(results, asked) ==
  results = Nil \/
    \A k \in DOMAIN results.items :
      LET data == DataView(results.items[k].core.data)
      IN IF asked # Nil /\ k \in DOMAIN asked.items
         THEN Rules!ResultValid(data, OperationView(asked.items[k]))
         ELSE data # None => Rules!ResourceDataValid(data, "id")

AtomicDocumentValid(document, options) ==
  LET core == document.core
  IN /\ ExpectationsAgree(options.count, options.asked)
     /\ AtomicMembersAgree(core, options.context, options.count, options.asked)
     /\ AtomicDeclared(core.jsonapi)
     /\ LinksValid(core.links, {"self", "related", "describedby"} \cup PaginationLinks)
     /\ PaginationValid(core.links, FALSE)
     /\ AtomicOperationsValid(core.operations)
     /\ AtomicResultsValid(core.results, options.asked)
     /\ core.errors # Nil => \A error \in ItemsOf(core.errors.items) : ErrorValid(error)

-----------------------------------------------------------------------------

\* The additional members of an Atomic document, which nothing checks: whether each
\* is one that MembersRegistered admits.
AtomicMembersRegistered(document) ==
  LET core == document.core
  IN /\ core.jsonapi = Nil \/ Registered(core.jsonapi)
     /\ LinksRegistered(core.links)
     /\ ErrorsRegistered(core.errors)
     /\ \A member \in {"operations", "results"} :
          core[member] = Nil \/ \A item \in ItemsOf(core[member].items) : DataRegistered(item.core.data)
=============================================================================
