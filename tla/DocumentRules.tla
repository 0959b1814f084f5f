----------------------------- MODULE DocumentRules -----------------------------
(***************************************************************************)
(* The rules of validateDocument (validation.go) on the Go values of       *)
(* DocumentCodec, by validation context.  Violations are collected, so a   *)
(* document is valid when each rule holds.  Full linkage and identity are  *)
(* the declarative rules of ResourceGraph, which IncludedLinkage and       *)
(* DocumentIdentity show the two traversals to decide.                     *)
(***************************************************************************)
EXTENDS DocumentCodec, ResourceGraph, SequencesExt

\* The texts each syntax rule accepts: Valid.name is the set of member names (those
\* of @-Members, too), Valid.extension of those of extensions, and so on for URI
\* references, absolute URIs, link relations, media types, language tags, statuses
\* and JSON Pointers.
CONSTANT Valid

ASSUME SyntaxIsKnown ==
  DOMAIN Valid = {"name", "extension", "uri", "absolute", "relation", "media", "language",
                  "status", "pointer"}

\* An empty text is no member name, no absolute URI and no language tag.
ASSUME EmptyIsNoName == "" \notin Valid.name \cup Valid.absolute \cup Valid.language

TypeNames == Valid.name \ AtNames

Requests == {"create", "update", "toOne", "toMany"}
Contexts == {"generic", "response"} \cup Requests

\* hasNonAtMember
HasExtensionMember(value) == ~(value.extra \subseteq AtNames)

-----------------------------------------------------------------------------
(* Additional members: without a registry, well-named @-Members anywhere, and *)
(* an extension link under such a name, and no others.                        *)

Registered(struct) == struct.extra \subseteq AtNames \cap Valid.name

IsExtension(link) == link = ExtensionLink

LinksRegistered(links) ==
  links = Nil \/
    \A n \in DOMAIN links.entries :
      LET link == links.entries[n]
      IN IF IsExtension(link) THEN n \in AtNames \cap Valid.name
         ELSE \A k \in DOMAIN link.chain : link.chain[k].form = "object" => Registered(link.chain[k])

LinkageRegistered(data) ==
  data = Nil \/ \A identifier \in ItemsOf(data.items) : Registered(identifier)

RelationshipRegistered(relationship) ==
  /\ Registered(relationship)
  /\ LinksRegistered(relationship.core.links)
  /\ LinkageRegistered(relationship.core.data)

ResourceRegistered(resource) ==
  LET relationships == resource.core.relationships
  IN /\ Registered(resource)
     /\ LinksRegistered(resource.core.links)
     /\ relationships = Nil \/
          \A n \in DOMAIN relationships.entries : RelationshipRegistered(relationships.entries[n])

ErrorRegistered(error) ==
  /\ Registered(error)
  /\ LinksRegistered(error.core.links)
  /\ error.core.source = Nil \/ Registered(error.core.source)

DataRegistered(data) ==
  data = Nil \/ \A resource \in ItemsOf(data.items) : ResourceRegistered(resource)

ErrorsRegistered(errors) ==
  errors = Nil \/ \A error \in ItemsOf(errors.items) : ErrorRegistered(error)

\* validateDocumentMembers
MembersRegistered(document) ==
  LET core == document.core
  IN /\ Registered(document)
     /\ core.jsonapi = Nil \/ Registered(core.jsonapi)
     /\ LinksRegistered(core.links)
     /\ DataRegistered(core.data)
     /\ DataRegistered(core.included)
     /\ ErrorsRegistered(core.errors)

-----------------------------------------------------------------------------
(* Links *)

\* Of a link or of one that describes it.
LinkItselfValid(link) ==
  CASE link.form \in {"null", "extension"} -> TRUE
    [] link.form = "string" -> link.core.href.text \in Valid.uri
    [] link.form = "object" ->
         /\ link.core.href.present /\ link.core.href.text \in Valid.uri
         /\ HasText(link.core.rel) => link.core.rel.text \in Valid.relation
         /\ HasText(link.core.type) => link.core.type.text \in Valid.media
         /\ link.core.hreflang # Nil => ItemsOf(link.core.hreflang.items) \subseteq Valid.language

LinkValid(link) == \A k \in DOMAIN link.chain : LinkItselfValid(link.chain[k])

PaginationLinks == {"first", "last", "prev", "next"}

\* validateLinks and validateLinkScope: a name that is not allowed here must be
\* an @-Member or an extension's.
LinksValid(links, allowed) ==
  links = Nil \/
    \A n \in DOMAIN links.entries :
      \/ n \in AtNames \cap Valid.name
      \/ IsExtension(links.entries[n]) /\ n \in Valid.extension
      \/ ~IsExtension(links.entries[n]) /\ n \in allowed /\ LinkValid(links.entries[n])

PaginationValid(links, collection) ==
  links = Nil \/ collection \/ DOMAIN links.entries \cap PaginationLinks = {}

HasRelationshipLink(links) ==
  links # Nil /\ \E n \in DOMAIN links.entries :
                   n \in {"self", "related"} \/ IsExtension(links.entries[n])

-----------------------------------------------------------------------------
(* Identity *)

\* Of a resource or an identifier.
Identified(core, identity) ==
  /\ core.type.text \in TypeNames
  /\ identity = "id" => HasText(core.id)
  /\ identity = "either" => HasText(core.id) \/ HasText(core.lid)

LinkageValid(data, identity) ==
  data = Nil \/
    /\ data.kind # "zero"
    /\ \A identifier \in ItemsOf(data.items) : Identified(identifier.core, identity)

\* The views of ResourceGraph: of the names of a resource or an identifier, of
\* the linkage of a resource, whatever the order of its relationships, and of the
\* document.
NameOf(field) == IF HasText(field) THEN field.text ELSE None

IdentityOf(core) ==
  [type |-> IF core.type.text = "" THEN None ELSE core.type.text,
   id   |-> NameOf(core.id),
   lid  |-> NameOf(core.lid)]

LinkageOf(relationships) ==
  IF relationships = Nil THEN <<>>
  ELSE LET names == SetToSeq({n \in DOMAIN relationships.entries \ AtNames :
                                relationships.entries[n].core.data # Nil})
           Items(n) == relationships.entries[n].core.data.items
       IN FlattenSeq([k \in DOMAIN names |->
            [i \in DOMAIN Items(names[k]) |-> IdentityOf(Items(names[k])[i].core)]])

Node(resource) ==
  LET identity == IdentityOf(resource.core)
  IN [type |-> identity.type, id |-> identity.id, lid |-> identity.lid,
      linkage |-> LinkageOf(resource.core.relationships)]

GraphOf(document) ==
  LET primary  == IF document.core.data = Nil THEN <<>> ELSE document.core.data.items
      included == IF document.core.included = Nil THEN <<>> ELSE document.core.included.items
  IN [resources |-> [k \in 1..(Len(primary) + Len(included)) |-> Node((primary \o included)[k])],
      primary   |-> Len(primary)]

\* validateDocumentIdentity: no resource twice, and no id with two lids or lid
\* with two ids.
IdentitiesAgree(graph) ==
  LET nodes == graph.resources
      all   == {[type |-> r.type, id |-> r.id, lid |-> r.lid] : r \in ItemsOf(nodes)}
                 \cup UNION {ItemsOf(r.linkage) : r \in ItemsOf(nodes)}
      named == {x \in all : Present(x.type) /\ Present(x.id) /\ Present(x.lid)}
  IN /\ \A j, k \in DOMAIN nodes : j # k => ResourceKeys(nodes[j]) \cap ResourceKeys(nodes[k]) = {}
     /\ \A x, y \in named : x.type = y.type => (x.id = y.id <=> x.lid = y.lid)

-----------------------------------------------------------------------------
(* Resources *)

RelationshipValid(relationship, requireData, identity) ==
  LET links == relationship.core.links
      data  == relationship.core.data
  IN /\ \/ HasRelationshipLink(links) \/ data # Nil \/ relationship.core.meta # Nil
        \/ HasExtensionMember(relationship)
     /\ requireData => data # Nil
     /\ LinksValid(links, {"self", "related"} \cup PaginationLinks)
     /\ PaginationValid(links, data = Nil \/ data.kind = "many")
     /\ LinkageValid(data, identity)

ResourceValid(resource, identity, requireData, identifiers) ==
  LET core == resource.core
      attributes == IF core.attributes = Nil THEN {} ELSE DOMAIN core.attributes.entries
      relationships == IF core.relationships = Nil THEN {} ELSE DOMAIN core.relationships.entries
  IN /\ Identified(core, identity)
     /\ attributes \cup relationships \subseteq Valid.name \ {"id", "type"}
     /\ attributes \cap relationships \subseteq AtNames
     /\ \A n \in relationships \ AtNames :
          RelationshipValid(core.relationships.entries[n], requireData, identifiers)
     /\ LinksValid(core.links, {"self"})

PrimaryDataValid(data, identity) ==
  data = Nil \/
    /\ data.kind # "zero"
    /\ \A resource \in ItemsOf(data.items) : ResourceValid(resource, identity, FALSE, identity)

\* Bug: an empty id is expected like none.
ExpectedIdentityByText(core, options) ==
  /\ options.type # "" => core.type.text \in {"", options.type}
  /\ options.id.text # "" /\ HasText(core.id) => core.id.text = options.id.text

\* validateExpectedIdentity: an endpoint may expect an empty id, and a resource
\* without one, which creation admits, is not compared.
ExpectedIdentity(core, options) ==
  /\ options.type # "" => core.type.text \in {"", options.type}
  /\ HasText(options.id) /\ HasText(core.id) => core.id.text = options.id.text

MutationValid(data, identity, options) ==
  data = Nil \/
    /\ data.kind = "one"
    /\ ResourceValid(data.items[1], identity, TRUE, "either")
    /\ ExpectedIdentity(data.items[1].core, options)

RelationshipPrimaryDataValid(data, many) ==
  data = Nil \/
    /\ data.kind \in IF many THEN {"many"} ELSE {"null", "one"}
    /\ \A resource \in ItemsOf(data.items) :
         /\ Identified(resource.core, "id")
         /\ resource.core.attributes = Nil /\ resource.core.relationships = Nil
         /\ resource.core.links = Nil

-----------------------------------------------------------------------------
(* The document *)

URIListValid(list) ==
  list = Nil \/
    /\ ItemsOf(list.items) \subseteq Valid.absolute
    /\ \A j, k \in DOMAIN list.items : list.items[j] = list.items[k] => j = k

ErrorValid(error) ==
  LET core == error.core
  IN /\ \/ \E n \in {"id", "status", "code", "title", "detail"} : HasText(core[n])
        \/ core.links # Nil \/ core.source # Nil \/ core.meta # Nil \/ HasExtensionMember(error)
     /\ HasText(core.status) => core.status.text \in Valid.status
     /\ LinksValid(core.links, {"about", "type"})
     /\ core.source # Nil => core.source.core.pointer.text \in Valid.pointer

\* Which members may and must be there.
MembersAgree(document, context) ==
  LET core == document.core
  IN /\ core.data # Nil \/ core.errors # Nil \/ core.meta # Nil \/ HasExtensionMember(document)
     /\ core.data = Nil \/ core.errors = Nil
     /\ core.included # Nil => core.data # Nil
     /\ context \in Requests => core.data # Nil /\ core.errors = Nil

DataValid(data, options) ==
  CASE options.context = "create"   -> MutationValid(data, "optional", options)
    [] options.context = "update"   -> MutationValid(data, "id", options)
    [] options.context = "toOne"    -> RelationshipPrimaryDataValid(data, FALSE)
    [] options.context = "toMany"   -> RelationshipPrimaryDataValid(data, TRUE)
    [] options.context = "response" -> PrimaryDataValid(data, "id")
    [] options.context = "generic"  -> PrimaryDataValid(data, "either")

IncludedIdentity(context) == IF context = "response" THEN "id" ELSE "either"

IncludedValid(document, options) ==
  document.core.included = Nil \/
    LET identity == IncludedIdentity(options.context)
        graph    == GraphOf(document)
    IN /\ \A resource \in ItemsOf(document.core.included.items) :
            ResourceValid(resource, identity, FALSE, identity)
       /\ options.sparse \/ Included(graph) \subseteq Linked(graph)

DocumentValid(document, options) ==
  LET core == document.core
  IN /\ MembersAgree(document, options.context)
     /\ core.jsonapi # Nil => /\ URIListValid(core.jsonapi.core.ext)
                              /\ URIListValid(core.jsonapi.core.profile)
     /\ LinksValid(core.links, {"self", "related", "describedby"} \cup PaginationLinks)
     /\ PaginationValid(core.links, core.data # Nil /\ core.data.kind = "many")
     /\ DataValid(core.data, options)
     /\ IncludedValid(document, options)
     /\ IdentitiesAgree(GraphOf(document))
     /\ core.errors # Nil => \A error \in ItemsOf(core.errors.items) : ErrorValid(error)
=============================================================================
