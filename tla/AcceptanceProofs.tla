---------------------------- MODULE AcceptanceProofs ----------------------------
(***************************************************************************)
(* Of the acceptance of a payload, for all payloads and options: decoding  *)
(* it in a context succeeds exactly when it is a document that some        *)
(* context accepts and it meets what this one demands of its members, its  *)
(* data, its identities and its results, read in the payload itself.       *)
(***************************************************************************)
EXTENDS DocumentProofs

-----------------------------------------------------------------------------
(* What a struct holds tells which members it has been read of *)

\* A string that was not there is absent.
LEMMA NoTextIsAbsent == ~HasText(NoText)
  BY DEF HasText, NoText

\* A member that is read is there: of a struct of plain members,
LEMMA PlainIsHeld ==
  ASSUME NEW type \in {"string", "strings", "free", "hreflang"}, NEW j, DecodePlain(type, j) # Refused
  PROVE  IF type = "string" THEN /\ HasText(DecodePlain(type, j))
                                 /\ DecodePlain(type, j).text = j.text
         ELSE DecodePlain(type, j) # Nil
<1>1. CASE type = "string"
  <2>1. DecodePlain(type, j) = [text |-> j.text, present |-> TRUE]
    BY <1>1 DEF DecodePlain, DecodeString
  <2> QED
    BY <1>1, <2>1, MarkedText
<1>2. CASE type # "string"
  BY <1>2, PlainIsSet
<1> QED
  BY <1>1, <1>2

\* of one of structs,
LEMMA PartIsHeld ==
  ASSUME NEW type \in PartTypes, type # "string", NEW j, DecodePart(type, j) # Refused
  PROVE  DecodePart(type, j) # Nil
<1>1. CASE type = "links"
  BY <1>1, MapIsRead DEF DecodePart, DecodeLinks
<1>2. CASE type = "linkage"
  BY <1>2, DataIsRead DEF DecodePart, DecodeLinkage
<1>3. CASE type \in {"jsonapi", "source", "reference"}
  BY <1>3, StructIsSet DEF DecodePart, DecodeJSONAPI, DecodeErrorSource, DecodeAtomicReference, DecodeFlat
<1>4. CASE type = "free"
  BY <1>4, PlainIsSet DEF DecodePart
<1> QED
  BY <1>1, <1>2, <1>3, <1>4 DEF PartTypes

\* and of a document, an operation or a result.
LEMMA BodyIsHeld ==
  ASSUME NEW type \in PartTypes \cup {"primary", "resources", "errors"}, type # "string",
         NEW j, DecodeBody(type, j) # Refused
  PROVE  DecodeBody(type, j) # Nil
<1>1. CASE type = "primary"
  BY <1>1, DataIsRead DEF DecodeBody, DecodePrimaryData
<1>2. CASE type = "resources"
  BY <1>2, ListIsRead DEF DecodeBody, DecodeResourceArray
<1>3. CASE type = "errors"
  BY <1>3, ListIsRead DEF DecodeBody, DecodeErrors
<1>4. CASE type \in PartTypes
  BY <1>4, PartIsHeld DEF DecodeBody, PartTypes
<1> QED
  BY <1>1, <1>2, <1>3, <1>4

\* The members of a document, an operation or a result.
LEMMA WholeHeld ==
  ASSUME NEW kind \in {"document", "operation", "result"}, NEW j, DecodeWhole(kind, j) # Refused
  PROVE  LET core == DecodeWhole(kind, j).core
         IN /\ j.json = "object" /\ DecodeWhole(kind, j).extra = {}
            /\ \A n \in DOMAIN Schema[kind] :
                 Schema[kind][n] # "string" =>
                   /\ core[n] # Nil <=> n \in DOMAIN j.members
                   /\ core[n] # Nil => /\ core[n] = DecodeBody(Schema[kind][n], j.members[n])
                                       /\ core[n] # Refused
<1> DEFINE read == [m \in Known(kind, j) |-> DecodeBody(Schema[kind][m], j.members[m])]
           value == DecodeWhole(kind, j)
<1>1. value = DecodeMembers(kind, j, read) /\ DOMAIN read = Known(kind, j)
  BY DEF DecodeWhole
<1>2. \A m \in Known(kind, j) : read[m] = DecodeBody(Schema[kind][m], j.members[m])
  OBVIOUS
<1> HIDE DEF read, value
<1>3. /\ j.json = "object" /\ value.extra = {}
      /\ \A m \in Known(kind, j) : value.core[m] = read[m] /\ read[m] # Refused
      /\ \A m \in DOMAIN Schema[kind] \ Known(kind, j) :
           value.core[m] = IF Schema[kind][m] = "string" THEN NoText ELSE Nil
  BY <1>1, MembersHeld DEF value
<1>4. ASSUME NEW n \in DOMAIN Schema[kind], Schema[kind][n] # "string", n \in DOMAIN j.members
      PROVE  /\ value.core[n] = DecodeBody(Schema[kind][n], j.members[n])
             /\ value.core[n] # Refused /\ value.core[n] # Nil
  <2>1. n \in Known(kind, j) /\ Schema[kind][n] \in PartTypes \cup {"primary", "resources", "errors"}
    BY <1>4, WholeTypes DEF Known, PartTypes
  <2>2. value.core[n] = DecodeBody(Schema[kind][n], j.members[n]) /\ value.core[n] # Refused
    BY <1>2, <1>3, <2>1
  <2>3. DecodeBody(Schema[kind][n], j.members[n]) # Nil
    BY <1>4, <2>1, <2>2, BodyIsHeld
  <2> QED
    BY <2>2, <2>3
<1>5. ASSUME NEW n \in DOMAIN Schema[kind], Schema[kind][n] # "string", n \notin DOMAIN j.members
      PROVE  value.core[n] = Nil
  BY <1>3, <1>5 DEF Known
<1> QED
  BY <1>3, <1>4, <1>5 DEF value

\* The members of a resource.
LEMMA ResourceHeld ==
  ASSUME NEW j, DecodeResource(j) # Refused
  PROVE  LET core == DecodeResource(j).core
         IN /\ \A n \in {"type", "id", "lid"} :
                 /\ HasText(core[n]) <=> n \in DOMAIN j.members
                 /\ n \in DOMAIN j.members => core[n].text = j.members[n].text
            /\ \A n \in {"attributes", "relationships", "links"} :
                 core[n] # Nil <=> n \in DOMAIN j.members
            /\ "relationships" \in DOMAIN j.members =>
                 /\ core.relationships = DecodeRelationships(j.members.relationships)
                 /\ core.relationships # Refused
<1> DEFINE T(n) == Schema["resource"][n]
           read == [n \in Known("resource", j) |->
                     IF n = "relationships" THEN DecodeRelationships(j.members[n])
                     ELSE DecodePart(T(n), j.members[n])]
           value == DecodeResource(j)
           core == value.core
<1>0. /\ DOMAIN Schema["resource"] = {"type", "id", "lid", "attributes", "relationships", "links", "meta"}
      /\ \A n \in {"type", "id", "lid"} : T(n) = "string"
      /\ T("attributes") = "free" /\ T("links") = "links" /\ T("relationships") = "relationships"
  BY DEF Schema
<1>1. value = DecodeMembers("resource", j, read) /\ DOMAIN read = Known("resource", j)
  BY DEF DecodeResource
<1>2. \A n \in Known("resource", j) :
        read[n] = IF n = "relationships" THEN DecodeRelationships(j.members[n])
                  ELSE DecodePart(T(n), j.members[n])
  OBVIOUS
<1> HIDE DEF read, value, T
<1>3. /\ \A n \in Known("resource", j) : core[n] = read[n] /\ read[n] # Refused
      /\ \A n \in DOMAIN Schema["resource"] \ Known("resource", j) :
           core[n] = IF T(n) = "string" THEN NoText ELSE Nil
  BY <1>1, MembersHeld DEF value, T
<1>4. ASSUME NEW n \in {"type", "id", "lid"}
      PROVE  /\ HasText(core[n]) <=> n \in DOMAIN j.members
             /\ n \in DOMAIN j.members => core[n].text = j.members[n].text
  <2>1. CASE n \in DOMAIN j.members
    <3>1. n \in Known("resource", j) /\ n # "relationships"
      BY <1>0, <2>1 DEF Known
    <3>2. core[n] = DecodePlain("string", j.members[n]) /\ core[n] # Refused
      BY <1>0, <1>2, <1>3, <3>1 DEF DecodePart
    <3> QED
      BY <2>1, <3>2, PlainIsHeld
  <2>2. CASE n \notin DOMAIN j.members
    <3>1. core[n] = NoText
      BY <1>0, <1>3, <2>2 DEF Known
    <3> QED
      BY <2>2, <3>1, NoTextIsAbsent
  <2> QED
    BY <2>1, <2>2
<1>5. ASSUME NEW n \in {"attributes", "links"}
      PROVE  core[n] # Nil <=> n \in DOMAIN j.members
  <2>1. CASE n \in DOMAIN j.members
    <3>1. n \in Known("resource", j) /\ n # "relationships" /\ T(n) \in PartTypes /\ T(n) # "string"
      BY <1>0, <2>1 DEF Known, PartTypes
    <3>2. core[n] = DecodePart(T(n), j.members[n]) /\ core[n] # Refused
      BY <1>2, <1>3, <3>1
    <3> QED
      BY <2>1, <3>1, <3>2, PartIsHeld
  <2>2. CASE n \notin DOMAIN j.members
    BY <1>0, <1>3, <2>2 DEF Known
  <2> QED
    BY <2>1, <2>2
<1>6. CASE "relationships" \in DOMAIN j.members
  <2>1. core["relationships"] = DecodeRelationships(j.members["relationships"])
        /\ core["relationships"] # Refused
    BY <1>0, <1>2, <1>3, <1>6 DEF Known
  <2>2. core["relationships"] # Nil
    BY <2>1, MapIsRead DEF DecodeRelationships
  <2> QED
    BY <1>4, <1>5, <1>6, <2>1, <2>2 DEF value
<1>7. CASE "relationships" \notin DOMAIN j.members
  <2>1. core["relationships"] = Nil
    BY <1>0, <1>3, <1>7 DEF Known
  <2> QED
    BY <1>4, <1>5, <1>7, <2>1 DEF value
<1> QED
  BY <1>6, <1>7

\* The names of an identifier.
LEMMA IdentifierHeld ==
  ASSUME NEW j, DecodeIdentifier(j) # Refused
  PROVE  HasText(DecodeIdentifier(j).core.id) <=> "id" \in DOMAIN j.members
<1> DEFINE read == [n \in Known("identifier", j) |-> DecodePlain(Schema["identifier"][n], j.members[n])]
           value == DecodeIdentifier(j)
<1>1. value = DecodeMembers("identifier", j, read) /\ DOMAIN read = Known("identifier", j)
  BY DEF DecodeIdentifier, DecodeFlat
<1>2. \A n \in Known("identifier", j) : read[n] = DecodePlain(Schema["identifier"][n], j.members[n])
  OBVIOUS
<1>3. "id" \in DOMAIN Schema["identifier"] /\ Schema["identifier"]["id"] = "string"
  BY DEF Schema
<1> HIDE DEF read, value
<1>4. /\ \A n \in Known("identifier", j) : value.core[n] = read[n] /\ read[n] # Refused
      /\ \A n \in DOMAIN Schema["identifier"] \ Known("identifier", j) :
           value.core[n] = IF Schema["identifier"][n] = "string" THEN NoText ELSE Nil
  BY <1>1, MembersHeld DEF value
<1>5. CASE "id" \in DOMAIN j.members
  <2>1. value.core["id"] = DecodePlain("string", j.members["id"]) /\ value.core["id"] # Refused
    BY <1>2, <1>3, <1>4, <1>5 DEF Known
  <2> QED
    BY <1>5, <2>1, PlainIsHeld DEF value
<1>6. CASE "id" \notin DOMAIN j.members
  <2>1. value.core["id"] = NoText
    BY <1>3, <1>4, <1>6 DEF Known
  <2> QED
    BY <1>6, <2>1, NoTextIsAbsent DEF value
<1> QED
  BY <1>5, <1>6

\* The linkage of a relationship.
LEMMA RelationshipHeld ==
  ASSUME NEW j, DecodeRelationship(j) # Refused
  PROVE  LET data == DecodeRelationship(j).core.data
         IN /\ data # Nil <=> "data" \in DOMAIN j.members
            /\ data # Nil => data = DecodeLinkage(j.members.data) /\ data # Refused
<1> DEFINE read == [n \in Known("relationship", j) |-> DecodePart(Schema["relationship"][n], j.members[n])]
           value == DecodeRelationship(j)
<1>1. value = DecodeMembers("relationship", j, read) /\ DOMAIN read = Known("relationship", j)
  BY DEF DecodeRelationship, DecodeNested
<1>2. \A n \in Known("relationship", j) : read[n] = DecodePart(Schema["relationship"][n], j.members[n])
  OBVIOUS
<1>3. "data" \in DOMAIN Schema["relationship"] /\ Schema["relationship"]["data"] = "linkage"
  BY DEF Schema
<1> HIDE DEF read, value
<1>4. /\ \A n \in Known("relationship", j) : value.core[n] = read[n] /\ read[n] # Refused
      /\ \A n \in DOMAIN Schema["relationship"] \ Known("relationship", j) :
           value.core[n] = IF Schema["relationship"][n] = "string" THEN NoText ELSE Nil
  BY <1>1, MembersHeld DEF value
<1>5. CASE "data" \in DOMAIN j.members
  <2>1. value.core["data"] = DecodeLinkage(j.members["data"]) /\ value.core["data"] # Refused
    BY <1>2, <1>3, <1>4, <1>5 DEF Known, DecodePart
  <2> QED
    BY <1>5, <2>1, DataIsRead DEF value, DecodeLinkage
<1>6. CASE "data" \notin DOMAIN j.members
  BY <1>3, <1>4, <1>6 DEF Known, value
<1> QED
  BY <1>5, <1>6

-----------------------------------------------------------------------------
(* What a context demands of what has been read, and of the payload *)

ObjectsAt(j) ==
  CASE j.json = "object" -> {j}
    [] j.json = "array"  -> ItemsOf(j.items)
    [] OTHER             -> {}

\* The items of a payload are the members of its objects.
LEMMA ItemsAreObjects ==
  ASSUME NEW j
  PROVE  ItemsAt(j) = {i.members : i \in ObjectsAt(j)}
<1>1. CASE j.json = "object"
  BY <1>1 DEF ItemsAt, ObjectsAt
<1>2. CASE j.json = "array"
  BY <1>2 DEF ItemsAt, ObjectsAt
<1>3. CASE j.json \notin {"object", "array"}
  BY <1>3 DEF ItemsAt, ObjectsAt
<1> QED
  BY <1>1, <1>2, <1>3

\* Each item is read of an object, and each object is read.
LEMMA ResourcesHeld ==
  ASSUME NEW j, DecodePrimaryData(j) # Refused
  PROVE  LET data == DecodePrimaryData(j)
         IN /\ ItemsOf(data.items) = {DecodeResource(i) : i \in ObjectsAt(j)}
            /\ \A i \in ObjectsAt(j) : DecodeResource(i) # Refused
            /\ data.kind = IF j.json = "object" THEN "one" ELSE IF j.json = "array" THEN "many" ELSE "null"
            /\ j.json \in {"null", "object", "array"}
            /\ j.json = "object" => data.items = <<DecodeResource(j)>>
<1> DEFINE many == [k \in DOMAIN j.items |-> DecodeResource(j.items[k])]
           data == DecodePrimaryData(j)
<1>1. data = DecodeData(j, DecodeResource(j), many)
  BY DEF DecodePrimaryData
<1>2. DOMAIN many = DOMAIN j.items /\ \A k \in DOMAIN j.items : many[k] = DecodeResource(j.items[k])
  OBVIOUS
<1> HIDE DEF many, data
<1>3. \/ j.json = "null" /\ data.kind = "null" /\ data.items = <<>>
      \/ /\ j.json = "object" /\ data.kind = "one" /\ data.items = <<DecodeResource(j)>>
         /\ DecodeResource(j) # Refused
      \/ /\ j.json = "array" /\ data.kind = "many" /\ data.items = many
         /\ \A k \in DOMAIN many : many[k] # Refused
  BY <1>1, DataIsRead DEF data
<1> QED
  BY <1>2, <1>3 DEF ItemsOf, ObjectsAt, data

\* So it is with the identifiers of linkage,
LEMMA IdentifiersHeld ==
  ASSUME NEW j, DecodeLinkage(j) # Refused
  PROVE  /\ ItemsOf(DecodeLinkage(j).items) = {DecodeIdentifier(i) : i \in ObjectsAt(j)}
         /\ \A i \in ObjectsAt(j) : DecodeIdentifier(i) # Refused
<1> DEFINE many == [k \in DOMAIN j.items |-> DecodeIdentifier(j.items[k])]
           data == DecodeLinkage(j)
<1>1. data = DecodeData(j, DecodeIdentifier(j), many)
  BY DEF DecodeLinkage
<1>2. DOMAIN many = DOMAIN j.items /\ \A k \in DOMAIN j.items : many[k] = DecodeIdentifier(j.items[k])
  OBVIOUS
<1> HIDE DEF many, data
<1>3. \/ j.json = "null" /\ data.items = <<>>
      \/ j.json = "object" /\ data.items = <<DecodeIdentifier(j)>> /\ DecodeIdentifier(j) # Refused
      \/ j.json = "array" /\ data.items = many /\ \A k \in DOMAIN many : many[k] # Refused
  BY <1>1, DataIsRead DEF data
<1> QED
  BY <1>2, <1>3 DEF ItemsOf, ObjectsAt, data

\* and with included resources.
LEMMA ListHeld ==
  ASSUME NEW j, DecodeResourceArray(j) # Refused
  PROVE  /\ j.json = "array"
         /\ ItemsOf(DecodeResourceArray(j).items) = {DecodeResource(i) : i \in ObjectsAt(j)}
         /\ \A i \in ObjectsAt(j) : DecodeResource(i) # Refused
<1> DEFINE items == [k \in DOMAIN j.items |-> DecodeResource(j.items[k])]
           list == DecodeResourceArray(j)
<1>1. list = DecodeList(j, items)
  BY DEF DecodeResourceArray
<1>2. DOMAIN items = DOMAIN j.items /\ \A k \in DOMAIN j.items : items[k] = DecodeResource(j.items[k])
  OBVIOUS
<1> HIDE DEF items, list
<1>3. list.items = items /\ \A k \in DOMAIN items : items[k] # Refused
  BY <1>1, ListIsRead DEF list
<1>4. j.json = "array"
  BY <1>1 DEF list, DecodeList
<1> QED
  BY <1>2, <1>3, <1>4 DEF ItemsOf, ObjectsAt, list

\* Of the relationships of a resource: those that link have the member data.
Linking(members) == \A r \in RelationshipsOf(members) : "data" \in DOMAIN r

\* Whether each of their identifiers has an id.
LinksById(members) == \A i \in IdentifiersOf(members) : "id" \in DOMAIN i

LEMMA RelationshipsHeld ==
  ASSUME NEW j, DecodeResource(j) # Refused
  PROVE  LET core  == DecodeResource(j).core
             names == IF core.relationships = Nil THEN {} ELSE DOMAIN core.relationships.entries
             DataAt(n) == core.relationships.entries[n].core.data
         IN /\ Linking(j.members) <=> \A n \in names \ AtNames : DataAt(n) # Nil
            /\ LinksById(j.members) <=>
                 \A n \in names \ AtNames : DataAt(n) # Nil =>
                   \A identifier \in ItemsOf(DataAt(n).items) : HasText(identifier.core.id)
<1> DEFINE core == DecodeResource(j).core
           found == j.members.relationships
           names == DOMAIN found.members \ AtNames
           entries == [n \in names |-> DecodeRelationship(found.members[n])]
<1>1. /\ core.relationships # Nil <=> "relationships" \in DOMAIN j.members
      /\ core.relationships # Nil => /\ core.relationships = DecodeRelationships(found)
                                     /\ core.relationships # Refused
  BY ResourceHeld
<1> HIDE DEF core
<1>2. CASE core.relationships = Nil
  BY <1>1, <1>2 DEF Linking, LinksById, RelationshipsOf, IdentifiersOf, core
<1>3. CASE core.relationships # Nil
  <2>1. core.relationships = DecodeMap(found, entries) /\ core.relationships # Refused
    BY <1>1, <1>3 DEF DecodeRelationships
  <2>2. DOMAIN entries = names /\ \A n \in names : entries[n] = DecodeRelationship(found.members[n])
    OBVIOUS
  <2> HIDE DEF entries
  <2>3. core.relationships.entries = entries /\ \A n \in names : entries[n] # Refused
    BY <2>1, <2>2, MapIsRead
  <2>4. ASSUME NEW n \in names
        PROVE  /\ entries[n].core.data # Nil <=> "data" \in DOMAIN found.members[n].members
               /\ entries[n].core.data # Nil =>
                    ((\A identifier \in ItemsOf(entries[n].core.data.items) : HasText(identifier.core.id))
                       <=> \A i \in ItemsAt(found.members[n].members.data) : "id" \in DOMAIN i)
    <3> DEFINE data == entries[n].core.data
               linkage == found.members[n].members.data
    <3>1. /\ data # Nil <=> "data" \in DOMAIN found.members[n].members
          /\ data # Nil => data = DecodeLinkage(linkage) /\ data # Refused
      BY <2>2, <2>3, RelationshipHeld
    <3> HIDE DEF data
    <3>2. ASSUME data # Nil
          PROVE  (\A identifier \in ItemsOf(data.items) : HasText(identifier.core.id))
                   <=> \A i \in ItemsAt(linkage) : "id" \in DOMAIN i
      <4>1. /\ ItemsOf(data.items) = {DecodeIdentifier(i) : i \in ObjectsAt(linkage)}
            /\ \A i \in ObjectsAt(linkage) : DecodeIdentifier(i) # Refused
        BY <3>1, <3>2, IdentifiersHeld
      <4>2. \A i \in ObjectsAt(linkage) : HasText(DecodeIdentifier(i).core.id) <=> "id" \in DOMAIN i.members
        BY <4>1, IdentifierHeld
      <4>3. ItemsAt(linkage) = {i.members : i \in ObjectsAt(linkage)}
        BY ItemsAreObjects
      <4> QED
        BY <4>1, <4>2, <4>3
    <3> QED
      BY <3>1, <3>2 DEF data
  <2>5. RelationshipsOf(j.members) = {found.members[n].members : n \in names}
    BY <1>1, <1>3 DEF RelationshipsOf
  <2>6. Linking(j.members) <=> \A n \in names : entries[n].core.data # Nil
    BY <2>4, <2>5 DEF Linking
  <2>7. LinksById(j.members) <=>
          \A n \in names : entries[n].core.data # Nil =>
            \A identifier \in ItemsOf(entries[n].core.data.items) : HasText(identifier.core.id)
    <3>1. LinksById(j.members) <=>
            \A n \in names : "data" \in DOMAIN found.members[n].members =>
              \A i \in ItemsAt(found.members[n].members.data) : "id" \in DOMAIN i
      BY <2>5 DEF LinksById, IdentifiersOf
    <3> QED
      BY <2>4, <3>1
  <2>8. DOMAIN core.relationships.entries \ AtNames = names
    BY <2>2, <2>3
  <2> QED
    BY <1>3, <2>3, <2>6, <2>7, <2>8 DEF core
<1> QED
  BY <1>2, <1>3

-----------------------------------------------------------------------------
(* Resources, by context *)

RelationshipNames(object) ==
  IF object.core.relationships = Nil THEN {} ELSE DOMAIN object.core.relationships.entries \ AtNames

LinkageAt(object, n) == object.core.relationships.entries[n].core.data

\* Of a relationship a context may demand that it has linkage, and of that ids.
LEMMA StricterRelationship ==
  ASSUME NEW relationship
  PROVE  LET data == relationship.core.data
         IN /\ RelationshipValid(relationship, TRUE, "either")
                 <=> RelationshipValid(relationship, FALSE, "either") /\ data # Nil
            /\ RelationshipValid(relationship, FALSE, "id")
                 <=> /\ RelationshipValid(relationship, FALSE, "either")
                     /\ data # Nil => \A identifier \in ItemsOf(data.items) : HasText(identifier.core.id)
<1> DEFINE data == relationship.core.data
<1>1. LinkageValid(data, "id") <=>
        /\ LinkageValid(data, "either")
        /\ data # Nil => \A identifier \in ItemsOf(data.items) : HasText(identifier.core.id)
  BY DEF LinkageValid, Identified
<1> HIDE DEF data
<1> QED
  BY <1>1 DEF RelationshipValid, data

\* What the rules of resources are but for that.
ResourceItself(object, identity) ==
  LET core == object.core
      attributes == IF core.attributes = Nil THEN {} ELSE DOMAIN core.attributes.entries
      relationships == IF core.relationships = Nil THEN {} ELSE DOMAIN core.relationships.entries
  IN /\ Identified(core, identity)
     /\ attributes \cup relationships \subseteq Valid.name \ {"id", "type"}
     /\ attributes \cap relationships \subseteq AtNames
     /\ LinksValid(core.links, {"self"})

LEMMA ResourceItselfValid ==
  ASSUME NEW object, NEW identity, NEW requireData, NEW identifiers
  PROVE  ResourceValid(object, identity, requireData, identifiers) <=>
           /\ ResourceItself(object, identity)
           /\ \A n \in RelationshipNames(object) :
                RelationshipValid(object.core.relationships.entries[n], requireData, identifiers)
  BY DEF ResourceValid, ResourceItself, RelationshipNames

\* A response demands ids.
LEMMA ResponseResource ==
  ASSUME NEW j, DecodeResource(j) # Refused
  PROVE  LET object == DecodeResource(j)
         IN ResourceValid(object, "id", FALSE, "id") <=>
              /\ ResourceValid(object, "either", FALSE, "either")
              /\ "id" \in DOMAIN j.members /\ LinksById(j.members)
<1> DEFINE object == DecodeResource(j)
<1>1. HasText(object.core["id"]) <=> "id" \in DOMAIN j.members
  BY ResourceHeld
<1>2. LinksById(j.members) <=>
        \A n \in RelationshipNames(object) : LinkageAt(object, n) # Nil =>
          \A identifier \in ItemsOf(LinkageAt(object, n).items) : HasText(identifier.core.id)
  BY RelationshipsHeld DEF RelationshipNames, LinkageAt
<1> HIDE DEF object
<1>3. ResourceItself(object, "id") <=> ResourceItself(object, "either") /\ HasText(object.core.id)
  BY DEF ResourceItself, Identified
<1>4. \A n \in RelationshipNames(object) :
        RelationshipValid(object.core.relationships.entries[n], FALSE, "id") <=>
          /\ RelationshipValid(object.core.relationships.entries[n], FALSE, "either")
          /\ LinkageAt(object, n) # Nil =>
               \A identifier \in ItemsOf(LinkageAt(object, n).items) : HasText(identifier.core.id)
  BY StricterRelationship DEF LinkageAt
<1>5. ResourceValid(object, "id", FALSE, "id") <=>
        /\ ResourceValid(object, "either", FALSE, "either")
        /\ "id" \in DOMAIN j.members /\ LinksById(j.members)
  BY <1>1, <1>2, <1>3, <1>4, ResourceItselfValid
<1> QED
  BY <1>5 DEF object

\* A mutation demands linkage of every relationship, and may do without a name.
LEMMA MutatedResource ==
  ASSUME NEW j, DecodeResource(j) # Refused, NEW named,
         named.core.type = DecodeResource(j).core.type,
         named.core.attributes = DecodeResource(j).core.attributes,
         named.core.relationships = DecodeResource(j).core.relationships,
         named.core.links = DecodeResource(j).core.links,
         HasText(named.core.id) \/ HasText(named.core.lid)
  PROVE  LET object == DecodeResource(j)
         IN /\ ResourceValid(object, "optional", TRUE, "either") <=>
                 ResourceValid(named, "either", FALSE, "either") /\ Linking(j.members)
            /\ ResourceValid(object, "id", TRUE, "either") <=>
                 ResourceValid(object, "optional", TRUE, "either") /\ "id" \in DOMAIN j.members
<1> DEFINE object == DecodeResource(j)
<1>1. HasText(object.core["id"]) <=> "id" \in DOMAIN j.members
  BY ResourceHeld
<1>2. Linking(j.members) <=> \A n \in RelationshipNames(object) : LinkageAt(object, n) # Nil
  BY RelationshipsHeld DEF RelationshipNames, LinkageAt
<1> HIDE DEF object
<1>3. /\ ResourceItself(object, "optional") <=> ResourceItself(named, "either")
      /\ ResourceItself(object, "id") <=> ResourceItself(object, "optional") /\ HasText(object.core.id)
  BY DEF ResourceItself, Identified, object
<1>4. \A n \in RelationshipNames(object) :
        RelationshipValid(object.core.relationships.entries[n], TRUE, "either") <=>
          /\ RelationshipValid(object.core.relationships.entries[n], FALSE, "either")
          /\ LinkageAt(object, n) # Nil
  BY StricterRelationship DEF LinkageAt
<1>5. RelationshipNames(named) = RelationshipNames(object)
      /\ named.core.relationships = object.core.relationships
  BY DEF RelationshipNames, object
<1>6. /\ ResourceValid(object, "optional", TRUE, "either") <=>
            ResourceValid(named, "either", FALSE, "either") /\ Linking(j.members)
      /\ ResourceValid(object, "id", TRUE, "either") <=>
            ResourceValid(object, "optional", TRUE, "either") /\ "id" \in DOMAIN j.members
  BY <1>1, <1>2, <1>3, <1>4, <1>5, ResourceItselfValid
<1> QED
  BY <1>6 DEF object

\* Linkage demands an id and nothing else.
LEMMA LinkageResource ==
  ASSUME NEW j, DecodeResource(j) # Refused
  PROVE  LET object == DecodeResource(j)
             core == object.core
         IN (/\ Identified(core, "id") /\ core.attributes = Nil
             /\ core.relationships = Nil /\ core.links = Nil) <=>
            /\ ResourceValid(object, "either", FALSE, "either")
            /\ "id" \in DOMAIN j.members
            /\ DOMAIN j.members \cap {"attributes", "relationships", "links"} = {}
<1> DEFINE object == DecodeResource(j)
           core == object.core
<1>1. /\ HasText(core["id"]) <=> "id" \in DOMAIN j.members
      /\ \A n \in {"attributes", "relationships", "links"} : core[n] = Nil <=> n \notin DOMAIN j.members
  BY ResourceHeld
<1> HIDE DEF object
<1>2. Identified(core, "id") <=> Identified(core, "either") /\ HasText(core.id)
  BY DEF Identified
<1>3. core.attributes = Nil /\ core.relationships = Nil /\ core.links = Nil =>
        (ResourceValid(object, "either", FALSE, "either") <=> Identified(core, "either"))
  BY DEF ResourceValid, LinksValid
<1>4. ResourceValid(object, "either", FALSE, "either") => Identified(core, "either")
  BY DEF ResourceValid
<1> QED
  BY <1>1, <1>2, <1>3, <1>4 DEF object

-----------------------------------------------------------------------------
(* Documents, by context *)

\* The members of a document and those of its payload.
LEMMA DocumentHeld ==
  ASSUME NEW p, DecodeDocument(p) # Refused
  PROVE  LET core == DecodeDocument(p).core
         IN /\ p.json = "object" /\ DecodeDocument(p).extra = {}
            /\ core.data # Nil <=> "data" \in DOMAIN p.members
            /\ core.data # Nil => /\ core.data = DecodePrimaryData(p.members.data)
                                  /\ core.data # Refused
            /\ core.included # Nil <=> "included" \in DOMAIN p.members
            /\ core.included # Nil => /\ core.included = DecodeResourceArray(p.members.included)
                                      /\ core.included # Refused
            /\ core.errors # Nil <=> "errors" \in DOMAIN p.members
<1> DEFINE core == DecodeDocument(p).core
<1>1. /\ {"data", "included", "errors"} \subseteq DOMAIN Schema["document"]
      /\ Schema["document"]["data"] = "primary" /\ Schema["document"]["included"] = "resources"
      /\ Schema["document"]["errors"] = "errors"
  BY DEF Schema
<1>2. /\ p.json = "object" /\ DecodeDocument(p).extra = {}
      /\ \A n \in {"data", "included", "errors"} :
           /\ core[n] # Nil <=> n \in DOMAIN p.members
           /\ core[n] # Nil => /\ core[n] = DecodeBody(Schema["document"][n], p.members[n])
                               /\ core[n] # Refused
  BY <1>1, WholeHeld DEF DecodeDocument
<1> HIDE DEF core
<1>3. core["data"] # Nil => core["data"] = DecodePrimaryData(p.members["data"])
  BY <1>1, <1>2 DEF DecodeBody
<1>4. core["included"] # Nil => core["included"] = DecodeResourceArray(p.members["included"])
  BY <1>1, <1>2 DEF DecodeBody
<1> QED
  BY <1>2, <1>3, <1>4 DEF core

\* What contexts do not differ in.
MembersSound(value) ==
  LET core == value.core
  IN /\ core.jsonapi # Nil => /\ URIListValid(core.jsonapi.core.ext)
                              /\ URIListValid(core.jsonapi.core.profile)
     /\ LinksValid(core.links, {"self", "related", "describedby"} \cup PaginationLinks)
     /\ PaginationValid(core.links, core.data # Nil /\ core.data.kind = "many")
     /\ IdentitiesAgree(GraphOf(value))
     /\ core.errors # Nil => \A error \in ItemsOf(core.errors.items) : ErrorValid(error)

LEMMA DocumentParts ==
  ASSUME NEW value, NEW opts
  PROVE  DocumentValid(value, opts) <=>
           /\ MembersAgree(value, opts.context) /\ MembersSound(value)
           /\ DataValid(value.core.data, opts) /\ IncludedValid(value, opts)
  BY DEF DocumentValid, MembersSound

\* The options of the context that demands nothing.
Generic(o) == [o EXCEPT !.context = "generic"]

LEMMA GenericOptions ==
  ASSUME NEW o \in Options["document"]
  PROVE  Generic(o).context = "generic" /\ Generic(o).sparse = o.sparse /\ o.context \in Contexts
<1>1. DOMAIN o = {"context", "type", "id", "sparse"} /\ o.context \in Contexts
  BY OptionsWellFormed
<1> QED
  BY <1>1 DEF Generic

\* The resources of a response have ids, and link by ids.
ById(members) == "id" \in DOMAIN members /\ LinksById(members)

LEMMA ResponseHeld ==
  ASSUME NEW p, DecodeDocument(p) # Refused, NEW o \in Options["document"], o.context = "response"
  PROVE  DocumentValid(DecodeDocument(p), o) <=>
           DocumentValid(DecodeDocument(p), Generic(o)) /\ Demands(p, o)
<1> DEFINE value == DecodeDocument(p)
           core == value.core
           data == p.members.data
           included == p.members.included
<1>1. /\ core.data # Nil <=> "data" \in DOMAIN p.members
      /\ core.data # Nil => core.data = DecodePrimaryData(data) /\ core.data # Refused
      /\ core.included # Nil <=> "included" \in DOMAIN p.members
      /\ core.included # Nil => core.included = DecodeResourceArray(included) /\ core.included # Refused
  BY DocumentHeld
<1> HIDE DEF value
<1>2. PrimaryDataValid(core.data, "id") <=>
        PrimaryDataValid(core.data, "either") /\ \A r \in DataOf(p) : ById(r)
  <2>1. CASE core.data = Nil
    BY <1>1, <2>1 DEF PrimaryDataValid, DataOf
  <2>2. CASE core.data # Nil
    <3>1. /\ ItemsOf(core.data.items) = {DecodeResource(i) : i \in ObjectsAt(data)}
          /\ \A i \in ObjectsAt(data) : DecodeResource(i) # Refused
      BY <1>1, <2>2, ResourcesHeld
    <3>2. DataOf(p) = {i.members : i \in ObjectsAt(data)}
      BY <1>1, <2>2, ItemsAreObjects DEF DataOf
    <3>3. \A i \in ObjectsAt(data) :
            ResourceValid(DecodeResource(i), "id", FALSE, "id") <=>
              ResourceValid(DecodeResource(i), "either", FALSE, "either") /\ ById(i.members)
      BY <3>1, ResponseResource DEF ById
    <3> QED
      BY <2>2, <3>1, <3>2, <3>3 DEF PrimaryDataValid
  <2> QED
    BY <2>1, <2>2
<1>3. IncludedValid(value, o) <=>
        IncludedValid(value, Generic(o)) /\ \A r \in IncludedIn(p) : ById(r)
  <2>1. CASE core.included = Nil
    BY <1>1, <2>1 DEF IncludedValid, IncludedIn
  <2>2. CASE core.included # Nil
    <3>1. /\ ItemsOf(core.included.items) = {DecodeResource(i) : i \in ObjectsAt(included)}
          /\ \A i \in ObjectsAt(included) : DecodeResource(i) # Refused
      BY <1>1, <2>2, ListHeld
    <3>2. IncludedIn(p) = {i.members : i \in ObjectsAt(included)}
      BY <1>1, <2>2, ItemsAreObjects DEF IncludedIn
    <3>3. \A i \in ObjectsAt(included) :
            ResourceValid(DecodeResource(i), "id", FALSE, "id") <=>
              ResourceValid(DecodeResource(i), "either", FALSE, "either") /\ ById(i.members)
      BY <3>1, ResponseResource DEF ById
    <3>4. IncludedIdentity(o.context) = "id" /\ IncludedIdentity(Generic(o).context) = "either"
          /\ Generic(o).sparse = o.sparse
      BY GenericOptions DEF IncludedIdentity
    <3> QED
      BY <2>2, <3>1, <3>2, <3>3, <3>4 DEF IncludedValid
  <2> QED
    BY <2>1, <2>2
<1>4. /\ DataValid(core.data, o) <=> PrimaryDataValid(core.data, "id")
      /\ DataValid(core.data, Generic(o)) <=> PrimaryDataValid(core.data, "either")
      /\ MembersAgree(value, o.context) <=> MembersAgree(value, Generic(o).context)
  BY GenericOptions DEF DataValid, MembersAgree, Requests
<1>5. Demands(p, o) <=> \A r \in DataOf(p) \cup IncludedIn(p) : ById(r)
  BY DEF Demands, ById, LinksById
<1>6. DocumentValid(value, o) <=> DocumentValid(value, Generic(o)) /\ Demands(p, o)
  BY <1>2, <1>3, <1>4, <1>5, DocumentParts
<1> QED
  BY <1>6 DEF value

\* What a request demands of the members of a document.
LEMMA RequestHeld ==
  ASSUME NEW p, DecodeDocument(p) # Refused, NEW o \in Options["document"], o.context \in Requests
  PROVE  LET value == DecodeDocument(p)
         IN /\ MembersAgree(value, o.context) <=>
                 /\ MembersAgree(value, "generic")
                 /\ "data" \in DOMAIN p.members /\ "errors" \notin DOMAIN p.members
            /\ IncludedValid(value, o) <=> IncludedValid(value, Generic(o))
<1> DEFINE value == DecodeDocument(p)
           core == value.core
<1>1. /\ core.data # Nil <=> "data" \in DOMAIN p.members
      /\ core.errors # Nil <=> "errors" \in DOMAIN p.members
  BY DocumentHeld
<1> HIDE DEF value
<1>2. MembersAgree(value, o.context) <=>
        /\ MembersAgree(value, "generic")
        /\ "data" \in DOMAIN p.members /\ "errors" \notin DOMAIN p.members
  BY <1>1 DEF MembersAgree, Requests
<1>3. /\ IncludedIdentity(o.context) = IncludedIdentity(Generic(o).context)
      /\ Generic(o).sparse = o.sparse
  BY GenericOptions DEF IncludedIdentity, Requests
<1>4. IncludedValid(value, o) <=> IncludedValid(value, Generic(o))
  BY <1>3 DEF IncludedValid
<1> QED
  BY <1>2, <1>4 DEF value

\* A relationship endpoint demands linkage of its kind.
LinkageKinds(context) == IF context = "toMany" THEN {"array"} ELSE {"null", "object"}

LEMMA LinkageRequestHeld ==
  ASSUME NEW p, DecodeDocument(p) # Refused, NEW o \in Options["document"],
         o.context \in {"toOne", "toMany"}
  PROVE  DocumentValid(DecodeDocument(p), o) <=>
           DocumentValid(DecodeDocument(p), Generic(o)) /\ Demands(p, o)
<1> DEFINE value == DecodeDocument(p)
           core == value.core
           data == p.members.data
           Bare(r) == "id" \in DOMAIN r /\ DOMAIN r \cap {"attributes", "relationships", "links"} = {}
<1>1. /\ core.data # Nil <=> "data" \in DOMAIN p.members
      /\ core.data # Nil => core.data = DecodePrimaryData(data) /\ core.data # Refused
  BY DocumentHeld
<1>2. /\ MembersAgree(value, o.context) <=>
           /\ MembersAgree(value, "generic")
           /\ "data" \in DOMAIN p.members /\ "errors" \notin DOMAIN p.members
      /\ IncludedValid(value, o) <=> IncludedValid(value, Generic(o))
  BY RequestHeld DEF Requests
<1> HIDE DEF value
<1>3. ASSUME core.data # Nil
      PROVE  RelationshipPrimaryDataValid(core.data, o.context = "toMany") <=>
               /\ PrimaryDataValid(core.data, "either") /\ data.json \in LinkageKinds(o.context)
               /\ \A r \in DataOf(p) : Bare(r)
  <2>1. /\ ItemsOf(core.data.items) = {DecodeResource(i) : i \in ObjectsAt(data)}
        /\ \A i \in ObjectsAt(data) : DecodeResource(i) # Refused
        /\ core.data.kind = IF data.json = "object" THEN "one" ELSE IF data.json = "array" THEN "many" ELSE "null"
        /\ data.json \in {"null", "object", "array"}
    BY <1>1, <1>3, ResourcesHeld
  <2>2. DataOf(p) = {i.members : i \in ObjectsAt(data)}
    BY <1>1, <1>3, ItemsAreObjects DEF DataOf
  <2>3. \A i \in ObjectsAt(data) :
          (/\ Identified(DecodeResource(i).core, "id") /\ DecodeResource(i).core.attributes = Nil
           /\ DecodeResource(i).core.relationships = Nil /\ DecodeResource(i).core.links = Nil) <=>
            ResourceValid(DecodeResource(i), "either", FALSE, "either") /\ Bare(i.members)
    BY <2>1, LinkageResource
  <2>4. core.data.kind \in (IF o.context = "toMany" THEN {"many"} ELSE {"null", "one"})
          <=> data.json \in LinkageKinds(o.context)
    BY <2>1 DEF LinkageKinds
  <2>5. core.data.kind # "zero"
    BY <2>1
  <2> HIDE DEF core, data, Bare
  <2> QED
    BY <1>3, <2>1, <2>2, <2>3, <2>4, <2>5 DEF RelationshipPrimaryDataValid, PrimaryDataValid
<1>4. /\ DataValid(core.data, o) <=> RelationshipPrimaryDataValid(core.data, o.context = "toMany")
      /\ DataValid(core.data, Generic(o)) <=> PrimaryDataValid(core.data, "either")
      /\ Generic(o).context = "generic"
  BY GenericOptions DEF DataValid
<1>5. Demands(p, o) <=>
        /\ "data" \in DOMAIN p.members /\ "errors" \notin DOMAIN p.members
        /\ data.json \in LinkageKinds(o.context) /\ \A r \in DataOf(p) : Bare(r)
  BY DEF Demands, LinkageKinds
<1>6. DocumentValid(value, o) <=> DocumentValid(value, Generic(o)) /\ Demands(p, o)
  BY <1>1, <1>2, <1>3, <1>4, <1>5, DocumentParts
<1> QED
  BY <1>6 DEF value

\* What the endpoint of a mutation demands of the members of its resource.
AtItsEndpoint(members, o) ==
  /\ o.type # "" => members.type.text = o.type
  /\ HasText(o.id) /\ "id" \in DOMAIN members => members.id.text = o.id.text

\* A name that a resource to be created may be given.
NamedAlike(object, named) ==
  /\ \A n \in {"type", "attributes", "relationships", "links"} : named.core[n] = object.core[n]
  /\ HasText(named.core.id) \/ HasText(named.core.lid)

\* The data of a mutation, under the name it has or may be given.
LEMMA MutatedData ==
  ASSUME NEW j, DecodeResource(j) # Refused, NEW named, NamedAlike(DecodeResource(j), named),
         NEW data, data # Nil, data.kind = "one", data.items = <<DecodeResource(j)>>, NEW o
  PROVE  /\ MutationValid(data, "optional", o) <=>
              /\ ResourceValid(named, "either", FALSE, "either")
              /\ AtItsEndpoint(j.members, o) /\ Linking(j.members)
         /\ MutationValid(data, "id", o) <=>
              MutationValid(data, "optional", o) /\ "id" \in DOMAIN j.members
<1> DEFINE object == DecodeResource(j)
           core == object.core
<1>1. \A n \in {"type", "id", "lid"} :
        /\ HasText(core[n]) <=> n \in DOMAIN j.members
        /\ n \in DOMAIN j.members => core[n].text = j.members[n].text
  BY ResourceHeld
<1>2. /\ named.core["type"] = core["type"] /\ named.core["attributes"] = core["attributes"]
      /\ named.core["relationships"] = core["relationships"] /\ named.core["links"] = core["links"]
      /\ HasText(named.core.id) \/ HasText(named.core.lid)
  BY DEF NamedAlike
<1>3. /\ ResourceValid(object, "optional", TRUE, "either") <=>
            ResourceValid(named, "either", FALSE, "either") /\ Linking(j.members)
      /\ ResourceValid(object, "id", TRUE, "either") <=>
            ResourceValid(object, "optional", TRUE, "either") /\ "id" \in DOMAIN j.members
  BY <1>2, MutatedResource
<1> HIDE DEF object
<1>4. ASSUME ResourceValid(object, "optional", TRUE, "either") \/ ResourceValid(object, "id", TRUE, "either")
      PROVE  ExpectedIdentity(core, o) <=> AtItsEndpoint(j.members, o)
  <2>1. core.type.text \in TypeNames
    BY <1>4 DEF ResourceValid, Identified
  <2>2. core.type.text # ""
    BY <2>1, EmptyIsNoName DEF TypeNames
  <2>3. core["type"].text = j.members["type"].text
    BY <1>1, <2>2 DEF HasText
  <2>4. HasText(core["id"]) => core["id"].text = j.members["id"].text
    BY <1>1
  <2> QED
    BY <1>1, <2>2, <2>3, <2>4 DEF ExpectedIdentity, AtItsEndpoint
<1>5. data.items[1] = object
  BY DEF object
<1>6. \A identity : MutationValid(data, identity, o) <=>
        ResourceValid(object, identity, TRUE, "either") /\ ExpectedIdentity(core, o)
  BY <1>5 DEF MutationValid
<1> QED
  BY <1>3, <1>4, <1>6

\* A mutation, by a document that differs from it in the name of its resource alone.
LEMMA MutationHeld ==
  ASSUME NEW p, DecodeDocument(p) # Refused, NEW o \in Options["document"],
         o.context \in {"create", "update"},
         "data" \in DOMAIN p.members, p.members.data.json = "object",
         NEW named, NamedAlike(DecodeResource(p.members.data), named),
         NEW other, other.core.data # Nil, other.core.data.kind = "one",
         other.core.data.items = <<named>>,
         MembersSound(other) <=> MembersSound(DecodeDocument(p)),
         MembersAgree(other, "generic") <=> MembersAgree(DecodeDocument(p), "generic"),
         IncludedValid(other, Generic(o)) <=> IncludedValid(DecodeDocument(p), Generic(o))
  PROVE  DocumentValid(DecodeDocument(p), o) <=> DocumentValid(other, Generic(o)) /\ Demands(p, o)
<1> DEFINE value == DecodeDocument(p)
           core == value.core
           j == p.members.data
<1>1. core.data # Nil /\ core.data = DecodePrimaryData(j) /\ core.data # Refused
  BY DocumentHeld
<1>2. core.data.kind = "one" /\ core.data.items = <<DecodeResource(j)>> /\ DecodeResource(j) # Refused
  BY <1>1, ResourcesHeld DEF ObjectsAt
<1>3. /\ MembersAgree(value, o.context) <=>
           /\ MembersAgree(value, "generic")
           /\ "data" \in DOMAIN p.members /\ "errors" \notin DOMAIN p.members
      /\ IncludedValid(value, o) <=> IncludedValid(value, Generic(o))
  BY RequestHeld DEF Requests
<1>4. DataOf(p) = {j.members}
  BY DEF DataOf, ItemsAt
<1>5. /\ MutationValid(core.data, "optional", o) <=>
           /\ ResourceValid(named, "either", FALSE, "either")
           /\ AtItsEndpoint(j.members, o) /\ Linking(j.members)
      /\ MutationValid(core.data, "id", o) <=>
           MutationValid(core.data, "optional", o) /\ "id" \in DOMAIN j.members
  BY <1>1, <1>2, MutatedData
<1>6. ItemsOf(other.core.data.items) = {named}
  BY DEF ItemsOf
<1>7. DataValid(other.core.data, Generic(o)) <=> ResourceValid(named, "either", FALSE, "either")
  BY <1>6, GenericOptions DEF DataValid, PrimaryDataValid
<1>8. DataValid(core.data, o) <=>
        IF o.context = "create" THEN MutationValid(core.data, "optional", o)
        ELSE MutationValid(core.data, "id", o)
  BY DEF DataValid
<1>9. Demands(p, o) <=>
        /\ "errors" \notin DOMAIN p.members
        /\ AtItsEndpoint(j.members, o) /\ Linking(j.members)
        /\ o.context = "update" => "id" \in DOMAIN j.members
  BY <1>4 DEF Demands, AtItsEndpoint, Linking
<1> HIDE DEF value, core, j
<1>10. DocumentValid(value, o) <=>
         /\ MembersAgree(value, o.context) /\ MembersSound(value)
         /\ DataValid(core.data, o) /\ IncludedValid(value, o)
  BY DocumentParts DEF core
<1>11. DocumentValid(other, Generic(o)) <=>
         /\ MembersAgree(other, "generic") /\ MembersSound(other)
         /\ DataValid(other.core.data, Generic(o)) /\ IncludedValid(other, Generic(o))
  BY DocumentParts, GenericOptions
<1>12. DocumentValid(value, o) <=> DocumentValid(other, Generic(o)) /\ Demands(p, o)
  BY <1>3, <1>5, <1>7, <1>8, <1>9, <1>10, <1>11 DEF value
<1> QED
  BY <1>12 DEF value

\* One without an object for its data is refused.
LEMMA MutationIsOfOne ==
  ASSUME NEW p, DecodeDocument(p) # Refused, NEW o \in Options["document"],
         o.context \in {"create", "update"},
         ~("data" \in DOMAIN p.members /\ p.members.data.json = "object")
  PROVE  ~DocumentValid(DecodeDocument(p), o) /\ ~Demands(p, o)
<1> DEFINE core == DecodeDocument(p).core
<1>1. /\ core.data # Nil <=> "data" \in DOMAIN p.members
      /\ core.data # Nil => core.data = DecodePrimaryData(p.members.data) /\ core.data # Refused
  BY DocumentHeld
<1>2. core.data # Nil => core.data.kind # "one"
  BY <1>1, ResourcesHeld
<1>3. ~DocumentValid(DecodeDocument(p), o)
  BY <1>2 DEF DocumentValid, MembersAgree, Requests, DataValid, MutationValid
<1>4. ~Demands(p, o)
  BY DEF Demands
<1> QED
  BY <1>3, <1>4

\* An update is a mutation of a resource that has an id.
LEMMA UpdateHeld ==
  ASSUME NEW p, DecodeDocument(p) # Refused, NEW o \in Options["document"], o.context = "update"
  PROVE  DocumentValid(DecodeDocument(p), o) <=>
           DocumentValid(DecodeDocument(p), Generic(o)) /\ Demands(p, o)
<1> DEFINE value == DecodeDocument(p)
           core == value.core
           j == p.members.data
           object == DecodeResource(j)
<1>1. CASE ~("data" \in DOMAIN p.members /\ j.json = "object")
  BY <1>1, MutationIsOfOne
<1>2. CASE "data" \in DOMAIN p.members /\ j.json = "object"
  <2>1. core.data # Nil /\ core.data = DecodePrimaryData(j) /\ core.data # Refused
    BY <1>2, DocumentHeld
  <2>2. core.data.kind = "one" /\ core.data.items = <<object>> /\ object # Refused
    BY <1>2, <2>1, ResourcesHeld DEF ObjectsAt
  <2>3. CASE HasText(object.core.id) \/ HasText(object.core.lid)
    <3>1. NamedAlike(object, object)
      BY <2>3 DEF NamedAlike
    <3> QED
      BY <1>2, <2>1, <2>2, <3>1, MutationHeld
  <2>4. CASE ~HasText(object.core.id) /\ ~HasText(object.core.lid)
    <3>1. core.data.items[1] = object /\ object \in ItemsOf(core.data.items)
      BY <2>2 DEF ItemsOf
    <3>2. ~ResourceValid(object, "id", TRUE, "either") /\ ~ResourceValid(object, "either", FALSE, "either")
      BY <2>4 DEF ResourceValid, Identified
    <3>3. ~DataValid(core.data, o) /\ ~DataValid(core.data, Generic(o))
      BY <2>1, <3>1, <3>2, GenericOptions DEF DataValid, MutationValid, PrimaryDataValid
    <3> QED
      BY <3>3 DEF DocumentValid
  <2> QED
    BY <2>3, <2>4
<1> QED
  BY <1>1, <1>2

-----------------------------------------------------------------------------
(* A resource to be created that has no name: given one, the document is the same *)
(* but for it                                                                     *)

\* Two structs that are read alike but for one member.
LEMMA MembersAlike ==
  ASSUME NEW kind, NEW i, NEW j, i.json = "object",
         NEW read, DOMAIN read = Known(kind, j), DecodeMembers(kind, j, read) # Refused,
         NEW other, DOMAIN other = Known(kind, i),
         NEW name \in Known(kind, i), Known(kind, j) \subseteq Known(kind, i),
         \A n \in Known(kind, i) \ {name} : n \in Known(kind, j),
         \A n \in Known(kind, j) \ {name} : other[n] = read[n],
         other[name] # Refused
  PROVE  /\ DecodeMembers(kind, i, other) # Refused
         /\ DecodeMembers(kind, i, other).core[name] = other[name]
         /\ \A n \in DOMAIN Schema[kind] \ {name} :
              DecodeMembers(kind, i, other).core[n] = DecodeMembers(kind, j, read).core[n]
         /\ DecodeMembers(kind, i, other).extra = DecodeMembers(kind, j, read).extra
<1>1. /\ \A n \in Known(kind, j) :
           DecodeMembers(kind, j, read).core[n] = read[n] /\ read[n] # Refused
      /\ \A n \in DOMAIN Schema[kind] \ Known(kind, j) :
           DecodeMembers(kind, j, read).core[n] = IF Schema[kind][n] = "string" THEN NoText ELSE Nil
      /\ DecodeMembers(kind, j, read).extra = {}
  BY MembersHeld
<1>2. ASSUME NEW n \in DOMAIN other PROVE other[n] # Refused
  <2>1. CASE n = name
    BY <2>1
  <2>2. CASE n # name
    <3>1. n \in Known(kind, j)
      BY <2>2
    <3>2. other[n] = read[n] /\ read[n] # Refused
      BY <1>1, <2>2, <3>1
    <3> QED
      BY <3>2
  <2> QED
    BY <2>1, <2>2
<1>3. DecodeMembers(kind, i, other) # Refused
  BY <1>2 DEF DecodeMembers, AllOf, Refused
<1>4. /\ \A n \in Known(kind, i) : DecodeMembers(kind, i, other).core[n] = other[n]
      /\ \A n \in DOMAIN Schema[kind] \ Known(kind, i) :
           DecodeMembers(kind, i, other).core[n] = IF Schema[kind][n] = "string" THEN NoText ELSE Nil
      /\ DecodeMembers(kind, i, other).extra = {}
  BY <1>3, MembersHeld
<1>5. ASSUME NEW n \in DOMAIN Schema[kind] \ {name}
      PROVE  DecodeMembers(kind, i, other).core[n] = DecodeMembers(kind, j, read).core[n]
  <2>1. CASE n \in Known(kind, j)
    BY <1>1, <1>4, <2>1
  <2>2. CASE n \notin Known(kind, j)
    BY <1>1, <1>4, <2>2
  <2> QED
    BY <2>1, <2>2
<1> QED
  BY <1>1, <1>3, <1>4, <1>5

\* An object with the new id.
GivenName(members) ==
  Object([n \in DOMAIN members \cup {"id"} |-> IF n = "id" THEN String(Fresh) ELSE members[n]])

\* A resource that is given a name has that and what it had.
LEMMA GivenNameHas ==
  ASSUME NEW members
  PROVE  /\ GivenName(members).json = "object"
         /\ DOMAIN GivenName(members).members = DOMAIN members \cup {"id"}
         /\ GivenName(members).members["id"] = String(Fresh)
         /\ \A n \in DOMAIN members \ {"id"} : GivenName(members).members[n] = members[n]
<1> DEFINE given == [n \in DOMAIN members \cup {"id"} |-> IF n = "id" THEN String(Fresh) ELSE members[n]]
<1>1. GivenName(members).json = "object" /\ GivenName(members).members = given
  BY JSONFields DEF GivenName
<1>2. given["id"] = String(Fresh) /\ \A n \in DOMAIN members \ {"id"} : given[n] = members[n]
  OBVIOUS
<1>3. DOMAIN given = DOMAIN members \cup {"id"}
  OBVIOUS
<1> HIDE DEF given
<1> QED
  BY <1>1, <1>2, <1>3

\* It is read as it was, but for its id,
LEMMA NamedResource ==
  ASSUME NEW j, DecodeResource(j) # Refused, {"id", "lid"} \cap DOMAIN j.members = {}
  PROVE  LET object == DecodeResource(j)
             named  == DecodeResource(GivenName(j.members))
         IN /\ named # Refused /\ named.core.id = [text |-> Fresh, present |-> TRUE]
            /\ \A n \in {"type", "lid", "attributes", "relationships", "links"} :
                 named.core[n] = object.core[n]
            /\ ~HasText(object.core.id) /\ ~HasText(object.core.lid)
<1> DEFINE i == GivenName(j.members)
           ReadOf(k) == [n \in Known("resource", k) |->
                         IF n = "relationships" THEN DecodeRelationships(k.members[n])
                         ELSE DecodePart(Schema["resource"][n], k.members[n])]
           read == ReadOf(j)
           other == ReadOf(i)
<1>1. /\ DecodeResource(j) = DecodeMembers("resource", j, read)
      /\ DecodeResource(i) = DecodeMembers("resource", i, other)
      /\ DOMAIN read = Known("resource", j) /\ DOMAIN other = Known("resource", i)
  BY DEF DecodeResource
<1>2. /\ \A n \in Known("resource", j) :
           read[n] = IF n = "relationships" THEN DecodeRelationships(j.members[n])
                     ELSE DecodePart(Schema["resource"][n], j.members[n])
      /\ \A n \in Known("resource", i) :
           other[n] = IF n = "relationships" THEN DecodeRelationships(i.members[n])
                      ELSE DecodePart(Schema["resource"][n], i.members[n])
  OBVIOUS
<1> HIDE DEF read, other, ReadOf
<1>3. /\ i.json = "object" /\ DOMAIN i.members = DOMAIN j.members \cup {"id"}
      /\ i.members["id"] = String(Fresh)
      /\ \A n \in DOMAIN j.members \ {"id"} : i.members[n] = j.members[n]
  BY GivenNameHas
<1> HIDE DEF i
<1>4. /\ DOMAIN Schema["resource"] = {"type", "id", "lid", "attributes", "relationships", "links", "meta"}
      /\ Schema["resource"]["id"] = "string"
  BY DEF Schema
<1>5. Known("resource", i) = Known("resource", j) \cup {"id"} /\ "id" \in Known("resource", i)
  BY <1>3, <1>4 DEF Known
<1>6. \A n \in Known("resource", j) \ {"id"} : other[n] = read[n]
  BY <1>2, <1>3, <1>5 DEF Known
<1>7. other["id"] = [text |-> Fresh, present |-> TRUE] /\ other["id"] # Refused
  <2>1. other["id"] = DecodePlain("string", String(Fresh))
    BY <1>2, <1>3, <1>4, <1>5 DEF DecodePart
  <2>2. other["id"] = [text |-> Fresh, present |-> TRUE]
    BY <2>1, JSONFields DEF DecodePlain, DecodeString
  <2> QED
    BY <2>2, MarkedText
<1>8. /\ DecodeResource(i) # Refused /\ DecodeResource(i).core["id"] = other["id"]
      /\ \A n \in DOMAIN Schema["resource"] \ {"id"} : DecodeResource(i).core[n] = DecodeResource(j).core[n]
  <2>1. DecodeMembers("resource", j, read) # Refused /\ i.json = "object"
    BY <1>1, <1>3
  <2>2. /\ Known("resource", j) \subseteq Known("resource", i)
        /\ \A n \in Known("resource", i) \ {"id"} : n \in Known("resource", j)
    BY <1>5
  <2>3. LET two == DecodeMembers("resource", i, other)
        IN /\ two # Refused /\ two.core["id"] = other["id"]
           /\ \A n \in DOMAIN Schema["resource"] \ {"id"} :
                two.core[n] = DecodeMembers("resource", j, read).core[n]
    <3>1. /\ DOMAIN read = Known("resource", j) /\ DOMAIN other = Known("resource", i)
          /\ "id" \in Known("resource", i) /\ other["id"] # Refused
      BY <1>1, <1>5, <1>7
    <3> QED
      BY <1>6, <2>1, <2>2, <3>1, MembersAlike
  <2> QED
    BY <1>1, <2>3
<1>9. \A n \in {"id", "lid"} : ~HasText(DecodeResource(j).core[n])
  BY ResourceHeld
<1> QED
  BY <1>4, <1>7, <1>8, <1>9 DEF i

\* and so is its document, but for its data.
LEMMA NamedDocument ==
  ASSUME NEW p, DecodeDocument(p) # Refused,
         "data" \in DOMAIN p.members, p.members.data.json = "object",
         {"id", "lid"} \cap DOMAIN p.members.data.members = {}
  PROVE  LET value == DecodeDocument(p)
             other == DecodeDocument(Named(p))
             named == DecodeResource(GivenName(p.members.data.members))
         IN /\ other # Refused
            /\ other.core.data # Nil /\ other.core.data.kind = "one"
            /\ other.core.data.items = <<named>>
            /\ \A n \in DOMAIN Schema["document"] \ {"data"} : other.core[n] = value.core[n]
            /\ other.extra = value.extra
<1> DEFINE i == GivenName(p.members.data.members)
           q == Named(p)
           ReadOf(k) == [n \in Known("document", k) |-> DecodeBody(Schema["document"][n], k.members[n])]
           read == ReadOf(p)
           other == ReadOf(q)
           members == [p.members EXCEPT !.data = i]
<1>1. /\ DecodeDocument(p) = DecodeMembers("document", p, read)
      /\ DecodeDocument(q) = DecodeMembers("document", q, other)
      /\ DOMAIN read = Known("document", p) /\ DOMAIN other = Known("document", q)
  BY DEF DecodeDocument, DecodeWhole
<1>2. /\ \A n \in Known("document", p) : read[n] = DecodeBody(Schema["document"][n], p.members[n])
      /\ \A n \in Known("document", q) : other[n] = DecodeBody(Schema["document"][n], q.members[n])
  OBVIOUS
<1> HIDE DEF read, other, ReadOf
<1>3. q = Object(members)
  BY DEF Named, GivenName
<1>4. /\ q.json = "object" /\ DOMAIN q.members = DOMAIN p.members /\ q.members["data"] = i
      /\ \A n \in DOMAIN p.members \ {"data"} : q.members[n] = p.members[n]
  <2>1. DOMAIN members = DOMAIN p.members /\ members["data"] = i
        /\ \A n \in DOMAIN p.members \ {"data"} : members[n] = p.members[n]
    OBVIOUS
  <2> HIDE DEF members
  <2> QED
    BY <1>3, <2>1, JSONFields
<1> HIDE DEF q, members
<1>5. "data" \in DOMAIN Schema["document"] /\ Schema["document"]["data"] = "primary"
  BY DEF Schema
<1>6. Known("document", q) = Known("document", p) /\ "data" \in Known("document", q)
  BY <1>4, <1>5 DEF Known
<1>7. \A n \in Known("document", p) \ {"data"} : other[n] = read[n]
  BY <1>2, <1>4, <1>6 DEF Known
<1>8. DecodeResource(p.members.data) # Refused
  <2>1. DecodeDocument(p).core.data = DecodePrimaryData(p.members.data)
        /\ DecodeDocument(p).core.data # Refused
    BY DocumentHeld
  <2> QED
    BY <2>1, ResourcesHeld DEF ObjectsAt
<1>9. DecodeResource(i) # Refused /\ i.json = "object"
  BY <1>8, NamedResource, GivenNameHas
<1> HIDE DEF i
<1>10. other["data"] = [kind |-> "one", items |-> <<DecodeResource(i)>>]
  <2>1. other["data"] = DecodePrimaryData(i)
    BY <1>2, <1>4, <1>5, <1>6 DEF DecodeBody
  <2> QED
    BY <1>9, <2>1 DEF DecodePrimaryData, DecodeData
<1>11. /\ other["data"] # Refused /\ other["data"] # Nil
       /\ other["data"].kind = "one" /\ other["data"].items = <<DecodeResource(i)>>
  BY <1>10, DataItems
<1>12. /\ DecodeDocument(q) # Refused /\ DecodeDocument(q).core["data"] = other["data"]
       /\ \A n \in DOMAIN Schema["document"] \ {"data"} :
            DecodeDocument(q).core[n] = DecodeDocument(p).core[n]
       /\ DecodeDocument(q).extra = DecodeDocument(p).extra
  BY <1>1, <1>4, <1>6, <1>7, <1>11, MembersAlike
<1> QED
  BY <1>11, <1>12 DEF i, q

\* Two graphs that differ in the name of one resource, which is new.
NodeNamed(node, id) == [type |-> node.type, id |-> id, lid |-> node.lid, linkage |-> node.linkage]

GivenNameIn(g, h, name) ==
  /\ g.primary = 1 /\ h.primary = 1
  /\ Len(h.resources) = Len(g.resources) /\ Len(g.resources) \in Nat
  /\ DOMAIN g.resources = 1..Len(g.resources)
  /\ DOMAIN h.resources = DOMAIN g.resources /\ 1 \in DOMAIN g.resources
  /\ \A k \in DOMAIN g.resources \ {1} : h.resources[k] = g.resources[k] /\ g.resources[k].id # name
  /\ g.resources[1].id = None /\ g.resources[1].lid = None
  /\ h.resources[1] = NodeNamed(g.resources[1], name)
  /\ name # None

LEMMA NameIsNew ==
  ASSUME NEW g, NEW h, NEW name, GivenNameIn(g, h, name)
  PROVE  IdentitiesAgree(h) <=> IdentitiesAgree(g)
<1> DEFINE All(d) == {[type |-> r.type, id |-> r.id, lid |-> r.lid] : r \in ItemsOf(d.resources)}
                       \cup UNION {ItemsOf(r.linkage) : r \in ItemsOf(d.resources)}
           Whole(d) == {x \in All(d) : Present(x.type) /\ Present(x.id) /\ Present(x.lid)}
           one == g.resources[1]
           two == h.resources[1]
<1>1. /\ two.type = one.type /\ two.id = name /\ two.lid = None /\ two.linkage = one.linkage
      /\ one.id = None /\ one.lid = None /\ name # None
  BY DEF GivenNameIn, NodeNamed
<1>2. /\ DOMAIN h.resources = DOMAIN g.resources /\ 1 \in DOMAIN g.resources
      /\ \A k \in DOMAIN g.resources \ {1} : h.resources[k] = g.resources[k] /\ g.resources[k].id # name
  BY DEF GivenNameIn
<1>3. Whole(h) = Whole(g)
  <2>1. ASSUME NEW x, Present(x.lid)
        PROVE  x \in All(h) <=> x \in All(g)
    <3>1. \A d : x \in All(d) <=>
            \E k \in DOMAIN d.resources :
              \/ LET r == d.resources[k] IN x = [type |-> r.type, id |-> r.id, lid |-> r.lid]
              \/ x \in ItemsOf(d.resources[k].linkage)
      BY DEF ItemsOf
    <3>2. ASSUME NEW r, r.lid = None PROVE x # [type |-> r.type, id |-> r.id, lid |-> r.lid]
      BY <2>1, <3>2 DEF Present
    <3> HIDE DEF All
    <3> QED
      BY <1>1, <1>2, <3>1, <3>2
  <2> HIDE DEF All
  <2> QED
    BY <2>1
<1>4. ResourceKeys(one) = {} /\ ResourceKeys(two) \subseteq {<<one.type, "id", name>>}
  BY <1>1 DEF ResourceKeys, Present, IdKey
<1>5. \A k \in DOMAIN g.resources \ {1} :
        /\ ResourceKeys(h.resources[k]) = ResourceKeys(g.resources[k])
        /\ <<one.type, "id", name>> \notin ResourceKeys(g.resources[k])
  BY <1>2 DEF ResourceKeys, IdKey, LidKey
<1>6. (\A j, k \in DOMAIN h.resources : j # k => ResourceKeys(h.resources[j]) \cap ResourceKeys(h.resources[k]) = {})
        <=> \A j, k \in DOMAIN g.resources : j # k => ResourceKeys(g.resources[j]) \cap ResourceKeys(g.resources[k]) = {}
  <2> DEFINE Apart(d, j, k) == ResourceKeys(d.resources[j]) \cap ResourceKeys(d.resources[k]) = {}
  <2>1. ASSUME NEW j \in DOMAIN g.resources, NEW k \in DOMAIN g.resources, j # k
        PROVE  Apart(h, j, k) <=> Apart(g, j, k)
    <3>1. CASE j # 1 /\ k # 1
      BY <1>5, <3>1
    <3>2. CASE j = 1
      BY <1>4, <1>5, <2>1, <3>2
    <3>3. CASE k = 1
      BY <1>4, <1>5, <2>1, <3>3
    <3> QED
      BY <3>1, <3>2, <3>3
  <2> QED
    BY <1>2, <2>1
<1>7. \A d : IdentitiesAgree(d) <=>
        /\ \A j, k \in DOMAIN d.resources : j # k => ResourceKeys(d.resources[j]) \cap ResourceKeys(d.resources[k]) = {}
        /\ \A x, y \in Whole(d) : x.type = y.type => (x.id = y.id <=> x.lid = y.lid)
  BY DEF IdentitiesAgree
<1> HIDE DEF Whole
<1> QED
  BY <1>3, <1>6, <1>7

\* Such graphs have the same linkage: no identifier means the new name.
LEMMA LinkedAlike ==
  ASSUME NEW g, NEW h, NEW name, GivenNameIn(g, h, name)
  PROVE  Included(h) = Included(g) /\ Linked(h) = Linked(g)
<1> DEFINE one == g.resources[1]
           two == h.resources[1]
<1>1. /\ DOMAIN h.resources = DOMAIN g.resources
      /\ \A k \in DOMAIN g.resources \ {1} : h.resources[k] = g.resources[k]
      /\ two.linkage = one.linkage
      /\ g.primary = 1 /\ h.primary = 1 /\ Len(h.resources) = Len(g.resources)
  BY DEF GivenNameIn, NodeNamed
<1>2. Included(h) = Included(g) /\ Primary(h) = Primary(g) /\ 1 \notin Included(g)
  BY <1>1 DEF Included, Primary
<1>3. \A k \in DOMAIN g.resources : h.resources[k].linkage = g.resources[k].linkage
  BY <1>1
<1>4. Primary(g) \cup Included(g) \subseteq DOMAIN g.resources
  BY DEF GivenNameIn, Primary, Included
<1>5. ASSUME NEW K, K \subseteq DOMAIN g.resources
      PROVE  Linkage(h, K) = Linkage(g, K)
  BY <1>3, <1>5 DEF Linkage
<1>6. ASSUME NEW K, K \subseteq DOMAIN g.resources, NEW o \in Linkage(g, K)
      PROVE  Targets(h, o) = Targets(g, o)
  <2>1. o[1] \in DOMAIN g.resources
    BY <1>6 DEF Linkage
  <2>2. IdentifierAt(h, o) = IdentifierAt(g, o)
    BY <1>3, <2>1 DEF IdentifierAt
  <2>3. \A k \in Included(g) : h.resources[k] = g.resources[k]
    BY <1>1, <1>2, <1>4
  <2> QED
    BY <1>2, <2>2, <2>3 DEF Targets
<1>7. ASSUME NEW S, S \subseteq Included(g)
      PROVE  LinkageClosed(h, S) <=> LinkageClosed(g, S)
  <2>1. Primary(g) \cup S \subseteq DOMAIN g.resources
    BY <1>4, <1>7
  <2>2. Linkage(h, Primary(h) \cup S) = Linkage(g, Primary(g) \cup S)
    BY <1>2, <1>5, <2>1
  <2>3. \A o \in Linkage(g, Primary(g) \cup S) : Targets(h, o) = Targets(g, o)
    BY <1>6, <2>1
  <2> QED
    BY <2>2, <2>3 DEF LinkageClosed
<1>8. Linked(h) = Linked(g)
  BY <1>2, <1>7 DEF Linked
<1> QED
  BY <1>2, <1>8

\* The graph of a document whose one resource is given a name.
LEMMA GraphNamed ==
  ASSUME NEW value, NEW other, NEW object, NEW named,
         value.core.data # Nil, value.core.data.items = <<object>>,
         other.core.data # Nil, other.core.data.items = <<named>>,
         other.core.included = value.core.included,
         value.core.included # Nil => IsSequence(value.core.included.items),
         named.core.id = [text |-> Fresh, present |-> TRUE], Fresh # None,
         \A n \in {"type", "lid", "relationships"} : named.core[n] = object.core[n],
         ~HasText(object.core.id), ~HasText(object.core.lid),
         \A r \in ItemsOf(GraphOf(value).resources) : r.id # Fresh
  PROVE  GivenNameIn(GraphOf(value), GraphOf(other), Fresh)
<1> DEFINE others == ResourcesIn(value.core.included)
           n == 1 + Len(others)
           g == GraphOf(value)
           h == GraphOf(other)
<1>1. IsSequence(others) /\ ResourcesIn(other.core.included) = others
  <2>1. IsSequence(<<>>)
    BY DEF IsSequence
  <2> QED
    BY <2>1 DEF ResourcesIn
<1>2. Len(others) \in Nat /\ others \in Seq({others[k] : k \in DOMAIN others})
  BY <1>1, SequenceFacts
<1>3. g = [resources |-> [k \in 1..n |-> Node((<<object>> \o others)[k])], primary |-> 1]
  BY GraphListed DEF ResourcesIn
<1>4. h = [resources |-> [k \in 1..n |-> Node((<<named>> \o others)[k])], primary |-> 1]
  BY <1>1, GraphListed DEF ResourcesIn
<1> DEFINE S == {others[k] : k \in DOMAIN others} \cup {object, named}
<1>5. <<object>> \in Seq(S) /\ <<named>> \in Seq(S) /\ others \in Seq(S)
  BY <1>2
<1> HIDE DEF g, h, others, S
<1>6. ASSUME NEW k \in 2..n
      PROVE  (<<named>> \o others)[k] = (<<object>> \o others)[k]
  <2>1. k \in 1..(Len(<<object>>) + Len(others)) /\ k \in 1..(Len(<<named>>) + Len(others))
        /\ ~(k <= Len(<<object>>)) /\ ~(k <= Len(<<named>>))
        /\ Len(<<object>>) = Len(<<named>>)
    BY <1>2
  <2> QED
    BY <1>5, <2>1, ConcatenationAt
<1>7. (<<named>> \o others)[1] = named /\ (<<object>> \o others)[1] = object
  <2>1. 1 \in 1..(Len(<<object>>) + Len(others)) /\ 1 \in 1..(Len(<<named>>) + Len(others))
        /\ 1 <= Len(<<object>>) /\ 1 <= Len(<<named>>)
    BY <1>2
  <2> QED
    BY <1>5, <2>1, ConcatenationAt
<1>8. /\ Len(g.resources) = n /\ Len(h.resources) = n /\ n \in Nat /\ 1 \in 1..n
      /\ DOMAIN g.resources = 1..n /\ DOMAIN h.resources = 1..n
      /\ g.primary = 1 /\ h.primary = 1
  BY <1>2, <1>3, <1>4
<1>9. \A k \in 1..n : /\ g.resources[k] = Node((<<object>> \o others)[k])
                      /\ h.resources[k] = Node((<<named>> \o others)[k])
  BY <1>3, <1>4
<1>10. \A k \in DOMAIN g.resources \ {1} : h.resources[k] = g.resources[k] /\ g.resources[k].id # Fresh
  <2>1. \A k \in DOMAIN g.resources \ {1} : k \in 2..n
    BY <1>2, <1>8
  <2>2. \A k \in DOMAIN g.resources : g.resources[k].id # Fresh
    BY DEF g, ItemsOf
  <2> QED
    BY <1>6, <1>8, <1>9, <2>1, <2>2
<1>11. g.resources[1] = Node(object) /\ h.resources[1] = Node(named)
  BY <1>7, <1>8, <1>9
<1>12. Node(object).id = None /\ Node(object).lid = None
  BY DEF Node, IdentityOf, NameOf
<1>13. Node(named) = NodeNamed(Node(object), Fresh)
  <2>1. NameOf(named.core.id) = Fresh
    BY MarkedText DEF NameOf
  <2>2. named.core["type"] = object.core["type"] /\ named.core["lid"] = object.core["lid"]
        /\ named.core["relationships"] = object.core["relationships"]
    OBVIOUS
  <2> QED
    BY <2>1, <2>2 DEF Node, IdentityOf, NodeNamed
<1>14. GivenNameIn(g, h, Fresh)
  BY <1>8, <1>10, <1>11, <1>12, <1>13 DEF GivenNameIn
<1> QED
  BY <1>14 DEF g, h

\* UnmarshalWith returns what it decodes, if that is valid.
LEMMA ReadAsDocument ==
  ASSUME NEW p, NEW o, Root(o) = "document"
  PROVE  Unmarshal(p, o) # Refused <=> DecodeDocument(p) # Refused /\ DocumentValid(DecodeDocument(p), o)
  BY DEF Unmarshal, Judged, Decode, Checked

\* A payload is a document if it is valid in the generic context.
LEMMA IsADocumentWhen ==
  ASSUME NEW p, NEW o \in Options["document"]
  PROVE  IsADocument(p, o) <=>
           DecodeDocument(p) # Refused /\ DocumentValid(DecodeDocument(p), Generic(o))
<1>1. Root(Generic(o)) = "document"
  BY GenericOptions DEF Root, AtomicContexts
<1> QED
  BY <1>1, ReadAsDocument DEF IsADocument, Generic

\* The included resources of a payload are a sequence.
LEMMA IncludedIsSequence ==
  ASSUME NEW p \in Payloads["document"], DecodeDocument(p) # Refused,
         DecodeDocument(p).core.included # Nil
  PROVE  IsSequence(DecodeDocument(p).core.included.items)
<1> DEFINE j == p.members.included
           items == [k \in DOMAIN j.items |-> DecodeResource(j.items[k])]
<1>1. /\ p.json = "object" /\ "included" \in DOMAIN p.members
      /\ DecodeDocument(p).core.included = DecodeResourceArray(p.members["included"])
      /\ DecodeDocument(p).core.included # Refused
  BY DocumentHeld
<1>2. j.json = "array"
  BY <1>1, ListHeld
<1>3. IsSequence(p.members["included"].items)
  BY <1>1, <1>2, PayloadsAreJSON DEF Roots
<1>4. IsSequence(items)
  <2>1. DOMAIN items = DOMAIN j.items /\ items = [k \in DOMAIN items |-> items[k]]
    OBVIOUS
  <2> HIDE DEF items
  <2> QED
    BY <1>3, <2>1, MappedSequence
<1>5. DecodeDocument(p).core.included.items = items
  BY <1>1, ListIsRead DEF DecodeResourceArray
<1> QED
  BY <1>4, <1>5

\* A resource to be created that has a name is any resource; one without is none
\* until it is given one.
LEMMA CreateHeld ==
  ASSUME NEW p \in Payloads["document"], DecodeDocument(p) # Refused,
         NEW o \in Options["document"], o.context = "create"
  PROVE  DocumentValid(DecodeDocument(p), o) <=> AcceptsDocument(p, o)
<1> DEFINE value == DecodeDocument(p)
           core == value.core
           j == p.members.data
           object == DecodeResource(j)
<1>1. CASE ~("data" \in DOMAIN p.members /\ j.json = "object")
  BY <1>1, MutationIsOfOne DEF AcceptsDocument
<1>2. CASE "data" \in DOMAIN p.members /\ j.json = "object"
  <2>1. core.data # Nil /\ core.data = DecodePrimaryData(j) /\ core.data # Refused
    BY <1>2, DocumentHeld
  <2>2. core.data.kind = "one" /\ core.data.items = <<object>> /\ object # Refused
    BY <1>2, <2>1, ResourcesHeld DEF ObjectsAt
  <2>3. \A n \in {"id", "lid"} : HasText(object.core[n]) <=> n \in DOMAIN j.members
    BY <2>2, ResourceHeld
  <2>4. CASE {"id", "lid"} \cap DOMAIN j.members # {}
    <3>1. NamedAlike(object, object)
      <4>1. HasText(object.core["id"]) \/ HasText(object.core["lid"])
        BY <2>3, <2>4
      <4> QED
        BY <4>1 DEF NamedAlike
    <3>2. DocumentValid(value, o) <=> DocumentValid(value, Generic(o)) /\ Demands(p, o)
      BY <1>2, <2>1, <2>2, <3>1, MutationHeld
    <3>3. Named(p) = p
      BY <2>4 DEF Named
    <3> QED
      BY <3>2, <3>3, IsADocumentWhen DEF AcceptsDocument
  <2>5. CASE {"id", "lid"} \cap DOMAIN j.members = {}
    <3> DEFINE other == DecodeDocument(Named(p))
               named == DecodeResource(GivenName(j.members))
    <3>1. /\ other # Refused
          /\ other.core.data # Nil /\ other.core.data.kind = "one"
          /\ other.core.data.items = <<named>>
          /\ \A n \in DOMAIN Schema["document"] \ {"data"} : other.core[n] = core[n]
          /\ other.extra = value.extra
      BY <1>2, <2>5, NamedDocument
    <3>2. /\ named.core.id = [text |-> Fresh, present |-> TRUE]
          /\ \A n \in {"type", "lid", "attributes", "relationships", "links"} :
               named.core[n] = object.core[n]
          /\ ~HasText(object.core.id) /\ ~HasText(object.core.lid)
      BY <2>2, <2>5, NamedResource
    <3>3. /\ core["jsonapi"] = other.core["jsonapi"] /\ core["links"] = other.core["links"]
          /\ core["included"] = other.core["included"] /\ core["errors"] = other.core["errors"]
          /\ core["meta"] = other.core["meta"]
      BY <3>1 DEF Schema
    <3>4. GivenNameIn(GraphOf(value), GraphOf(other), Fresh)
      <4>1. Fresh # None /\ \A r \in ItemsOf(GraphOf(value).resources) : r.id # Fresh
        BY FreshIsNew
      <4>2. core.included # Nil => IsSequence(core.included.items)
        BY IncludedIsSequence
      <4>3. \A n \in {"type", "lid", "relationships"} : named.core[n] = object.core[n]
        BY <3>2
      <4>4. other.core.included = core.included
        BY <3>3
      <4>5. named.core.id = [text |-> Fresh, present |-> TRUE]
            /\ ~HasText(object.core.id) /\ ~HasText(object.core.lid)
        BY <3>2
      <4>6. /\ core.data # Nil /\ core.data.items = <<object>>
            /\ other.core.data # Nil /\ other.core.data.items = <<named>>
        BY <2>1, <2>2, <3>1
      <4> HIDE DEF value, other, named, object
      <4> QED
        BY <4>1, <4>2, <4>3, <4>4, <4>5, <4>6, GraphNamed
    <3> HIDE DEF other
    <3>5. MembersSound(other) <=> MembersSound(value)
      <4>1. IdentitiesAgree(GraphOf(other)) <=> IdentitiesAgree(GraphOf(value))
        BY <3>4, NameIsNew
      <4>2. core.data # Nil /\ other.core.data # Nil /\ other.core.data.kind = core.data.kind
        BY <2>1, <2>2, <3>1
      <4> HIDE DEF value
      <4> QED
        BY <3>3, <4>1, <4>2 DEF MembersSound
    <3>6. MembersAgree(other, "generic") <=> MembersAgree(value, "generic")
      <4>1. core.data # Nil /\ other.core.data # Nil /\ value.extra = other.extra
        BY <2>1, <3>1
      <4> HIDE DEF value
      <4> QED
        BY <3>3, <4>1 DEF MembersAgree, HasExtensionMember, Requests
    <3>7. IncludedValid(other, Generic(o)) <=> IncludedValid(value, Generic(o))
      <4>1. /\ Included(GraphOf(other)) = Included(GraphOf(value))
            /\ Linked(GraphOf(other)) = Linked(GraphOf(value))
        BY <3>4, LinkedAlike
      <4> HIDE DEF value
      <4> QED
        BY <3>3, <4>1 DEF IncludedValid
    <3>8. NamedAlike(object, named)
      <4>1. HasText(named.core.id)
        BY <3>2, MarkedText
      <4> QED
        BY <3>2, <4>1 DEF NamedAlike
    <3>9. DocumentValid(value, o) <=> DocumentValid(other, Generic(o)) /\ Demands(p, o)
      <4> HIDE DEF named
      <4> QED
        BY <1>2, <3>1, <3>5, <3>6, <3>7, <3>8, MutationHeld
    <3>10. ~DocumentValid(value, Generic(o))
      <4>1. object \in ItemsOf(core.data.items)
        BY <2>2 DEF ItemsOf
      <4>2. ~ResourceValid(object, "either", FALSE, "either")
        BY <3>2 DEF ResourceValid, Identified
      <4>3. ~DataValid(core.data, Generic(o))
        BY <2>1, <4>1, <4>2, GenericOptions DEF DataValid, PrimaryDataValid
      <4> QED
        BY <4>3 DEF DocumentValid
    <3> QED
      BY <1>2, <3>1, <3>9, <3>10, IsADocumentWhen DEF AcceptsDocument, other
  <2> QED
    BY <2>4, <2>5
<1> QED
  BY <1>1, <1>2

\* A payload is accepted when it is a document and meets the demands.
LEMMA DocumentAccepted ==
  ASSUME NEW p \in Payloads["document"], NEW o \in Options["document"]
  PROVE  Unmarshal(p, o) # Refused <=> AcceptsDocument(p, o)
<1>1. Root(o) = "document" /\ o.context \in Contexts
  BY RootOfOptions DEF Roots
<1>2. CASE DecodeDocument(p) = Refused
  BY <1>1, <1>2, ReadAsDocument, IsADocumentWhen DEF AcceptsDocument
<1>3. CASE DecodeDocument(p) # Refused
  <2>1. DocumentValid(DecodeDocument(p), o) <=> AcceptsDocument(p, o)
    <3>1. CASE o.context = "create"
      BY <1>3, <3>1, CreateHeld
    <3>2. ASSUME DocumentValid(DecodeDocument(p), o) <=>
                   DocumentValid(DecodeDocument(p), Generic(o)) /\ Demands(p, o),
                 o.context # "create"
          PROVE  DocumentValid(DecodeDocument(p), o) <=> AcceptsDocument(p, o)
      BY <1>3, <3>2, IsADocumentWhen DEF AcceptsDocument
    <3>3. CASE o.context = "generic"
      <4>1. DocumentValid(DecodeDocument(p), o) <=> DocumentValid(DecodeDocument(p), Generic(o))
        BY <3>3, GenericOptions, DocumentParts DEF DataValid, IncludedValid
      <4>2. Demands(p, o)
        BY <3>3 DEF Demands
      <4> QED
        BY <3>2, <3>3, <4>1, <4>2
    <3>4. CASE o.context = "response"
      BY <1>3, <3>2, <3>4, ResponseHeld
    <3>5. CASE o.context = "update"
      BY <1>3, <3>2, <3>5, UpdateHeld
    <3>6. CASE o.context \in {"toOne", "toMany"}
      BY <1>3, <3>2, <3>6, LinkageRequestHeld
    <3> QED
      BY <1>1, <3>1, <3>3, <3>4, <3>5, <3>6 DEF Contexts, Requests
  <2> QED
    BY <1>1, <1>3, <2>1, ReadAsDocument
<1> QED
  BY <1>2, <1>3

-----------------------------------------------------------------------------
(* Atomic documents: results, by the operations as they travel *)

\* What is written of a resource has an id exactly when the resource has one,
LEMMA WrittenResource ==
  ASSUME NEW value, ResourceRegistered(value)
  PROVE  /\ EncodeResource(value).json = "object"
         /\ "id" \in DOMAIN EncodeResource(value).members <=> HasText(value.core.id)
<1> DEFINE W == Written("resource", value)
           written == [n \in W |-> IF n = "relationships" THEN EncodeRelationships(value.core[n])
                                   ELSE EncodePart(Schema["resource"][n], value.core[n])]
           j == EncodeMembers(value, written)
<1>1. EncodeResource(value) = j
  BY DEF EncodeResource
<1>2. "resource" \in Structs /\ value.extra \subseteq AtNames
  BY DEF ResourceRegistered, Registered, Structs, Schema
<1>3. DOMAIN written = W
  OBVIOUS
<1>4. /\ "id" \in DOMAIN Schema["resource"] /\ Schema["resource"]["id"] = "string"
      /\ Always("resource") = {"type"}
  BY DEF Schema, Always
<1>5. "id" \in W <=> HasText(value.core["id"])
  BY <1>4 DEF Written
<1> HIDE DEF written, j, W
<1>6. AtNames \cap DOMAIN Schema["resource"] = {}
  BY <1>2, AtNamesBegin
<1>7. value.extra \cap DOMAIN Schema["resource"] = {}
  BY <1>2, <1>6
<1>8. j.json = "object" /\ DOMAIN j.members = W \cup value.extra
  BY <1>2, <1>3, <1>7, MembersFound DEF j, W
<1>9. "id" \notin value.extra
  BY <1>4, <1>7
<1> QED
  BY <1>1, <1>5, <1>8, <1>9

\* of data an object exactly when it is one resource,
LEMMA WrittenData ==
  ASSUME NEW data, data # Nil, IsBody("primary", data), DataRegistered(data)
  PROVE  LET j == EncodePrimaryData(data)
         IN /\ j.json = "object" <=> data.kind = "one"
            /\ data.kind = "one" =>
                 /\ 1 \in DOMAIN data.items /\ IsResource(data.items[1])
                 /\ "id" \in DOMAIN j.members <=> HasText(data.items[1].core.id)
<1> DEFINE written == [k \in DOMAIN data.items |-> EncodeResource(data.items[k])]
           j == EncodeData(data, written)
<1>1. EncodePrimaryData(data) = j
  BY DEF EncodePrimaryData
<1>2. IsData(data) /\ \A k \in DOMAIN data.items : IsResource(data.items[k])
  BY DEF IsBody
<1>3. CASE data.kind \in {"zero", "null"}
  <2>1. j = Null
    BY <1>3 DEF EncodeData
  <2> QED
    BY <1>1, <1>3, <2>1, JSONFields
<1>4. CASE data.kind = "one"
  <2>1. 1 \in DOMAIN data.items
    BY <1>2, <1>4 DEF IsData, IsSequence
  <2>2. j = EncodeResource(data.items[1])
    BY <1>4, <2>1 DEF EncodeData
  <2>3. ResourceRegistered(data.items[1])
    BY <2>1, RegisteredItems
  <2> QED
    BY <1>1, <1>2, <1>4, <2>1, <2>2, <2>3, WrittenResource
<1>5. CASE data.kind = "many"
  <2>1. j = Array(written)
    BY <1>5 DEF EncodeData
  <2>2. j.json = "array"
    BY <2>1, JSONFields
  <2> QED
    BY <1>1, <1>5, <2>2
<1> QED
  BY <1>2, <1>3, <1>4, <1>5 DEF IsData

\* of a reference its relationship,
LEMMA WrittenReference ==
  ASSUME NEW reference, reference # Nil, IsBody("reference", reference)
  PROVE  "relationship" \in DOMAIN EncodeAtomicReference(reference).members
           <=> HasText(reference.core.relationship)
<1> DEFINE W == Written("reference", reference)
           written == [n \in W |-> EncodePlain(Schema["reference"][n], reference.core[n])]
<1>1. EncodeAtomicReference(reference) = EncodeMembers(reference, written)
  BY DEF EncodeAtomicReference, EncodeFlat
<1>2. "reference" \in Structs /\ reference.extra = {}
  BY DEF IsBody, IsPart, IsFlat, HasMembers, Closed, Structs, Schema
<1>3. DOMAIN written = W
  OBVIOUS
<1>4. /\ "relationship" \in DOMAIN Schema["reference"] /\ Schema["reference"]["relationship"] = "string"
      /\ Always("reference") = {"type"}
  BY DEF Schema, Always
<1>5. "relationship" \in W <=> HasText(reference.core["relationship"])
  BY <1>4 DEF Written
<1> HIDE DEF written
<1>6. DOMAIN EncodeMembers(reference, written).members = W
  BY <1>2, <1>3, ClosedIsWritten
<1> QED
  BY <1>1, <1>5, <1>6

\* and of an operation its code, its reference and its data.
LEMMA WrittenOperation ==
  ASSUME NEW value, IsWhole("operation", value), DataRegistered(value.core.data)
  PROVE  LET core == value.core
             members == EncodeAtomicOperation(value).members
         IN /\ members.op = String(core.op.text)
            /\ "ref" \in DOMAIN members <=> core.ref # Nil
            /\ core.ref # Nil =>
                 ("relationship" \in DOMAIN members.ref.members <=> HasText(core.ref.core.relationship))
            /\ "data" \in DOMAIN members <=> core.data # Nil
            /\ core.data # Nil =>
                 /\ members.data.json = "object" <=> core.data.kind = "one"
                 /\ core.data.kind = "one" =>
                      /\ 1 \in DOMAIN core.data.items /\ IsResource(core.data.items[1])
                      /\ "id" \in DOMAIN members.data.members <=> HasText(core.data.items[1].core.id)
<1> DEFINE core == value.core
           Types == Schema["operation"]
           W == Written("operation", value)
           written == [n \in W |-> EncodeBody(Types[n], core[n])]
           j == EncodeMembers(value, written)
<1>1. EncodeAtomicOperation(value) = j
  BY DEF EncodeAtomicOperation, EncodeWhole
<1>2. "operation" \in Structs /\ value.extra = {}
  BY DEF IsWhole, HasMembers, Closed, Structs, Schema
<1>3. DOMAIN written = W /\ \A n \in W : written[n] = EncodeBody(Types[n], core[n])
  OBVIOUS
<1>4. /\ {"op", "ref", "data"} \subseteq DOMAIN Types
      /\ Types["op"] = "string" /\ Types["ref"] = "reference" /\ Types["data"] = "primary"
      /\ Always("operation") = {"op"}
  BY DEF Schema, Always
<1>5. "op" \in W /\ ("ref" \in W <=> core["ref"] # Nil) /\ ("data" \in W <=> core["data"] # Nil)
  BY <1>4 DEF Written
<1>6. IsBody("reference", core["ref"]) /\ IsBody("primary", core["data"])
  BY <1>4 DEF IsWhole
<1>7. DataRegistered(core["data"])
  OBVIOUS
<1> HIDE DEF written, j, W
<1>8. DOMAIN j.members = W /\ \A n \in W : j.members[n] = written[n]
  <2>1. value.extra \cap DOMAIN Schema["operation"] = {}
    BY <1>2
  <2>2. DOMAIN j.members = W \cup value.extra /\ \A n \in W : j.members[n] = written[n]
    <3>1. DOMAIN written = W /\ "operation" \in Structs
      BY <1>2, <1>3
    <3> QED
      BY <2>1, <3>1, MembersFound DEF j, W
  <2> QED
    BY <1>2, <2>2
<1>9. j.members["op"] = String(core["op"].text)
  BY <1>3, <1>4, <1>5, <1>8 DEF EncodeBody, EncodePart, EncodePlain
<1>10. core["ref"] # Nil =>
         ("relationship" \in DOMAIN j.members["ref"].members <=> HasText(core["ref"].core.relationship))
  <2> SUFFICES ASSUME core["ref"] # Nil
               PROVE  "relationship" \in DOMAIN j.members["ref"].members <=> HasText(core["ref"].core.relationship)
    OBVIOUS
  <2>1. j.members["ref"] = EncodeAtomicReference(core["ref"])
    BY <1>3, <1>4, <1>5, <1>8 DEF EncodeBody, EncodePart
  <2> HIDE DEF core
  <2> QED
    BY <1>6, <2>1, WrittenReference
<1>11. core["data"] # Nil => j.members["data"] = EncodePrimaryData(core["data"])
  BY <1>3, <1>4, <1>5, <1>8 DEF EncodeBody
<1>12. core["data"] # Nil =>
         /\ j.members["data"].json = "object" <=> core["data"].kind = "one"
         /\ core["data"].kind = "one" =>
              /\ 1 \in DOMAIN core["data"].items /\ IsResource(core["data"].items[1])
              /\ "id" \in DOMAIN j.members["data"].members <=> HasText(core["data"].items[1].core.id)
  <2> HIDE DEF core
  <2> QED
    BY <1>6, <1>7, <1>11, WrittenData
<1> QED
  BY <1>1, <1>5, <1>8, <1>9, <1>10, <1>12

\* Of a valid operation: it is on a resource when it is not on a relationship.
LEMMA ValidOperationIsOn ==
  ASSUME NEW o, Rules!OperationValid(o), o.op # "remove"
  PROVE  ~Rules!RelationshipOperation(o) <=>
           /\ o.data # None /\ o.data.kind = "one"
           /\ o.ref # None => o.ref.relationship = "absent"
<1>1. CASE o.op = "add"
  <2>1. Rules!AddValid(o)
    BY <1>1 DEF Rules!OperationValid
  <2> QED
    BY <1>1, <2>1 DEF Rules!AddValid, Rules!RelationshipOperation, Rules!RelationshipTarget,
         Rules!RelationshipDataValid, Rules!ResourceDataValid, Rules!HasRelationship, Rules!Present
<1>2. CASE o.op = "update"
  <2>1. Rules!UpdateValid(o)
    BY <1>2 DEF Rules!OperationValid
  <2> QED
    BY <1>2, <2>1 DEF Rules!UpdateValid, Rules!RelationshipOperation, Rules!RelationshipTarget,
         Rules!ResourceDataValid, Rules!HasRelationship, Rules!Present
<1> QED
  BY <1>1, <1>2 DEF Rules!OperationValid

\* A field is a name when it is there, empty or not.
LEMMA TextIsPresent ==
  ASSUME NEW field \in [text : STRING, present : BOOLEAN]
  PROVE  NameOf(field) # None <=> HasText(field)
  BY NoneIsNoText DEF NameOf

\* What a result must have to answer an operation can be told from the payloads.
LEMMA OperationAnswered ==
  ASSUME NoneIsNoView, NEW value, IsWhole("operation", value), DataRegistered(value.core.data),
         Rules!OperationValid(OperationView(value)), NEW result
  PROVE  LET o == OperationView(value)
         IN Answers(result, EncodeAtomicOperation(value).members) <=>
              IF "data" \in DOMAIN result THEN o.op # "remove" /\ ~Rules!RelationshipOperation(o)
              ELSE ~Rules!CreateRequiresResultData(o)
<1> DEFINE core == value.core
           members == EncodeAtomicOperation(value).members
           o == OperationView(value)
           IsOn == /\ core.data # Nil /\ core.data.kind = "one"
                   /\ core.ref # Nil => ~HasText(core.ref.core.relationship)
<1>1. /\ members.op = String(core.op.text)
      /\ "ref" \in DOMAIN members <=> core.ref # Nil
      /\ core.ref # Nil =>
           ("relationship" \in DOMAIN members.ref.members <=> HasText(core.ref.core.relationship))
      /\ "data" \in DOMAIN members <=> core.data # Nil
      /\ core.data # Nil =>
           /\ members.data.json = "object" <=> core.data.kind = "one"
           /\ core.data.kind = "one" =>
                /\ 1 \in DOMAIN core.data.items /\ IsResource(core.data.items[1])
                /\ "id" \in DOMAIN members.data.members <=> HasText(core.data.items[1].core.id)
  BY WrittenOperation
<1>2. o.op = core.op.text /\ o.ref = ReferenceView(core.ref) /\ o.data = DataView(core.data)
  BY ViewedOperation
<1>3. Rules!OperationValid(o)
  OBVIOUS
<1> HIDE DEF core, members, o
<1>4. /\ o.ref # None <=> core.ref # Nil
      /\ core.ref # Nil => (o.ref.relationship = "absent" <=> ~HasText(core.ref.core.relationship))
  BY <1>2, ReferenceViewed DEF ReferenceView
<1>5. /\ o.data # None <=> core.data # Nil
      /\ core.data # Nil => o.data.kind = core.data.kind
  BY <1>2, ViewedData DEF DataView
<1>6. core.data # Nil /\ core.data.kind = "one" =>
        (o.data.items[1].id # None <=> HasText(core.data.items[1].core.id))
  <2> SUFFICES ASSUME core.data # Nil, core.data.kind = "one"
               PROVE  o.data.items[1].id # None <=> HasText(core.data.items[1].core.id)
    OBVIOUS
  <2>1. 1 \in DOMAIN core.data.items /\ IsResource(core.data.items[1])
    BY <1>1
  <2>2. o.data.items[1] = ResourceView(core.data.items[1])
    BY <1>2, <2>1, ViewedData
  <2>3. o.data.items[1].id = NameOf(core.data.items[1].core.id)
    BY <2>2 DEF ResourceView
  <2>4. core.data.items[1].core["id"] \in [text : STRING, present : BOOLEAN]
    <3>1. "id" \in DOMAIN Schema["resource"] /\ Schema["resource"]["id"] = "string"
      BY DEF Schema
    <3> QED
      BY <2>1, <3>1 DEF IsResource, IsNested, IsPart, IsPlain
  <2> QED
    BY <2>3, <2>4, TextIsPresent
<1>7. String(core.op.text) = String("remove") <=> o.op = "remove"
  BY <1>2, JSONFields
<1>8. String(core.op.text) = String("add") <=> o.op = "add"
  BY <1>2, JSONFields
<1>9. OnResource(members) <=> IsOn
  BY <1>1 DEF OnResource
<1>10. o.op # "remove" => (~Rules!RelationshipOperation(o) <=> IsOn)
  BY <1>3, <1>4, <1>5, ValidOperationIsOn
<1>11. LeavesIdToServer(members) <=> Rules!CreateRequiresResultData(o)
  <2>1. LeavesIdToServer(members) <=>
          o.op = "add" /\ IsOn /\ "id" \notin DOMAIN members.data.members
    BY <1>1, <1>8, <1>9 DEF LeavesIdToServer
  <2>2. Rules!CreateRequiresResultData(o) <=>
          o.op = "add" /\ IsOn /\ ~(o.data.items[1].id # None)
    BY <1>5, <1>10 DEF Rules!CreateRequiresResultData, Rules!Present
  <2> QED
    BY <1>1, <1>6, <2>1, <2>2
<1>12. Answers(result, members) <=>
         IF "data" \in DOMAIN result THEN o.op # "remove" /\ ~Rules!RelationshipOperation(o)
         ELSE ~Rules!CreateRequiresResultData(o)
  BY <1>1, <1>7, <1>9, <1>10, <1>11 DEF Answers
<1> QED
  BY <1>12 DEF members, o

\* The members of an Atomic document and those of its payload.
LEMMA AtomicHeld ==
  ASSUME NEW p, DecodeAtomic(p) # Refused
  PROVE  LET core == DecodeAtomic(p).core
         IN /\ p.json = "object"
            /\ core.operations # Nil <=> "operations" \in DOMAIN p.members
            /\ core.results # Nil <=> "results" \in DOMAIN p.members
            /\ core.results # Nil => /\ core.results = DecodeAtomicResults(p.members.results)
                                     /\ core.results # Refused
            /\ core.errors # Nil <=> "errors" \in DOMAIN p.members
<1> DEFINE Types == Schema["atomic"]
           Value(n) == CASE n = "operations" -> DecodeAtomicOperations(p.members[n])
                         [] n = "results"    -> DecodeAtomicResults(p.members[n])
                         [] OTHER            -> DecodeBody(Types[n], p.members[n])
           read == [n \in Known("atomic", p) |-> Value(n)]
           value == DecodeAtomic(p)
<1>1. value = DecodeMembers("atomic", p, read) /\ DOMAIN read = Known("atomic", p)
  BY DEF DecodeAtomic
<1>2. \A n \in Known("atomic", p) : read[n] = Value(n)
  OBVIOUS
<1>3. /\ {"operations", "results", "errors"} \subseteq DOMAIN Types
      /\ Types["operations"] = "operations" /\ Types["results"] = "results" /\ Types["errors"] = "errors"
  BY DEF Schema
<1> HIDE DEF read, value, Value
<1>4. /\ p.json = "object"
      /\ \A n \in Known("atomic", p) : value.core[n] = read[n] /\ read[n] # Refused
      /\ \A n \in DOMAIN Types \ Known("atomic", p) :
           value.core[n] = IF Types[n] = "string" THEN NoText ELSE Nil
  BY <1>1, MembersHeld DEF value
<1>5. ASSUME NEW n \in {"operations", "results", "errors"}
      PROVE  /\ value.core[n] # Nil <=> n \in DOMAIN p.members
             /\ value.core[n] # Nil => value.core[n] = Value(n) /\ value.core[n] # Refused
  <2>1. CASE n \in DOMAIN p.members
    <3>1. n \in Known("atomic", p)
      BY <1>3, <2>1 DEF Known
    <3>2. value.core[n] = Value(n) /\ value.core[n] # Refused
      BY <1>2, <1>4, <3>1
    <3>3. Value(n) # Refused => Value(n) # Nil
      <4>1. CASE n = "errors"
        <5>1. Value(n) = DecodeBody("errors", p.members[n])
          BY <1>3, <4>1 DEF Value
        <5> QED
          BY <5>1, BodyIsHeld DEF PartTypes
      <4>2. CASE n \in {"operations", "results"}
        BY <4>2, ListIsRead DEF Value, DecodeAtomicOperations, DecodeAtomicResults
      <4> QED
        BY <4>1, <4>2
    <3> QED
      BY <2>1, <3>2, <3>3
  <2>2. CASE n \notin DOMAIN p.members
    <3>1. n \in DOMAIN Types \ Known("atomic", p) /\ Types[n] # "string"
      BY <1>3, <2>2 DEF Known
    <3> QED
      BY <1>4, <2>2, <3>1
  <2> QED
    BY <2>1, <2>2
<1>6. Value("results") = DecodeAtomicResults(p.members["results"])
  BY DEF Value
<1> QED
  BY <1>4, <1>5, <1>6 DEF value

\* The results of a payload and those that are read, one by one.
LEMMA ResultsHeld ==
  ASSUME NEW j, DecodeAtomicResults(j) # Refused
  PROVE  LET items == DecodeAtomicResults(j).items
         IN /\ j.json = "array" /\ DOMAIN items = DOMAIN j.items
            /\ items = [k \in DOMAIN items |-> items[k]]
            /\ \A k \in DOMAIN items :
                 items[k].core.data # Nil <=> "data" \in DOMAIN j.items[k].members
<1> DEFINE read == [k \in DOMAIN j.items |-> DecodeAtomicResult(j.items[k])]
<1>1. DecodeAtomicResults(j) = DecodeList(j, read)
  BY DEF DecodeAtomicResults
<1>2. /\ DOMAIN read = DOMAIN j.items /\ read = [k \in DOMAIN read |-> read[k]]
      /\ \A k \in DOMAIN read : read[k] = DecodeWhole("result", j.items[k])
  BY DEF DecodeAtomicResult
<1> HIDE DEF read
<1>3. DecodeAtomicResults(j).items = read /\ \A k \in DOMAIN read : read[k] # Refused
  BY <1>1, ListIsRead
<1>4. j.json = "array"
  BY <1>1 DEF DecodeList
<1>5. "data" \in DOMAIN Schema["result"] /\ Schema["result"]["data"] = "primary"
  BY DEF Schema
<1>6. ASSUME NEW k \in DOMAIN read
      PROVE  read[k].core["data"] # Nil <=> "data" \in DOMAIN j.items[k].members
  BY <1>2, <1>3, <1>5, WholeHeld
<1> QED
  BY <1>2, <1>3, <1>4, <1>6

\* The operations whose results are expected, as they travel.
Travelling(asked) == IF asked = Nil THEN <<>> ELSE EncodeAtomicOperations(asked).items

\* They are those that were asked, one by one.
LEMMA OperationsTravel ==
  ASSUME NEW o \in Options["atomic"], o.asked # Nil
  PROVE  /\ DOMAIN Travelling(o.asked) = DOMAIN o.asked.items
         /\ \A k \in DOMAIN o.asked.items : Travelling(o.asked)[k] = EncodeAtomicOperation(o.asked.items[k])
         /\ IsSequence(o.asked.items) /\ Len(Travelling(o.asked)) = Len(o.asked.items)
         /\ \A k \in DOMAIN o.asked.items :
              IsWhole("operation", o.asked.items[k]) /\ DataRegistered(o.asked.items[k].core.data)
<1> DEFINE items == o.asked.items
           written == [k \in DOMAIN items |-> EncodeAtomicOperation(items[k])]
<1>1. Travelling(o.asked) = written
  BY JSONFields DEF Travelling, EncodeAtomicOperations
<1>2. IsListOf("operation", o.asked) /\ \A operation \in ItemsOf(items) : DataRegistered(operation.core.data)
  BY OptionsWellFormed
<1>3. IsSequence(items) /\ \A k \in DOMAIN items : IsWhole("operation", items[k])
  BY <1>2 DEF IsListOf
<1>4. \A k \in DOMAIN items : items[k] \in ItemsOf(items)
  BY DEF ItemsOf
<1>5. /\ DOMAIN written = DOMAIN items /\ written = [k \in DOMAIN written |-> written[k]]
      /\ \A k \in DOMAIN items : written[k] = EncodeAtomicOperation(items[k])
  OBVIOUS
<1> HIDE DEF written
<1>6. IsSequence(written)
  BY <1>3, <1>5, MappedSequence
<1>7. Len(written) = Len(items)
  BY <1>3, <1>5, <1>6, SameLength
<1> QED
  BY <1>1, <1>2, <1>3, <1>4, <1>5, <1>7

\* Results are those of the operations asked when each is a result, and an answer.
LEMMA ResultsAnswer ==
  ASSUME NoneIsNoView, NEW j, DecodeAtomicResults(j) # Refused, NEW o \in Options["atomic"],
         AtomicOperationsValid(o.asked)
  PROVE  AtomicResultsValid(DecodeAtomicResults(j), o.asked) <=>
           /\ AtomicResultsValid(DecodeAtomicResults(j), Nil)
           /\ \A k \in DOMAIN j.items \cap DOMAIN Travelling(o.asked) :
                Answers(j.items[k].members, Travelling(o.asked)[k].members)
<1> DEFINE results == DecodeAtomicResults(j)
           items == results.items
           asked == o.asked
           Data(k) == DataView(items[k].core.data)
           Itself(k) == Data(k) # None => Rules!ResourceDataValid(Data(k), "id")
<1>1. /\ j.json = "array" /\ DOMAIN items = DOMAIN j.items
      /\ \A k \in DOMAIN items : items[k].core.data # Nil <=> "data" \in DOMAIN j.items[k].members
  BY ResultsHeld
<1>2. results # Nil
  BY ListIsRead DEF DecodeAtomicResults
<1> HIDE DEF results
<1>3. AtomicResultsValid(results, Nil) <=> \A k \in DOMAIN items : Itself(k)
  BY <1>2 DEF AtomicResultsValid
<1>4. AtomicResultsValid(results, asked) <=>
        \A k \in DOMAIN items :
          IF asked # Nil /\ k \in DOMAIN asked.items
          THEN Rules!ResultValid(Data(k), OperationView(asked.items[k])) ELSE Itself(k)
  BY <1>2 DEF AtomicResultsValid
<1>5. \A k \in DOMAIN items : Data(k) # None <=> "data" \in DOMAIN j.items[k].members
  BY <1>1, ViewedData DEF DataView
<1> HIDE DEF Data
<1>6. CASE asked = Nil
  <2>1. DOMAIN Travelling(asked) = {}
    BY <1>6 DEF Travelling
  <2> QED
    BY <1>3, <1>4, <1>6, <2>1 DEF results
<1>7. CASE asked # Nil
  <2>1. /\ DOMAIN Travelling(asked) = DOMAIN asked.items
        /\ \A k \in DOMAIN asked.items :
             /\ Travelling(asked)[k] = EncodeAtomicOperation(asked.items[k])
             /\ IsWhole("operation", asked.items[k]) /\ DataRegistered(asked.items[k].core.data)
    BY <1>7, OperationsTravel
  <2>2. \A k \in DOMAIN asked.items : Rules!OperationValid(OperationView(asked.items[k]))
    <3> DEFINE views == [k \in DOMAIN asked.items |-> OperationView(asked.items[k])]
    <3>1. Rules!OperationsValid(views)
      BY <1>7 DEF AtomicOperationsValid
    <3>2. DOMAIN views = DOMAIN asked.items /\ \A k \in DOMAIN asked.items : views[k] = OperationView(asked.items[k])
      OBVIOUS
    <3> HIDE DEF views
    <3> QED
      BY <3>1, <3>2 DEF Rules!OperationsValid
  <2>3. ASSUME NEW k \in DOMAIN items, k \in DOMAIN asked.items
        PROVE  Rules!ResultValid(Data(k), OperationView(asked.items[k])) <=>
                 Itself(k) /\ Answers(j.items[k].members, Travelling(asked)[k].members)
    <3> DEFINE view == OperationView(asked.items[k])
    <3>1. Answers(j.items[k].members, Travelling(asked)[k].members) <=>
            IF "data" \in DOMAIN j.items[k].members
            THEN view.op # "remove" /\ ~Rules!RelationshipOperation(view)
            ELSE ~Rules!CreateRequiresResultData(view)
      BY <2>1, <2>2, <2>3, OperationAnswered
    <3> HIDE DEF view
    <3>2. Rules!ResultValid(Data(k), view) <=>
            IF Data(k) # None
            THEN /\ view.op # "remove" /\ ~Rules!RelationshipOperation(view)
                 /\ Rules!ResourceDataValid(Data(k), "id")
            ELSE ~Rules!CreateRequiresResultData(view)
      BY DEF Rules!ResultValid, Rules!Present
    <3>3. Data(k) # None <=> "data" \in DOMAIN j.items[k].members
      BY <1>5
    <3>4. Rules!ResultValid(Data(k), view) <=>
            Itself(k) /\ Answers(j.items[k].members, Travelling(asked)[k].members)
      BY <3>1, <3>2, <3>3
    <3> QED
      BY <3>4 DEF view
  <2> HIDE DEF Itself
  <2>4. \A k \in DOMAIN items :
          (IF asked # Nil /\ k \in DOMAIN asked.items
           THEN Rules!ResultValid(Data(k), OperationView(asked.items[k])) ELSE Itself(k))
          <=> /\ Itself(k)
              /\ k \in DOMAIN asked.items => Answers(j.items[k].members, Travelling(asked)[k].members)
    BY <1>7, <2>3
  <2>5. AtomicResultsValid(results, asked) <=>
          \A k \in DOMAIN items :
            /\ Itself(k)
            /\ k \in DOMAIN asked.items => Answers(j.items[k].members, Travelling(asked)[k].members)
    BY <1>4, <2>4
  <2> QED
    BY <1>1, <1>3, <2>1, <2>5 DEF results
<1> QED
  BY <1>6, <1>7

AnyAtomic == [context |-> "atomicGeneric", count |-> 0, asked |-> Nil]

\* The results of a payload, if it has any.
ResultsIn(p) == IF "results" \in DOMAIN p.members THEN p.members.results.items ELSE <<>>

\* They are as many as have been read.
LEMMA ResultsCounted ==
  ASSUME NEW p \in Payloads["atomic"], DecodeAtomic(p) # Refused
  PROVE  LET results == DecodeAtomic(p).core.results
         IN IF results = Nil THEN ResultsIn(p) = <<>>
            ELSE /\ ResultsIn(p) = p.members.results.items
                 /\ Len(results.items) = Len(ResultsIn(p))
<1> DEFINE results == DecodeAtomic(p).core.results
           j == p.members.results
<1>1. /\ p.json = "object" /\ (results # Nil <=> "results" \in DOMAIN p.members)
      /\ results # Nil => results = DecodeAtomicResults(j) /\ results # Refused
  BY AtomicHeld
<1> HIDE DEF results
<1>2. CASE results = Nil
  BY <1>1, <1>2 DEF ResultsIn, results
<1>3. CASE results # Nil
  <2>1. /\ j.json = "array" /\ DOMAIN results.items = DOMAIN j.items
        /\ results.items = [k \in DOMAIN results.items |-> results.items[k]]
    BY <1>1, <1>3, ResultsHeld
  <2>2. IsSequence(p.members["results"].items)
    BY <1>1, <1>3, <2>1, PayloadsAreJSON DEF Roots
  <2>3. IsSequence(results.items)
    BY <2>1, <2>2, MappedSequence
  <2>4. Len(results.items) = Len(j.items)
    BY <2>1, <2>2, <2>3, SameLength
  <2> QED
    BY <1>1, <1>3, <2>4 DEF ResultsIn, results
<1> QED
  BY <1>2, <1>3

\* What the context of an Atomic document demands of its members.
LEMMA AtomicMembersDemanded ==
  ASSUME NEW p \in Payloads["atomic"], DecodeAtomic(p) # Refused, NEW o \in Options["atomic"],
         o.count >= 0
  PROVE  LET core  == DecodeAtomic(p).core
             count == IF o.asked = Nil THEN o.count ELSE Len(Travelling(o.asked))
         IN AtomicMembersAgree(core, o.context, o.count, o.asked) <=>
              /\ AtomicMembersAgree(core, "atomicGeneric", 0, Nil)
              /\ o.context = "atomicRequest" => "operations" \in DOMAIN p.members
              /\ o.context = "atomicResponse" =>
                   /\ "operations" \notin DOMAIN p.members
                   /\ o.asked # Nil \/ o.count > 0 =>
                        "errors" \in DOMAIN p.members \/ Len(ResultsIn(p)) = count
<1> DEFINE core == DecodeAtomic(p).core
           expected == IF o.asked # Nil THEN Len(o.asked.items) ELSE o.count
           count == IF o.asked = Nil THEN o.count ELSE Len(Travelling(o.asked))
<1>1. /\ core.operations # Nil <=> "operations" \in DOMAIN p.members
      /\ core.results # Nil <=> "results" \in DOMAIN p.members
      /\ core.errors # Nil <=> "errors" \in DOMAIN p.members
  BY AtomicHeld
<1>2. IF core.results = Nil THEN Len(ResultsIn(p)) = 0 ELSE Len(core.results.items) = Len(ResultsIn(p))
  BY ResultsCounted
<1>3. count = expected
  BY OperationsTravel
<1>4. o.count \in Int /\ (o.asked = Nil /\ o.count = 0 => expected = 0)
  BY OptionsWellFormed
<1> HIDE DEF core, count
<1>5. AtomicMembersAgree(core, "atomicGeneric", 0, Nil) <=>
        /\ \E member \in {"operations", "results", "errors", "meta"} : core[member] # Nil
        /\ \A member \in {"operations", "results"} : core[member] # Nil => core[member].items # <<>>
        /\ core.operations = Nil \/ core.results = Nil
        /\ core.errors = Nil \/ (core.operations = Nil /\ core.results = Nil)
  BY DEF AtomicMembersAgree
<1>6. AtomicMembersAgree(core, o.context, o.count, o.asked) <=>
        /\ AtomicMembersAgree(core, "atomicGeneric", 0, Nil)
        /\ o.context = "atomicRequest" =>
             core.operations # Nil /\ core.results = Nil /\ core.errors = Nil
        /\ o.context = "atomicResponse" =>
             /\ core.operations = Nil
             /\ IF core.results = Nil THEN core.errors # Nil \/ expected = 0
                ELSE o.asked # Nil \/ o.count > 0 => Len(core.results.items) = expected
  BY <1>5 DEF AtomicMembersAgree
<1> HIDE DEF expected
<1>7. AtomicMembersAgree(core, "atomicGeneric", 0, Nil) /\ core.operations # Nil =>
        core.results = Nil /\ core.errors = Nil
  BY <1>5
<1>8. AtomicMembersAgree(core, "atomicGeneric", 0, Nil) /\ core.results # Nil => core.errors = Nil
  BY <1>5
<1>9. AtomicMembersAgree(core, "atomicGeneric", 0, Nil) =>
        ((IF core.results = Nil THEN core.errors # Nil \/ expected = 0
          ELSE o.asked # Nil \/ o.count > 0 => Len(core.results.items) = expected)
         <=> (o.asked # Nil \/ o.count > 0 => core.errors # Nil \/ Len(ResultsIn(p)) = expected))
  <2>1. CASE core.results = Nil
    <3>1. ~(o.asked # Nil \/ o.count > 0) => expected = 0
      BY <1>4
    <3>2. Len(ResultsIn(p)) = 0
      BY <1>2, <2>1
    <3> QED
      BY <2>1, <3>1, <3>2
  <2>2. CASE core.results # Nil
    <3>1. Len(core.results.items) = Len(ResultsIn(p))
      BY <1>2, <2>2
    <3> QED
      BY <1>8, <2>2, <3>1
  <2> QED
    BY <2>1, <2>2
<1>10. AtomicMembersAgree(core, o.context, o.count, o.asked) <=>
         /\ AtomicMembersAgree(core, "atomicGeneric", 0, Nil)
         /\ o.context = "atomicRequest" => "operations" \in DOMAIN p.members
         /\ o.context = "atomicResponse" =>
              /\ "operations" \notin DOMAIN p.members
              /\ o.asked # Nil \/ o.count > 0 =>
                   "errors" \in DOMAIN p.members \/ Len(ResultsIn(p)) = count
  BY <1>1, <1>3, <1>6, <1>7, <1>9
<1> QED
  BY <1>10 DEF core, count

\* An Atomic payload is accepted when it is an Atomic document and meets the demands.
LEMMA AtomicAccepted ==
  ASSUME NoneIsNoView, NEW p \in Payloads["atomic"], NEW o \in Options["atomic"],
         AtomicOperationsValid(o.asked)
  PROVE  Unmarshal(p, o) # Refused <=> AcceptsAtomic(p, o)
<1> DEFINE value == DecodeAtomic(p)
           core == value.core
           Answered == \A k \in DOMAIN ResultsIn(p) \cap DOMAIN Travelling(o.asked) :
                         Answers(ResultsIn(p)[k].members, Travelling(o.asked)[k].members)
<1>1. Root(o) = "atomic" /\ Root(AnyAtomic) = "atomic"
  BY RootOfOptions DEF Roots, Root, AnyAtomic, AtomicContexts
<1>2. \A opts : Root(opts) = "atomic" =>
        (Unmarshal(p, opts) # Refused <=> value # Refused /\ AtomicDocumentValid(value, opts))
  BY DEF Unmarshal, Judged, Decode, Checked
<1>3. AcceptsAtomic(p, o) <=> Unmarshal(p, AnyAtomic) # Refused /\ AtomicDemands(p, o)
  BY DEF AcceptsAtomic, AnyAtomic
<1>4. CASE value = Refused
  BY <1>1, <1>2, <1>3, <1>4
<1>5. CASE value # Refused
  <2>1. AnyAtomic.context = "atomicGeneric" /\ AnyAtomic.count = 0 /\ AnyAtomic.asked = Nil
    BY DEF AnyAtomic
  <2>2. ExpectationsAgree(o.count, o.asked) <=>
          o.count = 0 \/ (o.count > 0 /\ (o.asked = Nil \/ o.count = Len(Travelling(o.asked))))
    <3>1. o.count \in Int
      BY OptionsWellFormed
    <3> QED
      BY <3>1, OperationsTravel DEF ExpectationsAgree
  <2>3. ExpectationsAgree(0, Nil)
    BY DEF ExpectationsAgree
  <2>4. ExpectationsAgree(o.count, o.asked) => o.count >= 0
    BY DEF ExpectationsAgree
  <2>5. AtomicResultsValid(core.results, o.asked) <=> AtomicResultsValid(core.results, Nil) /\ Answered
    <3>1. core.results # Nil => core.results = DecodeAtomicResults(p.members.results) /\ core.results # Refused
      BY <1>5, AtomicHeld
    <3>2. IF core.results = Nil THEN ResultsIn(p) = <<>> ELSE ResultsIn(p) = p.members.results.items
      BY <1>5, ResultsCounted
    <3> HIDE DEF core
    <3>3. CASE core.results = Nil
      <4>1. DOMAIN ResultsIn(p) = {}
        BY <3>2, <3>3
      <4> QED
        BY <3>3, <4>1 DEF AtomicResultsValid
    <3>4. CASE core.results # Nil
      BY <3>1, <3>2, <3>4, ResultsAnswer
    <3> QED
      BY <3>3, <3>4
  <2>6. o.count >= 0 =>
          (AtomicMembersAgree(core, o.context, o.count, o.asked) <=>
             /\ AtomicMembersAgree(core, "atomicGeneric", 0, Nil)
             /\ o.context = "atomicRequest" => "operations" \in DOMAIN p.members
             /\ o.context = "atomicResponse" =>
                  /\ "operations" \notin DOMAIN p.members
                  /\ o.asked # Nil \/ o.count > 0 =>
                       "errors" \in DOMAIN p.members
                         \/ Len(ResultsIn(p)) = (IF o.asked = Nil THEN o.count ELSE Len(Travelling(o.asked))))
    BY <1>5, AtomicMembersDemanded
  <2>7. AtomicDemands(p, o) <=>
          /\ o.count = 0 \/ (o.count > 0 /\ (o.asked = Nil \/ o.count = Len(Travelling(o.asked))))
          /\ o.context = "atomicRequest" => "operations" \in DOMAIN p.members
          /\ o.context = "atomicResponse" =>
               /\ "operations" \notin DOMAIN p.members
               /\ o.asked # Nil \/ o.count > 0 =>
                    "errors" \in DOMAIN p.members
                      \/ Len(ResultsIn(p)) = (IF o.asked = Nil THEN o.count ELSE Len(Travelling(o.asked)))
          /\ Answered
    BY DEF AtomicDemands, Travelling, ResultsIn
  <2> HIDE DEF value, Answered
  <2>8. \A opts : AtomicDocumentValid(value, opts) <=>
          /\ ExpectationsAgree(opts.count, opts.asked)
          /\ AtomicMembersAgree(core, opts.context, opts.count, opts.asked)
          /\ AtomicResultsValid(core.results, opts.asked)
          /\ AtomicDeclared(core.jsonapi)
          /\ LinksValid(core.links, {"self", "related", "describedby"} \cup PaginationLinks)
          /\ PaginationValid(core.links, FALSE)
          /\ AtomicOperationsValid(core.operations)
          /\ core.errors # Nil => \A error \in ItemsOf(core.errors.items) : ErrorValid(error)
    BY DEF AtomicDocumentValid
  <2>9. AtomicDocumentValid(value, o) <=> AtomicDocumentValid(value, AnyAtomic) /\ AtomicDemands(p, o)
    <3> DEFINE Others == /\ AtomicDeclared(core.jsonapi)
                         /\ LinksValid(core.links, {"self", "related", "describedby"} \cup PaginationLinks)
                         /\ PaginationValid(core.links, FALSE)
                         /\ AtomicOperationsValid(core.operations)
                         /\ core.errors # Nil => \A error \in ItemsOf(core.errors.items) : ErrorValid(error)
    <3>1. AtomicDocumentValid(value, o) <=>
            /\ ExpectationsAgree(o.count, o.asked)
            /\ AtomicMembersAgree(core, o.context, o.count, o.asked)
            /\ AtomicResultsValid(core.results, o.asked) /\ Others
      BY <2>8
    <3>2. AtomicDocumentValid(value, AnyAtomic) <=>
            /\ AtomicMembersAgree(core, "atomicGeneric", 0, Nil)
            /\ AtomicResultsValid(core.results, Nil) /\ Others
      BY <2>1, <2>3, <2>8
    <3> HIDE DEF Others, core
    <3> QED
      BY <2>2, <2>4, <2>5, <2>6, <2>7, <3>1, <3>2
  <2> QED
    BY <1>1, <1>2, <1>3, <1>5, <2>9
<1> QED
  BY <1>4, <1>5

\* A payload that reaches the receiver from elsewhere, and what became of it.
AcceptInv ==
  /\ pc \in {"write", "unsent", "read", "refused", "relay", "stuck", "relayed"}
  /\ \E root \in Roots :
       /\ options \in Parties(Options[root])
       /\ pc = "write" => sent # Nil
       /\ sent = Nil =>
            /\ pc = "read" => wire \in Payloads[root]
            /\ pc \in {"refused", "relay"} =>
                 /\ first \in Payloads[root]
                 /\ pc = "relay" <=> Unmarshal(first, options.receiver) # Refused

\* UnmarshalWith and UnmarshalAtomicWith: whatever the payload and the options, it is
\* accepted in a context exactly when it is a document and meets what that context
\* demands of data, identities, linkage and results.
THEOREM AcceptsExactly == ASSUME NoneIsNoView PROVE ExchangeSpec => []AcceptsWhatContextDemands
<1>1. ExchangeInit => AcceptInv
  <2> SUFFICES ASSUME ExchangeInit PROVE AcceptInv
    OBVIOUS
  <2>1. PICK root \in Roots :
          /\ options \in Parties(Options[root])
          /\ \/ sent \in Built[root] /\ pc = "write"
             \/ sent = Nil /\ wire \in Payloads[root] /\ pc = "read"
    BY DEF ExchangeInit
  <2> QED
    BY <2>1, BuiltAreValues DEF AcceptInv
<1>2. AcceptInv /\ [ExchangeNext]_exchangeVars => AcceptInv'
  <2> SUFFICES ASSUME AcceptInv, [ExchangeNext]_exchangeVars PROVE AcceptInv'
    OBVIOUS
  <2>1. CASE Write
    BY <2>1 DEF Write, AcceptInv
  <2>2. CASE Read
    <3>1. /\ pc = "read" /\ UNCHANGED <<options, sent>> /\ first' = wire
          /\ \/ pc' = "relay" /\ Unmarshal(wire, options.receiver) # Refused
             \/ pc' = "refused" /\ Unmarshal(wire, options.receiver) = Refused
      BY <2>2 DEF Read
    <3> QED
      BY <3>1 DEF AcceptInv
  <2>3. CASE Relay
    <3>1. pc' \in {"relayed", "stuck"} /\ UNCHANGED <<options, sent>>
      BY <2>3 DEF Relay
    <3> QED
      BY <3>1 DEF AcceptInv
  <2>4. CASE UNCHANGED exchangeVars
    BY <2>4 DEF exchangeVars, AcceptInv
  <2> QED
    BY <2>1, <2>2, <2>3, <2>4 DEF ExchangeNext
<1>3. AcceptInv => AcceptsWhatContextDemands
  <2> DEFINE o == options.receiver
  <2> SUFFICES ASSUME AcceptInv, pc \in {"refused", "relay"}, sent = Nil
               PROVE  IF Root(o) = "atomic"
                      THEN AtomicOperationsValid(o.asked) => (pc = "relay" <=> AcceptsAtomic(first, o))
                      ELSE pc = "relay" <=> AcceptsDocument(first, o)
    BY DEF AcceptsWhatContextDemands
  <2>1. PICK root \in Roots :
          /\ o \in Options[root] /\ first \in Payloads[root]
          /\ pc = "relay" <=> Unmarshal(first, o) # Refused
    BY DEF AcceptInv, Parties
  <2>2. Root(o) = root
    BY <2>1, RootOfOptions
  <2> HIDE DEF o
  <2>3. CASE root = "atomic"
    BY <2>1, <2>2, <2>3, AtomicAccepted
  <2>4. CASE root = "document"
    BY <2>1, <2>2, <2>4, DocumentAccepted
  <2> QED
    BY <2>1, <2>3, <2>4 DEF Roots
<1> QED
  BY <1>1, <1>2, <1>3, PTL DEF ExchangeSpec
=============================================================================
