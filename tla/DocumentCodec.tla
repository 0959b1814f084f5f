----------------------------- MODULE DocumentCodec -----------------------------
(***************************************************************************)
(* Documents as the package holds them and as they travel: the types and   *)
(* encoders of document.go, the strict decoders of codec.go, and those of  *)
(* Atomic documents in atomic.go and atomic_codec.go.  The members         *)
(* "atomic:operations" and "atomic:results" are called operations and      *)
(* results here.                                                           *)
(*                                                                         *)
(* A JSON value is a record with the field json: null, a string (text), an *)
(* array (items), an object (members) or another scalar.                   *)
(*                                                                         *)
(* A Go value is                                                           *)
(*   - for a string member [text, present]: an empty string may be present *)
(*     and a non-empty one need not be marked;                             *)
(*   - Nil for a pointer, slice or map that is nil;                        *)
(*   - [items] for a slice, [entries] for a map, whose free values are     *)
(*     JSON;                                                               *)
(*   - [kind, items] for primary data and linkage, [many, items] for       *)
(*     hreflang;                                                           *)
(*   - [core, extra] for a struct: its members by name, and the names of   *)
(*     its additional members;                                             *)
(*   - [chain] for a link: the link and those that describe it, each       *)
(*     describedby the next and with a form beside core and extra.         *)
(***************************************************************************)
EXTENDS Naturals, Sequences

CONSTANTS
  AtNames,          \* the member names that begin with "@"
  MaxNestingDepth   \* of DecodeLimits: how deep the scan lets a payload nest

ASSUME NestingIsLimited == MaxNestingDepth \in Nat \ {0}

Null == [json |-> "null"]
String(text) == [json |-> "string", text |-> text]
Array(items) == [json |-> "array", items |-> items]
Object(members) == [json |-> "object", members |-> members]
Scalar == [json |-> "scalar"]

Nil == [nil |-> TRUE]
Refused == [refused |-> TRUE]
NoText == [text |-> "", present |-> FALSE]

ExtensionLink == [chain |-> <<[form |-> "extension"]>>]

HasText(field) == field.text # "" \/ field.present

\* The types of the members of each struct, describedby apart.
Schema ==
  [document     |-> [jsonapi |-> "jsonapi", links |-> "links", data |-> "primary",
                     included |-> "resources", errors |-> "errors", meta |-> "free"],
   jsonapi      |-> [version |-> "string", ext |-> "strings", profile |-> "strings",
                     meta |-> "free"],
   resource     |-> [type |-> "string", id |-> "string", lid |-> "string",
                     attributes |-> "free", relationships |-> "relationships",
                     links |-> "links", meta |-> "free"],
   identifier   |-> [type |-> "string", id |-> "string", lid |-> "string", meta |-> "free"],
   relationship |-> [links |-> "links", data |-> "linkage", meta |-> "free"],
   link         |-> [href |-> "string", rel |-> "string", title |-> "string",
                     type |-> "string", hreflang |-> "hreflang", meta |-> "free"],
   error        |-> [id |-> "string", links |-> "links", status |-> "string",
                     code |-> "string", title |-> "string", detail |-> "string",
                     source |-> "source", meta |-> "free"],
   source       |-> [pointer |-> "string", parameter |-> "string", header |-> "string"],
   atomic       |-> [jsonapi |-> "jsonapi", links |-> "links", operations |-> "operations",
                     results |-> "results", errors |-> "errors", meta |-> "free"],
   operation    |-> [op |-> "string", ref |-> "reference", href |-> "string",
                     data |-> "primary", meta |-> "free"],
   reference    |-> [type |-> "string", id |-> "string", lid |-> "string",
                     relationship |-> "string"],
   result       |-> [data |-> "primary", meta |-> "free"]]

Structs == DOMAIN Schema

\* A member that JSON:API has defined does not begin with "@".
ASSUME AtNamesBegin ==
  /\ AtNames \cap {"self", "related", "describedby"} = {}
  /\ \A kind \in Structs : AtNames \cap DOMAIN Schema[kind] = {}

\* The structs that cannot hold additional members.
Closed == {"atomic", "operation", "reference", "result"}

-----------------------------------------------------------------------------
(* Nested values *)

\* stripAtMembers: below a free value @-Members are dropped at any depth.
Below(j) ==
  CASE j.json = "object" -> {j.members[n] : n \in DOMAIN j.members}
    [] j.json = "array"  -> {j.items[k] : k \in DOMAIN j.items}
    [] OTHER             -> {}

Within(j) ==
  LET upTo[depth \in 0..MaxNestingDepth] ==
        IF depth = 0 THEN {j}
        ELSE LET above == upTo[depth - 1] IN above \cup UNION {Below(x) : x \in above}
  IN upTo[MaxNestingDepth]

Strip(j) ==
  LET strip[x \in Within(j)] ==
        CASE x.json = "object" -> Object([n \in DOMAIN x.members \ AtNames |-> strip[x.members[n]]])
          [] x.json = "array"  -> Array([k \in DOMAIN x.items |-> strip[x.items[k]]])
          [] OTHER             -> x
  IN strip[j]

Stripped(members) == [n \in DOMAIN members \ AtNames |-> Strip(members[n])]

\* A JSON link and, each below the one before, those that describe it; and back.
Described(j) == j.json = "object" /\ "describedby" \in DOMAIN j.members

Chain(j) ==
  LET chain[depth \in 1..MaxNestingDepth] ==
        IF depth = 1 THEN <<j>>
        ELSE LET above == chain[depth - 1]
             IN IF Len(above) = depth - 1 /\ Described(above[depth - 1])
                THEN Append(above, above[depth - 1].members["describedby"])
                ELSE above
  IN chain[MaxNestingDepth]

Nest(links) ==
  LET nest[depth \in 1..Len(links)] ==
        IF depth = Len(links) THEN links[depth]
        ELSE Object([n \in DOMAIN links[depth].members \cup {"describedby"} |->
                       IF n = "describedby" THEN nest[depth + 1] ELSE links[depth].members[n]])
  IN nest[1]

-----------------------------------------------------------------------------
(* Decoding *)

\* All of them, unless one is refused.
AllOf(decoded, value) == IF \E n \in DOMAIN decoded : decoded[n] = Refused THEN Refused ELSE value

\* Bug: null becomes the empty string, as encoding/json has it.
DecodeStringCoerced(j) ==
  IF j.json = "string" THEN [text |-> j.text, present |-> TRUE]
  ELSE IF j.json = "null" THEN [text |-> "", present |-> TRUE]
  ELSE Refused

DecodeString(j) == IF j.json = "string" THEN [text |-> j.text, present |-> TRUE] ELSE Refused

\* Here null does become the empty string.
DecodeStringArray(j) ==
  IF j.json # "array" \/ \E k \in DOMAIN j.items : j.items[k].json \notin {"string", "null"}
  THEN Refused
  ELSE [items |-> [k \in DOMAIN j.items |->
                     IF j.items[k].json = "null" THEN "" ELSE j.items[k].text]]

\* decodeAttributes and decodeMeta.
DecodeFree(j) == IF j.json # "object" THEN Refused ELSE [entries |-> Stripped(j.members)]

DecodeHreflang(j) ==
  CASE j.json = "string" -> [many |-> FALSE, items |-> <<j.text>>]
    [] j.json = "array"  -> LET tags == DecodeStringArray(j)
                            IN IF tags = Refused THEN Refused
                               ELSE [many |-> TRUE, items |-> tags.items]
    [] OTHER             -> Refused

\* The items of an array and the members of an object, as they have been decoded:
\* decodeResourceArray, decodeErrors, decodeAtomicOperations and decodeAtomicResults;
\* decodeRelationships and decodeLinks; decodePrimaryData and decodeRelationshipData.
DecodeList(j, items) == IF j.json # "array" THEN Refused ELSE AllOf(items, [items |-> items])

DecodeMap(j, entries) ==
  IF j.json # "object" THEN Refused ELSE AllOf(entries, [entries |-> entries])

DecodeData(j, one, many) ==
  CASE j.json = "null"   -> [kind |-> "null", items |-> <<>>]
    [] j.json = "object" -> IF one = Refused THEN Refused ELSE [kind |-> "one", items |-> <<one>>]
    [] j.json = "array"  -> AllOf(many, [kind |-> "many", items |-> many])
    [] OTHER             -> Refused

\* decodeObject, discardUnknown and the members that remain, as they have been read.
Known(kind, j) == DOMAIN Schema[kind] \cap DOMAIN j.members

DecodeMembers(kind, j, read) ==
  IF j.json # "object" THEN Refused
  ELSE AllOf(read, [core  |-> [n \in DOMAIN Schema[kind] |->
                                 IF n \in DOMAIN read THEN read[n]
                                 ELSE IF Schema[kind][n] = "string" THEN NoText ELSE Nil],
                    extra |-> {}])

\* The members that are no structs, and the structs that have no others.
DecodePlain(type, j) ==
  CASE type = "string"   -> DecodeString(j)
    [] type = "strings"  -> DecodeStringArray(j)
    [] type = "free"     -> DecodeFree(j)
    [] type = "hreflang" -> DecodeHreflang(j)

DecodeFlat(kind, j) ==
  DecodeMembers(kind, j,
    [n \in Known(kind, j) |-> DecodePlain(Schema[kind][n], j.members[n])])

DecodeJSONAPI(j) == DecodeFlat("jsonapi", j)
DecodeIdentifier(j) == DecodeFlat("identifier", j)
DecodeErrorSource(j) == DecodeFlat("source", j)
DecodeAtomicReference(j) == DecodeFlat("reference", j)

\* decodeLink but for describedby, and with it.
ObjectForm(struct) ==
  IF struct = Refused THEN Refused ELSE [form |-> "object", core |-> struct.core, extra |-> {}]

Chained(links) == AllOf(links, [chain |-> links])

DecodeLinkItself(j) ==
  CASE j.json = "null"   -> [form |-> "null"]
    [] j.json = "string" -> [form |-> "string", core |-> [href |-> DecodeString(j)]]
    [] j.json = "object" -> ObjectForm(DecodeFlat("link", j))
    [] OTHER             -> Refused

DecodeLink(j) ==
  LET links == Chain(j)
  IN Chained([k \in DOMAIN links |-> DecodeLinkItself(links[k])])

DecodeLinks(j) == DecodeMap(j, [n \in DOMAIN j.members \ AtNames |-> DecodeLink(j.members[n])])

DecodeLinkage(j) ==
  DecodeData(j, DecodeIdentifier(j), [k \in DOMAIN j.items |-> DecodeIdentifier(j.items[k])])

\* The members of relationships and errors.
DecodePart(type, j) ==
  CASE type = "links"     -> DecodeLinks(j)
    [] type = "linkage"   -> DecodeLinkage(j)
    [] type = "jsonapi"   -> DecodeJSONAPI(j)
    [] type = "source"    -> DecodeErrorSource(j)
    [] type = "reference" -> DecodeAtomicReference(j)
    [] OTHER              -> DecodePlain(type, j)

DecodeNested(kind, j) ==
  DecodeMembers(kind, j, [n \in Known(kind, j) |-> DecodePart(Schema[kind][n], j.members[n])])

DecodeRelationship(j) == DecodeNested("relationship", j)
DecodeError(j) == DecodeNested("error", j)

DecodeRelationships(j) ==
  DecodeMap(j, [n \in DOMAIN j.members \ AtNames |-> DecodeRelationship(j.members[n])])

DecodeResource(j) ==
  DecodeMembers("resource", j,
    [n \in Known("resource", j) |->
       IF n = "relationships" THEN DecodeRelationships(j.members[n])
       ELSE DecodePart(Schema["resource"][n], j.members[n])])

DecodeResourceArray(j) ==
  DecodeList(j, [k \in DOMAIN j.items |-> DecodeResource(j.items[k])])

DecodePrimaryData(j) ==
  DecodeData(j, DecodeResource(j), [k \in DOMAIN j.items |-> DecodeResource(j.items[k])])

DecodeErrors(j) == DecodeList(j, [k \in DOMAIN j.items |-> DecodeError(j.items[k])])

\* The members of documents, operations and results.
DecodeBody(type, j) ==
  CASE type = "primary"   -> DecodePrimaryData(j)
    [] type = "resources" -> DecodeResourceArray(j)
    [] type = "errors"    -> DecodeErrors(j)
    [] OTHER              -> DecodePart(type, j)

DecodeWhole(kind, j) ==
  DecodeMembers(kind, j, [n \in Known(kind, j) |-> DecodeBody(Schema[kind][n], j.members[n])])

DecodeDocument(j) == DecodeWhole("document", j)
DecodeAtomicOperation(j) == DecodeWhole("operation", j)
DecodeAtomicResult(j) == DecodeWhole("result", j)

DecodeAtomicOperations(j) ==
  DecodeList(j, [k \in DOMAIN j.items |-> DecodeAtomicOperation(j.items[k])])

DecodeAtomicResults(j) ==
  DecodeList(j, [k \in DOMAIN j.items |-> DecodeAtomicResult(j.items[k])])

\* An Atomic document that has core members is refused, whatever they hold.
DecodeAtomic(j) ==
  IF j.json = "object" /\ {"data", "included"} \cap DOMAIN j.members # {} THEN Refused
  ELSE DecodeMembers("atomic", j,
         [n \in Known("atomic", j) |->
            CASE n = "operations" -> DecodeAtomicOperations(j.members[n])
              [] n = "results"    -> DecodeAtomicResults(j.members[n])
              [] OTHER            -> DecodeBody(Schema["atomic"][n], j.members[n])])

-----------------------------------------------------------------------------
(* Encoding *)

\* The string members an encoder writes even when they have no text.
Always(kind) ==
  CASE kind \in {"resource", "identifier", "reference"} -> {"type"}
    [] kind = "link"      -> {"href"}
    [] kind = "operation" -> {"op"}
    [] OTHER              -> {}

\* Bug: a string is written only when it has a text.
WrittenByText(kind, value) ==
  {n \in DOMAIN Schema[kind] :
     \/ n \in Always(kind)
     \/ IF Schema[kind][n] = "string" THEN value.core[n].text # "" ELSE value.core[n] # Nil}

\* The members an encoder writes (omitempty, and the flags of those that are set
\* but empty).
Written(kind, value) ==
  {n \in DOMAIN Schema[kind] :
     \/ n \in Always(kind)
     \/ IF Schema[kind][n] = "string" THEN HasText(value.core[n]) ELSE value.core[n] # Nil}

\* Those, as they have been written, and the additional members, whatever their
\* values.
EncodeMembers(value, written) ==
  Object([n \in DOMAIN written \cup value.extra |->
            IF n \in DOMAIN written THEN written[n] ELSE Scalar])

EncodeHreflang(value) ==
  IF value.many THEN Array([k \in DOMAIN value.items |-> String(value.items[k])])
  ELSE String(IF value.items = <<>> THEN "" ELSE value.items[1])

EncodePlain(type, value) ==
  CASE type = "string"   -> String(value.text)
    [] type = "strings"  -> Array([k \in DOMAIN value.items |-> String(value.items[k])])
    [] type = "free"     -> Object(value.entries)
    [] type = "hreflang" -> EncodeHreflang(value)

EncodeFlat(kind, value) ==
  EncodeMembers(value,
    [n \in Written(kind, value) |-> EncodePlain(Schema[kind][n], value.core[n])])

EncodeJSONAPI(value) == EncodeFlat("jsonapi", value)
EncodeIdentifier(value) == EncodeFlat("identifier", value)
EncodeErrorSource(value) == EncodeFlat("source", value)
EncodeAtomicReference(value) == EncodeFlat("reference", value)

EncodeLinkItself(value) ==
  CASE value.form = "extension" -> Scalar
    [] value.form = "null"      -> Null
    [] value.form = "string"    -> String(value.core.href.text)
    [] value.form = "object"    -> EncodeFlat("link", value)

EncodeLink(value) == Nest([k \in DOMAIN value.chain |-> EncodeLinkItself(value.chain[k])])

EncodeLinks(value) == Object([n \in DOMAIN value.entries |-> EncodeLink(value.entries[n])])

\* PrimaryData and RelationshipData: a zero value is written as null.
EncodeData(value, items) ==
  CASE value.kind = "one"  -> items[1]
    [] value.kind = "many" -> Array(items)
    [] OTHER               -> Null

EncodeLinkage(value) ==
  EncodeData(value, [k \in DOMAIN value.items |-> EncodeIdentifier(value.items[k])])

EncodePart(type, value) ==
  CASE type = "links"     -> EncodeLinks(value)
    [] type = "linkage"   -> EncodeLinkage(value)
    [] type = "jsonapi"   -> EncodeJSONAPI(value)
    [] type = "source"    -> EncodeErrorSource(value)
    [] type = "reference" -> EncodeAtomicReference(value)
    [] OTHER              -> EncodePlain(type, value)

EncodeNested(kind, value) ==
  EncodeMembers(value,
    [n \in Written(kind, value) |-> EncodePart(Schema[kind][n], value.core[n])])

EncodeRelationship(value) == EncodeNested("relationship", value)
EncodeError(value) == EncodeNested("error", value)

EncodeRelationships(value) ==
  Object([n \in DOMAIN value.entries |-> EncodeRelationship(value.entries[n])])

EncodeResource(value) ==
  EncodeMembers(value,
    [n \in Written("resource", value) |->
       IF n = "relationships" THEN EncodeRelationships(value.core[n])
       ELSE EncodePart(Schema["resource"][n], value.core[n])])

EncodePrimaryData(value) ==
  EncodeData(value, [k \in DOMAIN value.items |-> EncodeResource(value.items[k])])

EncodeBody(type, value) ==
  CASE type = "primary"   -> EncodePrimaryData(value)
    [] type = "resources" -> Array([k \in DOMAIN value.items |-> EncodeResource(value.items[k])])
    [] type = "errors"    -> Array([k \in DOMAIN value.items |-> EncodeError(value.items[k])])
    [] OTHER              -> EncodePart(type, value)

EncodeWhole(kind, value) ==
  EncodeMembers(value,
    [n \in Written(kind, value) |-> EncodeBody(Schema[kind][n], value.core[n])])

EncodeDocument(value) == EncodeWhole("document", value)
EncodeAtomicOperation(value) == EncodeWhole("operation", value)
EncodeAtomicResult(value) == EncodeWhole("result", value)

EncodeAtomicOperations(value) ==
  Array([k \in DOMAIN value.items |-> EncodeAtomicOperation(value.items[k])])

EncodeAtomicResults(value) ==
  Array([k \in DOMAIN value.items |-> EncodeAtomicResult(value.items[k])])

EncodeAtomic(value) ==
  EncodeMembers(value,
    [n \in Written("atomic", value) |->
       CASE n = "operations" -> EncodeAtomicOperations(value.core[n])
         [] n = "results"    -> EncodeAtomicResults(value.core[n])
         [] OTHER            -> EncodeBody(Schema["atomic"][n], value.core[n])])
=============================================================================
