---------------------------- MODULE DocumentMeaning ----------------------------
(***************************************************************************)
(* What the documents of DocumentCodec say, member by member: a payload    *)
(* without what JSON:API has a receiver ignore, and a Go document as the   *)
(* one who receives it will hold it.                                       *)
(***************************************************************************)
EXTENDS DocumentCodec

-----------------------------------------------------------------------------
(* Payloads *)

\* A payload without the members that JSON:API has a receiver ignore, type by type.
Text(j) ==
  CASE j.json = "string" -> String(j.text)
    [] j.json = "null"   -> Null
    [] OTHER             -> j

Texts(j) == IF j.json = "array" THEN Array([k \in DOMAIN j.items |-> Text(j.items[k])]) ELSE Text(j)

EssenceOfPlain(type, j) ==
  CASE type = "string" -> Text(j)
    [] type = "free"   -> Object(Stripped(j.members))
    [] OTHER           -> Texts(j)

EssenceOfFlat(kind, j) ==
  Object([n \in Known(kind, j) |-> EssenceOfPlain(Schema[kind][n], j.members[n])])

EssenceOfLink(j) ==
  LET Itself(link) == IF link.json = "object" THEN EssenceOfFlat("link", link) ELSE Text(link)
  IN Nest([k \in DOMAIN Chain(j) |-> Itself(Chain(j)[k])])

EssenceOfLinks(j) ==
  Object([n \in DOMAIN j.members \ AtNames |-> EssenceOfLink(j.members[n])])

EssenceOfData(j, one, many) ==
  CASE j.json = "object" -> one
    [] j.json = "array"  -> Array(many)
    [] OTHER             -> Text(j)

EssenceOfLinkage(j) ==
  EssenceOfData(j, EssenceOfFlat("identifier", j),
                [k \in DOMAIN j.items |-> EssenceOfFlat("identifier", j.items[k])])

EssenceOfPart(type, j) ==
  CASE type = "links"                              -> EssenceOfLinks(j)
    [] type = "linkage"                            -> EssenceOfLinkage(j)
    [] type \in {"jsonapi", "source", "reference"} -> EssenceOfFlat(type, j)
    [] OTHER                                       -> EssenceOfPlain(type, j)

EssenceOfNested(kind, j) ==
  Object([n \in Known(kind, j) |-> EssenceOfPart(Schema[kind][n], j.members[n])])

EssenceOfRelationships(j) ==
  Object([n \in DOMAIN j.members \ AtNames |-> EssenceOfNested("relationship", j.members[n])])

EssenceOfResource(j) ==
  Object([n \in Known("resource", j) |->
            IF n = "relationships" THEN EssenceOfRelationships(j.members[n])
            ELSE EssenceOfPart(Schema["resource"][n], j.members[n])])

EssenceOfPrimaryData(j) ==
  EssenceOfData(j, EssenceOfResource(j), [k \in DOMAIN j.items |-> EssenceOfResource(j.items[k])])

EssenceOfBody(type, j) ==
  CASE type = "primary"   -> EssenceOfPrimaryData(j)
    [] type = "resources" -> Array([k \in DOMAIN j.items |-> EssenceOfResource(j.items[k])])
    [] type = "errors"    -> Array([k \in DOMAIN j.items |-> EssenceOfNested("error", j.items[k])])
    [] OTHER              -> EssenceOfPart(type, j)

EssenceOfWhole(kind, j) ==
  Object([n \in Known(kind, j) |-> EssenceOfBody(Schema[kind][n], j.members[n])])

EssenceOfAtomic(j) ==
  Object([n \in Known("atomic", j) |->
    LET Items(kind) == Array([k \in DOMAIN j.members[n].items |->
                                EssenceOfWhole(kind, j.members[n].items[k])])
    IN CASE n = "operations" -> Items("operation")
         [] n = "results"    -> Items("result")
         [] OTHER            -> EssenceOfBody(Schema["atomic"][n], j.members[n])])

-----------------------------------------------------------------------------
(* Documents *)

\* A document as it is read from what it is written as: every string is marked that
\* has a text, and the additional members are gone.
PlainAsRead(type, value) ==
  IF value = Nil THEN Nil
  ELSE CASE type = "string" -> [text |-> value.text, present |-> HasText(value)]
         [] type = "free"   -> [entries |-> Stripped(value.entries)]
         [] OTHER           -> value

FlatAsRead(kind, value) ==
  [core  |-> [n \in DOMAIN value.core |-> PlainAsRead(Schema[kind][n], value.core[n])],
   extra |-> {}]

LinkAsRead(value) ==
  LET Itself(link) ==
        CASE link.form = "string" ->
               [form |-> "string", core |-> [href |-> [text |-> link.core.href.text, present |-> TRUE]]]
          [] link.form = "object" ->
               [form |-> "object", core |-> FlatAsRead("link", link).core, extra |-> {}]
          [] OTHER -> link
  IN [chain |-> [k \in DOMAIN value.chain |-> Itself(value.chain[k])]]

LinksAsRead(value) ==
  [entries |-> [n \in DOMAIN value.entries \ AtNames |-> LinkAsRead(value.entries[n])]]

LinkageAsRead(value) ==
  [kind  |-> value.kind,
   items |-> [k \in DOMAIN value.items |-> FlatAsRead("identifier", value.items[k])]]

PartAsRead(type, value) ==
  IF value = Nil THEN Nil
  ELSE CASE type = "links"                              -> LinksAsRead(value)
         [] type = "linkage"                            -> LinkageAsRead(value)
         [] type \in {"jsonapi", "source", "reference"} -> FlatAsRead(type, value)
         [] OTHER                                       -> PlainAsRead(type, value)

NestedAsRead(kind, value) ==
  [core  |-> [n \in DOMAIN value.core |-> PartAsRead(Schema[kind][n], value.core[n])],
   extra |-> {}]

RelationshipsAsRead(value) ==
  IF value = Nil THEN Nil
  ELSE [entries |-> [n \in DOMAIN value.entries \ AtNames |->
                       NestedAsRead("relationship", value.entries[n])]]

ResourceAsRead(value) ==
  [core  |-> [n \in DOMAIN value.core |->
                IF n = "relationships" THEN RelationshipsAsRead(value.core[n])
                ELSE PartAsRead(Schema["resource"][n], value.core[n])],
   extra |-> {}]

BodyAsRead(type, value) ==
  IF value = Nil THEN Nil
  ELSE CASE type = "primary"   ->
              [kind  |-> value.kind,
               items |-> [k \in DOMAIN value.items |-> ResourceAsRead(value.items[k])]]
         [] type = "resources" ->
              [items |-> [k \in DOMAIN value.items |-> ResourceAsRead(value.items[k])]]
         [] type = "errors"    ->
              [items |-> [k \in DOMAIN value.items |-> NestedAsRead("error", value.items[k])]]
         [] OTHER              -> PartAsRead(type, value)

WholeAsRead(kind, value) ==
  [core  |-> [n \in DOMAIN value.core |-> BodyAsRead(Schema[kind][n], value.core[n])],
   extra |-> {}]

AtomicAsRead(value) ==
  LET Items(kind, list) ==
        IF list = Nil THEN Nil
        ELSE [items |-> [k \in DOMAIN list.items |-> WholeAsRead(kind, list.items[k])]]
  IN [core  |-> [n \in DOMAIN value.core |->
                   CASE n = "operations" -> Items("operation", value.core[n])
                     [] n = "results"    -> Items("result", value.core[n])
                     [] OTHER            -> BodyAsRead(Schema["atomic"][n], value.core[n])],
      extra |-> {}]
=============================================================================
