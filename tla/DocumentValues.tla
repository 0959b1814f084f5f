---------------------------- MODULE DocumentValues ----------------------------
(***************************************************************************)
(* The Go values of DocumentCodec that an application may build: a struct  *)
(* has the members of its type, a slice is a sequence, and what the        *)
(* constructors of links, language tags and data do not make is not there. *)
(***************************************************************************)
EXTENDS DocumentCodec, FiniteSets

IsSequence(s) == s \in Seq({s[k] : k \in DOMAIN s})

HasMembers(kind, value) ==
  /\ DOMAIN value.core = DOMAIN Schema[kind]
  /\ kind \in Closed => value.extra = {}

\* LanguageTag makes one tag, LanguageTags any number.
IsHreflang(value) ==
  /\ value \in [many : BOOLEAN, items : Seq(STRING)]
  /\ value.many \/ Len(value.items) = 1

IsPlain(type, value) ==
  /\ type = "string" => value \in [text : STRING, present : BOOLEAN]
  /\ type = "strings" => value = Nil \/ value \in [items : Seq(STRING)]
  /\ type = "hreflang" => value = Nil \/ IsHreflang(value)

IsFlat(kind, value) ==
  /\ HasMembers(kind, value)
  /\ \A n \in DOMAIN Schema[kind] : IsPlain(Schema[kind][n], value.core[n])

\* URI, LinkFromObject and NullLink make links, only an object being described by
\* another, and ExtensionLinkValue makes what stands for one.  Links that describe
\* one another nest no deeper than the scan of their receiver lets a payload nest.
IsLinkItself(link) ==
  \/ link = [form |-> "null"]
  \/ link.form = "string"
  \/ link.form = "object" /\ IsFlat("link", link)

IsLink(value) ==
  \/ value = ExtensionLink
  \/ /\ IsSequence(value.chain) /\ Len(value.chain) \in 1..MaxNestingDepth
     /\ \A k \in DOMAIN value.chain :
          /\ IsLinkItself(value.chain[k])
          /\ k < Len(value.chain) => value.chain[k].form = "object"

IsLinks(value) == \A n \in DOMAIN value.entries : IsLink(value.entries[n])

\* PrimaryData and RelationshipData, but for their items.
IsData(value) ==
  /\ value.kind \in {"zero", "null", "one", "many"}
  /\ IsSequence(value.items)
  /\ value.kind \in {"zero", "null"} => value.items = <<>>
  /\ value.kind = "one" => Len(value.items) = 1

IsPart(type, value) ==
  /\ IsPlain(type, value)
  /\ value # Nil =>
       /\ type = "links" => IsLinks(value)
       /\ type = "linkage" =>
            IsData(value) /\ \A k \in DOMAIN value.items : IsFlat("identifier", value.items[k])
       /\ type \in {"jsonapi", "source", "reference"} => IsFlat(type, value)

IsNested(kind, value) ==
  /\ HasMembers(kind, value)
  /\ \A n \in DOMAIN Schema[kind] : IsPart(Schema[kind][n], value.core[n])

IsRelationships(value) ==
  /\ IsFiniteSet(DOMAIN value.entries)
  /\ \A n \in DOMAIN value.entries : IsNested("relationship", value.entries[n])

IsResource(value) ==
  /\ IsNested("resource", value)
  /\ value.core.relationships # Nil => IsRelationships(value.core.relationships)

IsBody(type, value) ==
  /\ IsPart(type, value)
  /\ value # Nil =>
       /\ type = "primary" => IsData(value)
       /\ type \in {"resources", "errors"} => IsSequence(value.items)
       /\ type \in {"primary", "resources"} => \A k \in DOMAIN value.items : IsResource(value.items[k])
       /\ type = "errors" => \A k \in DOMAIN value.items : IsNested("error", value.items[k])

IsWhole(kind, value) ==
  /\ HasMembers(kind, value)
  /\ \A n \in DOMAIN Schema[kind] : IsBody(Schema[kind][n], value.core[n])

IsListOf(kind, value) ==
  value # Nil =>
    IsSequence(value.items) /\ \A k \in DOMAIN value.items : IsWhole(kind, value.items[k])

IsAtomic(value) ==
  /\ IsWhole("atomic", value)
  /\ IsListOf("operation", value.core.operations)
  /\ IsListOf("result", value.core.results)
=============================================================================
