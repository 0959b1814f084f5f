-------------------------- MODULE MCDocumentExchange --------------------------
(***************************************************************************)
(* Payloads: documents of every form, and each of them changed in one      *)
(* place, requests in two: a member or an item left out, put in or         *)
(* replaced by another JSON value.  Built documents: those a payload       *)
(* gives, their strings marked or not, and the ones only an application    *)
(* can build.                                                              *)
(***************************************************************************)
EXTENDS DocumentExchange, TLC

MCValid ==
  [name      |-> {"a", "b", "r", "t", "v", "m", "@m", "self", "related", "next", "about", "id",
                  "type", "describedby"},
   extension |-> {"x:m"},
   uri       |-> {"", "/u", "u:u", "v"},
   absolute  |-> {"u:u", "u:w"},
   relation  |-> {"next", "u:u"},
   media     |-> {"t/t"},
   language  |-> {"en", "de"},
   status    |-> {"404"},
   pointer   |-> {"", "/data"}]

MCAtNames == {"@m", "@"}

-----------------------------------------------------------------------------
(* Payloads *)

Nothing == Object(<<>>)

Put(members, name, value) ==
  [n \in DOMAIN members \cup {name} |-> IF n = name THEN value ELSE members[n]]

Without(members, name) == [n \in DOMAIN members \ {name} |-> members[n]]

Others == {Null, String(""), String("v"), Scalar, Array(<<>>), Nothing}

\* The values that differ from j in one place.
RECURSIVE Changed(_)
Changed(j) ==
  (Others \ {j})
    \cup CASE j.json = "object" ->
                {Object(Put(j.members, n, Scalar)) :
                   n \in {"m", "@m", "r", "id", "!"} \ DOMAIN j.members}
                \cup {Object(Without(j.members, n)) : n \in DOMAIN j.members}
                \cup UNION {{Object([j.members EXCEPT ![n] = c]) : c \in Changed(j.members[n])} :
                              n \in DOMAIN j.members}
           [] j.json = "array" ->
                {Array(Append(j.items, j.items[k])) : k \in DOMAIN j.items}
                \cup {Array(Remove(j.items, j.items[k])) : k \in DOMAIN j.items}
                \cup UNION {{Array([j.items EXCEPT ![k] = c]) : c \in Changed(j.items[k])} :
                              k \in DOMAIN j.items}
           [] OTHER -> {}

Ref(type, id) == Object([type |-> String(type), id |-> String(id)])

Whole ==
  Object([data |-> Object(
    [type |-> String("a"), id |-> String("1"),
     attributes |-> Object([t |-> Object(("@m" :> Scalar) @@ ("m" :> Array(<<Null, Scalar>>)))]),
     relationships |-> Object([r |-> Object([data |-> Ref("b", "2"),
                                              links |-> Object([related |-> String("/u")]),
                                              meta |-> Nothing])]),
     links |-> Object([self |-> Null]),
     meta |-> Nothing])])

Compound ==
  Object([data |-> Array(<<Object([type |-> String("a"), id |-> String("1"),
                                   relationships |-> Object([r |-> Object(
                                     [data |-> Array(<<Ref("b", "2"), Ref("b", "3")>>)])])])>>),
          included |-> Array(<<Object([type |-> String("b"), id |-> String("2"),
                                       lid |-> String("v")]),
                               Ref("b", "3")>>),
          links |-> Object([next |-> Null])])

Create ==
  Object([data |-> Object(
    [type |-> String("a"), lid |-> String("v"),
     relationships |-> Object([r |-> Object(
       [data |-> Object([type |-> String("a"), lid |-> String("v")])])])])])

LinkObject ==
  Object([href |-> String("/u"), rel |-> String("next"), type |-> String("t/t"),
          title |-> String("v"), hreflang |-> Array(<<String("en"), String("de")>>),
          describedby |-> Object([href |-> String("/u"), hreflang |-> String("en")]),
          meta |-> Nothing])

Linked1 ==
  Object([meta |-> Object([t |-> Null]),
          links |-> Object([self |-> LinkObject, related |-> String("/u")]),
          jsonapi |-> Object([version |-> String("v"), meta |-> Nothing,
                              ext |-> Array(<<String("u:u"), String("u:w")>>),
                              profile |-> Array(<<String("u:w")>>)])])

Errors ==
  Object([errors |-> Array(<<
    Object([id |-> String("1"), status |-> String("404"), code |-> String("v"),
            title |-> String("v"), detail |-> String("v"), meta |-> Nothing,
            source |-> Object([pointer |-> String("/data"), parameter |-> String("v"),
                               header |-> String("v")]),
            links |-> Object([about |-> String("/u"), type |-> Null])])>>)])

ToOne == Object([data |-> Object([type |-> String("b"), id |-> String("2"),
                                  meta |-> Nothing])])
ToMany == Object([data |-> Array(<<Ref("b", "2"), Ref("b", "3")>>)])

Bases == {Whole, Compound, Create, Linked1, Errors, ToOne, ToMany}

DocumentPayloads ==
  Bases \cup UNION {Changed(base) : base \in Bases \cup Changed(ToOne) \cup Changed(Create)}

Operations(items) == Object([operations |-> Array(items)])
Operation(op, members) == Object(Put(members, "op", String(op)))
Extension == Object([ext |-> Array(<<String("u:u")>>)])

\* A resource that the server names, one with an empty id, and what follows.
AtomicRequest ==
  Operations(<<
    Operation("add", [data |-> Object(
      [type |-> String("a"), lid |-> String("v"), attributes |-> Nothing,
       relationships |-> Object([r |-> Object(
         [data |-> Object([type |-> String("a"), lid |-> String("v")])])])])]),
    Operation("add", [data |-> Ref("a", "")]),
    Operation("update", [ref |-> Object([type |-> String("a"), lid |-> String("v"),
                                         relationship |-> String("r")]),
                         data |-> Ref("b", "2")]),
    Operation("remove", [ref |-> Ref("b", ""), meta |-> Nothing])>>)

\* Operations on what an href leads to.
AtomicHrefs ==
  Operations(<<
    Operation("add", [href |-> String("/u"), data |-> Array(<<Ref("b", "2")>>)]),
    Operation("update", [href |-> String(""), data |-> Null]),
    Operation("update", [href |-> String("/u"), data |-> Ref("b", "2")])>>)

AtomicOperation1 == Operations(<<Operation("add", [data |-> Ref("a", "")])>>)

AtomicResponse ==
  Object([jsonapi |-> Extension, meta |-> Nothing,
          links |-> Object([self |-> String("/u")]),
          results |-> Array(<<Object([data |-> Ref("a", "1")]), Object([data |-> Ref("a", "")]),
                              Nothing, Object([meta |-> Nothing])>>)])

AtomicAnswers == Object([results |-> Array(<<Nothing, Nothing, Object([data |-> Ref("b", "2")])>>)])

AtomicErrors == Object([errors |-> Array(<<Object([code |-> String("v")])>>)])

AtomicBases ==
  {AtomicRequest, AtomicHrefs, AtomicResponse, AtomicAnswers, AtomicErrors}

AtomicPayloads ==
  AtomicBases
    \cup UNION {Changed(base) : base \in AtomicBases \cup {AtomicOperation1} \cup Changed(AtomicOperation1)}

MCPayloads == [document |-> DocumentPayloads, atomic |-> AtomicPayloads]

-----------------------------------------------------------------------------
(* Built documents *)

\* Every string and every struct of a value under f.
MapKinds == [relationships |-> "relationship", links |-> "link"]
ItemKinds == [resources |-> "resource", errors |-> "error", operations |-> "operation",
              results |-> "result", primary |-> "resource", linkage |-> "identifier"]

RECURSIVE Each(_, _, _)
Each(f(_, _), kind, value) ==
  CASE value = Nil -> Nil
    [] kind = "string" -> f(kind, value)
    [] kind \in DOMAIN MapKinds ->
         [value EXCEPT !.entries = [n \in DOMAIN @ |-> Each(f, MapKinds[kind], @[n])]]
    [] kind \in DOMAIN ItemKinds ->
         [value EXCEPT !.items = [k \in DOMAIN @ |-> Each(f, ItemKinds[kind], @[k])]]
    [] kind = "link" /\ "chain" \in DOMAIN value ->
         [chain |-> [k \in DOMAIN value.chain |-> Each(f, kind, value.chain[k])]]
    [] kind = "link" /\ value.form # "object" -> value
    [] kind \in Structs ->
         f(kind, [value EXCEPT !.core = [n \in DOMAIN @ |-> Each(f, Schema[kind][n], @[n])]])
    [] OTHER -> value

\* The application sets the field instead of calling the setter.
Unmarked(kind, value) ==
  IF kind = "string" /\ value.text # "" THEN [value EXCEPT !.present = FALSE] ELSE value

\* It adds members to every struct that has room for them.
Extended(name, kind, value) ==
  IF kind \in Structs \ Closed THEN [value EXCEPT !.extra = {name}] ELSE value

WithAt(kind, value) == Extended("@m", kind, value)
WithBadAt(kind, value) == Extended("@", kind, value)
WithExtension(kind, value) == Extended("m", kind, value)

Decoded(root, payload) == IF root = "atomic" THEN DecodeAtomic(payload) ELSE DecodeDocument(payload)

\* What an application may build that resembles a document: to one from a base it
\* adds members, too.
Variants(root, isBase, document) ==
  IF document = Refused THEN {}
  ELSE {Each(Unmarked, root, document)}
         \cup IF isBase THEN {document, Each(WithAt, root, document),
                             Each(WithBadAt, root, document), Each(WithExtension, root, document)}
             ELSE {}

VariantsOf(root, bases) ==
  UNION {Variants(root, p \in bases, Decoded(root, p)) :
           p \in bases \cup UNION {Changed(base) : base \in bases}}

\* A linked document with one more link under the name.
AlsoLinked(document, name, link) ==
  [document EXCEPT !.core.links.entries = Put(@, name, link)]

DocumentExtras(linked, whole) ==
  LET null == [chain |-> <<[form |-> "null"]>>]
  IN {AlsoLinked(linked, n, l) : n \in {"@m", "@", "x:m", "self", "!"},
             l \in {ExtensionLink, null, linked.core.links.entries["self"]}}
     \cup {[d EXCEPT !.core.data = [kind |-> "zero", items |-> <<>>]] : d \in {whole, linked}}
     \cup {[whole EXCEPT !.core.data.items[1].core.relationships.entries["r"].core.data =
              [kind |-> "zero", items |-> <<>>]]}
     \cup {[whole EXCEPT !.core.data.items[1].core.relationships.entries =
              Put(@, n, @["r"])] : n \in {"@m", "@"}}
     \cup {[whole EXCEPT !.core.data.items[1].core.relationships.entries["r"].core =
              [links |-> [entries |-> n :> ExtensionLink], data |-> Nil, meta |-> Nil]] :
             n \in {"@m", "x:m"}}
     \cup {[whole EXCEPT !.core.data.items[1].core.attributes.entries = Put(@, n, Null)] :
             n \in {"@m", "@"}}

\* Atomic data that no constructor has made, and a link no registry knows.
AtomicExtras(request, response) ==
  LET zero == [kind |-> "zero", items |-> <<>>]
  IN {[request EXCEPT !.core.operations.items[k].core.data = zero] : k \in 1..4}
     \cup {[response EXCEPT !.core.results.items[1].core.data = zero]}
     \cup {AlsoLinked(response, n, ExtensionLink) : n \in {"@m", "x:m", "m"}}

MCBases == [document |-> Bases, atomic |-> AtomicBases]

Extras ==
  [document |-> DocumentExtras(DecodeDocument(Linked1), DecodeDocument(Whole)),
   atomic   |-> AtomicExtras(DecodeAtomic(AtomicRequest), DecodeAtomic(AtomicResponse))]

MCBuilt == [root \in Roots |-> VariantsOf(root, MCBases[root]) \cup Extras[root]]

-----------------------------------------------------------------------------

AnyId == [text |-> "", present |-> FALSE]

At(context, type, id, sparse) == [context |-> context, type |-> type, id |-> id, sparse |-> sparse]

DocumentOptions ==
  {At(c, "", AnyId, FALSE) : c \in Contexts}
    \cup {At(c, "a", [text |-> "1", present |-> FALSE], FALSE) : c \in {"create", "update"}}
    \cup {At(c, "", [text |-> "", present |-> TRUE], FALSE) : c \in {"create", "update"}}
    \cup {At(c, "", AnyId, TRUE) : c \in {"generic", "response"}}

\* Nothing is asked, or the operations of a request, as the client has built them
\* and as the server has read them.
Asked ==
  UNION {{asked, Each(Unmarked, "operations", asked)} :
           asked \in {DecodeAtomicOperations(r.members.operations) : r \in {AtomicRequest, AtomicHrefs}}}

AtomicOptions ==
  [context : AtomicContexts, count : {0, 4}, asked : {Nil}]
    \cup [context : {"atomicGeneric", "atomicResponse"}, count : {0, 4}, asked : Asked]
    \cup [context : {"atomicResponse"}, count : {-1}, asked : {Nil}]

MCOptions == [document |-> DocumentOptions, atomic |-> AtomicOptions]
=============================================================================
