----------------------------- MODULE MCCodecPipeline -----------------------------
(***************************************************************************)
(* Documents that have an object of every scope between them, with a link  *)
(* and a relationship under an @-Member, and up to two additional members  *)
(* anywhere in them; registries that give a name to one scope, to two with *)
(* different validators, or to none.                                       *)
(***************************************************************************)
EXTENDS CodecPipeline, TLC

X == <<"a", "x">>
Y == <<"b", "y">>
Z == <<"", "z">>
At == <<"@", "n">>
BadAt == <<"@", "">>

MCNameRank == (X :> 1) @@ (Y :> 2) @@ (Z :> 3) @@ (At :> 4) @@ (BadAt :> 5)

-----------------------------------------------------------------------------
(* Documents *)

Object(kind, parent, key) ==
  [kind |-> kind, parent |-> parent, key |-> key, members |-> <<>>, isObject |-> TRUE,
   isDecodable |-> TRUE]

Named(kind, parent, name) == Object(kind, parent, <<"", name>>)

\* A resource with a link under an @-Member among its document's links.
Single ==
  <<Named("document", 0, ""), Named("jsonapi", 1, "jsonapi"), Named("links", 1, "links"),
    Named("link", 3, "l"), Named("link", 4, "describedby"), Object("link", 3, <<"@", "l">>),
    Named("resource", 1, "data"), Named("relationships", 7, "relationships"),
    Named("relationship", 8, "r"), Named("identifier", 9, "data")>>

\* A compound document with a relationship under an @-Member and a to-many one.
Compound ==
  <<Named("document", 0, ""), Named("resource", 1, "data"), Named("links", 2, "links"),
    Named("resource", 1, "included"), Named("relationships", 4, "relationships"),
    Named("relationship", 5, "r"), Object("relationship", 5, <<"@", "r">>),
    Named("identifier", 6, "data"), Named("identifier", 6, "data")>>

Errors ==
  <<Named("document", 0, ""), Named("error", 1, "errors"), Named("links", 2, "links"),
    Named("link", 3, "l"), Named("source", 2, "source"), Named("error", 1, "errors")>>

Around(objects) ==
  [objects |-> objects, present |-> DOMAIN objects, core |-> "ok", ext |-> {"absent"},
   profile |-> {"absent"}]

\* A relationships object has no additional members of its own.
Holders(objects) == {n \in DOMAIN objects : objects[n].kind # "relationships"}

With(objects, n, name, value) ==
  [objects EXCEPT ![n].members = (name :> value) @@ @]

OneMember(objects, values, names) ==
  {With(objects, n, X, value) : n \in Holders(objects), value \in values}
  \cup {With(objects, n, name, "plain") : n \in Holders(objects), name \in names}

Members(objects, values, names) ==
  {objects} \cup OneMember(objects, values, names)
  \cup {With(with, n, X, "plain") : with \in OneMember(objects, {"plain"}, names), n \in Holders(objects)}

Declaring(objects) ==
  {[Around(objects) EXCEPT !.core = core, !.ext = ext, !.profile = declared] :
     core \in {"ok", "rules"},
     ext \in {{"absent"}, {}, {"e"}, {"e", "f"}}, declared \in {{"absent"}, {"p"}, {"p", "q", "other"}}}

MCDocuments ==
  UNION {Declaring(objects) \cup
         {Around(some) : some \in Members(objects, {"plain", "at", "unencodable"}, {Y, Z, At, BadAt})} :
           objects \in {Single, Compound, Errors}}

\* What is received may have a value where an object is expected, and then no objects in it.
\* A link may be a value, and a to-one linkage that is one is left to the decoder.
WithValue(objects) ==
  {[objects EXCEPT ![n].isObject = FALSE] :
     n \in {k \in DOMAIN objects : objects[k].kind # "link"
                                   /\ (objects[k].kind = "identifier" => objects = Compound)
                                   /\ \A m \in DOMAIN objects : objects[m].parent # k}}

MCPayloads ==
  UNION {Declaring(objects) \cup {Around(some) : some \in WithValue(objects)} \cup
         {[Around(objects) EXCEPT !.core = "scan"]} \cup
         {Around([objects EXCEPT ![n].isDecodable = FALSE]) : n \in DOMAIN objects} \cup
         {Around(some) : some \in Members(objects, {"plain", "at"}, {Y, Z, At})} :
           objects \in {Single, Compound, Errors}}

-----------------------------------------------------------------------------
(* Options *)

Always(outcome) == [value \in {"plain", "at", "unencodable"} |-> outcome]
\* A validator that refuses a value for the @-Members in it.
Picky == [Always("ok") EXCEPT !["at"] = "error"]

Define(scope, name, validate) == [scope |-> scope, name |-> name, validate |-> validate]
Extension(uri, namespace, defined) == [uri |-> uri, namespace |-> namespace, members |-> defined]
Profile(uri, outcome) == [uri |-> uri, validate |-> outcome]
Registering(extensions, profiles) == [extensions |-> extensions, profiles |-> profiles]
OneExtension(defined) == Registering(<<Extension("e", "a", defined)>>, <<>>)

ScopeList == <<"TopLevel", "Resource", "Relationship", "Identifier", "JSONAPI", "Error",
               "ErrorSource", "LinksObject", "LinkObject">>

MCOptions ==
  {OneExtension(<<Define(scope, X, validate)>>) :
     scope \in MemberScopes, validate \in {Picky, Always("panic")}}
  \cup {OneExtension(<<Define(ScopeList[k], X, Always("ok")),
                       Define(ScopeList[(k % 9) + 1], X, Always("error"))>>) : k \in 1..9}
  \cup {OneExtension(<<Define("LinkObject", X, Always("exit")), Define("Resource", X, Always("none"))>>)}
  \cup {Registering(<<Extension("e", "a", <<Define("Resource", X, Always("exit"))>>),
                      Extension("f", "b", <<Define("Resource", Y, Always("error")),
                                            Define("LinksObject", Y, Always("ok"))>>)>>, <<>>)}
  \cup {Registering(<<>>, profiles) :
          profiles \in {<<Profile("p", outcome)>> :
                          outcome \in {"none", "ok", "error", "panic", "exit", "mutate"}}
                       \cup {<<Profile("p", "ok"), Profile("q", "mutate")>>,
                             <<Profile("p", "ok"), Profile("p", "ok")>>,
                             <<Profile("relative", "ok")>>}}
  \cup {OneExtension(<<Define("Resource", name, Always("ok"))>>) : name \in {Y, Z, BadAt, <<"a", "">>}}
  \cup {OneExtension(<<Define("Attributes", X, Always("ok"))>>),
        OneExtension(<<Define("Resource", X, Always("ok")), Define("Resource", X, Always("error"))>>),
        Registering(<<Extension("relative", "a", <<>>)>>, <<>>),
        Registering(<<Extension("e", "-", <<>>)>>, <<>>),
        Registering(<<Extension("e", "a", <<>>), Extension("e", "b", <<>>)>>, <<>>),
        Registering(<<Extension("e", "a", <<>>), Extension("f", "a", <<>>)>>, <<>>),
        Registering(<<Extension("e", "a", <<Define("Resource", Y, Always("ok"))>>),
                      Extension("f", "b", <<Define("Resource", Y, Always("error"))>>)>>, <<>>)}
=============================================================================
