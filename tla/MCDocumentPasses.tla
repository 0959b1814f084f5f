--------------------------- MODULE MCDocumentPasses ---------------------------
(***************************************************************************)
(* Documents for the passes:                                               *)
(*   - up to three included resources and every linkage between them:      *)
(*     chains, cycles, self-loops, diamonds, dangling identifiers;         *)
(*   - included resources with two names, one, or the same name twice;     *)
(*   - every three resources over two ids and two local ids;               *)
(*   - pairs of resources whose relationships repeat, extend or contradict *)
(*     their names;                                                        *)
(*   - a resource whose relationship leads to one of two included ones.    *)
(***************************************************************************)
EXTENDS DocumentPasses

Name(id, lid) == [type |-> "t", id |-> id, lid |-> lid]

Object(type, id, lid, linkage) == [type |-> type, id |-> id, lid |-> lid, linkage |-> linkage]

Resource(id, lid, linkage) == Object("t", id, lid, linkage)

Document(data, included) == [resources |-> data \o included, primary |-> Len(data)]

-----------------------------------------------------------------------------
(* Linkage *)

Lists == {<<>>, <<Name("1", None)>>, <<Name("2", None)>>, <<Name("3", None)>>,
          <<Name("1", None), Name("2", None)>>, <<Name("2", None), Name("3", None)>>,
          <<Name("1", None), Name("2", None), Name("3", None)>>}

GraphDocuments ==
  {Document(<<Resource("0", None, p)>>,
            <<Resource("1", None, a), Resource("2", None, b), Resource("3", None, c)>>) :
     p \in Lists, a \in Lists, b \in Lists, c \in Lists}

Named == {Resource("1", None, <<>>), Resource("1", "a", <<>>),
          Resource(None, "a", <<Name("2", None), Name("2", None)>>),
          Resource("2", "b", <<Name(None, "a")>>), Resource("2", None, <<Name("1", "b")>>),
          [Resource("2", None, <<>>) EXCEPT !.type = None]}

AliasDocuments ==
  {Document(data, <<x, y>>) :
     data \in {<<>>, <<Resource("0", None, <<Name("1", "a")>>), Resource("9", None, <<>>)>>,
               <<Resource("0", None, <<Name(None, "a")>>), Resource("9", None, <<Name("2", None)>>)>>,
               <<Resource(None, None, <<Name(None, "b"), Name(None, None)>>)>>},
     x \in Named, y \in Named}

-----------------------------------------------------------------------------
(* Names *)

Ids == {None, "1", "2"}
Lids == {None, "a", "b"}

Plain == {Resource(id, lid, <<>>) : id \in Ids, lid \in Lids}
Other == {Object("u", "1", "a", <<>>), Object(None, "1", "a", <<>>)}

Triples ==
  {Document(<<x>>, <<y, z>>) : x \in Plain, y \in Plain \cup Other, z \in Plain \cup Other}

Identifiers == {Name(id, lid) : id \in Ids, lid \in {"a", "b"}} \cup {Name("1", None)}

Pairs ==
  {Document(<<Resource("1", x, <<i, j>>)>>, <<Resource(id, lid, <<k>>)>>) :
     x \in {None, "a"}, i \in Identifiers, j \in Identifiers, k \in Identifiers,
     id \in Ids, lid \in Lids}

Lookups ==
  {Document(<<Object("u", "1", None, <<i>>)>>, <<x, y>>) : i \in Identifiers, x \in Plain, y \in Plain}

MCDocuments ==
  GraphDocuments \cup AliasDocuments \cup Triples \cup Pairs \cup Lookups \cup {Document(<<>>, <<>>)}
=============================================================================
