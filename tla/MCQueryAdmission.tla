----------------------------- MODULE MCQueryAdmission -----------------------------
(***************************************************************************)
(* Queries of up to four parameters around limits of a few units: name 1   *)
(* is of any family, names 2 and 3 are of the page family and name 4 is    *)
(* sort.                                                                   *)
(***************************************************************************)
EXTENDS QueryAdmission

MCDefault ==
  [MaxParameters |-> 2, MaxNameBytes |-> 2, MaxValues |-> 2, MaxValueBytes |-> 3,
   MaxTotalBytes |-> 6, MaxListItems |-> 2, MaxSelectors |-> 1]

MCParserLimits ==
  {MCDefault,
   [MaxParameters |-> 4, MaxNameBytes |-> 3, MaxValues |-> 4, MaxValueBytes |-> 4,
    MaxTotalBytes |-> 9, MaxListItems |-> 3, MaxSelectors |-> 1]}

Value(size) == [bytes |-> size, valid |-> TRUE, items |-> <<>>]
List(items) == [bytes |-> Encoded(items), valid |-> items # <<>>, items |-> items]
Field(size, descending) == [bytes |-> size, descending |-> descending]
Parameter(family, selectors, size, vs) ==
  [family |-> family, selectors |-> selectors, bytes |-> size, values |-> vs]

Other ==
  {Parameter("malformed", 0, 1, <<>>), Parameter("unknown", 0, 1, <<Value(1)>>),
   Parameter("filter", 2, 1, <<Value(0)>>), Parameter("filter", 1, 3, <<Value(0)>>),
   Parameter("registered", 0, 1, <<Value(1), Value(1), Value(1)>>),
   Parameter("include", 0, 1, <<List(<<Field(1, FALSE)>>)>>),
   Parameter("fields", 0, 1, <<List(<<Field(1, FALSE)>>)>>),
   Parameter("fields", 1, 1, <<List(<<Field(0, FALSE), Field(0, FALSE), Field(0, FALSE)>>)>>)}

Page ==
  {Parameter("page", 1, size, vs) :
     size \in 1..3,
     vs \in {<<>>, <<Value(1)>>, <<Value(3)>>, <<Value(4)>>, <<Value(0), Value(1)>>}}

SortFieldLists ==
  {<<>>, <<Field(1, TRUE)>>, <<Field(3, FALSE)>>, <<Field(3, TRUE)>>,
   <<Field(1, FALSE), Field(1, FALSE)>>, <<Field(1, TRUE), Field(1, FALSE)>>,
   <<Field(0, FALSE), Field(0, FALSE), Field(1, FALSE)>>}

Sort ==
  {Parameter("sort", 0, 1, <<List(fields)>>) : fields \in SortFieldLists}
  \cup {Parameter("sort", 1, 1, <<List(<<Field(1, FALSE)>>)>>),
        Parameter("sort", 0, 1, <<List(<<Field(1, FALSE)>>), List(<<Field(1, FALSE)>>)>>)}

Only(names, one, two, three, four) ==
  [name \in names |->
     IF name = 1 THEN one ELSE IF name = 2 THEN two ELSE IF name = 3 THEN three ELSE four]

MCQueries ==
  {Only(names, one, two, three, four) :
     names \in SUBSET (1..4), one \in Other, two \in Page, three \in Page, four \in Sort}
=============================================================================
