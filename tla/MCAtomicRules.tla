----------------------------- MODULE MCAtomicRules -----------------------------
(***************************************************************************)
(* A small universe of Atomic requests for TLC: two resource types would    *)
(* only rename keys, so there is one type, one id and two local identities, *)
(* with at least one operation of every shape the rules distinguish.        *)
(***************************************************************************)
EXTENDS AtomicRules

Id(id, lid) == [type |-> "t", id |-> id, lid |-> lid]

Resource(id, lid, form, linkage) ==
  [type |-> "t", id |-> id, lid |-> lid, form |-> form, linkage |-> linkage]

One(r) == [kind |-> "one", items |-> <<r>>]
Many(rs) == [kind |-> "many", items |-> rs]
Null == [kind |-> "null", items |-> <<>>]
Zero == [kind |-> "zero", items |-> <<>>]

Ref(id, lid, relationship) ==
  [type |-> "t", id |-> id, lid |-> lid, relationship |-> relationship]

Operation(op, ref, href, data) == [op |-> op, ref |-> ref, href |-> href, data |-> data]

Create(id, lid, linkage) ==
  Operation("add", None, "absent", One(Resource(id, lid, "full", linkage)))

\* Every operation that takes part in resolving local identities.
LidOperations ==
  {Create(None, lid, linkage) :
     lid \in {None, "a", "b"}, linkage \in {<<>>, <<Id(None, "a")>>, <<Id("1", "b")>>}}
  \cup {Operation("add", None, "valid", Many(<<Resource(None, "a", "bare", <<>>)>>)),
        Operation("add", Ref(None, "a", "valid"), "absent",
                  Many(<<Resource(None, "b", "bare", <<>>)>>)),
        Operation("update", None, "absent", One(Resource("1", "a", "full", <<>>))),
        Operation("update", None, "absent", One(Resource(None, "b", "bare", <<>>))),
        Operation("update", Ref(None, "b", "absent"), "absent",
                  One(Resource(None, "b", "full", <<Id(None, "a")>>))),
        Operation("update", Ref("1", None, "valid"), "absent", Null),
        Operation("remove", Ref(None, "a", "absent"), "absent", None)}

\* The cross product of the members of an operation, for the rules on one
\* operation: most of these are invalid, each for its own combination.
AnyOperations ==
  {Operation(op, ref, href, data) :
     op   \in {"add", "update", "remove", "other"},
     ref  \in {None, Ref("1", None, "absent"), Ref(None, "a", "valid"),
               Ref("1", "a", "absent"), Ref(None, None, "absent"),
               Ref("1", None, "invalid")},
     href \in {"absent", "valid", "invalid"},
     data \in {None, Null, Zero,
               One(Resource("1", None, "full", <<>>)),
               One(Resource("2", None, "bare", <<>>)),
               One(Resource(None, "a", "bare", <<>>)),
               One(Resource("1", None, "malformed", <<>>)),
               One([Resource("1", None, "full", <<>>) EXCEPT !.type = None]),
               One(Resource("1", None, "full", <<Id(None, None)>>)),
               Many(<<>>), Many(<<Resource("1", None, "bare", <<>>)>>),
               Many(<<Resource("1", None, "full", <<>>)>>)}}

LidRequests(n) == UNION {[1..k -> LidOperations] : k \in 0..n}
PairRequests == [1..2 -> AnyOperations]
AnyRequests == [1..1 -> AnyOperations]
=============================================================================
