----------------------------- MODULE MCAtomicCall -----------------------------
(***************************************************************************)
(* Requests of up to three operations of the kinds that matter to the      *)
(* execution: a create whose result must carry data, a create that names   *)
(* a local identity and one that uses it, removals by local identity and   *)
(* by href, and a relationship update; every two operations that take part *)
(* in resolving local identities; and every single operation.              *)
(***************************************************************************)
EXTENDS AtomicCall

M == INSTANCE MCAtomicRules

MCOperations ==
  {M!Create(None, None, <<>>),
   M!Create("1", "a", <<M!Id(None, "a")>>),
   M!Operation("update", M!Ref(None, "a", "valid"), "absent", M!Null),
   M!Operation("remove", M!Ref(None, "a", "absent"), "absent", None),
   M!Operation("remove", None, "valid", None)}

MCRequests == UNION {[1..n -> MCOperations] : n \in 0..3} \cup M!LidRequests(2) \cup M!AnyRequests

MCResults ==
  {None, M!One(M!Resource("1", None, "full", <<>>)), M!One(M!Resource(None, "a", "full", <<>>))}
=============================================================================
