------------------------------ MODULE DocumentProofs ------------------------------
(***************************************************************************)
(* Of the passes of validateDocument, for documents of any size, whatever  *)
(* their linkage: the traversal of validateIncluded computes reachability, *)
(* the passes of validateDocumentIdentity decide what they are meant to    *)
(* decide, and where both accept each included resource is led to without  *)
(* ambiguity.                                                              *)
(*                                                                         *)
(* Of the exchange of documents, for all payloads and options: what has    *)
(* been read and accepted can be written, and it is written as what has    *)
(* been received but for the members a receiver ignores; and what is built *)
(* and written is accepted by whoever demands no more, and held as it was  *)
(* built.                                                                  *)
(***************************************************************************)
EXTENDS DocumentPasses, DocumentExchange, FiniteSetTheorems, TLAPS

-----------------------------------------------------------------------------
(* The traversal: lemmas about the sequences of a finite set and about linkage *)

\* An ordering of a finite set is a sequence of its elements, each of them once.
LEMMA OrderingsEnumerate ==
  ASSUME NEW S, IsFiniteSet(S), NEW s \in SetToSeqs(S)
  PROVE  /\ s \in Seq(S)
         /\ ItemsOf(s) = S
         /\ \A p, q \in DOMAIN s : p # q => s[p] # s[q]
<1> DEFINE D == 1..Cardinality(S)
<1>1. Cardinality(S) \in Nat
  BY FS_CardinalityType
<1>2. s \in [D -> S] /\ \A i, j \in D : i # j => s[i] # s[j]
  BY DEF SetToSeqs
<1>3. s \in Seq(S) /\ DOMAIN s = D
  BY <1>1, <1>2
<1>4. IsFiniteSet(D) /\ Cardinality(D) = Cardinality(S)
  BY <1>1, FS_Interval, Z3
<1>5. s \in Injection(D, S)
  BY <1>2, <1>3 DEF Injection, IsInjective
<1>6. s \in Surjection(D, S)
  BY <1>4, <1>5, FS_Injection
<1> QED
  BY <1>2, <1>3, <1>6 DEF Surjection, ItemsOf

\* The linkage of a finite set of resources is finite.
LEMMA LinkageFinite ==
  ASSUME NEW d, IsDocument(d), NEW K \in SUBSET DOMAIN d.resources
  PROVE  IsFiniteSet(Linkage(d, K))
<1> DEFINE Of(k) == {k} \X DOMAIN d.resources[k].linkage
           f == [k \in K |-> Of(k)]
           T == {Of(k) : k \in K}
<1>1. /\ d.resources \in Seq(ItemsOf(d.resources))
      /\ DOMAIN d.resources = 1..Len(d.resources)
      /\ Len(d.resources) \in Nat
  BY DEF IsDocument
<1>2. IsFiniteSet(DOMAIN d.resources)
  BY <1>1, FS_Interval, Z3
<1>3. IsFiniteSet(K)
  BY <1>2, FS_Subset
<1>4. f \in Surjection(K, T)
  BY DEF Surjection
<1>5. IsFiniteSet(T)
  BY <1>3, <1>4, FS_Surjection
<1>6. ASSUME NEW k \in K
      PROVE  IsFiniteSet(Of(k))
  <2>1. d.resources[k] \in ItemsOf(d.resources)
    BY DEF ItemsOf
  <2>2. d.resources[k].linkage \in Seq(ItemsOf(d.resources[k].linkage))
    BY <2>1 DEF IsDocument
  <2> DEFINE l == Len(d.resources[k].linkage)
  <2>3. l \in Nat /\ DOMAIN d.resources[k].linkage = 1..l
    BY <2>2
  <2>4. IsFiniteSet(1..l)
    BY <2>3, FS_Interval, Z3
  <2>5. IsFiniteSet({k})
    BY FS_Singleton
  <2> QED
    BY <2>3, <2>4, <2>5, FS_Product
<1>7. \A U \in T : IsFiniteSet(U)
  BY <1>6
<1> HIDE DEF T, Of
<1>8. IsFiniteSet(UNION T)
  BY <1>5, <1>7, FS_UNION
<1> QED
  BY <1>8 DEF Linkage, T, Of

\* An occurrence belongs to the linkage of K when its resource is in K.
LEMMA LinkageMember ==
  ASSUME NEW d, NEW K, NEW o
  PROVE  o \in Linkage(d, K)
           <=> /\ o = <<o[1], o[2]>>
               /\ o[1] \in K
               /\ o[2] \in DOMAIN d.resources[o[1]].linkage
BY DEF Linkage

\* So linkage distributes over union, and over set difference.
LEMMA LinkageUnion ==
  ASSUME NEW d, NEW K, NEW L
  PROVE  /\ Linkage(d, K \cup L) = Linkage(d, K) \cup Linkage(d, L)
         /\ K \cap L = {} => Linkage(d, K) \cap Linkage(d, L) = {}
         /\ K \subseteq L => Linkage(d, K) \subseteq Linkage(d, L)
BY LinkageMember

-----------------------------------------------------------------------------
(* The inductive invariant *)

\* What has been followed or is queued is exactly the linkage of primary data
\* and of the resources reached.
Frontier ==
  followed \cup ItemsOf(queue) = Linkage(document, Primary(document) \cup reachable)

\* The resources found by an identifier that was followed have been reached.
FollowedReached == \A o \in followed : Targets(document, o) \subseteq reachable

\* Nothing is reached that a closed set could leave out.
OnlyLinkedReached ==
  \A S \in SUBSET Included(document) : LinkageClosed(document, S) => reachable \subseteq S

Verdict ==
  done => /\ queue = <<>>
          /\ unlinked = IF sparse THEN {} ELSE Included(document) \ reachable

LinkageIInv == TypeOK /\ FollowsOnce /\ Frontier /\ FollowedReached /\ OnlyLinkedReached /\ Verdict

LEMMA PartsOfDocument ==
  ASSUME NEW d \in Documents
  PROVE  /\ IsDocument(d)
         /\ Primary(d) \subseteq DOMAIN d.resources
         /\ Included(d) \subseteq DOMAIN d.resources
         /\ Primary(d) \cap Included(d) = {}
<1>1. IsDocument(d)
  BY DocumentsWellFormed
<1>2. /\ Len(d.resources) \in Nat
      /\ DOMAIN d.resources = 1..Len(d.resources)
      /\ d.primary \in 0..Len(d.resources)
  BY <1>1 DEF IsDocument
<1> QED
  BY <1>1, <1>2 DEF Primary, Included

\* A queue enumerates the occurrences it holds.
LEMMA Concatenation ==
  ASSUME NEW A, NEW s \in Seq(A), NEW t \in Seq(A),
         \A p, q \in DOMAIN s : p # q => s[p] # s[q],
         \A p, q \in DOMAIN t : p # q => t[p] # t[q],
         ItemsOf(s) \cap ItemsOf(t) = {}
  PROVE  /\ s \o t \in Seq(A)
         /\ ItemsOf(s \o t) = ItemsOf(s) \cup ItemsOf(t)
         /\ \A p, q \in DOMAIN (s \o t) : p # q => (s \o t)[p] # (s \o t)[q]
<1> DEFINE m == Len(s)
           n == Len(t)
           u == s \o t
<1>1. /\ m \in Nat /\ n \in Nat
      /\ DOMAIN s = 1..m /\ DOMAIN t = 1..n /\ DOMAIN u = 1..(m + n)
      /\ u \in Seq(A)
  OBVIOUS
<1>2. /\ \A p \in 1..m : u[p] = s[p]
      /\ \A p \in (m + 1)..(m + n) : u[p] = t[p - m]
  OBVIOUS
<1>3. \A p \in 1..(m + n) :
        \/ p \in 1..m /\ u[p] = s[p]
        \/ p - m \in 1..n /\ u[p] = t[p - m]
  <2> TAKE p \in 1..(m + n)
  <2>1. CASE p <= m
    BY <1>1, <1>2, <2>1
  <2>2. CASE p > m
    <3>1. p \in (m + 1)..(m + n) /\ p - m \in 1..n
      BY <1>1, <2>2
    <3> QED
      BY <1>2, <3>1
  <2> QED
    BY <1>1, <2>1, <2>2
<1>4. \A p \in 1..n : p + m \in (m + 1)..(m + n) /\ u[p + m] = t[p]
  <2> TAKE p \in 1..n
  <2>1. p + m \in (m + 1)..(m + n) /\ (p + m) - m = p
    BY <1>1
  <2> QED
    BY <1>2, <2>1
<1>5. ItemsOf(u) \subseteq ItemsOf(s) \cup ItemsOf(t)
  BY <1>1, <1>3 DEF ItemsOf
<1>6. ItemsOf(s) \cup ItemsOf(t) \subseteq ItemsOf(u)
  <2>1. \A p \in 1..m : p \in DOMAIN u /\ u[p] = s[p]
    BY <1>1, <1>2
  <2>2. \A p \in 1..n : p + m \in DOMAIN u /\ u[p + m] = t[p]
    BY <1>1, <1>4
  <2>3. ItemsOf(s) \subseteq ItemsOf(u)
    BY <1>1, <2>1 DEF ItemsOf
  <2>4. ItemsOf(t) \subseteq ItemsOf(u)
    <3> SUFFICES ASSUME NEW p \in 1..n PROVE t[p] \in ItemsOf(u)
      BY <1>1 DEF ItemsOf
    <3>1. p + m \in DOMAIN u /\ u[p + m] = t[p]
      BY <2>2
    <3> HIDE DEF u, m
    <3> QED
      BY <3>1 DEF ItemsOf
  <2> QED
    BY <2>3, <2>4
<1>7. ASSUME NEW p \in DOMAIN u, NEW q \in DOMAIN u, p # q
      PROVE  u[p] # u[q]
  <2>1. \A x \in 1..m : s[x] \in ItemsOf(s)
    BY <1>1 DEF ItemsOf
  <2>2. \A x \in 1..n : t[x] \in ItemsOf(t)
    BY <1>1 DEF ItemsOf
  <2>3. (p \in 1..m /\ u[p] = s[p]) \/ (p - m \in 1..n /\ u[p] = t[p - m])
    BY <1>1, <1>3
  <2>4. (q \in 1..m /\ u[q] = s[q]) \/ (q - m \in 1..n /\ u[q] = t[q - m])
    BY <1>1, <1>3
  <2>5. p - m # q - m
    BY <1>1, <1>7
  <2> QED
    BY <1>1, <1>7, <2>1, <2>2, <2>3, <2>4, <2>5
<1> QED
  BY <1>1, <1>5, <1>6, <1>7

-----------------------------------------------------------------------------
(* The invariant holds initially *)

LEMMA LinkageInitIInv == Init => LinkageIInv
<1> SUFFICES ASSUME Init PROVE LinkageIInv
  OBVIOUS
<1> USE DEF Init
<1> DEFINE P == Primary(document)
<1>1. /\ document \in Documents
      /\ IsDocument(document)
      /\ P \subseteq DOMAIN document.resources
  BY PartsOfDocument
<1>2. IsFiniteSet(Linkage(document, P))
  BY <1>1, LinkageFinite
<1>3. /\ queue \in Seq(Linkage(document, P))
      /\ ItemsOf(queue) = Linkage(document, P)
      /\ \A p, q \in DOMAIN queue : p # q => queue[p] # queue[q]
  BY <1>2, OrderingsEnumerate
<1>4. Linkage(document, P) \subseteq AllLinkage
  BY <1>1, LinkageUnion DEF AllLinkage
<1>5. queue \in Seq(AllLinkage)
  BY <1>3, <1>4
<1>6. TypeOK
  BY <1>1, <1>5 DEF TypeOK
<1>7. FollowsOnce
  BY <1>3 DEF FollowsOnce
<1>8. Frontier
  BY <1>3 DEF Frontier
<1>9. FollowedReached /\ OnlyLinkedReached /\ Verdict
  BY DEF FollowedReached, OnlyLinkedReached, Verdict
<1> QED
  BY <1>6, <1>7, <1>8, <1>9 DEF LinkageIInv

-----------------------------------------------------------------------------
(* and is preserved by every step *)

LEMMA FollowIInv == LinkageIInv /\ Follow => LinkageIInv'
<1> SUFFICES ASSUME LinkageIInv, Follow PROVE LinkageIInv'
  OBVIOUS
<1> DEFINE P == Primary(document)
           h == Head(queue)
           found == Targets(document, h) \ reachable
           new == Linkage(document, found)
<1>1. /\ queue # <<>>
      /\ reachable' = reachable \cup found
      /\ followed' = followed \cup {h}
      /\ UNCHANGED <<document, sparse, unlinked, done>>
  BY DEF Follow
<1>2. PICK order \in SetToSeqs(new) : queue' = Tail(queue) \o order
  BY DEF Follow
<1>3. TypeOK /\ FollowsOnce /\ Frontier /\ FollowedReached /\ OnlyLinkedReached /\ Verdict
  BY DEF LinkageIInv
<1>4. /\ IsDocument(document)
      /\ P \subseteq DOMAIN document.resources
      /\ Included(document) \subseteq DOMAIN document.resources
      /\ P \cap Included(document) = {}
  BY <1>3, PartsOfDocument DEF TypeOK
<1>5. found \subseteq Included(document) /\ reachable \subseteq Included(document)
  BY <1>3 DEF TypeOK, Targets
<1>6. found \subseteq DOMAIN document.resources
  BY <1>4, <1>5
<1>7. IsFiniteSet(new)
  BY <1>4, <1>6, LinkageFinite
<1>8. /\ order \in Seq(new)
      /\ ItemsOf(order) = new
      /\ \A p, q \in DOMAIN order : p # q => order[p] # order[q]
  BY <1>2, <1>7, OrderingsEnumerate
<1>9. new \subseteq AllLinkage
  BY <1>6, LinkageUnion DEF AllLinkage
<1>10. queue \in Seq(AllLinkage) /\ order \in Seq(AllLinkage)
  <2> HIDE DEF new
  <2>1. order \in Seq(AllLinkage)
    BY <1>8, <1>9
  <2> QED
    BY <1>3, <2>1 DEF TypeOK
<1>11. /\ Tail(queue) \in Seq(AllLinkage)
       /\ DOMAIN queue = 1..Len(queue) /\ Len(queue) \in Nat \ {0}
       /\ DOMAIN Tail(queue) = 1..(Len(queue) - 1)
       /\ \A p \in DOMAIN Tail(queue) : Tail(queue)[p] = queue[p + 1] /\ p + 1 \in DOMAIN queue
       /\ h = queue[1] /\ 1 \in DOMAIN queue
  BY <1>1, <1>10
<1>12. \A p, q \in DOMAIN queue : p # q => queue[p] # queue[q]
  BY <1>3 DEF FollowsOnce
<1>13. /\ \A p \in DOMAIN Tail(queue) : Tail(queue)[p] # h
       /\ \A p, q \in DOMAIN Tail(queue) : p # q => Tail(queue)[p] # Tail(queue)[q]
  BY <1>11, <1>12
<1>14. ItemsOf(queue) = {h} \cup ItemsOf(Tail(queue))
  <2>1. \A p \in DOMAIN queue : p = 1 \/ (p - 1 \in DOMAIN Tail(queue) /\ (p - 1) + 1 = p)
    BY <1>11
  <2> QED
    BY <1>11, <2>1 DEF ItemsOf
<1>15. h \notin ItemsOf(Tail(queue)) /\ h \notin followed
  BY <1>3, <1>11, <1>13 DEF ItemsOf, FollowsOnce
<1>16. /\ followed \cup ItemsOf(queue) = Linkage(document, P \cup reachable)
       /\ followed \cap ItemsOf(queue) = {}
  BY <1>3 DEF Frontier, FollowsOnce, ItemsOf
<1>17. new \cap Linkage(document, P \cup reachable) = {}
  <2>1. (P \cup reachable) \cap found = {}
    BY <1>4, <1>5
  <2> QED
    BY <2>1, LinkageUnion
<1>18. ItemsOf(Tail(queue)) \cap ItemsOf(order) = {}
  BY <1>8, <1>14, <1>16, <1>17
<1>19. /\ queue' \in Seq(AllLinkage)
       /\ ItemsOf(queue') = ItemsOf(Tail(queue)) \cup new
       /\ \A p, q \in DOMAIN queue' : p # q => queue'[p] # queue'[q]
  <2> DEFINE rest == Tail(queue)
  <2>1. /\ rest \in Seq(AllLinkage) /\ order \in Seq(AllLinkage)
        /\ \A p, q \in DOMAIN rest : p # q => rest[p] # rest[q]
        /\ \A p, q \in DOMAIN order : p # q => order[p] # order[q]
        /\ ItemsOf(rest) \cap ItemsOf(order) = {}
    BY <1>8, <1>10, <1>11, <1>13, <1>18
  <2> HIDE DEF rest
  <2>2. /\ rest \o order \in Seq(AllLinkage)
        /\ ItemsOf(rest \o order) = ItemsOf(rest) \cup ItemsOf(order)
        /\ \A p, q \in DOMAIN (rest \o order) : p # q => (rest \o order)[p] # (rest \o order)[q]
    BY <2>1, Concatenation
  <2>3. queue' = rest \o order
    BY <1>2 DEF rest
  <2>4. ItemsOf(queue') = ItemsOf(rest \o order)
    BY <2>3 DEF ItemsOf
  <2> QED
    BY <1>8, <2>2, <2>3, <2>4 DEF rest
<1>20. TypeOK'
  <2>1. AllLinkage' = AllLinkage
    BY <1>1 DEF AllLinkage
  <2>2. h \in AllLinkage
    BY <1>10, <1>11
  <2>3. queue' \in Seq(AllLinkage') /\ followed' \subseteq AllLinkage'
    BY <1>1, <1>3, <1>19, <2>1, <2>2 DEF TypeOK
  <2>4. reachable' \subseteq Included(document') /\ unlinked' \subseteq Included(document')
    BY <1>1, <1>3, <1>5 DEF TypeOK
  <2> QED
    BY <1>1, <1>3, <2>3, <2>4 DEF TypeOK
<1>21. FollowsOnce'
  <2>1. \A o \in ItemsOf(queue') : o \notin followed'
    BY <1>1, <1>14, <1>15, <1>16, <1>17, <1>19
  <2> QED
    BY <1>19, <2>1 DEF FollowsOnce, ItemsOf
<1>22. Frontier'
  <2>1. Linkage(document, P \cup reachable') = Linkage(document, P \cup reachable) \cup new
    <3>1. P \cup reachable' = (P \cup reachable) \cup found
      BY <1>1
    <3> QED
      BY <3>1, LinkageUnion
  <2> QED
    BY <1>1, <1>14, <1>16, <1>19, <2>1 DEF Frontier
<1>23. FollowedReached'
  BY <1>1, <1>3 DEF FollowedReached
<1>24. OnlyLinkedReached'
  <2> SUFFICES ASSUME NEW S \in SUBSET Included(document), LinkageClosed(document, S)
               PROVE  reachable \cup found \subseteq S
    BY <1>1 DEF OnlyLinkedReached
  <2>1. reachable \subseteq S
    BY <1>3 DEF OnlyLinkedReached
  <2>2. h \in Linkage(document, P \cup S)
    <3>1. h \in Linkage(document, P \cup reachable)
      BY <1>14, <1>16
    <3>2. P \cup reachable \subseteq P \cup S
      BY <2>1
    <3> QED
      BY <3>1, <3>2, LinkageUnion
  <2> QED
    BY <2>1, <2>2 DEF LinkageClosed
<1>25. Verdict'
  BY <1>1, <1>3 DEF Verdict
<1> QED
  BY <1>20, <1>21, <1>22, <1>23, <1>24, <1>25 DEF LinkageIInv

\* Everything but the verdict depends only on what Report leaves alone.
LEMMA Unread ==
  ASSUME TypeOK, FollowsOnce, Frontier, FollowedReached, OnlyLinkedReached,
         UNCHANGED <<document, sparse, reachable, queue, followed>>,
         unlinked' \subseteq Included(document), done' \in BOOLEAN
  PROVE  (TypeOK /\ FollowsOnce /\ Frontier /\ FollowedReached /\ OnlyLinkedReached)'
<1>1. AllLinkage' = AllLinkage
  BY DEF AllLinkage
<1>2. queue' \in Seq(AllLinkage') /\ followed' \subseteq AllLinkage'
  BY <1>1 DEF TypeOK
<1>3. reachable' \subseteq Included(document') /\ unlinked' \subseteq Included(document')
  BY DEF TypeOK
<1>4. TypeOK'
  BY <1>2, <1>3 DEF TypeOK
<1>5. FollowsOnce'
  BY DEF FollowsOnce
<1>6. ItemsOf(queue)' = ItemsOf(queue)
  BY DEF ItemsOf
<1>7. Frontier'
  BY <1>6 DEF Frontier
<1>8. FollowedReached' /\ OnlyLinkedReached'
  BY DEF FollowedReached, OnlyLinkedReached
<1> QED
  BY <1>4, <1>5, <1>7, <1>8

LEMMA ReportIInv == LinkageIInv /\ Report => LinkageIInv'
<1> SUFFICES ASSUME LinkageIInv, Report PROVE LinkageIInv'
  OBVIOUS
<1>1. /\ UNCHANGED <<document, sparse, reachable, queue, followed>>
      /\ unlinked' = IF sparse THEN {} ELSE Included(document) \ reachable
      /\ done' = TRUE /\ queue = <<>>
  BY DEF Report
<1>2. unlinked' \subseteq Included(document)
  BY <1>1
<1>3. Verdict'
  BY <1>1 DEF Verdict
<1> QED
  BY <1>1, <1>2, <1>3, Unread DEF LinkageIInv

LEMMA LinkageNextIInv == LinkageIInv /\ [Next]_vars => LinkageIInv'
<1>1. ASSUME LinkageIInv, UNCHANGED vars PROVE LinkageIInv'
  <2>1. /\ UNCHANGED <<document, sparse, reachable, queue, followed>>
        /\ unlinked' = unlinked /\ done' = done
    BY <1>1 DEF vars
  <2>2. unlinked \subseteq Included(document) /\ done \in BOOLEAN
    BY <1>1 DEF LinkageIInv, TypeOK
  <2>3. Verdict'
    BY <1>1, <2>1 DEF LinkageIInv, Verdict
  <2> QED
    BY <1>1, <2>1, <2>2, <2>3, Unread DEF LinkageIInv
<1> QED
  BY <1>1, FollowIInv, ReportIInv DEF Next

-----------------------------------------------------------------------------
(* and implies the properties *)

LEMMA IInvVerdict == LinkageIInv => ReportsUnlinkedExactly
<1> SUFFICES ASSUME LinkageIInv, done
             PROVE  unlinked = IF sparse THEN {} ELSE Included(document) \ Linked(document)
  BY DEF ReportsUnlinkedExactly
<1> DEFINE P == Primary(document)
<1>1. /\ queue = <<>>
      /\ unlinked = IF sparse THEN {} ELSE Included(document) \ reachable
      /\ reachable \subseteq Included(document)
  BY DEF LinkageIInv, Verdict, TypeOK
<1>2. followed = Linkage(document, P \cup reachable)
  <2>1. ItemsOf(queue) = {}
    BY <1>1 DEF ItemsOf
  <2> QED
    BY <2>1 DEF LinkageIInv, Frontier
<1>3. LinkageClosed(document, reachable)
  BY <1>2 DEF LinkageIInv, FollowedReached, LinkageClosed
<1>4. reachable = Linked(document)
  BY <1>1, <1>3 DEF LinkageIInv, OnlyLinkedReached, Linked
<1> QED
  BY <1>1, <1>4

\* The traversal stays within the document it was given.
THEOREM LinkageTypeCorrect == Spec => []TypeOK
<1>1. LinkageIInv => TypeOK
  BY DEF LinkageIInv
<1> QED
  BY <1>1, LinkageInitIInv, LinkageNextIInv, PTL DEF Spec

\* validateIncluded reports exactly the resources that are not linked from
\* primary data, for every document and every order in which Go ranges over
\* the relationships.
THEOREM LinkageExact == Spec => []ReportsUnlinkedExactly
BY IInvVerdict, LinkageInitIInv, LinkageNextIInv, PTL DEF Spec

\* No identifier is followed twice, so the traversal of any document makes at
\* most as many iterations as the document contains identifiers.
THEOREM NothingFollowedTwice == Spec => []FollowsOnce
<1>1. LinkageIInv => FollowsOnce
  BY DEF LinkageIInv
<1> QED
  BY <1>1, LinkageInitIInv, LinkageNextIInv, PTL DEF Spec


-----------------------------------------------------------------------------
(* The identities: the inductive invariant *)

\* canonical maps every name of the resources passed to the first that has it.
CanonicalExact ==
  /\ DOMAIN canonical = UNION {Keys(j) : j \in 1..(resource - 1)}
  /\ \A key \in DOMAIN canonical :
       /\ canonical[key] \in 1..(resource - 1)
       /\ key \in Keys(canonical[key])
       /\ \A i \in 1..(canonical[key] - 1) : key \notin Keys(i)

DuplicatesPassed ==
  \A d \in duplicates : d \in (1..(resource - 1)) \X (1..(resource - 1))

RepresentationsPassed ==
  {Identity(document.resources[k]) : k \in 1..(resource - 1)}
  \cup UNION {ItemsOf(document.resources[k].linkage) : k \in 1..(resource - 1)}

ObservationsPassed == ItemsOf(observations) = RepresentationsPassed

KeyIn(o, domain) == IF domain = "id" THEN IdKey(o) ELSE LidKey(o)

OtherIn(o, domain) == IF domain = "id" THEN o.lid ELSE o.id

\* names holds, for the keys of a domain, the other name each was first seen
\* with among the first n of the observations, and one of these is in conflict
\* exactly if it has a different one.
FirstNames(names, obs, n, reported, domain) ==
  /\ \A key \in DOMAIN names :
       \E q \in 1..n :
         /\ NamesBoth(obs[q])
         /\ key = KeyIn(obs[q], domain)
         /\ names[key] = OtherIn(obs[q], domain)
  /\ \A p \in 1..n :
       NamesBoth(obs[p]) =>
         /\ KeyIn(obs[p], domain) \in DOMAIN names
         /\ <<p, domain>> \in reported
              <=> names[KeyIn(obs[p], domain)] # OtherIn(obs[p], domain)

ConflictsPassed ==
  \A c \in conflicts :
    /\ c \in (1..(observation - 1)) \X {"id", "lid"}
    /\ NamesBoth(observations[c[1]])

NamesRecorded ==
  /\ FirstNames(byID, observations, observation - 1, conflicts, "id")
  /\ FirstNames(byLID, observations, observation - 1, conflicts, "lid")
  /\ ConflictsPassed
  /\ resource <= Len(document.resources) => observation = 1

IdentityIInv ==
  /\ IdentityTypeOK /\ CanonicalExact /\ DuplicatesPassed /\ DuplicatesExactly
  /\ ObservationsPassed /\ NamesRecorded

-----------------------------------------------------------------------------
(* Lemmas *)

LEMMA ResourcesOfDocument ==
  ASSUME NEW d, IsDocument(d)
  PROVE  /\ Len(d.resources) \in Nat
         /\ DOMAIN d.resources = 1..Len(d.resources)
         /\ \A k \in DOMAIN d.resources :
              d.resources[k].linkage \in Seq(ItemsOf(d.resources[k].linkage))
<1>2. d.resources \in Seq(ItemsOf(d.resources))
  BY DEF IsDocument
<1>3. Len(d.resources) \in Nat /\ DOMAIN d.resources = 1..Len(d.resources)
  BY <1>2
<1>4. \A k \in DOMAIN d.resources : d.resources[k] \in ItemsOf(d.resources)
  BY DEF ItemsOf
<1> QED
  BY <1>3, <1>4 DEF IsDocument

\* Appending keeps what was there and adds what is appended.
LEMMA AppendItems ==
  ASSUME NEW A, NEW s \in Seq(A), NEW x \in A, NEW t \in Seq(A)
  PROVE  /\ Append(s, x) \o t \in Seq(A)
         /\ ItemsOf(Append(s, x) \o t) = ItemsOf(s) \cup {x} \cup ItemsOf(t)
         /\ Len(Append(s, x) \o t) >= Len(s)
<1> DEFINE m == Len(s)
           n == Len(t)
           u == Append(s, x) \o t
<1>1. /\ m \in Nat /\ n \in Nat /\ u \in Seq(A) /\ Len(u) = m + 1 + n
      /\ DOMAIN s = 1..m /\ DOMAIN t = 1..n /\ DOMAIN u = 1..(m + 1 + n)
  OBVIOUS
<1>2. /\ \A p \in 1..m : u[p] = s[p]
      /\ u[m + 1] = x
      /\ \A p \in (m + 2)..(m + 1 + n) : u[p] = t[p - (m + 1)]
  OBVIOUS
<1>3. \A p \in DOMAIN u :
        \/ p \in 1..m /\ u[p] = s[p]
        \/ u[p] = x
        \/ p - (m + 1) \in 1..n /\ u[p] = t[p - (m + 1)]
  <2> SUFFICES ASSUME NEW p \in 1..(m + 1 + n), p > m + 1
               PROVE  p - (m + 1) \in 1..n /\ u[p] = t[p - (m + 1)]
    BY <1>1, <1>2
  <2>1. p \in (m + 2)..(m + 1 + n) /\ p - (m + 1) \in 1..n
    BY <1>1
  <2> QED
    BY <1>2, <2>1
<1>4. \A p \in 1..n : p + (m + 1) \in DOMAIN u /\ u[p + (m + 1)] = t[p]
  <2> TAKE p \in 1..n
  <2>1. p + (m + 1) \in (m + 2)..(m + 1 + n) /\ (p + (m + 1)) - (m + 1) = p
    BY <1>1
  <2> QED
    BY <1>1, <1>2, <2>1
<1>5. ItemsOf(u) \subseteq ItemsOf(s) \cup {x} \cup ItemsOf(t)
  BY <1>1, <1>3 DEF ItemsOf
<1>6. ItemsOf(s) \subseteq ItemsOf(u) /\ x \in ItemsOf(u)
  <2>1. (\A p \in 1..m : p \in DOMAIN u) /\ m + 1 \in DOMAIN u
    BY <1>1
  <2> QED
    BY <1>1, <1>2, <2>1 DEF ItemsOf
<1>7. ItemsOf(t) \subseteq ItemsOf(u)
  BY <1>1, <1>4 DEF ItemsOf
<1> QED
  BY <1>1, <1>5, <1>6, <1>7

-----------------------------------------------------------------------------
(* The invariant holds initially *)

LEMMA IdentityInitIInv == IdentityInit => IdentityIInv
<1> SUFFICES ASSUME IdentityInit PROVE IdentityIInv
  OBVIOUS
<1> USE DEF IdentityInit, IdentityStart
<1>1. IsDocument(document) /\ Len(document.resources) \in Nat
  BY ResourcesOfDocument, DocumentsWellFormed
<1>2. DOMAIN Empty = {} /\ ItemsOf(<<>>) = {}
  BY DEF Empty, ItemsOf
<1>3. IdentityTypeOK
  <2>1. resource \in 1..(Len(document.resources) + 1)
    BY <1>1
  <2>2. observations \in Seq(Representations) /\ Len(observations) = 0
    OBVIOUS
  <2>3. observation \in 1..(Len(observations) + 1)
    BY <2>2
  <2> QED
    BY <1>1, <1>2, <2>1, <2>2, <2>3 DEF IdentityTypeOK
<1>4. 1..(resource - 1) = {} /\ 1..(observation - 1) = {}
  OBVIOUS
<1>5. CanonicalExact
  BY <1>2, <1>4 DEF CanonicalExact
<1>6. DuplicatesPassed /\ DuplicatesExactly
  BY <1>4 DEF DuplicatesPassed, DuplicatesExactly
<1>7. ObservationsPassed
  BY <1>2, <1>4 DEF ObservationsPassed, RepresentationsPassed
<1>8. NamesRecorded
  BY <1>2, <1>4 DEF NamesRecorded, FirstNames, ConflictsPassed
<1> QED
  BY <1>3, <1>5, <1>6, <1>7, <1>8 DEF IdentityIInv

-----------------------------------------------------------------------------
(* The first loop *)

LEMMA CheckResourceIInv == IdentityIInv /\ CheckResource => IdentityIInv'
<1> SUFFICES ASSUME IdentityIInv, CheckResource PROVE IdentityIInv'
  OBVIOUS
<1> DEFINE r == document.resources[resource]
           known == ResourceKeys(r) \cap DOMAIN canonical
           of == canonical[KnownName(r, known)]
<1>1. /\ resource <= Len(document.resources)
      /\ duplicates' = IF known = {} THEN duplicates ELSE duplicates \cup {<<resource, of>>}
      /\ canonical' = FirstSeen(canonical, ResourceKeys(r), resource)
      /\ observations' = Append(observations, Identity(r)) \o r.linkage
      /\ resource' = resource + 1
      /\ UNCHANGED <<document, observation, byID, byLID, conflicts>>
  BY DEF CheckResource
<1>2. /\ IdentityTypeOK /\ CanonicalExact /\ DuplicatesPassed /\ DuplicatesExactly
      /\ ObservationsPassed /\ NamesRecorded
  BY DEF IdentityIInv
<1>3. /\ Len(document.resources) \in Nat
      /\ DOMAIN document.resources = 1..Len(document.resources)
      /\ r.linkage \in Seq(ItemsOf(r.linkage))
      /\ resource \in DOMAIN document.resources /\ resource \in Nat \ {0}
  <2>1. /\ IsDocument(document)
        /\ resource \in 1..(Len(document.resources) + 1)
    BY <1>2 DEF IdentityTypeOK
  <2>2. Len(document.resources) \in Nat /\ DOMAIN document.resources = 1..Len(document.resources)
    BY <2>1, ResourcesOfDocument
  <2>3. resource \in DOMAIN document.resources /\ resource \in Nat \ {0}
    BY <1>1, <2>1, <2>2
  <2> QED
    BY <2>1, <2>2, <2>3, ResourcesOfDocument
<1>4. 1..(resource' - 1) = (1..(resource - 1)) \cup {resource}
  BY <1>1, <1>3
<1>5. \A k : Keys(k)' = Keys(k)
  BY <1>1 DEF Keys
<1>6. Keys(resource) = ResourceKeys(r)
  BY DEF Keys
<1>7. CanonicalExact'
  <2>1. /\ DOMAIN canonical' = DOMAIN canonical \cup Keys(resource)
        /\ \A key \in DOMAIN canonical : canonical'[key] = canonical[key]
        /\ \A key \in Keys(resource) \ DOMAIN canonical : canonical'[key] = resource
    BY <1>1, <1>6 DEF FirstSeen
  <2>2. DOMAIN canonical = UNION {Keys(j) : j \in 1..(resource - 1)}
    BY <1>2 DEF CanonicalExact
  <2>3. DOMAIN canonical' = UNION {Keys(j) : j \in 1..(resource' - 1)}
    BY <1>4, <2>1, <2>2
  <2>4. ASSUME NEW key \in DOMAIN canonical
        PROVE  /\ canonical'[key] \in 1..(resource' - 1)
               /\ key \in Keys(canonical'[key])
               /\ \A i \in 1..(canonical'[key] - 1) : key \notin Keys(i)
    BY <1>2, <1>4, <2>1 DEF CanonicalExact
  <2>5. ASSUME NEW key \in Keys(resource) \ DOMAIN canonical
        PROVE  /\ canonical'[key] \in 1..(resource' - 1)
               /\ key \in Keys(canonical'[key])
               /\ \A i \in 1..(canonical'[key] - 1) : key \notin Keys(i)
    BY <1>4, <2>1, <2>2
  <2>6. \A key \in DOMAIN canonical' :
          /\ canonical'[key] \in 1..(resource' - 1)
          /\ key \in Keys(canonical'[key])
          /\ \A i \in 1..(canonical'[key] - 1) : key \notin Keys(i)
    BY <2>1, <2>4, <2>5
  <2> QED
    BY <1>5, <2>3, <2>6 DEF CanonicalExact
<1>8. known # {} =>
        /\ KnownName(r, known) \in known
        /\ of \in 1..(resource - 1)
        /\ KnownName(r, known) \in Keys(of)
        /\ \A i \in 1..(of - 1) : KnownName(r, known) \notin Keys(i)
  <2> SUFFICES ASSUME known # {} PROVE KnownName(r, known) \in known
    BY <1>2 DEF CanonicalExact
  <2> QED
    BY DEF KnownName, ResourceKeys
<1>9. DuplicatesPassed'
  <2>1. \A d \in duplicates' : d \in duplicates \/ (known # {} /\ d = <<resource, of>>)
    BY <1>1
  <2>2. duplicates \subseteq (1..(resource' - 1)) \X (1..(resource' - 1))
    BY <1>2, <1>4 DEF DuplicatesPassed
  <2>3. known # {} => <<resource, of>> \in (1..(resource' - 1)) \X (1..(resource' - 1))
    BY <1>4, <1>8
  <2> QED
    BY <2>1, <2>2, <2>3 DEF DuplicatesPassed
<1>10. DuplicatesExactly'
  <2>1. Resources' = Resources
    BY <1>1 DEF Resources
  <2>2. \A k \in 1..(resource - 1) : \A j : <<k, j>> \in duplicates' <=> <<k, j>> \in duplicates
    BY <1>1, <1>3
  <2>3. \A j : <<resource, j>> \in duplicates' <=> known # {} /\ j = of
    <3>1. \A j : <<resource, j>> \notin duplicates
      BY <1>2, <1>3 DEF DuplicatesPassed
    <3> QED
      BY <1>1, <3>1
  <2>4. known # {} <=> \E j \in 1..(resource - 1) : Keys(j) \cap Keys(resource) # {}
    BY <1>2, <1>6 DEF CanonicalExact
  <2>5. known # {} => of \in Resources
    BY <1>3, <1>8 DEF Resources
  <2>6. /\ (\E j \in Resources : <<resource, j>> \in duplicates')
              <=> \E j \in 1..(resource - 1) : Keys(j) \cap Keys(resource) # {}
        /\ \A j \in Resources : <<resource, j>> \in duplicates' =>
             /\ j < resource
             /\ \E key \in Keys(j) \cap Keys(resource) : \A i \in 1..(j - 1) : key \notin Keys(i)
    <3>1. known # {} => of < resource
      BY <1>3, <1>8
    <3>2. known # {} => KnownName(r, known) \in Keys(of) \cap Keys(resource)
      BY <1>6, <1>8
    <3>3. known # {} =>
            \E key \in Keys(of) \cap Keys(resource) : \A i \in 1..(of - 1) : key \notin Keys(i)
      BY <1>8, <3>2
    <3> HIDE DEF known, of
    <3>4. (\E j \in Resources : <<resource, j>> \in duplicates') <=> known # {}
      BY <2>3, <2>5
    <3>5. \A j \in Resources : <<resource, j>> \in duplicates' => known # {} /\ j = of
      BY <2>3
    <3> QED
      BY <2>4, <3>1, <3>3, <3>4, <3>5
  <2>7. \A k \in 1..(resource - 1) :
          /\ (\E j \in Resources : <<k, j>> \in duplicates')
                <=> \E j \in 1..(k - 1) : Keys(j) \cap Keys(k) # {}
          /\ \A j \in Resources : <<k, j>> \in duplicates' =>
               /\ j < k
               /\ \E key \in Keys(j) \cap Keys(k) : \A i \in 1..(j - 1) : key \notin Keys(i)
    BY <1>2, <2>2 DEF DuplicatesExactly
  <2>8. \A k \in 1..resource :
          /\ (\E j \in Resources : <<k, j>> \in duplicates')
                <=> \E j \in 1..(k - 1) : Keys(j) \cap Keys(k) # {}
          /\ \A j \in Resources : <<k, j>> \in duplicates' =>
               /\ j < k
               /\ \E key \in Keys(j) \cap Keys(k) : \A i \in 1..(j - 1) : key \notin Keys(i)
    <3> TAKE k \in 1..resource
    <3>1. CASE k = resource
      BY <2>6, <3>1
    <3>2. CASE k # resource
      <4>1. k \in 1..(resource - 1)
        BY <3>2, <1>3
      <4> QED
        BY <2>7, <4>1
    <3> QED
      BY <3>1, <3>2
  <2>9. resource' - 1 = resource
    BY <1>1, <1>3
  <2> SUFFICES ASSUME NEW k \in 1..resource
      PROVE  /\ (\E j \in Resources' : <<k, j>> \in duplicates')
                  <=> \E j \in 1..(k - 1) : Keys(j)' \cap Keys(k)' # {}
             /\ \A j \in Resources' : <<k, j>> \in duplicates' =>
                  /\ j < k
                  /\ \E key \in Keys(j)' \cap Keys(k)' : \A i \in 1..(j - 1) : key \notin Keys(i)'
    BY <2>9 DEF DuplicatesExactly
  <2> HIDE DEF r, known, of
  <2> QED
    BY <1>5, <2>1, <2>8
<1>11. /\ observations' \in Seq(Representations)
       /\ ItemsOf(observations') = ItemsOf(observations) \cup {Identity(r)} \cup ItemsOf(r.linkage)
       /\ Len(observations') >= Len(observations)
  <2>1. Identity(r) \in Representations /\ ItemsOf(r.linkage) \subseteq Representations
    BY <1>3 DEF Representations, Resources
  <2>2. r.linkage \in Seq(Representations)
    BY <1>3, <2>1
  <2>3. observations \in Seq(Representations)
    BY <1>2 DEF IdentityTypeOK
  <2>4. Identity(r) \in Representations
    BY <2>1
  <2> DEFINE all == Append(observations, Identity(r)) \o r.linkage
  <2>5. /\ all \in Seq(Representations)
        /\ ItemsOf(all) = ItemsOf(observations) \cup {Identity(r)} \cup ItemsOf(r.linkage)
        /\ Len(all) >= Len(observations)
    <3> HIDE DEF r
    <3> QED
      BY <2>2, <2>3, <2>4, AppendItems
  <2>6. observations' = all
    BY <1>1
  <2> HIDE DEF all
  <2> QED
    BY <2>5, <2>6 DEF ItemsOf
<1>12. IdentityTypeOK'
  <2>1. Representations' = Representations /\ Resources' = Resources
    BY <1>1 DEF Representations, Resources
  <2>2. resource' \in 1..(Len(document.resources') + 1)
    BY <1>1, <1>3
  <2>3. duplicates' \subseteq Resources \X Resources
    <3>1. known # {} => <<resource, of>> \in Resources \X Resources
      BY <1>3, <1>8 DEF Resources
    <3> QED
      BY <1>1, <1>2, <3>1 DEF IdentityTypeOK
  <2>4. observation' \in 1..(Len(observations') + 1)
    <3>1. observation' = 1
      BY <1>1, <1>2 DEF NamesRecorded
    <3>2. Len(observations') \in Nat
      BY <1>11
    <3> QED
      BY <3>1, <3>2
  <2> QED
    BY <1>1, <1>2, <1>7, <1>11, <2>1, <2>2, <2>3, <2>4 DEF IdentityTypeOK, CanonicalExact
<1>13. ObservationsPassed'
  <2>1. RepresentationsPassed' = RepresentationsPassed \cup {Identity(r)} \cup ItemsOf(r.linkage)
    BY <1>1, <1>4 DEF RepresentationsPassed
  <2> QED
    BY <1>2, <1>11, <2>1 DEF ObservationsPassed
<1>14. NamesRecorded'
  <2>1. observation = 1
    BY <1>1, <1>2 DEF NamesRecorded
  <2>2. 1..(observation - 1) = {} /\ 1..(observation' - 1) = {}
    BY <1>1, <2>1
  <2> QED
    BY <1>1, <1>2, <2>1, <2>2 DEF NamesRecorded, FirstNames, ConflictsPassed
<1> QED
  BY <1>7, <1>9, <1>10, <1>12, <1>13, <1>14 DEF IdentityIInv

-----------------------------------------------------------------------------
(* The second loop *)

\* One more observation that names both, checked against and recorded in names.
LEMMA FirstNamesStep ==
  ASSUME NEW names, NEW obs, NEW n \in Nat, NEW reported, NEW now, NEW domain,
         FirstNames(names, obs, n, reported, domain),
         NamesBoth(obs[n + 1]),
         \A p \in 1..n : <<p, domain>> \in now <=> <<p, domain>> \in reported,
         <<n + 1, domain>> \in now
           <=> Contradicts(names, KeyIn(obs[n + 1], domain), OtherIn(obs[n + 1], domain))
  PROVE  FirstNames(FirstSeen(names, {KeyIn(obs[n + 1], domain)}, OtherIn(obs[n + 1], domain)),
                    obs, n + 1, now, domain)
<1> DEFINE key == KeyIn(obs[n + 1], domain)
           other == OtherIn(obs[n + 1], domain)
           next == FirstSeen(names, {key}, other)
<1>1. /\ DOMAIN next = DOMAIN names \cup {key}
      /\ \A k \in DOMAIN names : next[k] = names[k]
      /\ key \notin DOMAIN names => next[key] = other
  BY DEF FirstSeen
<1>2. 1..(n + 1) = (1..n) \cup {n + 1} /\ n + 1 \notin 1..n
  OBVIOUS
<1> HIDE DEF key, other, next
<1>3. \A k \in DOMAIN names :
        \E q \in 1..n : NamesBoth(obs[q]) /\ k = KeyIn(obs[q], domain)
                       /\ next[k] = OtherIn(obs[q], domain)
  BY <1>1 DEF FirstNames
<1>4. key \notin DOMAIN names =>
        NamesBoth(obs[n + 1]) /\ key = KeyIn(obs[n + 1], domain)
        /\ next[key] = OtherIn(obs[n + 1], domain)
  BY <1>1 DEF key, other
<1>5. \A k \in DOMAIN next :
        \E q \in 1..(n + 1) : NamesBoth(obs[q]) /\ k = KeyIn(obs[q], domain)
                             /\ next[k] = OtherIn(obs[q], domain)
  BY <1>1, <1>2, <1>3, <1>4
<1>6. \A p \in 1..n : NamesBoth(obs[p]) =>
        /\ KeyIn(obs[p], domain) \in DOMAIN next
        /\ <<p, domain>> \in now <=> next[KeyIn(obs[p], domain)] # OtherIn(obs[p], domain)
  BY <1>1 DEF FirstNames
<1>7. /\ key \in DOMAIN next
      /\ <<n + 1, domain>> \in now <=> next[key] # other
  BY <1>1 DEF Contradicts, key, other
<1>8. \A p \in 1..(n + 1) : NamesBoth(obs[p]) =>
        /\ KeyIn(obs[p], domain) \in DOMAIN next
        /\ <<p, domain>> \in now <=> next[KeyIn(obs[p], domain)] # OtherIn(obs[p], domain)
  BY <1>2, <1>6, <1>7 DEF key, other
<1>9. FirstNames(next, obs, n + 1, now, domain)
  BY <1>5, <1>8 DEF FirstNames
<1> QED
  BY <1>9 DEF next, key, other

LEMMA CheckObservationIInv == IdentityIInv /\ CheckObservation => IdentityIInv'
<1> SUFFICES ASSUME IdentityIInv, CheckObservation PROVE IdentityIInv'
  OBVIOUS
<1> DEFINE o == observations[observation]
           n == observation - 1
<1>1. /\ resource > Len(document.resources)
      /\ observation <= Len(observations)
      /\ observation' = observation + 1
      /\ UNCHANGED <<document, resource, canonical, observations, duplicates>>
  BY DEF CheckObservation, pass
<1>2. /\ IdentityTypeOK /\ CanonicalExact /\ DuplicatesPassed /\ DuplicatesExactly
      /\ ObservationsPassed /\ NamesRecorded
  BY DEF IdentityIInv
<1>3. /\ Len(observations) \in Nat /\ observation \in 1..Len(observations)
      /\ n \in Nat /\ n + 1 = observation
      /\ observation' - 1 = observation
      /\ resource \in Nat /\ Len(document.resources) \in Nat
  <2>1. Len(document.resources) \in Nat
    BY <1>2, ResourcesOfDocument DEF IdentityTypeOK
  <2>2. Len(observations) \in Nat /\ observation \in 1..(Len(observations) + 1)
    BY <1>2 DEF IdentityTypeOK
  <2>3. observation \in 1..Len(observations) /\ resource \in Nat
    BY <1>1, <1>2, <2>1, <2>2 DEF IdentityTypeOK
  <2> QED
    BY <1>1, <2>1, <2>2, <2>3
<1>4. CanonicalExact' /\ DuplicatesPassed' /\ DuplicatesExactly' /\ ObservationsPassed'
  <2>1. (\A k : Keys(k)' = Keys(k)) /\ Resources' = Resources
        /\ ItemsOf(observations)' = ItemsOf(observations)
        /\ RepresentationsPassed' = RepresentationsPassed
    BY <1>1 DEF Keys, Resources, ItemsOf, RepresentationsPassed
  <2>2. CanonicalExact'
    BY <1>1, <1>2, <2>1 DEF CanonicalExact
  <2>3. DuplicatesPassed'
    BY <1>1, <1>2 DEF DuplicatesPassed
  <2>4. DuplicatesExactly'
    BY <1>1, <1>2, <2>1 DEF DuplicatesExactly
  <2>5. ObservationsPassed'
    BY <1>2, <2>1 DEF ObservationsPassed
  <2> QED
    BY <2>2, <2>3, <2>4, <2>5
<1>5. /\ IsDocument(document')
      /\ resource' \in 1..(Len(document.resources') + 1)
      /\ \A key \in DOMAIN canonical' : canonical'[key] \in 1..(resource' - 1)
      /\ observations' \in Seq(Representations')
      /\ duplicates' \subseteq Resources' \X Resources'
      /\ observation' \in 1..(Len(observations') + 1)
  <2>1. Representations' = Representations /\ Resources' = Resources
    BY <1>1 DEF Representations, Resources
  <2>2. observation' \in 1..(Len(observations) + 1)
    BY <1>1, <1>3
  <2> QED
    BY <1>1, <1>2, <2>1, <2>2 DEF IdentityTypeOK
<1>6. ~(resource' <= Len(document.resources'))
  BY <1>1, <1>3
<1>7. CASE ~NamesBoth(o)
  <2>1. UNCHANGED <<byID, byLID, conflicts>>
    BY <1>7 DEF CheckObservation
  <2>2. 1..observation = (1..n) \cup {observation}
    BY <1>3
  <2>3. ConflictsPassed'
    BY <1>1, <1>2, <1>3, <2>1, <2>2 DEF NamesRecorded, ConflictsPassed
  <2>4. \A names, domain : FirstNames(names, observations, n, conflicts, domain)
                            => FirstNames(names, observations, observation, conflicts, domain)
    BY <1>3, <1>7, <2>2 DEF FirstNames
  <2>5. NamesRecorded'
    BY <1>1, <1>2, <1>3, <1>6, <2>1, <2>3, <2>4 DEF NamesRecorded
  <2>6. IdentityTypeOK'
    BY <1>2, <1>5, <2>1 DEF IdentityTypeOK
  <2> QED
    BY <1>4, <2>5, <2>6 DEF IdentityIInv
<1>8. CASE NamesBoth(o)
  <2> DEFINE new == {<<observation, name>> : name \in {m \in {"id", "lid"} :
                       \/ m = "id"  /\ Contradicts(byID, IdKey(o), o.lid)
                       \/ m = "lid" /\ Contradicts(byLID, LidKey(o), o.id)}}
  <2>1. /\ conflicts' = conflicts \cup new
        /\ byID' = FirstSeen(byID, {IdKey(o)}, o.lid)
        /\ byLID' = FirstSeen(byLID, {LidKey(o)}, o.id)
    BY <1>8 DEF CheckObservation
  <2>2. \A c \in conflicts : c \in (1..n) \X {"id", "lid"} /\ NamesBoth(observations[c[1]])
    BY <1>2 DEF NamesRecorded, ConflictsPassed
  <2>3. \A c \in new : c[1] = observation /\ c \in {observation} \X {"id", "lid"}
    OBVIOUS
  <2>4. ConflictsPassed'
    <3>1. (1..n) \subseteq 1..observation /\ observation \in 1..observation
      BY <1>3
    <3>2. \A c \in conflicts' : /\ c \in (1..observation) \X {"id", "lid"}
                               /\ NamesBoth(observations[c[1]])
      BY <1>8, <2>1, <2>2, <2>3, <3>1
    <3> QED
      BY <1>1, <1>3, <3>2 DEF ConflictsPassed
  <2>5. /\ \A p \in 1..n : \A domain : <<p, domain>> \in conflicts' <=> <<p, domain>> \in conflicts
        /\ <<observation, "id">> \in conflicts' <=> Contradicts(byID, IdKey(o), o.lid)
        /\ <<observation, "lid">> \in conflicts' <=> Contradicts(byLID, LidKey(o), o.id)
    <3>1. observation \notin 1..n
      BY <1>3
    <3>2. \A domain : <<observation, domain>> \notin conflicts
      BY <2>2, <3>1
    <3>3. \A p \in 1..n : \A domain : <<p, domain>> \notin new
      BY <2>3, <3>1
    <3>4. /\ <<observation, "id">> \in new <=> Contradicts(byID, IdKey(o), o.lid)
          /\ <<observation, "lid">> \in new <=> Contradicts(byLID, LidKey(o), o.id)
      OBVIOUS
    <3> QED
      BY <2>1, <3>2, <3>3, <3>4
  <2>6. /\ KeyIn(o, "id") = IdKey(o) /\ OtherIn(o, "id") = o.lid
        /\ KeyIn(o, "lid") = LidKey(o) /\ OtherIn(o, "lid") = o.id
    BY DEF KeyIn, OtherIn
  <2> HIDE DEF new
  <2>7. FirstNames(byID', observations, observation, conflicts', "id")
    <3>1. FirstNames(byID, observations, n, conflicts, "id")
      BY <1>2 DEF NamesRecorded
    <3>2. FirstNames(FirstSeen(byID, {KeyIn(o, "id")}, OtherIn(o, "id")),
                     observations, n + 1, conflicts', "id")
      BY <1>3, <1>8, <2>5, <2>6, <3>1, FirstNamesStep
    <3> QED
      BY <1>3, <2>1, <2>6, <3>2
  <2>8. FirstNames(byLID', observations, observation, conflicts', "lid")
    <3>1. FirstNames(byLID, observations, n, conflicts, "lid")
      BY <1>2 DEF NamesRecorded
    <3>2. FirstNames(FirstSeen(byLID, {KeyIn(o, "lid")}, OtherIn(o, "lid")),
                     observations, n + 1, conflicts', "lid")
      BY <1>3, <1>8, <2>5, <2>6, <3>1, FirstNamesStep
    <3> QED
      BY <1>3, <2>1, <2>6, <3>2
  <2>9. NamesRecorded'
    BY <1>1, <1>3, <1>6, <2>4, <2>7, <2>8 DEF NamesRecorded
  <2>10. /\ \A key \in DOMAIN byID' : Present(byID'[key])
         /\ \A key \in DOMAIN byLID' : Present(byLID'[key])
    <3>1. \A p : NamesBoth(observations[p]) =>
            Present(OtherIn(observations[p], "id")) /\ Present(OtherIn(observations[p], "lid"))
      BY DEF NamesBoth, OtherIn
    <3> QED
      BY <2>7, <2>8, <3>1 DEF FirstNames
  <2>11. conflicts' \subseteq Nat \X {"id", "lid"}
    BY <1>2, <1>3, <2>1, <2>3 DEF IdentityTypeOK
  <2>12. IdentityTypeOK'
    BY <1>5, <2>10, <2>11 DEF IdentityTypeOK
  <2> QED
    BY <1>4, <2>9, <2>12 DEF IdentityIInv
<1> QED
  BY <1>7, <1>8

LEMMA IdentityNextIInv == IdentityIInv /\ [IdentityNext]_identityVars => IdentityIInv'
<1>1. ASSUME IdentityIInv, UNCHANGED identityVars PROVE IdentityIInv'
  <2>1. /\ (\A k : Keys(k)' = Keys(k)) /\ Resources' = Resources
        /\ ItemsOf(observations)' = ItemsOf(observations)
        /\ RepresentationsPassed' = RepresentationsPassed
        /\ Representations' = Representations
    BY <1>1 DEF identityVars, Keys, Resources, ItemsOf, RepresentationsPassed, Representations
  <2>2. IdentityTypeOK'
    BY <1>1, <2>1 DEF identityVars, IdentityIInv, IdentityTypeOK
  <2>3. CanonicalExact'
    BY <1>1, <2>1 DEF identityVars, IdentityIInv, CanonicalExact
  <2>4. DuplicatesPassed'
    BY <1>1 DEF identityVars, IdentityIInv, DuplicatesPassed
  <2>5. DuplicatesExactly'
    BY <1>1, <2>1 DEF identityVars, IdentityIInv, DuplicatesExactly
  <2>6. ObservationsPassed'
    BY <1>1, <2>1 DEF identityVars, IdentityIInv, ObservationsPassed
  <2>7. NamesRecorded'
    BY <1>1 DEF identityVars, IdentityIInv, NamesRecorded, FirstNames, ConflictsPassed
  <2> QED
    BY <2>2, <2>3, <2>4, <2>5, <2>6, <2>7 DEF IdentityIInv
<1> QED
  BY <1>1, CheckResourceIInv, CheckObservationIInv DEF IdentityNext

-----------------------------------------------------------------------------
(* The theorems *)

LEMMA WhenDone ==
  ASSUME IdentityIInv, IdentityDone
  PROVE  /\ ItemsOf(observations) = Representations
         /\ 1..(resource - 1) = Resources
         /\ 1..(observation - 1) = DOMAIN observations
<1>1. /\ Len(document.resources) \in Nat
      /\ Resources = 1..Len(document.resources)
  BY ResourcesOfDocument DEF IdentityIInv, IdentityTypeOK, Resources
<1>2. resource = Len(document.resources) + 1
  BY <1>1 DEF IdentityIInv, IdentityTypeOK, IdentityDone
<1>3. 1..(resource - 1) = Resources
  BY <1>1, <1>2
<1>4. RepresentationsPassed = Representations
  BY <1>3 DEF RepresentationsPassed, Representations
<1>5. /\ Len(observations) \in Nat /\ DOMAIN observations = 1..Len(observations)
      /\ observation \in 1..(Len(observations) + 1)
  BY DEF IdentityIInv, IdentityTypeOK
<1>6. observation - 1 = Len(observations)
  BY <1>5 DEF IdentityDone
<1> QED
  BY <1>3, <1>4, <1>5, <1>6 DEF IdentityIInv, ObservationsPassed

LEMMA IInvConflicts == IdentityIInv => ConflictsExactly
<1> DEFINE Clash(o, p) ==
             NamesBoth(o) /\ NamesBoth(p) /\ o.type = p.type /\ (o.id = p.id) # (o.lid = p.lid)
<1> SUFFICES ASSUME IdentityIInv, IdentityDone
             PROVE  conflicts # {} <=> \E o, p \in Representations : Clash(o, p)
  BY DEF ConflictsExactly
<1>1. \A o : o \in Representations <=> \E p \in 1..(observation - 1) : o = observations[p]
  BY WhenDone DEF ItemsOf
<1>2. /\ FirstNames(byID, observations, observation - 1, conflicts, "id")
      /\ FirstNames(byLID, observations, observation - 1, conflicts, "lid")
      /\ ConflictsPassed
  BY DEF IdentityIInv, NamesRecorded
<1>3. ASSUME NEW c \in conflicts
      PROVE  \E o, p \in Representations : Clash(o, p)
  <2>1. /\ c[1] \in 1..(observation - 1) /\ c = <<c[1], c[2]>>
        /\ c[2] \in {"id", "lid"} /\ NamesBoth(observations[c[1]])
    BY <1>2 DEF ConflictsPassed
  <2> DEFINE o == observations[c[1]]
  <2>2. CASE c[2] = "id"
    <3>1. byID[KeyIn(o, "id")] # OtherIn(o, "id") /\ KeyIn(o, "id") \in DOMAIN byID
      BY <1>2, <2>1, <2>2 DEF FirstNames
    <3>2. PICK q \in 1..(observation - 1) :
            /\ NamesBoth(observations[q])
            /\ KeyIn(o, "id") = KeyIn(observations[q], "id")
            /\ byID[KeyIn(o, "id")] = OtherIn(observations[q], "id")
      BY <1>2, <3>1 DEF FirstNames
    <3>3. Clash(o, observations[q])
      BY <2>1, <3>1, <3>2 DEF KeyIn, OtherIn, IdKey
    <3> QED
      BY <1>1, <2>1, <3>3
  <2>3. CASE c[2] = "lid"
    <3>1. byLID[KeyIn(o, "lid")] # OtherIn(o, "lid") /\ KeyIn(o, "lid") \in DOMAIN byLID
      BY <1>2, <2>1, <2>3 DEF FirstNames
    <3>2. PICK q \in 1..(observation - 1) :
            /\ NamesBoth(observations[q])
            /\ KeyIn(o, "lid") = KeyIn(observations[q], "lid")
            /\ byLID[KeyIn(o, "lid")] = OtherIn(observations[q], "lid")
      BY <1>2, <3>1 DEF FirstNames
    <3>3. Clash(o, observations[q])
      BY <2>1, <3>1, <3>2 DEF KeyIn, OtherIn, LidKey
    <3> QED
      BY <1>1, <2>1, <3>3
  <2> QED
    BY <2>1, <2>2, <2>3
<1>4. ASSUME conflicts = {}, NEW o \in Representations, NEW p \in Representations, Clash(o, p)
      PROVE  FALSE
  <2>1. \A r \in Representations : NamesBoth(r) =>
          byID[KeyIn(r, "id")] = OtherIn(r, "id") /\ byLID[KeyIn(r, "lid")] = OtherIn(r, "lid")
    BY <1>1, <1>2, <1>4 DEF FirstNames
  <2>2. byID[IdKey(o)] = o.lid /\ byLID[LidKey(o)] = o.id
    BY <1>4, <2>1 DEF KeyIn, OtherIn
  <2>3. byID[IdKey(p)] = p.lid /\ byLID[LidKey(p)] = p.id
    BY <1>4, <2>1 DEF KeyIn, OtherIn
  <2>4. o.id = p.id => o.lid = p.lid
    BY <1>4, <2>2, <2>3 DEF IdKey
  <2>5. o.lid = p.lid => o.id = p.id
    BY <1>4, <2>2, <2>3 DEF LidKey
  <2> QED
    BY <1>4, <2>4, <2>5
<1> QED
  BY <1>3, <1>4

\* In a document whose identities are accepted no two resources share a name.
LEMMA NoSharedNames ==
  ASSUME IdentityIInv, Accepted, NEW key, NEW x \in Resources, NEW y \in Resources,
         key \in Keys(x), key \in Keys(y)
  PROVE  x = y
<1>1. Resources = 1..Len(document.resources) /\ Len(document.resources) \in Nat
  BY ResourcesOfDocument DEF IdentityIInv, IdentityTypeOK, Resources
<1>2. ASSUME NEW j \in Resources, NEW k \in Resources, key \in Keys(j), key \in Keys(k), j < k
      PROVE  FALSE
  <2>1. Keys(j) \cap Keys(k) # {} /\ j \in 1..(k - 1)
    BY <1>1, <1>2
  <2>2. k \in 1..(resource - 1)
    BY <1>1, WhenDone DEF Accepted
  <2>3. \E i \in Resources : <<k, i>> \in duplicates
    BY <2>1, <2>2 DEF IdentityIInv, DuplicatesExactly
  <2> QED
    BY <2>3 DEF Accepted
<1>3. x \in Nat /\ y \in Nat
  BY <1>1
<1>4. ~(x < y) /\ ~(y < x)
  BY <1>2
<1> QED
  BY <1>3, <1>4

LEMMA IncludedAreResources == IdentityIInv => Included(document) \subseteq Resources
<1> SUFFICES ASSUME IdentityIInv PROVE Included(document) \subseteq Resources
  OBVIOUS
<1>1. /\ document.primary \in 0..Len(document.resources) /\ Len(document.resources) \in Nat
      /\ Resources = 1..Len(document.resources)
  BY ResourcesOfDocument DEF IdentityIInv, IdentityTypeOK, IsDocument, Resources
<1> QED
  BY <1>1 DEF Included

LEMMA IInvLookups == IdentityIInv => LookupsUnambiguous
<1> SUFFICES ASSUME IdentityIInv, Accepted, NEW o \in Linkage(document, Resources),
                    NEW x \in Targets(document, o), NEW y \in Targets(document, o)
             PROVE  x = y
  BY DEF LookupsUnambiguous
<1> DEFINE key == IdentifierKey(IdentifierAt(document, o))
<1>1. x \in Resources /\ y \in Resources /\ key \in Keys(x) /\ key \in Keys(y)
  BY IncludedAreResources DEF Targets, Keys
<1> QED
  BY <1>1, NoSharedNames

\* The state of the identity passes is well formed throughout.
THEOREM IdentityTypeCorrect == IdentitySpec => []IdentityTypeOK
<1>1. IdentityIInv => IdentityTypeOK
  BY DEF IdentityIInv
<1> QED
  BY <1>1, IdentityInitIInv, IdentityNextIInv, PTL DEF IdentitySpec

\* validateDocumentIdentity reports a resource as a duplicate exactly when an
\* earlier resource carries one of its names, and points at the first one.
THEOREM DuplicatesAreExact == IdentitySpec => []DuplicatesExactly
<1>1. IdentityIInv => DuplicatesExactly
  BY DEF IdentityIInv
<1> QED
  BY <1>1, IdentityInitIInv, IdentityNextIInv, PTL DEF IdentitySpec

\* validateLocalIdentities finds a contradiction exactly when the document has
\* one, wherever in the document the two representations are.
THEOREM ConflictsAreExact == IdentitySpec => []ConflictsExactly
BY IInvConflicts, IdentityInitIInv, IdentityNextIInv, PTL DEF IdentitySpec

\* In a document whose identities are accepted, the index of validateIncluded
\* holds at most one resource for any identifier.
THEOREM LookupsAreUnambiguous == IdentitySpec => []LookupsUnambiguous
BY IInvLookups, IdentityInitIInv, IdentityNextIInv, PTL DEF IdentitySpec

-----------------------------------------------------------------------------
(* Both passes, on the same document *)

\* A pass leaves the state of the other alone, so whatever is proved of either of them
\* holds of validateDocument.
THEOREM PassesTraverse == PassesSpec => Spec
<1>1. PassesInit => Init
  BY DEF PassesInit
<1>2. [PassesNext]_passesVars => [Next]_vars
  BY DEF PassesNext, Passes, LinkagePass, IdentityPass, passesVars, Next
<1>3. QED
  BY <1>1, <1>2, PTL DEF PassesSpec, Spec

THEOREM PassesIdentify == PassesSpec => IdentitySpec
<1>1. PassesInit => IdentityInit
  BY DEF PassesInit, Init, IdentityInit
<1>2. [PassesNext]_passesVars => [IdentityNext]_identityVars
  BY DEF PassesNext, Passes, LinkagePass, IdentityPass, passesVars, IdentityNext
<1>3. QED
  BY <1>1, <1>2, PTL DEF PassesSpec, IdentitySpec

\* Whatever is reached has been found by an identifier that was followed.
FoundByFollowed == \A k \in reachable : \E o \in followed : k \in Targets(document, o)

LEMMA AlwaysFoundByFollowed == Spec => []FoundByFollowed
<1>1. Init => FoundByFollowed
  BY DEF Init, FoundByFollowed
<1>2. FoundByFollowed /\ [Next]_vars => FoundByFollowed'
  BY DEF FoundByFollowed, Next, Follow, Report, vars
<1>3. QED
  BY <1>1, <1>2, PTL DEF Spec

\* validateDocument accepts no included resource that cannot be reached by name: the
\* traversal has followed an identifier that finds it and, since the identity passes
\* have accepted too, finds nothing else.
THEOREM LeadsUnambiguously == PassesSpec => []LeadsToEachIncluded
<1>1. LinkageIInv /\ IdentityIInv /\ FoundByFollowed => LeadsToEachIncluded
  <2> SUFFICES ASSUME LinkageIInv, IdentityIInv, FoundByFollowed, Compound, ~sparse,
                      NEW k \in Included(document)
               PROVE  \E o \in followed :
                        {j \in Resources : IdentifierKey(IdentifierAt(document, o)) \in Keys(j)} = {k}
    BY DEF LeadsToEachIncluded
  <2>1. k \in reachable
    BY DEF LinkageIInv, Verdict, Compound, AllDone
  <2>2. PICK o \in followed : k \in Targets(document, o)
    BY <2>1 DEF FoundByFollowed
  <2> DEFINE key == IdentifierKey(IdentifierAt(document, o))
  <2>3. k \in Resources /\ key \in Keys(k)
    BY <2>2, IncludedAreResources DEF Targets, Keys
  <2>4. ASSUME NEW j \in Resources, key \in Keys(j) PROVE j = k
    BY <2>3, <2>4, NoSharedNames DEF Compound
  <2>5. QED
    BY <2>3, <2>4
<1>2. QED
  BY <1>1, PassesTraverse, PassesIdentify, LinkageInitIInv, LinkageNextIInv, IdentityInitIInv,
     IdentityNextIInv, AlwaysFoundByFollowed, PTL DEF Spec, IdentitySpec

-----------------------------------------------------------------------------
(* The structs of the codec: what is read of a struct is written of it *)

Flat == {"jsonapi", "identifier", "source", "reference", "link"}

\* What the tables of the codec say.
LEMMA FlatTypes ==
  ASSUME NEW kind \in Flat, NEW n \in DOMAIN Schema[kind]
  PROVE  Schema[kind][n] \in {"string", "strings", "free", "hreflang"}
<1>1. CASE kind = "jsonapi"
  BY <1>1 DEF Schema
<1>2. CASE kind = "identifier"
  BY <1>2 DEF Schema
<1>3. CASE kind = "source"
  BY <1>3 DEF Schema
<1>4. CASE kind = "reference"
  BY <1>4 DEF Schema
<1>5. CASE kind = "link"
  BY <1>5 DEF Schema
<1> QED
  BY <1>1, <1>2, <1>3, <1>4, <1>5 DEF Flat

LEMMA NestedTypes ==
  ASSUME NEW kind \in {"relationship", "error"}, NEW n \in DOMAIN Schema[kind]
  PROVE  Schema[kind][n] \in {"links", "linkage", "source", "string", "free"}
<1>1. CASE kind = "relationship"
  BY <1>1 DEF Schema
<1>2. CASE kind = "error"
  BY <1>2 DEF Schema
<1> QED
  BY <1>1, <1>2

LEMMA ResourceTypes ==
  ASSUME NEW n \in DOMAIN Schema["resource"]
  PROVE  /\ n # "relationships" => Schema["resource"][n] \in {"links", "string", "free"}
         /\ n = "relationships" => Schema["resource"][n] # "string"
  BY DEF Schema

LEMMA WholeTypes ==
  ASSUME NEW kind \in {"document", "operation", "result"}, NEW n \in DOMAIN Schema[kind]
  PROVE  Schema[kind][n] \in {"primary", "resources", "errors", "links", "jsonapi", "reference",
                              "string", "free"}
<1>1. CASE kind = "document"
  BY <1>1 DEF Schema
<1>2. CASE kind = "operation"
  BY <1>2 DEF Schema
<1>3. CASE kind = "result"
  BY <1>3 DEF Schema
<1> QED
  BY <1>1, <1>2, <1>3

LEMMA AlwaysAreStrings ==
  ASSUME NEW kind \in Structs
  PROVE  /\ Always(kind) \subseteq DOMAIN Schema[kind]
         /\ \A n \in Always(kind) : Schema[kind][n] = "string"
<1>1. CASE kind \in {"resource", "identifier", "reference"}
  BY <1>1 DEF Schema, Always
<1>2. CASE kind = "link"
  BY <1>2 DEF Schema, Always
<1>3. CASE kind = "operation"
  BY <1>3 DEF Schema, Always
<1>4. CASE kind \notin {"resource", "identifier", "reference", "link", "operation"}
  BY <1>4 DEF Always
<1> QED
  BY <1>1, <1>2, <1>3, <1>4

-----------------------------------------------------------------------------

LEMMA AllAreRead ==
  ASSUME NEW decoded, NEW value, AllOf(decoded, value) # Refused
  PROVE  /\ AllOf(decoded, value) = value
         /\ \A n \in DOMAIN decoded : decoded[n] # Refused
  BY DEF AllOf

\* A struct that has been decoded holds what has been read, and nothing else.
LEMMA MembersHeld ==
  ASSUME NEW kind, NEW j, NEW read, DOMAIN read = Known(kind, j),
         DecodeMembers(kind, j, read) # Refused
  PROVE  LET value == DecodeMembers(kind, j, read)
         IN /\ j.json = "object"
            /\ value.extra = {}
            /\ DOMAIN value.core = DOMAIN Schema[kind]
            /\ \A n \in Known(kind, j) : value.core[n] = read[n] /\ read[n] # Refused
            /\ \A n \in DOMAIN Schema[kind] \ Known(kind, j) :
                 value.core[n] = IF Schema[kind][n] = "string" THEN NoText ELSE Nil
<1> DEFINE struct == [core  |-> [n \in DOMAIN Schema[kind] |->
                                  IF n \in DOMAIN read THEN read[n]
                                  ELSE IF Schema[kind][n] = "string" THEN NoText ELSE Nil],
                     extra |-> {}]
<1>1. j.json = "object" /\ DecodeMembers(kind, j, read) = AllOf(read, struct)
  BY DEF DecodeMembers
<1>2. DecodeMembers(kind, j, read) = struct /\ \A n \in DOMAIN read : read[n] # Refused
  BY <1>1, AllAreRead
<1>3. struct.extra = {} /\ DOMAIN struct.core = DOMAIN Schema[kind]
  OBVIOUS
<1>4. \A n \in Known(kind, j) : n \in DOMAIN Schema[kind] /\ n \in DOMAIN read
  BY DEF Known
<1>5. \A n \in Known(kind, j) : struct.core[n] = read[n]
  BY <1>4
<1>6. \A n \in DOMAIN Schema[kind] \ Known(kind, j) :
        struct.core[n] = IF Schema[kind][n] = "string" THEN NoText ELSE Nil
  OBVIOUS
<1> HIDE DEF struct
<1> QED
  BY <1>1, <1>2, <1>3, <1>4, <1>5, <1>6

\* What has been read is written, and nothing else.
LEMMA MembersWritten ==
  ASSUME NEW kind \in Structs, NEW value, NEW K \in SUBSET DOMAIN Schema[kind],
         \A n \in K : IF Schema[kind][n] = "string" THEN HasText(value.core[n])
                      ELSE value.core[n] # Nil,
         \A n \in DOMAIN Schema[kind] \ K :
           value.core[n] = IF Schema[kind][n] = "string" THEN NoText ELSE Nil,
         \A n \in Always(kind) : HasText(value.core[n])
  PROVE  Written(kind, value) = K
<1>1. ~HasText(NoText)
  BY DEF HasText, NoText
<1>2. Always(kind) \subseteq DOMAIN Schema[kind] /\ \A n \in Always(kind) : Schema[kind][n] = "string"
  BY AlwaysAreStrings
<1>3. Always(kind) \subseteq K
  BY <1>1, <1>2
<1>4. ASSUME NEW n \in DOMAIN Schema[kind]
      PROVE  n \in Written(kind, value) <=> n \in K
  BY <1>1, <1>3, <1>4 DEF Written
<1> QED
  BY <1>4 DEF Written

LEMMA WrittenAlone ==
  ASSUME NEW value, value.extra = {}, NEW written, written = [n \in DOMAIN written |-> written[n]]
  PROVE  EncodeMembers(value, written) = Object(written)
  BY DEF EncodeMembers

-----------------------------------------------------------------------------

\* The texts of a list of strings, if it is one.
TextsSound(type, value) == type \in {"strings", "hreflang"} => "" \notin ItemsOf(value.items)

\* Small facts about the records of the codec.
LEMMA MarkedText ==
  ASSUME NEW text, NEW field, field = [text |-> text, present |-> TRUE]
  PROVE  HasText(field) /\ field.text = text /\ field # Nil /\ field # Refused
<1>1. field.present
  BY Zenon
<1> QED
  BY <1>1 DEF HasText, Nil, Refused

LEMMA ListItems ==
  ASSUME NEW list, NEW items, list = [items |-> items]
  PROVE  list.items = items /\ list # Nil /\ list # Refused
  BY DEF Nil, Refused

LEMMA MapEntries ==
  ASSUME NEW map, NEW entries, map = [entries |-> entries]
  PROVE  map.entries = entries /\ map # Nil /\ map # Refused
  BY DEF Nil, Refused

LEMMA DataItems ==
  ASSUME NEW data, NEW kind, NEW items, data = [kind |-> kind, items |-> items]
  PROVE  data.kind = kind /\ data.items = items /\ data # Nil /\ data # Refused
  BY DEF Nil, Refused

LEMMA OneTag ==
  ASSUME NEW text, NEW value, value = [many |-> FALSE, items |-> <<text>>]
  PROVE  EncodeHreflang(value) = String(text) /\ value # Nil
<1>1. value.items = <<text>> /\ value # Nil
  BY DEF Nil
<1>2. ~value.many
  OBVIOUS
<1> QED
  BY <1>1, <1>2 DEF EncodeHreflang

LEMMA ManyTags ==
  ASSUME NEW texts, NEW value, value = [many |-> TRUE, items |-> texts]
  PROVE  /\ EncodeHreflang(value) = Array([k \in DOMAIN texts |-> String(texts[k])])
         /\ value.items = texts /\ value # Nil
<1>1. value.items = texts /\ value # Nil
  BY DEF Nil
<1>2. value.many
  BY Zenon
<1> QED
  BY <1>1, <1>2 DEF EncodeHreflang

LEMMA StringsKept ==
  ASSUME NEW j, DecodeStringArray(j) # Refused, "" \notin ItemsOf(DecodeStringArray(j).items)
  PROVE  /\ j.json = "array"
         /\ Array([k \in DOMAIN DecodeStringArray(j).items |->
                     String(DecodeStringArray(j).items[k])]) = Texts(j)
<1> DEFINE items == [k \in DOMAIN j.items |->
                       IF j.items[k].json = "null" THEN "" ELSE j.items[k].text]
<1>1. j.json = "array" /\ \A k \in DOMAIN j.items : j.items[k].json \in {"string", "null"}
  BY DEF DecodeStringArray
<1>2. DecodeStringArray(j) = [items |-> items]
  BY <1>1 DEF DecodeStringArray
<1>3. DOMAIN items = DOMAIN j.items /\ \A k \in DOMAIN j.items :
        items[k] = IF j.items[k].json = "null" THEN "" ELSE j.items[k].text
  OBVIOUS
<1> HIDE DEF items
<1>3a. DecodeStringArray(j).items = items
  BY <1>2, ListItems
<1>4. ASSUME NEW k \in DOMAIN j.items
      PROVE  String(items[k]) = Text(j.items[k])
  <2>1. items[k] # ""
    BY <1>3, <1>3a DEF ItemsOf
  <2>2. j.items[k].json = "string" /\ items[k] = j.items[k].text
    BY <1>1, <1>3, <2>1
  <2> QED
    BY <2>2 DEF Text
<1>5. Texts(j) = Array([k \in DOMAIN j.items |-> Text(j.items[k])])
  BY <1>1 DEF Texts
<1>6. [k \in DOMAIN items |-> String(items[k])] = [k \in DOMAIN j.items |-> Text(j.items[k])]
  BY <1>3, <1>4
<1> QED
  BY <1>1, <1>3a, <1>5, <1>6

LEMMA PlainIsSet ==
  ASSUME NEW type \in {"string", "strings", "free", "hreflang"}, NEW j,
         DecodePlain(type, j) # Refused
  PROVE  DecodePlain(type, j) # Nil
<1>1. CASE type = "string"
  <2>1. DecodePlain(type, j) = [text |-> j.text, present |-> TRUE]
    BY <1>1 DEF DecodePlain, DecodeString
  <2> QED
    BY <2>1, MarkedText
<1>2. CASE type = "strings"
  BY <1>2 DEF DecodePlain, DecodeStringArray, Nil
<1>3. CASE type = "free"
  BY <1>3 DEF DecodePlain, DecodeFree, Nil
<1>4. CASE type = "hreflang"
  <2>1. j.json \in {"string", "array"}
    BY <1>4 DEF DecodePlain, DecodeHreflang
  <2>2. CASE j.json = "string"
    BY <1>4, <2>2, OneTag DEF DecodePlain, DecodeHreflang
  <2>3. CASE j.json = "array"
    BY <1>4, <2>3, ManyTags DEF DecodePlain, DecodeHreflang
  <2> QED
    BY <2>1, <2>2, <2>3
<1> QED
  BY <1>1, <1>2, <1>3, <1>4

LEMMA PlainKept ==
  ASSUME NEW type \in {"string", "strings", "free", "hreflang"}, NEW j,
         DecodePlain(type, j) # Refused, TextsSound(type, DecodePlain(type, j))
  PROVE  /\ EncodePlain(type, DecodePlain(type, j)) = EssenceOfPlain(type, j)
         /\ IF type = "string" THEN HasText(DecodePlain(type, j)) ELSE DecodePlain(type, j) # Nil
<1>1. CASE type = "string"
  <2>1. DecodePlain(type, j) = DecodeString(j)
    BY <1>1 DEF DecodePlain
  <2>2. j.json = "string" /\ DecodeString(j) = [text |-> j.text, present |-> TRUE]
    BY <2>1 DEF DecodeString
  <2>3. EncodePlain(type, DecodePlain(type, j)) = String(j.text)
    BY <1>1, <2>1, <2>2 DEF EncodePlain
  <2> QED
    BY <1>1, <2>1, <2>2, <2>3, MarkedText DEF EssenceOfPlain, Text
<1>2. CASE type = "strings"
  <2>1. DecodePlain(type, j) = DecodeStringArray(j)
    BY <1>2 DEF DecodePlain
  <2>2. "" \notin ItemsOf(DecodeStringArray(j).items)
    BY <1>2, <2>1 DEF TextsSound
  <2>3. EncodePlain(type, DecodeStringArray(j)) = Texts(j)
    BY <1>2, <2>1, <2>2, StringsKept DEF EncodePlain
  <2>4. DecodeStringArray(j) # Nil
    BY <2>1 DEF DecodeStringArray, Nil
  <2> QED
    BY <1>2, <2>1, <2>3, <2>4 DEF EssenceOfPlain
<1>3. CASE type = "free"
  <2>1. DecodePlain(type, j) = DecodeFree(j)
    BY <1>3 DEF DecodePlain
  <2>2. DecodeFree(j) = [entries |-> Stripped(j.members)]
    BY <2>1 DEF DecodeFree
  <2>3. EncodePlain(type, DecodeFree(j)) = Object(Stripped(j.members))
    BY <1>3, <2>2 DEF EncodePlain
  <2> QED
    BY <1>3, <2>1, <2>2, <2>3 DEF EssenceOfPlain, Nil
<1>4. CASE type = "hreflang"
  <2>1. DecodePlain(type, j) = DecodeHreflang(j)
    BY <1>4 DEF DecodePlain
  <2>2. EncodePlain(type, DecodeHreflang(j)) = EncodeHreflang(DecodeHreflang(j))
    BY <1>4 DEF EncodePlain
  <2>3. EssenceOfPlain(type, j) = Texts(j)
    BY <1>4 DEF EssenceOfPlain
  <2>4. CASE j.json = "string"
    <3>1. DecodeHreflang(j) = [many |-> FALSE, items |-> <<j.text>>]
      BY <2>4 DEF DecodeHreflang
    <3>2. EncodeHreflang(DecodeHreflang(j)) = String(j.text) /\ DecodeHreflang(j) # Nil
      BY <3>1, OneTag
    <3>3. Texts(j) = String(j.text)
      BY <2>4 DEF Texts, Text
    <3> QED
      BY <1>4, <2>1, <2>2, <2>3, <3>2, <3>3
  <2>5. CASE j.json = "array"
    <3> DEFINE tags == DecodeStringArray(j)
    <3>1. tags # Refused /\ DecodeHreflang(j) = [many |-> TRUE, items |-> tags.items]
      BY <2>1, <2>5 DEF DecodeHreflang
    <3> HIDE DEF tags
    <3>2. /\ EncodeHreflang(DecodeHreflang(j))
               = Array([k \in DOMAIN tags.items |-> String(tags.items[k])])
          /\ DecodeHreflang(j).items = tags.items /\ DecodeHreflang(j) # Nil
      BY <3>1, ManyTags
    <3>3. "" \notin ItemsOf(tags.items)
      BY <1>4, <2>1, <3>2 DEF TextsSound
    <3>4. Array([k \in DOMAIN tags.items |-> String(tags.items[k])]) = Texts(j)
      BY <3>1, <3>3, StringsKept DEF tags
    <3> QED
      BY <1>4, <2>1, <2>2, <2>3, <3>2, <3>4
  <2>6. j.json \in {"string", "array"}
    BY <2>1 DEF DecodeHreflang
  <2> QED
    BY <2>4, <2>5, <2>6
<1> QED
  BY <1>1, <1>2, <1>3, <1>4

\* The strings a struct is always written with are there, and its lists of strings
\* are sound.
FlatSound(kind, value) ==
  /\ \A n \in Always(kind) : HasText(value.core[n])
  /\ \A n \in DOMAIN Schema[kind] : value.core[n] # Nil => TextsSound(Schema[kind][n], value.core[n])

LEMMA FlatKept ==
  ASSUME NEW kind \in Flat, NEW j, DecodeFlat(kind, j) # Refused,
         FlatSound(kind, DecodeFlat(kind, j))
  PROVE  /\ EncodeFlat(kind, DecodeFlat(kind, j)) = EssenceOfFlat(kind, j)
         /\ DecodeFlat(kind, j).extra = {}
<1> DEFINE read == [n \in Known(kind, j) |-> DecodePlain(Schema[kind][n], j.members[n])]
           value == DecodeFlat(kind, j)
           written == [n \in Written(kind, value) |-> EncodePlain(Schema[kind][n], value.core[n])]
<1>1. value = DecodeMembers(kind, j, read) /\ DOMAIN read = Known(kind, j)
  BY DEF DecodeFlat
<1>2. kind \in Structs /\ Known(kind, j) \subseteq DOMAIN Schema[kind]
  BY DEF Flat, Structs, Schema, Known
<1> HIDE DEF read
<1>3. /\ value.extra = {}
      /\ \A n \in Known(kind, j) : value.core[n] = read[n] /\ read[n] # Refused
      /\ \A n \in DOMAIN Schema[kind] \ Known(kind, j) :
           value.core[n] = IF Schema[kind][n] = "string" THEN NoText ELSE Nil
  BY <1>1, MembersHeld
<1> HIDE DEF value
<1>4. ASSUME NEW n \in Known(kind, j)
      PROVE  /\ EncodePlain(Schema[kind][n], value.core[n])
                  = EssenceOfPlain(Schema[kind][n], j.members[n])
             /\ IF Schema[kind][n] = "string" THEN HasText(value.core[n])
                ELSE value.core[n] # Nil
  <2>1. value.core[n] = DecodePlain(Schema[kind][n], j.members[n]) /\ value.core[n] # Refused
    BY <1>3 DEF read
  <2>2. n \in DOMAIN Schema[kind] /\ Schema[kind][n] \in {"string", "strings", "free", "hreflang"}
    BY <1>2, FlatTypes
  <2>3. value.core[n] # Nil => TextsSound(Schema[kind][n], value.core[n])
    BY <2>2 DEF FlatSound, value
  <2>4. value.core[n] # Nil
    BY <2>1, <2>2, PlainIsSet
  <2> QED
    BY <2>1, <2>2, <2>3, <2>4, PlainKept
<1>5. Written(kind, value) = Known(kind, j)
  BY <1>2, <1>3, <1>4, MembersWritten DEF FlatSound, value
<1>6. EncodeFlat(kind, value) = Object(written)
  BY <1>3, WrittenAlone DEF EncodeFlat
<1>7. written = [n \in Known(kind, j) |-> EssenceOfPlain(Schema[kind][n], j.members[n])]
  BY <1>4, <1>5
<1> QED
  BY <1>3, <1>6, <1>7 DEF EssenceOfFlat, value

-----------------------------------------------------------------------------
(* Links *)

\* What EssenceOfLink says of a link but for describedby.
EssenceOfLinkItself(j) == IF j.json = "object" THEN EssenceOfFlat("link", j) ELSE Text(j)

LEMMA ObjectLink ==
  ASSUME NEW core, NEW link, link = [form |-> "object", core |-> core, extra |-> {}]
  PROVE  link.form = "object" /\ link.core = core /\ link.extra = {} /\ link # Refused
  BY DEF Refused

LEMMA LinkItselfKept ==
  ASSUME NEW j, DecodeLinkItself(j) # Refused, LinkItselfValid(DecodeLinkItself(j))
  PROVE  /\ EncodeLinkItself(DecodeLinkItself(j)) = EssenceOfLinkItself(j)
         /\ DecodeLinkItself(j).form # "extension"
         /\ DecodeLinkItself(j).form = "object" => DecodeLinkItself(j).extra = {}
<1> DEFINE value == DecodeLinkItself(j)
<1>1. CASE j.json = "null"
  <2>1. value = [form |-> "null"]
    BY <1>1 DEF DecodeLinkItself
  <2>2. value.form = "null"
    BY <2>1
  <2> QED
    BY <1>1, <2>2 DEF EncodeLinkItself, EssenceOfLinkItself, Text
<1>2. CASE j.json = "string"
  <2>1. DecodeString(j) = [text |-> j.text, present |-> TRUE]
    BY <1>2 DEF DecodeString
  <2>2. value = [form |-> "string", core |-> [href |-> DecodeString(j)]]
    BY <1>2 DEF DecodeLinkItself
  <2>3. value.form = "string" /\ value.core.href = DecodeString(j)
    BY <2>2
  <2>4. value.core.href.text = j.text
    BY <2>1, <2>3, MarkedText
  <2> QED
    BY <1>2, <2>3, <2>4 DEF EncodeLinkItself, EssenceOfLinkItself, Text
<1>3. CASE j.json = "object"
  <2> DEFINE flat == DecodeFlat("link", j)
  <2>1. flat # Refused /\ value = [form |-> "object", core |-> flat.core, extra |-> {}]
    BY <1>3 DEF DecodeLinkItself, ObjectForm
  <2> HIDE DEF flat
  <2>2. value.form = "object" /\ value.core = flat.core /\ value.extra = {}
    BY <2>1, ObjectLink
  <2> HIDE DEF value
  <2>3. /\ value.core.href.present
        /\ value.core.hreflang # Nil => ItemsOf(value.core.hreflang.items) \subseteq Valid.language
    BY <2>2 DEF LinkItselfValid, value
  <2>4. FlatSound("link", flat)
    <3>1. Always("link") = {"href"}
      BY DEF Always
    <3>2. HasText(flat.core["href"])
      BY <2>2, <2>3 DEF HasText
    <3>3. ASSUME NEW n \in DOMAIN Schema["link"], flat.core[n] # Nil
          PROVE  TextsSound(Schema["link"][n], flat.core[n])
      <4>1. Schema["link"][n] \in {"strings", "hreflang"} => n = "hreflang"
        BY DEF Schema
      <4>2. "" \notin Valid.language
        BY EmptyIsNoName
      <4> QED
        BY <2>2, <2>3, <3>3, <4>1, <4>2 DEF TextsSound
    <3> QED
      BY <3>1, <3>2, <3>3 DEF FlatSound
  <2>5. EncodeFlat("link", flat) = EssenceOfFlat("link", j) /\ flat.extra = {}
    BY <2>1, <2>4, FlatKept DEF Flat, flat
  <2>6. EncodeFlat("link", value) = EncodeFlat("link", flat)
    BY <2>2, <2>5 DEF EncodeFlat, EncodeMembers, Written
  <2>7. EncodeLinkItself(value) = EncodeFlat("link", value)
    BY <2>2 DEF EncodeLinkItself
  <2> QED
    BY <1>3, <2>2, <2>5, <2>6, <2>7 DEF EssenceOfLinkItself, value
<1>4. j.json \in {"null", "string", "object"}
  BY DEF DecodeLinkItself
<1> QED
  BY <1>1, <1>2, <1>3, <1>4

LEMMA NoExtensionIsRead ==
  ASSUME NEW j, DecodeLink(j) # Refused
  PROVE  ~IsExtension(DecodeLink(j))
<1> DEFINE links == Chain(j)
           chain == [k \in DOMAIN links |-> DecodeLinkItself(links[k])]
           value == DecodeLink(j)
<1>1. value = AllOf(chain, [chain |-> chain])
  BY DEF DecodeLink, Chained
<1> HIDE DEF links
<1>2. DOMAIN chain = DOMAIN links /\ \A k \in DOMAIN links : chain[k] = DecodeLinkItself(links[k])
  OBVIOUS
<1> HIDE DEF chain, value
<1>3. value = [chain |-> chain] /\ \A k \in DOMAIN chain : chain[k] # Refused
  BY <1>1, AllAreRead DEF value
<1>4. value.chain = chain
  BY <1>3
<1>5. ASSUME NEW x, DecodeLinkItself(x) # Refused, DecodeLinkItself(x).form = "extension"
      PROVE  FALSE
  BY <1>5, ObjectLink DEF DecodeLinkItself, ObjectForm
<1>6. ASSUME value = ExtensionLink
      PROVE  FALSE
  <2>1. chain = <<[form |-> "extension"]>>
    BY <1>4, <1>6 DEF ExtensionLink
  <2>2. 1 \in DOMAIN chain /\ chain[1].form = "extension"
    BY <2>1
  <2> QED
    BY <1>2, <1>3, <1>5, <2>2
<1> QED
  BY <1>6 DEF IsExtension, value

LEMMA LinkKept ==
  ASSUME NEW j, DecodeLink(j) # Refused, LinkValid(DecodeLink(j))
  PROVE  /\ EncodeLink(DecodeLink(j)) = EssenceOfLink(j)
         /\ ~IsExtension(DecodeLink(j))
         /\ \A k \in DOMAIN DecodeLink(j).chain :
              DecodeLink(j).chain[k].form = "object" => Registered(DecodeLink(j).chain[k])
<1> DEFINE links == Chain(j)
           chain == [k \in DOMAIN links |-> DecodeLinkItself(links[k])]
           value == DecodeLink(j)
<1>1. value = AllOf(chain, [chain |-> chain])
  BY DEF DecodeLink, Chained
<1> HIDE DEF links
<1>2. DOMAIN chain = DOMAIN links /\ \A k \in DOMAIN links : chain[k] = DecodeLinkItself(links[k])
  OBVIOUS
<1> HIDE DEF chain, value
<1>3. value = [chain |-> chain] /\ \A k \in DOMAIN chain : chain[k] # Refused
  BY <1>1, AllAreRead DEF value
<1>4. value.chain = chain
  BY <1>3
<1>5. ASSUME NEW k \in DOMAIN links
      PROVE  /\ EncodeLinkItself(chain[k]) = EssenceOfLinkItself(links[k])
             /\ chain[k].form # "extension"
             /\ chain[k].form = "object" => chain[k].extra = {}
  <2>1. LinkItselfValid(chain[k])
    BY <1>2, <1>4 DEF LinkValid, value
  <2> QED
    BY <1>2, <1>3, <2>1, LinkItselfKept
<1>6. EncodeLink(value) = EssenceOfLink(j)
  <2>1. EncodeLink(value) = Nest([k \in DOMAIN chain |-> EncodeLinkItself(chain[k])])
    BY <1>4 DEF EncodeLink
  <2>2. EssenceOfLink(j) = Nest([k \in DOMAIN links |-> EssenceOfLinkItself(links[k])])
    BY DEF EssenceOfLink, EssenceOfLinkItself, links
  <2>3. [k \in DOMAIN chain |-> EncodeLinkItself(chain[k])]
          = [k \in DOMAIN links |-> EssenceOfLinkItself(links[k])]
    BY <1>2, <1>5
  <2> QED
    BY <2>1, <2>2, <2>3
<1>7. ~IsExtension(value)
  BY NoExtensionIsRead DEF value
<1> QED
  BY <1>2, <1>4, <1>5, <1>6, <1>7 DEF Registered, value

\* What the rules of links ask of those that are read.
LinksSound(links) ==
  links # Nil =>
    \A n \in DOMAIN links.entries :
      n \notin AtNames /\ ~IsExtension(links.entries[n]) => LinkValid(links.entries[n])

LEMMA LinksAreSound ==
  ASSUME NEW links, NEW allowed, LinksValid(links, allowed)
  PROVE  LinksSound(links)
  BY DEF LinksValid, LinksSound

LEMMA MapIsRead ==
  ASSUME NEW j, NEW entries, DecodeMap(j, entries) # Refused
  PROVE  /\ j.json = "object"
         /\ DecodeMap(j, entries).entries = entries
         /\ DecodeMap(j, entries) # Nil
         /\ \A n \in DOMAIN entries : entries[n] # Refused
<1>1. j.json = "object" /\ DecodeMap(j, entries) = AllOf(entries, [entries |-> entries])
  BY DEF DecodeMap
<1>2. DecodeMap(j, entries) = [entries |-> entries] /\ \A n \in DOMAIN entries : entries[n] # Refused
  BY <1>1, AllAreRead
<1> QED
  BY <1>1, <1>2, MapEntries

LEMMA LinksKept ==
  ASSUME NEW j, DecodeLinks(j) # Refused, LinksSound(DecodeLinks(j))
  PROVE  /\ EncodeLinks(DecodeLinks(j)) = EssenceOfLinks(j)
         /\ LinksRegistered(DecodeLinks(j))
         /\ DecodeLinks(j) # Nil
<1> DEFINE entries == [n \in DOMAIN j.members \ AtNames |-> DecodeLink(j.members[n])]
           value == DecodeLinks(j)
<1>1. value = DecodeMap(j, entries)
  BY DEF DecodeLinks
<1>2. /\ DOMAIN entries = DOMAIN j.members \ AtNames
      /\ \A n \in DOMAIN entries : entries[n] = DecodeLink(j.members[n])
  OBVIOUS
<1> HIDE DEF entries, value
<1>3. value.entries = entries /\ value # Nil /\ \A n \in DOMAIN entries : entries[n] # Refused
  BY <1>1, MapIsRead DEF value
<1>4. ASSUME NEW n \in DOMAIN entries
      PROVE  /\ EncodeLink(entries[n]) = EssenceOfLink(j.members[n])
             /\ ~IsExtension(entries[n])
             /\ \A k \in DOMAIN entries[n].chain :
                  entries[n].chain[k].form = "object" => Registered(entries[n].chain[k])
  <2>1. entries[n] = DecodeLink(j.members[n]) /\ entries[n] # Refused /\ n \notin AtNames
    BY <1>2, <1>3
  <2>2. ~IsExtension(entries[n])
    BY <2>1, NoExtensionIsRead
  <2>3. LinkValid(entries[n])
    BY <1>3, <2>1, <2>2 DEF LinksSound, value
  <2> QED
    BY <2>1, <2>3, LinkKept
<1>5. EncodeLinks(value) = EssenceOfLinks(j)
  BY <1>2, <1>3, <1>4 DEF EncodeLinks, EssenceOfLinks
<1>6. LinksRegistered(value)
  BY <1>3, <1>4 DEF LinksRegistered
<1> QED
  BY <1>3, <1>5, <1>6 DEF value

-----------------------------------------------------------------------------
(* Primary data and linkage *)

\* Data is read item by item, whatever its items are.
LEMMA DataIsRead ==
  ASSUME NEW j, NEW one, NEW many, DecodeData(j, one, many) # Refused
  PROVE  LET data == DecodeData(j, one, many)
         IN /\ data # Nil
            /\ \/ j.json = "null" /\ data.kind = "null" /\ data.items = <<>>
               \/ j.json = "object" /\ data.kind = "one" /\ data.items = <<one>> /\ one # Refused
               \/ /\ j.json = "array" /\ data.kind = "many" /\ data.items = many
                  /\ \A k \in DOMAIN many : many[k] # Refused
<1> DEFINE data == DecodeData(j, one, many)
<1>1. CASE j.json = "null"
  <2>1. data = [kind |-> "null", items |-> <<>>]
    BY <1>1 DEF DecodeData
  <2> HIDE DEF data
  <2> QED
    BY <1>1, <2>1, DataItems DEF data
<1>2. CASE j.json = "object"
  <2>1. one # Refused /\ data = [kind |-> "one", items |-> <<one>>]
    BY <1>2 DEF DecodeData
  <2> HIDE DEF data
  <2> QED
    BY <1>2, <2>1, DataItems DEF data
<1>3. CASE j.json = "array"
  <2>1. data = AllOf(many, [kind |-> "many", items |-> many])
    BY <1>3 DEF DecodeData
  <2> HIDE DEF data
  <2>2. data = [kind |-> "many", items |-> many] /\ \A k \in DOMAIN many : many[k] # Refused
    BY <2>1, AllAreRead DEF data
  <2> QED
    BY <1>3, <2>2, DataItems DEF data
<1>4. j.json \in {"null", "object", "array"}
  BY DEF DecodeData
<1> QED
  BY <1>1, <1>2, <1>3, <1>4

LinkageSound(data) ==
  data # Nil => \A k \in DOMAIN data.items : HasText(data.items[k].core.type)

LEMMA IdentifierKept ==
  ASSUME NEW j, DecodeIdentifier(j) # Refused, HasText(DecodeIdentifier(j).core.type)
  PROVE  /\ EncodeIdentifier(DecodeIdentifier(j)) = EssenceOfFlat("identifier", j)
         /\ Registered(DecodeIdentifier(j))
<1>1. FlatSound("identifier", DecodeIdentifier(j))
  <2>1. Always("identifier") = {"type"}
    BY DEF Always
  <2>2. \A n \in DOMAIN Schema["identifier"] :
          Schema["identifier"][n] \notin {"strings", "hreflang"}
    BY DEF Schema
  <2> QED
    BY <2>1, <2>2 DEF FlatSound, TextsSound
<1> QED
  BY <1>1, FlatKept DEF Flat, DecodeIdentifier, EncodeIdentifier, Registered

LEMMA LinkageKept ==
  ASSUME NEW j, DecodeLinkage(j) # Refused, LinkageSound(DecodeLinkage(j))
  PROVE  /\ EncodeLinkage(DecodeLinkage(j)) = EssenceOfLinkage(j)
         /\ LinkageRegistered(DecodeLinkage(j))
         /\ DecodeLinkage(j) # Nil
<1> DEFINE one == DecodeIdentifier(j)
           many == [k \in DOMAIN j.items |-> DecodeIdentifier(j.items[k])]
           value == DecodeLinkage(j)
           written == [k \in DOMAIN value.items |-> EncodeIdentifier(value.items[k])]
<1>1. value = DecodeData(j, one, many)
  BY DEF DecodeLinkage
<1>2. DOMAIN many = DOMAIN j.items /\ \A k \in DOMAIN many : many[k] = DecodeIdentifier(j.items[k])
  OBVIOUS
<1> HIDE DEF one, many, value
<1>3. /\ value # Nil
      /\ \/ j.json = "null" /\ value.kind = "null" /\ value.items = <<>>
         \/ j.json = "object" /\ value.kind = "one" /\ value.items = <<one>> /\ one # Refused
         \/ /\ j.json = "array" /\ value.kind = "many" /\ value.items = many
            /\ \A k \in DOMAIN many : many[k] # Refused
  BY <1>1, DataIsRead DEF value
<1>4. EncodeLinkage(value) = EncodeData(value, written)
  BY DEF EncodeLinkage
<1>5. CASE j.json = "null"
  BY <1>3, <1>4, <1>5 DEF EncodeData, EssenceOfLinkage, EssenceOfData, Text, LinkageRegistered,
                          ItemsOf, value
<1>6. CASE j.json = "object"
  <2>1. value.kind = "one" /\ value.items = <<one>> /\ one # Refused
    BY <1>3, <1>6
  <2>2. DOMAIN value.items = {1} /\ value.items[1] = one
    BY <2>1
  <2>3. HasText(one.core.type)
    BY <1>3, <2>2 DEF LinkageSound, value
  <2>4. EncodeIdentifier(one) = EssenceOfFlat("identifier", j) /\ Registered(one)
    BY <2>1, <2>3, IdentifierKept DEF one
  <2>5. written[1] = EssenceOfFlat("identifier", j)
    BY <2>2, <2>4
  <2>6. LinkageRegistered(value)
    BY <2>2, <2>4 DEF LinkageRegistered, ItemsOf
  <2> HIDE DEF written
  <2> QED
    BY <1>3, <1>4, <1>6, <2>1, <2>5, <2>6 DEF EncodeData, EssenceOfLinkage, EssenceOfData, value
<1>7. CASE j.json = "array"
  <2>1. value.kind = "many" /\ value.items = many /\ \A k \in DOMAIN many : many[k] # Refused
    BY <1>3, <1>7
  <2>2. ASSUME NEW k \in DOMAIN many
        PROVE  /\ EncodeIdentifier(many[k]) = EssenceOfFlat("identifier", j.items[k])
               /\ Registered(many[k])
    <3>1. HasText(many[k].core.type)
      BY <1>3, <2>1 DEF LinkageSound, value
    <3> QED
      BY <1>2, <2>1, <3>1, IdentifierKept
  <2>3. written = [k \in DOMAIN j.items |-> EssenceOfFlat("identifier", j.items[k])]
    BY <1>2, <2>1, <2>2
  <2>4. LinkageRegistered(value)
    BY <2>1, <2>2 DEF LinkageRegistered, ItemsOf
  <2> HIDE DEF written
  <2> QED
    BY <1>3, <1>4, <1>7, <2>1, <2>3, <2>4 DEF EncodeData, EssenceOfLinkage, EssenceOfData, value
<1> QED
  BY <1>3, <1>5, <1>6, <1>7

-----------------------------------------------------------------------------
(* Structs within structs *)

\* A struct is written with the members that have been read.
LEMMA MembersKept ==
  ASSUME NEW kind \in Structs, NEW j, NEW read, DOMAIN read = Known(kind, j), NEW value,
         value = DecodeMembers(kind, j, read), value # Refused,
         \A n \in Known(kind, j) :
           read[n] # Refused =>
             IF Schema[kind][n] = "string" THEN HasText(read[n]) ELSE read[n] # Nil,
         \A n \in Always(kind) : HasText(value.core[n])
  PROVE  /\ Written(kind, value) = Known(kind, j)
         /\ \A n \in Known(kind, j) : value.core[n] = read[n]
         /\ \A written : written = [n \in DOMAIN written |-> written[n]] =>
              EncodeMembers(value, written) = Object(written)
         /\ Registered(value)
<1>1. /\ value.extra = {}
      /\ \A n \in Known(kind, j) : value.core[n] = read[n] /\ read[n] # Refused
      /\ \A n \in DOMAIN Schema[kind] \ Known(kind, j) :
           value.core[n] = IF Schema[kind][n] = "string" THEN NoText ELSE Nil
  BY MembersHeld
<1>2. Known(kind, j) \subseteq DOMAIN Schema[kind]
  BY DEF Known
<1>3. Written(kind, value) = Known(kind, j)
  BY <1>1, <1>2, MembersWritten
<1> QED
  BY <1>1, <1>3, WrittenAlone DEF Registered

LEMMA StructIsSet ==
  ASSUME NEW kind, NEW j, NEW read, DecodeMembers(kind, j, read) # Refused
  PROVE  DecodeMembers(kind, j, read) # Nil
<1> DEFINE core == [n \in DOMAIN Schema[kind] |->
                      IF n \in DOMAIN read THEN read[n]
                      ELSE IF Schema[kind][n] = "string" THEN NoText ELSE Nil]
<1> HIDE DEF core
<1>1. DecodeMembers(kind, j, read) = [core |-> core, extra |-> {}]
  BY DEF DecodeMembers, AllOf, core
<1> QED
  BY <1>1 DEF Nil

PartTypes == {"links", "linkage", "jsonapi", "source", "reference", "string", "free"}

PartSound(type, value) ==
  /\ type = "links" => LinksSound(value)
  /\ type = "linkage" => LinkageSound(value)
  /\ type \in {"jsonapi", "source", "reference"} /\ value # Nil => FlatSound(type, value)

PartRegistered(type, value) ==
  /\ type = "links" => LinksRegistered(value)
  /\ type = "linkage" => LinkageRegistered(value)
  /\ type \in {"jsonapi", "source"} => Registered(value)

LEMMA PartKept ==
  ASSUME NEW type \in PartTypes, NEW j, DecodePart(type, j) # Refused,
         PartSound(type, DecodePart(type, j))
  PROVE  /\ EncodePart(type, DecodePart(type, j)) = EssenceOfPart(type, j)
         /\ IF type = "string" THEN HasText(DecodePart(type, j)) ELSE DecodePart(type, j) # Nil
         /\ PartRegistered(type, DecodePart(type, j))
<1>1. CASE type = "links"
  <2>1. DecodePart(type, j) = DecodeLinks(j) /\ EssenceOfPart(type, j) = EssenceOfLinks(j)
    BY <1>1 DEF DecodePart, EssenceOfPart
  <2>2. EncodePart(type, DecodeLinks(j)) = EncodeLinks(DecodeLinks(j))
    BY <1>1 DEF EncodePart
  <2> QED
    BY <1>1, <2>1, <2>2, LinksKept DEF PartSound, PartRegistered
<1>2. CASE type = "linkage"
  <2>1. DecodePart(type, j) = DecodeLinkage(j) /\ EssenceOfPart(type, j) = EssenceOfLinkage(j)
    BY <1>2 DEF DecodePart, EssenceOfPart
  <2>2. EncodePart(type, DecodeLinkage(j)) = EncodeLinkage(DecodeLinkage(j))
    BY <1>2 DEF EncodePart
  <2> QED
    BY <1>2, <2>1, <2>2, LinkageKept DEF PartSound, PartRegistered
<1>3. CASE type \in {"jsonapi", "source", "reference"}
  <2>1. DecodePart(type, j) = DecodeFlat(type, j) /\ EssenceOfPart(type, j) = EssenceOfFlat(type, j)
    BY <1>3 DEF DecodePart, EssenceOfPart, DecodeJSONAPI, DecodeErrorSource, DecodeAtomicReference
  <2>2. EncodePart(type, DecodeFlat(type, j)) = EncodeFlat(type, DecodeFlat(type, j))
    BY <1>3 DEF EncodePart, EncodeJSONAPI, EncodeErrorSource, EncodeAtomicReference
  <2>3. DecodeFlat(type, j) # Nil
    BY <2>1, StructIsSet DEF DecodeFlat
  <2>4. type \in Flat /\ type # "string"
    BY <1>3 DEF Flat
  <2> QED
    BY <1>3, <2>1, <2>2, <2>3, <2>4, FlatKept DEF PartSound, PartRegistered, Registered
<1>4. CASE type \in {"string", "free"}
  <2>1. /\ DecodePart(type, j) = DecodePlain(type, j)
        /\ EssenceOfPart(type, j) = EssenceOfPlain(type, j)
    BY <1>4 DEF DecodePart, EssenceOfPart
  <2>2. EncodePart(type, DecodePlain(type, j)) = EncodePlain(type, DecodePlain(type, j))
    BY <1>4 DEF EncodePart
  <2>3. TextsSound(type, DecodePlain(type, j)) /\ PartRegistered(type, DecodePart(type, j))
    BY <1>4 DEF TextsSound, PartRegistered
  <2> QED
    BY <1>4, <2>1, <2>2, <2>3, PlainKept
<1> QED
  BY <1>1, <1>2, <1>3, <1>4 DEF PartTypes

NestedSound(kind, value) ==
  \A n \in DOMAIN Schema[kind] : PartSound(Schema[kind][n], value.core[n])

LEMMA NestedKept ==
  ASSUME NEW kind \in {"relationship", "error"}, NEW j, DecodeNested(kind, j) # Refused,
         NestedSound(kind, DecodeNested(kind, j))
  PROVE  /\ EncodeNested(kind, DecodeNested(kind, j)) = EssenceOfNested(kind, j)
         /\ Registered(DecodeNested(kind, j))
         /\ \A n \in DOMAIN Schema[kind] :
              DecodeNested(kind, j).core[n] # Nil =>
                PartRegistered(Schema[kind][n], DecodeNested(kind, j).core[n])
<1> DEFINE read == [n \in Known(kind, j) |-> DecodePart(Schema[kind][n], j.members[n])]
           value == DecodeNested(kind, j)
           written == [n \in Written(kind, value) |-> EncodePart(Schema[kind][n], value.core[n])]
<1>1. value = DecodeMembers(kind, j, read) /\ DOMAIN read = Known(kind, j)
  BY DEF DecodeNested
<1>2. kind \in Structs /\ Always(kind) = {} /\ Known(kind, j) \subseteq DOMAIN Schema[kind]
  BY DEF Structs, Schema, Always, Known
<1>3. \A n \in Known(kind, j) : read[n] = DecodePart(Schema[kind][n], j.members[n])
  OBVIOUS
<1> HIDE DEF read, value
<1>4. /\ \A n \in Known(kind, j) : value.core[n] = read[n] /\ read[n] # Refused
      /\ \A n \in DOMAIN Schema[kind] \ Known(kind, j) :
           value.core[n] = IF Schema[kind][n] = "string" THEN NoText ELSE Nil
  BY <1>1, MembersHeld DEF value
<1>5. ASSUME NEW n \in Known(kind, j)
      PROVE  /\ EncodePart(Schema[kind][n], value.core[n])
                  = EssenceOfPart(Schema[kind][n], j.members[n])
             /\ IF Schema[kind][n] = "string" THEN HasText(read[n]) ELSE read[n] # Nil
             /\ PartRegistered(Schema[kind][n], value.core[n])
  <2>1. /\ value.core[n] = DecodePart(Schema[kind][n], j.members[n])
        /\ value.core[n] = read[n] /\ value.core[n] # Refused
    BY <1>3, <1>4
  <2>2. n \in DOMAIN Schema[kind] /\ Schema[kind][n] \in PartTypes
    BY <1>2, NestedTypes DEF PartTypes
  <2>3. PartSound(Schema[kind][n], value.core[n])
    BY <2>2 DEF NestedSound, value
  <2> QED
    BY <2>1, <2>2, <2>3, PartKept
<1>6. /\ Written(kind, value) = Known(kind, j)
      /\ EncodeMembers(value, written) = Object(written)
      /\ Registered(value)
  BY <1>1, <1>2, <1>5, MembersKept DEF value
<1>7. written = [n \in Known(kind, j) |-> EssenceOfPart(Schema[kind][n], j.members[n])]
  BY <1>5, <1>6
<1>8. EncodeNested(kind, value) = EssenceOfNested(kind, j)
  BY <1>6, <1>7 DEF EncodeNested, EssenceOfNested
<1>9. ASSUME NEW n \in DOMAIN Schema[kind], value.core[n] # Nil
      PROVE  PartRegistered(Schema[kind][n], value.core[n])
  <2>1. CASE n \in Known(kind, j)
    BY <1>5, <2>1
  <2>2. CASE n \notin Known(kind, j)
    <3>1. Schema[kind][n] = "string"
      BY <1>4, <1>9, <2>2
    <3> QED
      BY <3>1 DEF PartRegistered
  <2> QED
    BY <2>1, <2>2
<1> QED
  BY <1>6, <1>8, <1>9 DEF value

-----------------------------------------------------------------------------
(* Relationships, errors and resources *)

RelationshipSound(relationship) ==
  LinksSound(relationship.core.links) /\ LinkageSound(relationship.core.data)

LEMMA RelationshipKept ==
  ASSUME NEW j, DecodeRelationship(j) # Refused, RelationshipSound(DecodeRelationship(j))
  PROVE  /\ EncodeRelationship(DecodeRelationship(j)) = EssenceOfNested("relationship", j)
         /\ RelationshipRegistered(DecodeRelationship(j))
<1> DEFINE value == DecodeNested("relationship", j)
<1>1. DecodeRelationship(j) = value /\ EncodeRelationship(value) = EncodeNested("relationship", value)
  BY DEF DecodeRelationship, EncodeRelationship
<1>2. /\ DOMAIN Schema["relationship"] = {"links", "data", "meta"}
      /\ Schema["relationship"]["links"] = "links" /\ Schema["relationship"]["data"] = "linkage"
      /\ Schema["relationship"]["meta"] = "free"
  BY DEF Schema
<1> HIDE DEF value
<1>3. NestedSound("relationship", value)
  <2>1. PartSound("links", value.core["links"])
    BY <1>1 DEF RelationshipSound, PartSound
  <2>2. PartSound("linkage", value.core["data"])
    BY <1>1 DEF RelationshipSound, PartSound
  <2>3. PartSound("free", value.core["meta"])
    BY DEF PartSound
  <2> QED
    BY <1>2, <2>1, <2>2, <2>3 DEF NestedSound
<1>4. /\ EncodeNested("relationship", value) = EssenceOfNested("relationship", j)
      /\ Registered(value)
      /\ \A n \in DOMAIN Schema["relationship"] :
           value.core[n] # Nil => PartRegistered(Schema["relationship"][n], value.core[n])
  BY <1>1, <1>3, NestedKept DEF value
<1>5. LinksRegistered(value.core.links)
  <2>1. value.core["links"] # Nil => PartRegistered("links", value.core["links"])
    BY <1>2, <1>4
  <2> QED
    BY <2>1 DEF PartRegistered, LinksRegistered
<1>6. LinkageRegistered(value.core.data)
  <2>1. value.core["data"] # Nil => PartRegistered("linkage", value.core["data"])
    BY <1>2, <1>4
  <2> QED
    BY <2>1 DEF PartRegistered, LinkageRegistered
<1> QED
  BY <1>1, <1>4, <1>5, <1>6 DEF RelationshipRegistered

ErrorSound(error) == LinksSound(error.core.links)

LEMMA ErrorKept ==
  ASSUME NEW j, DecodeError(j) # Refused, ErrorSound(DecodeError(j))
  PROVE  /\ EncodeError(DecodeError(j)) = EssenceOfNested("error", j)
         /\ ErrorRegistered(DecodeError(j))
<1> DEFINE value == DecodeNested("error", j)
<1>1. DecodeError(j) = value /\ EncodeError(value) = EncodeNested("error", value)
  BY DEF DecodeError, EncodeError
<1>2. /\ \A n \in DOMAIN Schema["error"] :
           \/ n = "links" /\ Schema["error"][n] = "links"
           \/ n = "source" /\ Schema["error"][n] = "source"
           \/ Schema["error"][n] \in {"string", "free"}
      /\ "links" \in DOMAIN Schema["error"] /\ Schema["error"]["links"] = "links"
      /\ "source" \in DOMAIN Schema["error"] /\ Schema["error"]["source"] = "source"
  BY DEF Schema
<1> HIDE DEF value
<1>3. NestedSound("error", value)
  <2>1. PartSound("links", value.core["links"])
    BY <1>1 DEF ErrorSound, PartSound
  <2>2. PartSound("source", value.core["source"])
    <3>1. \A n \in DOMAIN Schema["source"] : Schema["source"][n] = "string"
      BY DEF Schema
    <3>2. Always("source") = {}
      BY DEF Always
    <3> QED
      BY <3>1, <3>2 DEF PartSound, FlatSound, TextsSound
  <2>3. \A x : PartSound("string", x) /\ PartSound("free", x)
    BY DEF PartSound
  <2> QED
    BY <1>2, <2>1, <2>2, <2>3 DEF NestedSound
<1>4. /\ EncodeNested("error", value) = EssenceOfNested("error", j)
      /\ Registered(value)
      /\ \A n \in DOMAIN Schema["error"] :
           value.core[n] # Nil => PartRegistered(Schema["error"][n], value.core[n])
  BY <1>1, <1>3, NestedKept DEF value
<1>5. LinksRegistered(value.core.links)
  <2>1. value.core["links"] # Nil => PartRegistered("links", value.core["links"])
    BY <1>2, <1>4
  <2> QED
    BY <2>1 DEF PartRegistered, LinksRegistered
<1>6. value.core.source = Nil \/ Registered(value.core.source)
  <2>1. value.core["source"] # Nil => PartRegistered("source", value.core["source"])
    BY <1>2, <1>4
  <2> QED
    BY <2>1 DEF PartRegistered
<1> QED
  BY <1>1, <1>4, <1>5, <1>6 DEF ErrorRegistered

RelationshipsSound(relationships) ==
  relationships # Nil =>
    \A n \in DOMAIN relationships.entries \ AtNames : RelationshipSound(relationships.entries[n])

LEMMA RelationshipsKept ==
  ASSUME NEW j, DecodeRelationships(j) # Refused, RelationshipsSound(DecodeRelationships(j))
  PROVE  /\ EncodeRelationships(DecodeRelationships(j)) = EssenceOfRelationships(j)
         /\ DecodeRelationships(j) # Nil
         /\ \A n \in DOMAIN DecodeRelationships(j).entries :
              RelationshipRegistered(DecodeRelationships(j).entries[n])
<1> DEFINE entries == [n \in DOMAIN j.members \ AtNames |-> DecodeRelationship(j.members[n])]
           value == DecodeRelationships(j)
<1>1. value = DecodeMap(j, entries)
  BY DEF DecodeRelationships
<1>2. /\ DOMAIN entries = DOMAIN j.members \ AtNames
      /\ \A n \in DOMAIN entries : entries[n] = DecodeRelationship(j.members[n])
  OBVIOUS
<1> HIDE DEF entries, value
<1>3. value.entries = entries /\ value # Nil /\ \A n \in DOMAIN entries : entries[n] # Refused
  BY <1>1, MapIsRead DEF value
<1>4. ASSUME NEW n \in DOMAIN entries
      PROVE  /\ EncodeRelationship(entries[n]) = EssenceOfNested("relationship", j.members[n])
             /\ RelationshipRegistered(entries[n])
  <2>1. entries[n] = DecodeRelationship(j.members[n]) /\ entries[n] # Refused /\ n \notin AtNames
    BY <1>2, <1>3
  <2>2. RelationshipSound(entries[n])
    BY <1>3, <2>1 DEF RelationshipsSound, value
  <2> QED
    BY <2>1, <2>2, RelationshipKept
<1>5. EncodeRelationships(value) = EssenceOfRelationships(j)
  BY <1>2, <1>3, <1>4 DEF EncodeRelationships, EssenceOfRelationships
<1> QED
  BY <1>3, <1>4, <1>5 DEF value

ResourceSound(object) ==
  /\ HasText(object.core.type)
  /\ LinksSound(object.core.links)
  /\ RelationshipsSound(object.core.relationships)

LEMMA ResourceKept ==
  ASSUME NEW j, DecodeResource(j) # Refused, ResourceSound(DecodeResource(j))
  PROVE  /\ EncodeResource(DecodeResource(j)) = EssenceOfResource(j)
         /\ ResourceRegistered(DecodeResource(j))
<1> DEFINE Value(n) == IF n = "relationships" THEN DecodeRelationships(j.members[n])
                      ELSE DecodePart(Schema["resource"][n], j.members[n])
           Part(n, x) == IF n = "relationships" THEN EncodeRelationships(x)
                         ELSE EncodePart(Schema["resource"][n], x)
           Kept(n) == IF n = "relationships" THEN EssenceOfRelationships(j.members[n])
                      ELSE EssenceOfPart(Schema["resource"][n], j.members[n])
           K == Known("resource", j)
           read == [n \in K |-> Value(n)]
           value == DecodeResource(j)
           written == [n \in Written("resource", value) |-> Part(n, value.core[n])]
<1>1. value = DecodeMembers("resource", j, read) /\ DOMAIN read = K
  BY DEF DecodeResource
<1>2. "resource" \in Structs /\ Always("resource") = {"type"} /\ K \subseteq DOMAIN Schema["resource"]
  BY DEF Structs, Schema, Always, Known
<1>3. \A n \in K : read[n] = Value(n)
  OBVIOUS
<1> HIDE DEF read, value, K
<1>4. /\ \A n \in K : value.core[n] = read[n] /\ read[n] # Refused
      /\ \A n \in DOMAIN Schema["resource"] \ K :
           value.core[n] = IF Schema["resource"][n] = "string" THEN NoText ELSE Nil
  BY <1>1, MembersHeld DEF value, K
<1>5. ASSUME NEW n \in K
      PROVE  /\ Part(n, value.core[n]) = Kept(n)
             /\ IF Schema["resource"][n] = "string" THEN HasText(read[n]) ELSE read[n] # Nil
             /\ n = "links" => LinksRegistered(value.core[n])
             /\ n = "relationships" => \A r \in DOMAIN value.core[n].entries :
                                         RelationshipRegistered(value.core[n].entries[r])
  <2>1. value.core[n] = Value(n) /\ value.core[n] = read[n] /\ value.core[n] # Refused
    BY <1>3, <1>4
  <2>2. n \in DOMAIN Schema["resource"]
    BY <1>2
  <2>3. CASE n = "relationships"
    <3>1. value.core[n] = DecodeRelationships(j.members[n]) /\ RelationshipsSound(value.core[n])
      BY <2>1, <2>3 DEF ResourceSound, value
    <3>2. Schema["resource"][n] # "string"
      BY <2>2, <2>3, ResourceTypes
    <3> QED
      BY <2>1, <2>3, <3>1, <3>2, RelationshipsKept
  <2>4. CASE n # "relationships"
    <3>1. Schema["resource"][n] \in {"links", "string", "free"} /\ Schema["resource"][n] \in PartTypes
      BY <2>2, <2>4, ResourceTypes DEF PartTypes
    <3>2. (n = "links" <=> Schema["resource"][n] = "links")
      BY <2>2 DEF Schema
    <3>3. value.core[n] = DecodePart(Schema["resource"][n], j.members[n])
      BY <2>1, <2>4
    <3>4. PartSound(Schema["resource"][n], value.core[n])
      BY <3>1, <3>2 DEF PartSound, ResourceSound, value
    <3>5. /\ EncodePart(Schema["resource"][n], value.core[n])
               = EssenceOfPart(Schema["resource"][n], j.members[n])
          /\ IF Schema["resource"][n] = "string" THEN HasText(value.core[n]) ELSE value.core[n] # Nil
          /\ PartRegistered(Schema["resource"][n], value.core[n])
      BY <2>1, <3>1, <3>3, <3>4, PartKept
    <3> QED
      BY <2>1, <2>4, <3>2, <3>5 DEF PartRegistered
  <2> QED
    BY <2>3, <2>4
<1>6. /\ Written("resource", value) = K
      /\ EncodeMembers(value, written) = Object(written)
      /\ Registered(value)
  <2>1. \A n \in Always("resource") : HasText(value.core[n])
    BY <1>2 DEF ResourceSound, value
  <2> HIDE DEF Value, Part, Kept
  <2> QED
    BY <1>1, <1>2, <1>5, <2>1, MembersKept DEF value, K
<1>7. written = [n \in K |-> Kept(n)]
  BY <1>5, <1>6
<1>8. EncodeResource(value) = EssenceOfResource(j)
  BY <1>6, <1>7 DEF EncodeResource, EssenceOfResource, K
<1>9. {"links", "relationships"} \subseteq DOMAIN Schema["resource"]
        /\ Schema["resource"]["links"] # "string" /\ Schema["resource"]["relationships"] # "string"
  BY DEF Schema
<1>10. LinksRegistered(value.core["links"])
  BY <1>4, <1>5, <1>9 DEF LinksRegistered
<1>11. \/ value.core["relationships"] = Nil
       \/ \A r \in DOMAIN value.core["relationships"].entries :
            RelationshipRegistered(value.core["relationships"].entries[r])
  BY <1>4, <1>5, <1>9
<1> QED
  BY <1>6, <1>8, <1>10, <1>11 DEF ResourceRegistered, value

-----------------------------------------------------------------------------
(* Primary data, lists and whole documents *)

LEMMA ListIsRead ==
  ASSUME NEW j, NEW items, DecodeList(j, items) # Refused
  PROVE  /\ DecodeList(j, items).items = items
         /\ DecodeList(j, items) # Nil
         /\ \A k \in DOMAIN items : items[k] # Refused
<1>1. DecodeList(j, items) = AllOf(items, [items |-> items])
  BY DEF DecodeList
<1>2. DecodeList(j, items) = [items |-> items] /\ \A k \in DOMAIN items : items[k] # Refused
  BY <1>1, AllAreRead
<1> QED
  BY <1>2, ListItems

ResourcesSound(list) == list # Nil => \A k \in DOMAIN list.items : ResourceSound(list.items[k])

ErrorsSound(list) == list # Nil => \A k \in DOMAIN list.items : ErrorSound(list.items[k])

LEMMA PrimaryDataKept ==
  ASSUME NEW j, DecodePrimaryData(j) # Refused, ResourcesSound(DecodePrimaryData(j))
  PROVE  /\ EncodePrimaryData(DecodePrimaryData(j)) = EssenceOfPrimaryData(j)
         /\ DataRegistered(DecodePrimaryData(j))
         /\ DecodePrimaryData(j) # Nil
<1> DEFINE one == DecodeResource(j)
           many == [k \in DOMAIN j.items |-> DecodeResource(j.items[k])]
           value == DecodePrimaryData(j)
           written == [k \in DOMAIN value.items |-> EncodeResource(value.items[k])]
<1>1. value = DecodeData(j, one, many)
  BY DEF DecodePrimaryData
<1>2. DOMAIN many = DOMAIN j.items /\ \A k \in DOMAIN many : many[k] = DecodeResource(j.items[k])
  OBVIOUS
<1> HIDE DEF one, many, value
<1>3. /\ value # Nil
      /\ \/ j.json = "null" /\ value.kind = "null" /\ value.items = <<>>
         \/ j.json = "object" /\ value.kind = "one" /\ value.items = <<one>> /\ one # Refused
         \/ /\ j.json = "array" /\ value.kind = "many" /\ value.items = many
            /\ \A k \in DOMAIN many : many[k] # Refused
  BY <1>1, DataIsRead DEF value
<1>4. EncodePrimaryData(value) = EncodeData(value, written)
  BY DEF EncodePrimaryData
<1>5. CASE j.json = "null"
  BY <1>3, <1>4, <1>5 DEF EncodeData, EssenceOfPrimaryData, EssenceOfData, Text, DataRegistered,
                          ItemsOf, value
<1>6. CASE j.json = "object"
  <2>1. value.kind = "one" /\ value.items = <<one>> /\ one # Refused
    BY <1>3, <1>6
  <2>2. DOMAIN value.items = {1} /\ value.items[1] = one
    BY <2>1
  <2>3. ResourceSound(one)
    BY <1>3, <2>2 DEF ResourcesSound, value
  <2>4. EncodeResource(one) = EssenceOfResource(j) /\ ResourceRegistered(one)
    BY <2>1, <2>3, ResourceKept DEF one
  <2>5. written[1] = EssenceOfResource(j)
    BY <2>2, <2>4
  <2>6. DataRegistered(value)
    BY <2>2, <2>4 DEF DataRegistered, ItemsOf
  <2> HIDE DEF written
  <2> QED
    BY <1>3, <1>4, <1>6, <2>1, <2>5, <2>6 DEF EncodeData, EssenceOfPrimaryData, EssenceOfData, value
<1>7. CASE j.json = "array"
  <2>1. value.kind = "many" /\ value.items = many /\ \A k \in DOMAIN many : many[k] # Refused
    BY <1>3, <1>7
  <2>2. ASSUME NEW k \in DOMAIN many
        PROVE  EncodeResource(many[k]) = EssenceOfResource(j.items[k]) /\ ResourceRegistered(many[k])
    <3>1. ResourceSound(many[k])
      BY <1>3, <2>1 DEF ResourcesSound, value
    <3> QED
      BY <1>2, <2>1, <3>1, ResourceKept
  <2>3. written = [k \in DOMAIN j.items |-> EssenceOfResource(j.items[k])]
    BY <1>2, <2>1, <2>2
  <2>4. DataRegistered(value)
    BY <2>1, <2>2 DEF DataRegistered, ItemsOf
  <2> HIDE DEF written
  <2> QED
    BY <1>3, <1>4, <1>7, <2>1, <2>3, <2>4 DEF EncodeData, EssenceOfPrimaryData, EssenceOfData, value
<1> QED
  BY <1>3, <1>5, <1>6, <1>7

LEMMA ResourceArrayKept ==
  ASSUME NEW j, DecodeResourceArray(j) # Refused, ResourcesSound(DecodeResourceArray(j))
  PROVE  /\ Array([k \in DOMAIN DecodeResourceArray(j).items |->
                     EncodeResource(DecodeResourceArray(j).items[k])])
              = Array([k \in DOMAIN j.items |-> EssenceOfResource(j.items[k])])
         /\ DataRegistered(DecodeResourceArray(j))
         /\ DecodeResourceArray(j) # Nil
<1> DEFINE items == [k \in DOMAIN j.items |-> DecodeResource(j.items[k])]
           value == DecodeResourceArray(j)
<1>1. value = DecodeList(j, items)
  BY DEF DecodeResourceArray
<1>2. DOMAIN items = DOMAIN j.items /\ \A k \in DOMAIN items : items[k] = DecodeResource(j.items[k])
  OBVIOUS
<1> HIDE DEF items, value
<1>3. value.items = items /\ value # Nil /\ \A k \in DOMAIN items : items[k] # Refused
  BY <1>1, ListIsRead DEF value
<1>4. ASSUME NEW k \in DOMAIN items
      PROVE  EncodeResource(items[k]) = EssenceOfResource(j.items[k]) /\ ResourceRegistered(items[k])
  <2>1. ResourceSound(items[k])
    BY <1>3 DEF ResourcesSound, value
  <2> QED
    BY <1>2, <1>3, <2>1, ResourceKept
<1>5. [k \in DOMAIN items |-> EncodeResource(items[k])]
        = [k \in DOMAIN j.items |-> EssenceOfResource(j.items[k])]
  BY <1>2, <1>4
<1> QED
  BY <1>3, <1>4, <1>5 DEF DataRegistered, ItemsOf, value

LEMMA ErrorArrayKept ==
  ASSUME NEW j, DecodeErrors(j) # Refused, ErrorsSound(DecodeErrors(j))
  PROVE  /\ Array([k \in DOMAIN DecodeErrors(j).items |-> EncodeError(DecodeErrors(j).items[k])])
              = Array([k \in DOMAIN j.items |-> EssenceOfNested("error", j.items[k])])
         /\ ErrorsRegistered(DecodeErrors(j))
         /\ DecodeErrors(j) # Nil
<1> DEFINE items == [k \in DOMAIN j.items |-> DecodeError(j.items[k])]
           value == DecodeErrors(j)
<1>1. value = DecodeList(j, items)
  BY DEF DecodeErrors
<1>2. DOMAIN items = DOMAIN j.items /\ \A k \in DOMAIN items : items[k] = DecodeError(j.items[k])
  OBVIOUS
<1> HIDE DEF items, value
<1>3. value.items = items /\ value # Nil /\ \A k \in DOMAIN items : items[k] # Refused
  BY <1>1, ListIsRead DEF value
<1>4. ASSUME NEW k \in DOMAIN items
      PROVE  EncodeError(items[k]) = EssenceOfNested("error", j.items[k]) /\ ErrorRegistered(items[k])
  <2>1. ErrorSound(items[k])
    BY <1>3 DEF ErrorsSound, value
  <2> QED
    BY <1>2, <1>3, <2>1, ErrorKept
<1>5. [k \in DOMAIN items |-> EncodeError(items[k])]
        = [k \in DOMAIN j.items |-> EssenceOfNested("error", j.items[k])]
  BY <1>2, <1>4
<1> QED
  BY <1>3, <1>4, <1>5 DEF ErrorsRegistered, ItemsOf, value

BodyTypes == {"primary", "resources", "errors"} \cup (PartTypes \ {"linkage", "source"})

BodySound(type, value) ==
  /\ type \in {"primary", "resources"} => ResourcesSound(value)
  /\ type = "errors" => ErrorsSound(value)
  /\ type \in PartTypes => PartSound(type, value)

BodyRegistered(type, value) ==
  /\ type \in {"primary", "resources"} => DataRegistered(value)
  /\ type = "errors" => ErrorsRegistered(value)
  /\ type \in PartTypes => PartRegistered(type, value)

LEMMA BodyKept ==
  ASSUME NEW type \in BodyTypes, NEW j, DecodeBody(type, j) # Refused,
         BodySound(type, DecodeBody(type, j))
  PROVE  /\ EncodeBody(type, DecodeBody(type, j)) = EssenceOfBody(type, j)
         /\ IF type = "string" THEN HasText(DecodeBody(type, j)) ELSE DecodeBody(type, j) # Nil
         /\ BodyRegistered(type, DecodeBody(type, j))
<1>1. CASE type = "primary"
  <2>1. DecodeBody(type, j) = DecodePrimaryData(j) /\ EssenceOfBody(type, j) = EssenceOfPrimaryData(j)
    BY <1>1 DEF DecodeBody, EssenceOfBody
  <2>2. EncodeBody(type, DecodePrimaryData(j)) = EncodePrimaryData(DecodePrimaryData(j))
    BY <1>1 DEF EncodeBody
  <2>3. ResourcesSound(DecodePrimaryData(j))
    BY <1>1, <2>1 DEF BodySound
  <2>4. type \notin PartTypes
    BY <1>1 DEF PartTypes
  <2> QED
    BY <1>1, <2>1, <2>2, <2>3, <2>4, PrimaryDataKept DEF BodyRegistered
<1>2. CASE type = "resources"
  <2>1. /\ DecodeBody(type, j) = DecodeResourceArray(j)
        /\ EssenceOfBody(type, j) = Array([k \in DOMAIN j.items |-> EssenceOfResource(j.items[k])])
    BY <1>2 DEF DecodeBody, EssenceOfBody
  <2>2. EncodeBody(type, DecodeResourceArray(j))
          = Array([k \in DOMAIN DecodeResourceArray(j).items |->
                     EncodeResource(DecodeResourceArray(j).items[k])])
    BY <1>2 DEF EncodeBody
  <2>3. ResourcesSound(DecodeResourceArray(j))
    BY <1>2, <2>1 DEF BodySound
  <2>4. type \notin PartTypes
    BY <1>2 DEF PartTypes
  <2> QED
    BY <1>2, <2>1, <2>2, <2>3, <2>4, ResourceArrayKept DEF BodyRegistered
<1>3. CASE type = "errors"
  <2>1. /\ DecodeBody(type, j) = DecodeErrors(j)
        /\ EssenceOfBody(type, j) = Array([k \in DOMAIN j.items |-> EssenceOfNested("error", j.items[k])])
    BY <1>3 DEF DecodeBody, EssenceOfBody
  <2>2. EncodeBody(type, DecodeErrors(j))
          = Array([k \in DOMAIN DecodeErrors(j).items |-> EncodeError(DecodeErrors(j).items[k])])
    BY <1>3 DEF EncodeBody
  <2>3. ErrorsSound(DecodeErrors(j))
    BY <1>3, <2>1 DEF BodySound
  <2>4. type \notin PartTypes
    BY <1>3 DEF PartTypes
  <2> QED
    BY <1>3, <2>1, <2>2, <2>3, <2>4, ErrorArrayKept DEF BodyRegistered
<1>4. CASE type \in PartTypes
  <2>1. type \notin {"primary", "resources", "errors"}
    BY <1>4 DEF PartTypes
  <2>2. DecodeBody(type, j) = DecodePart(type, j) /\ EssenceOfBody(type, j) = EssenceOfPart(type, j)
    BY <2>1 DEF DecodeBody, EssenceOfBody
  <2>3. EncodeBody(type, DecodePart(type, j)) = EncodePart(type, DecodePart(type, j))
    BY <2>1 DEF EncodeBody
  <2>4. PartSound(type, DecodePart(type, j))
    BY <1>4, <2>2 DEF BodySound
  <2> QED
    BY <1>4, <2>1, <2>2, <2>3, <2>4, PartKept DEF BodyRegistered
<1> QED
  BY <1>1, <1>2, <1>3, <1>4 DEF BodyTypes

WholeSound(kind, value) ==
  /\ \A n \in Always(kind) : HasText(value.core[n])
  /\ \A n \in DOMAIN Schema[kind] : BodySound(Schema[kind][n], value.core[n])

LEMMA WholeKept ==
  ASSUME NEW kind \in {"document", "operation", "result"}, NEW j, DecodeWhole(kind, j) # Refused,
         WholeSound(kind, DecodeWhole(kind, j))
  PROVE  /\ EncodeWhole(kind, DecodeWhole(kind, j)) = EssenceOfWhole(kind, j)
         /\ Registered(DecodeWhole(kind, j))
         /\ \A n \in DOMAIN Schema[kind] :
              DecodeWhole(kind, j).core[n] # Nil =>
                BodyRegistered(Schema[kind][n], DecodeWhole(kind, j).core[n])
<1> DEFINE read == [n \in Known(kind, j) |-> DecodeBody(Schema[kind][n], j.members[n])]
           value == DecodeWhole(kind, j)
           written == [n \in Written(kind, value) |-> EncodeBody(Schema[kind][n], value.core[n])]
<1>1. value = DecodeMembers(kind, j, read) /\ DOMAIN read = Known(kind, j)
  BY DEF DecodeWhole
<1>2. kind \in Structs /\ Known(kind, j) \subseteq DOMAIN Schema[kind]
  BY DEF Structs, Schema, Known
<1>3. \A n \in Known(kind, j) : read[n] = DecodeBody(Schema[kind][n], j.members[n])
  OBVIOUS
<1> HIDE DEF read, value
<1>4. /\ \A n \in Known(kind, j) : value.core[n] = read[n] /\ read[n] # Refused
      /\ \A n \in DOMAIN Schema[kind] \ Known(kind, j) :
           value.core[n] = IF Schema[kind][n] = "string" THEN NoText ELSE Nil
  BY <1>1, MembersHeld DEF value
<1>5. ASSUME NEW n \in Known(kind, j)
      PROVE  /\ EncodeBody(Schema[kind][n], value.core[n])
                  = EssenceOfBody(Schema[kind][n], j.members[n])
             /\ IF Schema[kind][n] = "string" THEN HasText(read[n]) ELSE read[n] # Nil
             /\ BodyRegistered(Schema[kind][n], value.core[n])
  <2>1. /\ value.core[n] = DecodeBody(Schema[kind][n], j.members[n])
        /\ value.core[n] = read[n] /\ value.core[n] # Refused
    BY <1>3, <1>4
  <2>2. n \in DOMAIN Schema[kind] /\ Schema[kind][n] \in BodyTypes
    BY <1>2, WholeTypes DEF BodyTypes, PartTypes
  <2>3. BodySound(Schema[kind][n], value.core[n])
    BY <2>2 DEF WholeSound, value
  <2> QED
    BY <2>1, <2>2, <2>3, BodyKept
<1>6. /\ Written(kind, value) = Known(kind, j)
      /\ EncodeMembers(value, written) = Object(written)
      /\ Registered(value)
  BY <1>1, <1>2, <1>5, MembersKept DEF WholeSound, value
<1>7. written = [n \in Known(kind, j) |-> EssenceOfBody(Schema[kind][n], j.members[n])]
  BY <1>5, <1>6
<1>8. EncodeWhole(kind, value) = EssenceOfWhole(kind, j)
  BY <1>6, <1>7 DEF EncodeWhole, EssenceOfWhole
<1>9. ASSUME NEW n \in DOMAIN Schema[kind], value.core[n] # Nil
      PROVE  BodyRegistered(Schema[kind][n], value.core[n])
  <2>1. CASE n \in Known(kind, j)
    BY <1>5, <2>1
  <2>2. CASE n \notin Known(kind, j)
    <3>1. Schema[kind][n] = "string"
      BY <1>4, <1>9, <2>2
    <3> QED
      BY <3>1 DEF BodyRegistered, PartRegistered
  <2> QED
    BY <2>1, <2>2
<1> QED
  BY <1>6, <1>8, <1>9 DEF value

-----------------------------------------------------------------------------
(* What the rules say of the documents that are read *)

LEMMA NamedIsSet ==
  ASSUME NEW core, NEW identity, Identified(core, identity)
  PROVE  HasText(core.type)
<1>1. core.type.text \in Valid.name
  BY DEF Identified, TypeNames
<1> QED
  BY <1>1, EmptyIsNoName DEF HasText

LEMMA LinkageIsSound ==
  ASSUME NEW data, NEW identity, LinkageValid(data, identity)
  PROVE  LinkageSound(data)
<1> SUFFICES ASSUME data # Nil, NEW k \in DOMAIN data.items
             PROVE  HasText(data.items[k].core.type)
  BY DEF LinkageSound
<1>1. Identified(data.items[k].core, identity)
  BY DEF LinkageValid, ItemsOf
<1> QED
  BY <1>1, NamedIsSet

LEMMA RelationshipIsSound ==
  ASSUME NEW relationship, NEW requireData, NEW identity,
         RelationshipValid(relationship, requireData, identity)
  PROVE  RelationshipSound(relationship)
<1>1. LinkageSound(relationship.core.data)
  BY LinkageIsSound DEF RelationshipValid
<1>2. LinksValid(relationship.core.links, {"self", "related"} \cup PaginationLinks)
  BY DEF RelationshipValid
<1>3. LinksSound(relationship.core.links)
  BY <1>2, LinksAreSound
<1> QED
  BY <1>1, <1>3 DEF RelationshipSound

LEMMA ResourceIsSound ==
  ASSUME NEW object, NEW identity, NEW requireData, NEW identifiers,
         ResourceValid(object, identity, requireData, identifiers)
  PROVE  ResourceSound(object)
<1> DEFINE core == object.core
<1>1. HasText(core.type)
  BY NamedIsSet DEF ResourceValid
<1>2. LinksSound(core.links)
  BY LinksAreSound DEF ResourceValid
<1>3. ASSUME core.relationships # Nil, NEW n \in DOMAIN core.relationships.entries \ AtNames
      PROVE  RelationshipSound(core.relationships.entries[n])
  <2>1. RelationshipValid(core.relationships.entries[n], requireData, identifiers)
    BY <1>3 DEF ResourceValid
  <2> QED
    BY <2>1, RelationshipIsSound
<1> QED
  BY <1>1, <1>2, <1>3 DEF ResourceSound, RelationshipsSound

\* A resource with an identity and nothing else.
LEMMA BareIsSound ==
  ASSUME NEW object, HasText(object.core.type), object.core.links = Nil,
         object.core.relationships = Nil
  PROVE  ResourceSound(object)
  BY DEF ResourceSound, LinksSound, RelationshipsSound

LEMMA OneIsRead ==
  ASSUME NEW j, DecodePrimaryData(j) # Refused, DecodePrimaryData(j).kind = "one"
  PROVE  DOMAIN DecodePrimaryData(j).items = {1}
<1> DEFINE one == DecodeResource(j)
           many == [k \in DOMAIN j.items |-> DecodeResource(j.items[k])]
           value == DecodePrimaryData(j)
<1>1. value = DecodeData(j, one, many)
  BY DEF DecodePrimaryData
<1> HIDE DEF one, many, value
<1>2. value.items = <<one>>
  BY <1>1, DataIsRead DEF value
<1> QED
  BY <1>2 DEF value

\* The member data, which every context judges in a way of its own.
LEMMA DataIsSound ==
  ASSUME NEW j, NEW opts, opts.context \in Contexts, DecodePrimaryData(j) # Refused,
         DataValid(DecodePrimaryData(j), opts)
  PROVE  ResourcesSound(DecodePrimaryData(j))
<1> DEFINE data == DecodePrimaryData(j)
<1> SUFFICES ASSUME data # Nil, NEW k \in DOMAIN data.items
             PROVE  ResourceSound(data.items[k])
  BY DEF ResourcesSound
<1>1. CASE opts.context \in {"create", "update"}
  <2>1. \E identity : MutationValid(data, identity, opts)
    BY <1>1 DEF DataValid
  <2>2. data.kind = "one" /\ \E identity : ResourceValid(data.items[1], identity, TRUE, "either")
    BY <2>1 DEF MutationValid
  <2>3. k = 1
    BY <2>2, OneIsRead
  <2> QED
    BY <2>2, <2>3, ResourceIsSound
<1>2. CASE opts.context \in {"toOne", "toMany"}
  <2>1. \E many : RelationshipPrimaryDataValid(data, many)
    BY <1>2 DEF DataValid
  <2>2. /\ Identified(data.items[k].core, "id")
        /\ data.items[k].core.relationships = Nil /\ data.items[k].core.links = Nil
    BY <2>1 DEF RelationshipPrimaryDataValid, ItemsOf
  <2> QED
    BY <2>2, NamedIsSet, BareIsSound
<1>3. CASE opts.context \in {"response", "generic"}
  <2>1. \E identity : PrimaryDataValid(data, identity)
    BY <1>3 DEF DataValid
  <2>2. \E identity : ResourceValid(data.items[k], identity, FALSE, identity)
    BY <2>1 DEF PrimaryDataValid, ItemsOf
  <2> QED
    BY <2>2, ResourceIsSound
<1> QED
  BY <1>1, <1>2, <1>3 DEF Contexts, Requests

LEMMA IncludedIsSound ==
  ASSUME NEW value, NEW opts, IncludedValid(value, opts)
  PROVE  ResourcesSound(value.core.included)
<1> SUFFICES ASSUME value.core.included # Nil, NEW k \in DOMAIN value.core.included.items
             PROVE  ResourceSound(value.core.included.items[k])
  BY DEF ResourcesSound
<1>1. \E identity : ResourceValid(value.core.included.items[k], identity, FALSE, identity)
  BY DEF IncludedValid, ItemsOf
<1> QED
  BY <1>1, ResourceIsSound

LEMMA ErrorsAreSound ==
  ASSUME NEW errors, errors # Nil => \A error \in ItemsOf(errors.items) : ErrorValid(error)
  PROVE  ErrorsSound(errors)
<1> SUFFICES ASSUME errors # Nil, NEW k \in DOMAIN errors.items
             PROVE  LinksSound(errors.items[k].core.links)
  BY DEF ErrorsSound, ErrorSound
<1>1. ErrorValid(errors.items[k])
  BY DEF ItemsOf
<1> QED
  BY <1>1, LinksAreSound DEF ErrorValid

LEMMA JSONAPIIsSound ==
  ASSUME NEW jsonapi, URIListValid(jsonapi.core.ext), URIListValid(jsonapi.core.profile)
  PROVE  FlatSound("jsonapi", jsonapi)
<1>1. Always("jsonapi") = {}
  BY DEF Always
<1>2. "" \notin Valid.absolute
  BY EmptyIsNoName
<1>3. ASSUME NEW n \in DOMAIN Schema["jsonapi"], jsonapi.core[n] # Nil
      PROVE  TextsSound(Schema["jsonapi"][n], jsonapi.core[n])
  <2>1. Schema["jsonapi"][n] \in {"strings", "hreflang"} => n \in {"ext", "profile"}
    BY DEF Schema
  <2>2. CASE n = "ext"
    BY <1>2, <1>3, <2>2 DEF URIListValid, TextsSound
  <2>3. CASE n = "profile"
    BY <1>2, <1>3, <2>3 DEF URIListValid, TextsSound
  <2> QED
    BY <2>1, <2>2, <2>3 DEF TextsSound
<1> QED
  BY <1>1, <1>3 DEF FlatSound

\* The value of a member is what has been read of it, or none.
LEMMA MemberIsRead ==
  ASSUME NEW kind \in Structs, NEW j, DecodeWhole(kind, j) # Refused, NEW n \in DOMAIN Schema[kind],
         DecodeWhole(kind, j).core[n] # Nil, Schema[kind][n] # "string"
  PROVE  /\ DecodeWhole(kind, j).core[n] = DecodeBody(Schema[kind][n], j.members[n])
         /\ DecodeWhole(kind, j).core[n] # Refused
<1> DEFINE read == [m \in Known(kind, j) |-> DecodeBody(Schema[kind][m], j.members[m])]
           value == DecodeWhole(kind, j)
<1>1. value = DecodeMembers(kind, j, read) /\ DOMAIN read = Known(kind, j)
  BY DEF DecodeWhole
<1>2. \A m \in Known(kind, j) : read[m] = DecodeBody(Schema[kind][m], j.members[m])
  OBVIOUS
<1> HIDE DEF read, value
<1>3. /\ \A m \in Known(kind, j) : value.core[m] = read[m] /\ read[m] # Refused
      /\ \A m \in DOMAIN Schema[kind] \ Known(kind, j) :
           value.core[m] = IF Schema[kind][m] = "string" THEN NoText ELSE Nil
  BY <1>1, MembersHeld DEF value
<1>4. n \in Known(kind, j)
  BY <1>3 DEF value
<1> QED
  BY <1>2, <1>3, <1>4 DEF value

LEMMA DocumentIsSound ==
  ASSUME NEW j, NEW opts, opts.context \in Contexts, DecodeDocument(j) # Refused,
         DocumentValid(DecodeDocument(j), opts)
  PROVE  WholeSound("document", DecodeDocument(j))
<1> DEFINE value == DecodeDocument(j)
           core == value.core
<1>1. Always("document") = {}
  BY DEF Always
<1>2. core.jsonapi # Nil => FlatSound("jsonapi", core.jsonapi)
  BY JSONAPIIsSound DEF DocumentValid
<1>3. LinksSound(core.links)
  <2>1. LinksValid(core.links, {"self", "related", "describedby"} \cup PaginationLinks)
    BY DEF DocumentValid
  <2> QED
    BY <2>1, LinksAreSound
<1>4. ResourcesSound(core.data)
  <2> SUFFICES ASSUME core.data # Nil
               PROVE  ResourcesSound(core.data)
    BY DEF ResourcesSound
  <2>1. "document" \in Structs /\ "data" \in DOMAIN Schema["document"] /\ Schema["document"]["data"] = "primary"
    BY DEF Structs, Schema
  <2>2. core["data"] = DecodeBody("primary", j.members["data"]) /\ core["data"] # Refused
    BY <2>1, MemberIsRead DEF DecodeDocument
  <2>3. core.data = DecodePrimaryData(j.members["data"]) /\ core.data # Refused
    BY <2>2 DEF DecodeBody
  <2>4. DataValid(core.data, opts)
    BY DEF DocumentValid
  <2> QED
    BY <2>3, <2>4, DataIsSound
<1>5. ResourcesSound(core.included)
  BY IncludedIsSound DEF DocumentValid
<1>6. ErrorsSound(core.errors)
  BY ErrorsAreSound DEF DocumentValid
<1> HIDE DEF value
<1>7. ASSUME NEW n \in DOMAIN Schema["document"]
      PROVE  BodySound(Schema["document"][n], core[n])
  <2>1. CASE n = "jsonapi"
    BY <1>2, <2>1 DEF Schema, BodySound, PartSound
  <2>2. CASE n = "links"
    BY <1>3, <2>2 DEF Schema, BodySound, PartSound
  <2>3. CASE n = "data"
    BY <1>4, <2>3 DEF Schema, BodySound, PartSound, PartTypes
  <2>4. CASE n = "included"
    BY <1>5, <2>4 DEF Schema, BodySound, PartSound, PartTypes
  <2>5. CASE n = "errors"
    BY <1>6, <2>5 DEF Schema, BodySound, PartSound, PartTypes
  <2>6. CASE n = "meta"
    BY <2>6 DEF Schema, BodySound, PartSound, PartTypes
  <2> QED
    BY <2>1, <2>2, <2>3, <2>4, <2>5, <2>6 DEF Schema
<1> QED
  BY <1>1, <1>7 DEF WholeSound, value

\* A document that has been accepted is written as what has been received, and
\* nothing of it is missing from the registry.
LEMMA DocumentKept ==
  ASSUME NEW j, NEW opts, opts.context \in Contexts, DecodeDocument(j) # Refused,
         DocumentValid(DecodeDocument(j), opts)
  PROVE  /\ EncodeDocument(DecodeDocument(j)) = EssenceOfWhole("document", j)
         /\ MembersRegistered(DecodeDocument(j))
<1> DEFINE value == DecodeDocument(j)
           core == value.core
<1>1. /\ EncodeDocument(value) = EssenceOfWhole("document", j)
      /\ Registered(value)
      /\ \A n \in DOMAIN Schema["document"] :
           core[n] # Nil => BodyRegistered(Schema["document"][n], core[n])
  BY DocumentIsSound, WholeKept DEF DecodeDocument, EncodeDocument
<1> HIDE DEF value
<1>2. core.jsonapi = Nil \/ Registered(core.jsonapi)
  BY <1>1 DEF Schema, BodyRegistered, PartRegistered, PartTypes
<1>3. LinksRegistered(core.links)
  BY <1>1 DEF Schema, BodyRegistered, PartRegistered, PartTypes, LinksRegistered
<1>4. DataRegistered(core.data) /\ DataRegistered(core.included)
  BY <1>1 DEF Schema, BodyRegistered, DataRegistered
<1>5. ErrorsRegistered(core.errors)
  BY <1>1 DEF Schema, BodyRegistered, ErrorsRegistered
<1> QED
  BY <1>1, <1>2, <1>3, <1>4, <1>5 DEF MembersRegistered, value

-----------------------------------------------------------------------------
(* Atomic documents *)

\* None stands for a member that is not there: it is none of the views of one that is.
NoneIsNoView ==
  /\ \A kind, items : None # [kind |-> kind, items |-> items]
  /\ \A type, id, lid, relationship :
       None # [type |-> type, id |-> id, lid |-> lid, relationship |-> relationship]

LEMMA TypeIsSet ==
  ASSUME NEW core, TypeOf(core) # None
  PROVE  HasText(core.type)
<1>1. core.type.text \in Valid.name
  BY DEF TypeOf, TypeNames
<1> QED
  BY <1>1, EmptyIsNoName DEF HasText

\* What a view shows of a resource.
LEMMA ViewedResource ==
  ASSUME NEW object
  PROVE  /\ ResourceView(object).type = TypeOf(object.core)
         /\ ResourceView(object).form = FormOf(object)
  BY DEF ResourceView

LEMMA ViewedData ==
  ASSUME NEW data, data # Nil
  PROVE  /\ DataView(data).kind = data.kind
         /\ DOMAIN DataView(data).items = DOMAIN data.items
         /\ \A k \in DOMAIN data.items : DataView(data).items[k] = ResourceView(data.items[k])
         /\ NoneIsNoView => DataView(data) # None
<1> DEFINE items == [k \in DOMAIN data.items |-> ResourceView(data.items[k])]
<1>1. DOMAIN items = DOMAIN data.items /\ \A k \in DOMAIN data.items : items[k] = ResourceView(data.items[k])
  OBVIOUS
<1>2. DataView(data) = [kind |-> data.kind, items |-> items]
  BY DEF DataView
<1> HIDE DEF items
<1>3. NoneIsNoView => DataView(data) # None
  BY <1>2 DEF NoneIsNoView
<1> QED
  BY <1>1, <1>2, <1>3

LEMMA BareViewIsSound ==
  ASSUME NEW object, ResourceView(object).type # None, ResourceView(object).form = "bare"
  PROVE  ResourceSound(object)
<1>1. HasText(object.core.type)
  BY ViewedResource, TypeIsSet
<1>2. FormOf(object) = "bare"
  BY ViewedResource
<1>3. object.core["links"] = Nil /\ object.core["relationships"] = Nil
  BY <1>2 DEF FormOf
<1> QED
  BY <1>1, <1>3, BareIsSound

LEMMA ViewIsSound ==
  ASSUME NEW object, NEW identity, Rules!ResourceValid(ResourceView(object), identity)
  PROVE  ResourceSound(object)
<1>1. ResourceView(object).type # None /\ ResourceView(object).form # "malformed"
  BY DEF Rules!ResourceValid, Rules!Present
<1>2. CASE ResourceView(object).form = "bare"
  BY <1>1, <1>2, BareViewIsSound
<1>3. CASE ResourceView(object).form # "bare"
  <2>1. FormOf(object) \notin {"malformed", "bare"}
    BY <1>1, <1>3, ViewedResource
  <2>2. ResourceValid(object, "optional", TRUE, "optional")
    BY <2>1 DEF FormOf
  <2> QED
    BY <2>2, ResourceIsSound
<1> QED
  BY <1>2, <1>3

LEMMA RelationshipViewIsSound ==
  ASSUME NEW data, NEW many, data # Nil, Rules!RelationshipDataValid(DataView(data), many)
  PROVE  ResourcesSound(data)
<1> SUFFICES ASSUME NEW k \in DOMAIN data.items
             PROVE  ResourceSound(data.items[k])
  BY DEF ResourcesSound
<1>1. DataView(data).items[k] = ResourceView(data.items[k]) /\ k \in DOMAIN DataView(data).items
  BY ViewedData
<1>2. /\ Rules!IdentifierValid(ResourceView(data.items[k]))
      /\ ResourceView(data.items[k]).form = "bare"
  BY <1>1 DEF Rules!RelationshipDataValid, Rules!ItemsOf
<1> QED
  BY <1>2, BareViewIsSound DEF Rules!IdentifierValid, Rules!Present

LEMMA ResourceViewIsSound ==
  ASSUME NEW j, NEW identity, DecodePrimaryData(j) # Refused,
         Rules!ResourceDataValid(DataView(DecodePrimaryData(j)), identity)
  PROVE  ResourcesSound(DecodePrimaryData(j))
<1> DEFINE data == DecodePrimaryData(j)
<1> SUFFICES ASSUME data # Nil, NEW k \in DOMAIN data.items
             PROVE  ResourceSound(data.items[k])
  BY DEF ResourcesSound
<1>1. DataView(data).kind = "one" /\ Rules!ResourceValid(DataView(data).items[1], identity)
  BY DEF Rules!ResourceDataValid
<1>2. data.kind = "one"
  BY <1>1, ViewedData
<1>3. k = 1
  BY <1>2, OneIsRead
<1>4. DataView(data).items[1] = ResourceView(data.items[1])
  BY <1>3, ViewedData
<1> QED
  BY <1>1, <1>3, <1>4, ViewIsSound

LEMMA ReferenceIsSound ==
  ASSUME NEW reference, NoneIsNoView, reference # Nil,
         Rules!Present(ReferenceView(reference)) => Rules!ReferenceValid(ReferenceView(reference))
  PROVE  FlatSound("reference", reference)
<1> DEFINE core == reference.core
           view == ReferenceView(reference)
<1>1. view = [type |-> TypeOf(core), id |-> NameOf(core.id), lid |-> NameOf(core.lid),
              relationship |-> SyntaxOf(core.relationship, TypeNames)]
  BY DEF ReferenceView
<1> HIDE DEF view
<1>2. view # None
  BY <1>1 DEF NoneIsNoView
<1>3. view.type = TypeOf(core)
  BY <1>1
<1>4. view.type # None
  BY <1>2 DEF Rules!Present, Rules!ReferenceValid, view
<1>5. HasText(core.type)
  BY <1>3, <1>4, TypeIsSet
<1>6. Always("reference") = {"type"}
  BY DEF Always
<1>7. \A n \in DOMAIN Schema["reference"] : Schema["reference"][n] \notin {"strings", "hreflang"}
  BY DEF Schema
<1> QED
  BY <1>5, <1>6, <1>7 DEF FlatSound, TextsSound

LEMMA ViewedOperation ==
  ASSUME NEW operation
  PROVE  /\ OperationView(operation).op = operation.core.op.text
         /\ OperationView(operation).ref = ReferenceView(operation.core.ref)
         /\ OperationView(operation).data = DataView(operation.core.data)
  BY DEF OperationView

\* An operation has data of a resource or of a relationship, if it has any.
LEMMA OperationDataIsJudged ==
  ASSUME NEW o, Rules!OperationValid(o), o.data # None
  PROVE  \/ \E many : Rules!RelationshipDataValid(o.data, many)
         \/ \E identity : Rules!ResourceDataValid(o.data, identity)
<1>1. CASE Rules!AddValid(o)
  BY <1>1 DEF Rules!AddValid
<1>2. CASE Rules!UpdateValid(o)
  BY <1>2 DEF Rules!UpdateValid
<1>3. CASE Rules!RemoveValid(o)
  BY <1>3 DEF Rules!RemoveValid, Rules!Present
<1> QED
  BY <1>1, <1>2, <1>3 DEF Rules!OperationValid

LEMMA OperationIsSound ==
  ASSUME NEW j, NoneIsNoView, DecodeAtomicOperation(j) # Refused,
         Rules!OperationValid(OperationView(DecodeAtomicOperation(j)))
  PROVE  WholeSound("operation", DecodeAtomicOperation(j))
<1> DEFINE value == DecodeAtomicOperation(j)
           core == value.core
           view == OperationView(value)
<1>1. Always("operation") = {"op"}
  BY DEF Always
<1>2. HasText(core.op)
  <2>1. view.op \in {"add", "update", "remove"}
    BY DEF Rules!OperationValid
  <2>2. view.op = core.op.text
    BY ViewedOperation
  <2> HIDE DEF view, core
  <2> QED
    BY <2>1, <2>2 DEF HasText
<1>3. core.ref # Nil => FlatSound("reference", core.ref)
  <2>1. Rules!Present(view.ref) => Rules!ReferenceValid(view.ref)
    BY DEF Rules!OperationValid
  <2>2. view.ref = ReferenceView(core.ref)
    BY ViewedOperation
  <2> HIDE DEF view, core
  <2> QED
    BY <2>1, <2>2, ReferenceIsSound
<1>4. ResourcesSound(core.data)
  <2> SUFFICES ASSUME core.data # Nil
               PROVE  ResourcesSound(core.data)
    BY DEF ResourcesSound
  <2>1. /\ "operation" \in Structs /\ "data" \in DOMAIN Schema["operation"]
        /\ Schema["operation"]["data"] = "primary"
    BY DEF Structs, Schema
  <2>2. core["data"] = DecodeBody("primary", j.members["data"]) /\ core["data"] # Refused
    BY <2>1, MemberIsRead DEF DecodeAtomicOperation
  <2>3. core.data = DecodePrimaryData(j.members["data"]) /\ core.data # Refused
    BY <2>2 DEF DecodeBody
  <2>4. view.data = DataView(core.data)
    BY ViewedOperation
  <2>5. view.data # None
    BY <2>4, ViewedData
  <2>6. Rules!OperationValid(view)
    OBVIOUS
  <2> HIDE DEF view, core
  <2>7. \/ \E many : Rules!RelationshipDataValid(view.data, many)
        \/ \E identity : Rules!ResourceDataValid(view.data, identity)
    BY <2>5, <2>6, OperationDataIsJudged
  <2>8. CASE \E many : Rules!RelationshipDataValid(view.data, many)
    BY <2>4, <2>8, RelationshipViewIsSound
  <2>9. CASE \E identity : Rules!ResourceDataValid(view.data, identity)
    BY <2>3, <2>4, <2>9, ResourceViewIsSound
  <2> QED
    BY <2>7, <2>8, <2>9
<1> HIDE DEF value
<1>5. ASSUME NEW n \in DOMAIN Schema["operation"]
      PROVE  BodySound(Schema["operation"][n], core[n])
  <2>1. CASE n = "ref"
    BY <1>3, <2>1 DEF Schema, BodySound, PartSound
  <2>2. CASE n = "data"
    BY <1>4, <2>2 DEF Schema, BodySound, PartSound, PartTypes
  <2>3. CASE n \in {"op", "href", "meta"}
    BY <2>3 DEF Schema, BodySound, PartSound, PartTypes
  <2> QED
    BY <2>1, <2>2, <2>3 DEF Schema
<1> QED
  BY <1>1, <1>2, <1>5 DEF WholeSound, value

LEMMA ResultIsSound ==
  ASSUME NEW j, DecodeAtomicResult(j) # Refused,
         DecodeAtomicResult(j).core.data # Nil =>
           Rules!ResourceDataValid(DataView(DecodeAtomicResult(j).core.data), "id")
  PROVE  WholeSound("result", DecodeAtomicResult(j))
<1> DEFINE value == DecodeAtomicResult(j)
           core == value.core
<1>1. Always("result") = {}
  BY DEF Always
<1>2. ResourcesSound(core.data)
  <2> SUFFICES ASSUME core.data # Nil
               PROVE  ResourcesSound(core.data)
    BY DEF ResourcesSound
  <2>1. /\ "result" \in Structs /\ "data" \in DOMAIN Schema["result"]
        /\ Schema["result"]["data"] = "primary"
    BY DEF Structs, Schema
  <2>2. core["data"] = DecodeBody("primary", j.members["data"]) /\ core["data"] # Refused
    BY <2>1, MemberIsRead DEF DecodeAtomicResult
  <2>3. core.data = DecodePrimaryData(j.members["data"]) /\ core.data # Refused
    BY <2>2 DEF DecodeBody
  <2>4. Rules!ResourceDataValid(DataView(core.data), "id")
    OBVIOUS
  <2> HIDE DEF core
  <2> QED
    BY <2>3, <2>4, ResourceViewIsSound
<1> HIDE DEF value
<1>3. ASSUME NEW n \in DOMAIN Schema["result"]
      PROVE  BodySound(Schema["result"][n], core[n])
  <2>1. CASE n = "data"
    BY <1>2, <2>1 DEF Schema, BodySound, PartSound, PartTypes
  <2>2. CASE n = "meta"
    BY <2>2 DEF Schema, BodySound, PartSound, PartTypes
  <2> QED
    BY <2>1, <2>2 DEF Schema
<1> QED
  BY <1>1, <1>3 DEF WholeSound, value

LEMMA OperationsKept ==
  ASSUME NEW j, NoneIsNoView, DecodeAtomicOperations(j) # Refused,
         AtomicOperationsValid(DecodeAtomicOperations(j))
  PROVE  /\ EncodeAtomicOperations(DecodeAtomicOperations(j))
              = Array([k \in DOMAIN j.items |-> EssenceOfWhole("operation", j.items[k])])
         /\ DecodeAtomicOperations(j) # Nil
<1> DEFINE items == [k \in DOMAIN j.items |-> DecodeAtomicOperation(j.items[k])]
           value == DecodeAtomicOperations(j)
           views == [k \in DOMAIN value.items |-> OperationView(value.items[k])]
<1>1. value = DecodeList(j, items)
  BY DEF DecodeAtomicOperations
<1>2. /\ DOMAIN items = DOMAIN j.items
      /\ \A k \in DOMAIN items : items[k] = DecodeAtomicOperation(j.items[k])
  OBVIOUS
<1>3. value # Nil => Rules!OperationsValid(views)
  BY DEF AtomicOperationsValid
<1>4. DOMAIN views = DOMAIN value.items /\ \A k \in DOMAIN views : views[k] = OperationView(value.items[k])
  OBVIOUS
<1> HIDE DEF items, value, views
<1>5. value.items = items /\ value # Nil /\ \A k \in DOMAIN items : items[k] # Refused
  BY <1>1, ListIsRead DEF value
<1>6. ASSUME NEW k \in DOMAIN items
      PROVE  EncodeAtomicOperation(items[k]) = EssenceOfWhole("operation", j.items[k])
  <2>1. Rules!OperationValid(OperationView(items[k]))
    BY <1>3, <1>4, <1>5 DEF Rules!OperationsValid
  <2>2. WholeSound("operation", items[k])
    BY <1>2, <1>5, <2>1, OperationIsSound
  <2> QED
    BY <1>2, <1>5, <2>2, WholeKept DEF DecodeAtomicOperation, EncodeAtomicOperation
<1>7. [k \in DOMAIN items |-> EncodeAtomicOperation(items[k])]
        = [k \in DOMAIN j.items |-> EssenceOfWhole("operation", j.items[k])]
  BY <1>2, <1>6
<1> QED
  BY <1>5, <1>7 DEF EncodeAtomicOperations, value

LEMMA ResultsKept ==
  ASSUME NEW j, NEW asked, NoneIsNoView, DecodeAtomicResults(j) # Refused,
         AtomicResultsValid(DecodeAtomicResults(j), asked)
  PROVE  /\ EncodeAtomicResults(DecodeAtomicResults(j))
              = Array([k \in DOMAIN j.items |-> EssenceOfWhole("result", j.items[k])])
         /\ DecodeAtomicResults(j) # Nil
<1> DEFINE items == [k \in DOMAIN j.items |-> DecodeAtomicResult(j.items[k])]
           value == DecodeAtomicResults(j)
<1>1. value = DecodeList(j, items)
  BY DEF DecodeAtomicResults
<1>2. /\ DOMAIN items = DOMAIN j.items
      /\ \A k \in DOMAIN items : items[k] = DecodeAtomicResult(j.items[k])
  OBVIOUS
<1> HIDE DEF items, value
<1>3. value.items = items /\ value # Nil /\ \A k \in DOMAIN items : items[k] # Refused
  BY <1>1, ListIsRead DEF value
<1>4. ASSUME NEW k \in DOMAIN items
      PROVE  EncodeAtomicResult(items[k]) = EssenceOfWhole("result", j.items[k])
  <2> DEFINE data == DataView(items[k].core.data)
  <2>1. \/ \E operation : Rules!ResultValid(data, operation)
        \/ data # None => Rules!ResourceDataValid(data, "id")
    BY <1>3 DEF AtomicResultsValid, value
  <2> HIDE DEF data
  <2>2. data # None => Rules!ResourceDataValid(data, "id")
    BY <2>1 DEF Rules!ResultValid, Rules!Present
  <2>3. items[k].core.data # Nil => Rules!ResourceDataValid(data, "id")
    BY <2>2, ViewedData DEF data
  <2>4. WholeSound("result", items[k])
    BY <1>2, <1>3, <2>3, ResultIsSound DEF data
  <2> QED
    BY <1>2, <1>3, <2>4, WholeKept DEF DecodeAtomicResult, EncodeAtomicResult
<1>5. [k \in DOMAIN items |-> EncodeAtomicResult(items[k])]
        = [k \in DOMAIN j.items |-> EssenceOfWhole("result", j.items[k])]
  BY <1>2, <1>4
<1> QED
  BY <1>3, <1>5 DEF EncodeAtomicResults, value

LEMMA AtomicKept ==
  ASSUME NEW j, NEW opts, NoneIsNoView, DecodeAtomic(j) # Refused,
         AtomicDocumentValid(DecodeAtomic(j), opts)
  PROVE  EncodeAtomic(DecodeAtomic(j)) = EssenceOfAtomic(j)
<1> DEFINE Value(n) == CASE n = "operations" -> DecodeAtomicOperations(j.members[n])
                        [] n = "results"    -> DecodeAtomicResults(j.members[n])
                        [] OTHER            -> DecodeBody(Schema["atomic"][n], j.members[n])
           Items(kind, n) == Array([k \in DOMAIN j.members[n].items |->
                                      EssenceOfWhole(kind, j.members[n].items[k])])
           Kept(n) == CASE n = "operations" -> Items("operation", n)
                        [] n = "results"    -> Items("result", n)
                        [] OTHER            -> EssenceOfBody(Schema["atomic"][n], j.members[n])
           Part(n, v) == CASE n = "operations" -> EncodeAtomicOperations(v)
                           [] n = "results"    -> EncodeAtomicResults(v)
                           [] OTHER            -> EncodeBody(Schema["atomic"][n], v)
           K == Known("atomic", j)
           read == [n \in K |-> Value(n)]
           value == DecodeAtomic(j)
           core == value.core
           written == [n \in Written("atomic", value) |-> Part(n, value.core[n])]
<1>1. value = DecodeMembers("atomic", j, read) /\ DOMAIN read = K
  BY DEF DecodeAtomic
<1>2. "atomic" \in Structs /\ K \subseteq DOMAIN Schema["atomic"]
  BY DEF Structs, Schema, Known
<1>3. \A n \in K : read[n] = Value(n)
  OBVIOUS
<1>4. AtomicDocumentValid(value, opts) /\ value # Refused
  OBVIOUS
<1> HIDE DEF read, value, K
<1>5. \A n \in K : value.core[n] = read[n] /\ read[n] # Refused
  BY <1>1, <1>4, MembersHeld DEF K
<1>6. core.jsonapi # Nil => FlatSound("jsonapi", core.jsonapi)
  BY <1>4, JSONAPIIsSound DEF AtomicDocumentValid, AtomicDeclared
<1>7. LinksSound(core.links)
  <2>1. LinksValid(core.links, {"self", "related", "describedby"} \cup PaginationLinks)
    BY <1>4 DEF AtomicDocumentValid
  <2> QED
    BY <2>1, LinksAreSound
<1>8. ErrorsSound(core.errors)
  BY <1>4, ErrorsAreSound DEF AtomicDocumentValid
<1>9. ASSUME NEW n \in K
      PROVE  Part(n, core[n]) = Kept(n) /\ read[n] # Nil /\ Schema["atomic"][n] # "string"
  <2>1. core[n] = Value(n) /\ core[n] = read[n] /\ core[n] # Refused
    BY <1>3, <1>5
  <2>2. CASE n = "operations"
    <3>1. core["operations"] = DecodeAtomicOperations(j.members[n])
      BY <2>1, <2>2
    <3>2. AtomicOperationsValid(core["operations"])
      BY <1>4 DEF AtomicDocumentValid
    <3>3. /\ EncodeAtomicOperations(core["operations"]) = Items("operation", n)
          /\ core["operations"] # Nil
      BY <2>1, <2>2, <3>1, <3>2, OperationsKept
    <3> HIDE DEF Items
    <3> QED
      BY <2>1, <2>2, <3>3 DEF Schema
  <2>3. CASE n = "results"
    <3>1. core["results"] = DecodeAtomicResults(j.members[n])
      BY <2>1, <2>3
    <3>2. AtomicResultsValid(core["results"], opts.asked)
      BY <1>4 DEF AtomicDocumentValid
    <3>3. /\ EncodeAtomicResults(core["results"]) = Items("result", n)
          /\ core["results"] # Nil
      BY <2>1, <2>3, <3>1, <3>2, ResultsKept
    <3> HIDE DEF Items
    <3> QED
      BY <2>1, <2>3, <3>3 DEF Schema
  <2>4. CASE n \notin {"operations", "results"}
    <3>1. n \in {"jsonapi", "links", "errors", "meta"}
      BY <1>2, <2>4 DEF Schema
    <3>2. BodySound(Schema["atomic"][n], core[n])
      <4>1. CASE n = "jsonapi"
        BY <1>6, <4>1 DEF Schema, BodySound, PartSound
      <4>2. CASE n = "links"
        BY <1>7, <4>2 DEF Schema, BodySound, PartSound
      <4>3. CASE n = "errors"
        BY <1>8, <4>3 DEF Schema, BodySound, PartSound, PartTypes
      <4>4. CASE n = "meta"
        BY <4>4 DEF Schema, BodySound, PartSound, PartTypes
      <4> QED
        BY <3>1, <4>1, <4>2, <4>3, <4>4
    <3>3. Schema["atomic"][n] \in BodyTypes /\ Schema["atomic"][n] # "string"
      BY <3>1 DEF Schema, BodyTypes, PartTypes
    <3>4. core[n] = DecodeBody(Schema["atomic"][n], j.members[n])
      BY <2>1, <2>4
    <3>5. /\ EncodeBody(Schema["atomic"][n], core[n]) = EssenceOfBody(Schema["atomic"][n], j.members[n])
          /\ core[n] # Nil
      BY <2>1, <3>2, <3>3, <3>4, BodyKept
    <3> QED
      BY <2>1, <2>4, <3>3, <3>5
  <2> QED
    BY <2>2, <2>3, <2>4
<1>10. /\ Written("atomic", value) = K
       /\ EncodeMembers(value, written) = Object(written)
  <2>1. Always("atomic") = {}
    BY DEF Always
  <2> HIDE DEF Value, Part, Kept, Items
  <2> QED
    BY <1>1, <1>2, <1>4, <1>9, <2>1, MembersKept DEF K
<1>11. written = [n \in K |-> Kept(n)]
  BY <1>9, <1>10
<1>12. EncodeAtomic(value) = EncodeMembers(value, written)
  BY DEF EncodeAtomic
<1>13. EssenceOfAtomic(j) = Object([n \in K |-> Kept(n)])
  BY DEF EssenceOfAtomic, K
<1> QED
  BY <1>10, <1>11, <1>12, <1>13 DEF value

-----------------------------------------------------------------------------
(* The exchange *)

\* What the receiver holds is what it has read of the payload that reached it, and
\* it writes that.
RelayInv ==
  /\ \E root \in Roots : options.receiver \in Options[root]
  /\ pc \in {"relay", "relayed"} => held = Unmarshal(first, options.receiver) /\ held # Refused
  /\ pc = "relayed" => wire = Encode(held, options.receiver)
  /\ pc # "stuck"

LEMMA UnmarshaledIsKept ==
  ASSUME NoneIsNoView, NEW root \in Roots, NEW o \in Options[root], NEW j, Unmarshal(j, o) # Refused
  PROVE  /\ Marshals(Unmarshal(j, o), o)
         /\ Encode(Unmarshal(j, o), o) = Essence(j, o)
<1> DEFINE value == Decode(j, o)
<1>1. value # Refused /\ Unmarshal(j, o) = value /\ Checked(value, o)
  BY DEF Unmarshal, Judged
<1>2. CASE Root(o) = "atomic"
  <2>1. value = DecodeAtomic(j) /\ AtomicDocumentValid(value, o)
    BY <1>1, <1>2 DEF Decode, Checked
  <2> HIDE DEF value
  <2>2. EncodeAtomic(value) = EssenceOfAtomic(j)
    BY <1>1, <2>1, AtomicKept
  <2> QED
    BY <1>1, <1>2, <2>2 DEF Marshals, Encode, Essence
<1>3. CASE Root(o) # "atomic"
  <2>1. value = DecodeDocument(j) /\ DocumentValid(value, o) /\ Root(o) = "document"
    BY <1>1, <1>3 DEF Decode, Checked, Root
  <2>2. o.context \in Contexts
    BY <1>3, OptionsWellFormed DEF Roots, Root
  <2> HIDE DEF value
  <2>3. EncodeDocument(value) = EssenceOfWhole("document", j) /\ MembersRegistered(value)
    BY <1>1, <2>1, <2>2, DocumentKept
  <2> QED
    BY <1>1, <1>3, <2>3 DEF Marshals, Encode, Essence
<1> QED
  BY <1>2, <1>3

\* UnmarshalWith and MarshalWith, and their Atomic counterparts: whatever payload a
\* receiver accepts, in whatever context, it can write in the same context, and it
\* writes it without the members JSON:API has a receiver ignore and otherwise as it
\* was.
THEOREM RelaysFaithfully == ASSUME NoneIsNoView PROVE ExchangeSpec => []RelaysWhatItReads
<1>1. ExchangeInit => RelayInv
  <2> SUFFICES ASSUME ExchangeInit PROVE RelayInv
    OBVIOUS
  <2>1. PICK root \in Roots : options \in Parties(Options[root])
    BY DEF ExchangeInit
  <2>2. options.receiver \in Options[root]
    BY <2>1 DEF Parties
  <2>3. pc \in {"write", "read"}
    BY DEF ExchangeInit
  <2> QED
    BY <2>2, <2>3 DEF RelayInv
<1>2. RelayInv /\ [ExchangeNext]_exchangeVars => RelayInv'
  <2> SUFFICES ASSUME RelayInv, [ExchangeNext]_exchangeVars PROVE RelayInv'
    OBVIOUS
  <2>1. CASE Write
    BY <2>1 DEF Write, RelayInv
  <2>2. CASE Read
    <3>1. UNCHANGED options /\ first' = wire /\ pc' \in {"relay", "refused"}
      BY <2>2 DEF Read
    <3>2. pc' = "relay" => held' = Unmarshal(wire, options.receiver) /\ held' # Refused
      BY <2>2 DEF Read
    <3> QED
      BY <3>1, <3>2 DEF RelayInv
  <2>3. CASE Relay
    <3>1. held = Unmarshal(first, options.receiver) /\ held # Refused
      BY <2>3 DEF Relay, RelayInv
    <3>2. Marshals(held, options.receiver)
      BY <3>1, UnmarshaledIsKept DEF RelayInv
    <3>3. /\ pc' = "relayed" /\ wire' = Encode(held, options.receiver)
          /\ UNCHANGED <<options, sent, first, held>>
      BY <2>3, <3>2 DEF Relay
    <3> QED
      BY <3>1, <3>3 DEF RelayInv
  <2>4. CASE UNCHANGED exchangeVars
    BY <2>4 DEF exchangeVars, RelayInv
  <2> QED
    BY <2>1, <2>2, <2>3, <2>4 DEF ExchangeNext
<1>3. RelayInv => RelaysWhatItReads
  <2> SUFFICES ASSUME RelayInv, pc = "relayed" PROVE wire = Essence(first, options.receiver)
    BY DEF RelayInv, RelaysWhatItReads
  <2> QED
    BY UnmarshaledIsKept DEF RelayInv
<1> QED
  BY <1>1, <1>2, <1>3, PTL DEF ExchangeSpec

-----------------------------------------------------------------------------
(* What is written is read as it was built: ...Deliverable says what a value must be, *)
(* which the rules see to, and ...Delivered that it then is                          *)

LEMMA JSONFields ==
  /\ \A text : String(text).json = "string" /\ String(text).text = text
  /\ \A items : Array(items).json = "array" /\ Array(items).items = items
  /\ \A members : Object(members).json = "object" /\ Object(members).members = members
  /\ Null.json = "null" /\ Scalar.json = "scalar"
  BY DEF String, Array, Object, Null, Scalar

\* What is left out is not present.
LEMMA NotWritten ==
  ASSUME NEW kind, NEW value, NEW n \in DOMAIN Schema[kind] \ Written(kind, value)
  PROVE  IF Schema[kind][n] = "string" THEN ~HasText(value.core[n]) ELSE value.core[n] = Nil
  BY DEF Written

\* The members that an encoder writes are there, under their names.
LEMMA MembersFound ==
  ASSUME NEW kind \in Structs, NEW value, value.extra \cap DOMAIN Schema[kind] = {},
         NEW written, DOMAIN written = Written(kind, value)
  PROVE  LET j == EncodeMembers(value, written)
         IN /\ j.json = "object"
            /\ Known(kind, j) = Written(kind, value)
            /\ \A n \in Written(kind, value) : j.members[n] = written[n]
            /\ DOMAIN j.members = Written(kind, value) \cup value.extra
<1> DEFINE members == [n \in DOMAIN written \cup value.extra |->
                         IF n \in DOMAIN written THEN written[n] ELSE Scalar]
           j == EncodeMembers(value, written)
<1>1. j.json = "object" /\ j.members = members
  BY DEF EncodeMembers, Object
<1>2. Written(kind, value) \subseteq DOMAIN Schema[kind]
  BY DEF Written
<1>3. DOMAIN members = Written(kind, value) \cup value.extra
  OBVIOUS
<1>4. \A n \in Written(kind, value) : members[n] = written[n]
  OBVIOUS
<1> HIDE DEF members, j
<1>5. Known(kind, j) = Written(kind, value)
  BY <1>1, <1>2, <1>3 DEF Known
<1> QED
  BY <1>1, <1>3, <1>4, <1>5 DEF j

\* A struct is what is decoded of an object in which exactly its present members are
\* known, if each is read as it is held.
LEMMA MembersDelivered ==
  ASSUME NEW kind \in Structs, NEW value, NEW j, j.json = "object",
         Known(kind, j) = Written(kind, value),
         NEW read, DOMAIN read = Known(kind, j),
         NEW core, core = [n \in DOMAIN Schema[kind] |-> core[n]],
         \A n \in Written(kind, value) : read[n] = core[n] /\ read[n] # Refused,
         \A n \in DOMAIN Schema[kind] \ Written(kind, value) :
           core[n] = IF Schema[kind][n] = "string" THEN NoText ELSE Nil
  PROVE  /\ DecodeMembers(kind, j, read) = [core |-> core, extra |-> {}]
         /\ DecodeMembers(kind, j, read) # Refused
<1> DEFINE found == [n \in DOMAIN Schema[kind] |->
                       IF n \in DOMAIN read THEN read[n]
                       ELSE IF Schema[kind][n] = "string" THEN NoText ELSE Nil]
<1>1. DecodeMembers(kind, j, read) = AllOf(read, [core |-> found, extra |-> {}])
  BY DEF DecodeMembers
<1>2. AllOf(read, [core |-> found, extra |-> {}]) = [core |-> found, extra |-> {}]
  BY DEF AllOf
<1>3. found = core
  <2>1. \A n \in DOMAIN Schema[kind] : found[n] = core[n]
    OBVIOUS
  <2> QED
    BY <2>1, Zenon
<1> HIDE DEF found
<1>4. [core |-> core, extra |-> {}] # Refused
  BY DEF Refused
<1> QED
  BY <1>1, <1>2, <1>3, <1>4

\* A text is a value, and what is read of an absent one is none.
LEMMA StringIsRead ==
  ASSUME NEW value, value \in [text : STRING, present : BOOLEAN]
  PROVE  /\ value # Nil
         /\ PlainAsRead("string", value) = [text |-> value.text, present |-> HasText(value)]
         /\ ~HasText(value) => PlainAsRead("string", value) = NoText
<1>1. value # Nil
  BY DEF Nil
<1>2. PlainAsRead("string", value) = [text |-> value.text, present |-> HasText(value)]
  BY <1>1 DEF PlainAsRead
<1>3. ASSUME ~HasText(value) PROVE PlainAsRead("string", value) = NoText
  <2>1. value.text = "" /\ HasText(value) = FALSE
    BY <1>3 DEF HasText
  <2> QED
    BY <1>2, <2>1 DEF NoText
<1> QED
  BY <1>1, <1>2, <1>3

\* An array of texts is read back item by item.
LEMMA StringsDelivered ==
  ASSUME NEW items, items \in Seq(STRING), NEW j,
         j = Array([k \in DOMAIN items |-> String(items[k])])
  PROVE  DecodeStringArray(j) = [items |-> items]
<1>1. j.json = "array" /\ j.items = [k \in DOMAIN items |-> String(items[k])]
  BY DEF Array
<1>2. DOMAIN j.items = DOMAIN items /\ \A k \in DOMAIN items : j.items[k] = String(items[k])
  BY <1>1
<1>3. \A k \in DOMAIN items : j.items[k].json = "string" /\ j.items[k].text = items[k]
  BY <1>2, JSONFields
<1> DEFINE texts == [k \in DOMAIN j.items |-> IF j.items[k].json = "null" THEN "" ELSE j.items[k].text]
<1>4. DecodeStringArray(j) = [items |-> texts]
  BY <1>1, <1>2, <1>3 DEF DecodeStringArray
<1>5. /\ DOMAIN texts = DOMAIN items /\ texts = [k \in DOMAIN texts |-> texts[k]]
      /\ \A k \in DOMAIN items : texts[k] = items[k]
  BY <1>2, <1>3
<1> HIDE DEF texts
<1>6. texts = items
  <2>1. items = [k \in DOMAIN items |-> items[k]]
    OBVIOUS
  <2>2. texts = [k \in DOMAIN items |-> items[k]]
    BY <1>2, <1>5
  <2> QED
    BY <2>1, <2>2
<1> QED
  BY <1>4, <1>6

\* A value of a plain type that is present is read back as it was.
LEMMA PlainDelivered ==
  ASSUME NEW type \in {"string", "strings", "free", "hreflang"}, NEW value, IsPlain(type, value),
         IF type = "string" THEN HasText(value) ELSE value # Nil
  PROVE  /\ DecodePlain(type, EncodePlain(type, value)) = PlainAsRead(type, value)
         /\ PlainAsRead(type, value) # Refused
<1> DEFINE j == EncodePlain(type, value)
<1>1. CASE type = "string"
  <2>1. j = String(value.text)
    BY <1>1 DEF EncodePlain
  <2>2. DecodePlain(type, j) = [text |-> value.text, present |-> TRUE]
    BY <1>1, <2>1, JSONFields DEF DecodePlain, DecodeString
  <2>3. PlainAsRead(type, value) = [text |-> value.text, present |-> TRUE]
    <3>1. HasText(value) = TRUE
      BY <1>1 DEF HasText
    <3> QED
      BY <1>1, <3>1, StringIsRead DEF IsPlain
  <2> QED
    BY <2>2, <2>3 DEF Refused
<1>2. CASE type = "strings"
  <2>1. value \in [items : Seq(STRING)] /\ PlainAsRead(type, value) = value
    BY <1>2 DEF IsPlain, PlainAsRead
  <2>2. value = [items |-> value.items] /\ value.items \in Seq(STRING)
    BY <2>1
  <2>3. j = Array([k \in DOMAIN value.items |-> String(value.items[k])])
    BY <1>2 DEF EncodePlain
  <2>4. DecodePlain(type, j) = DecodeStringArray(j)
    BY <1>2 DEF DecodePlain
  <2>5. value # Refused
    BY <2>2 DEF Refused
  <2> QED
    BY <2>1, <2>2, <2>3, <2>4, <2>5, StringsDelivered
<1>3. CASE type = "free"
  <2>1. j = Object(value.entries)
    BY <1>3 DEF EncodePlain
  <2>2. j.json = "object" /\ j.members = value.entries
    BY <2>1 DEF Object
  <2>3. DecodePlain(type, j) = [entries |-> Stripped(value.entries)]
    BY <1>3, <2>2 DEF DecodePlain, DecodeFree
  <2>4. PlainAsRead(type, value) = [entries |-> Stripped(value.entries)]
    BY <1>3 DEF PlainAsRead
  <2> QED
    BY <2>3, <2>4 DEF Refused
<1>4. CASE type = "hreflang"
  <2>1. /\ value \in [many : BOOLEAN, items : Seq(STRING)] /\ (value.many \/ Len(value.items) = 1)
        /\ PlainAsRead(type, value) = value
    BY <1>4 DEF IsPlain, PlainAsRead, IsHreflang
  <2>2. value = [many |-> value.many, items |-> value.items] /\ value.items \in Seq(STRING)
    BY <2>1
  <2>3. value # Refused
    BY <2>2 DEF Refused
  <2>4. j = EncodeHreflang(value) /\ DecodePlain(type, j) = DecodeHreflang(j)
    BY <1>4 DEF EncodePlain, DecodePlain
  <2>5. CASE value.many
    <3>1. j = Array([k \in DOMAIN value.items |-> String(value.items[k])])
      BY <2>4, <2>5 DEF EncodeHreflang
    <3>2. DecodeStringArray(j) = [items |-> value.items]
      BY <2>2, <3>1, StringsDelivered
    <3>3. DecodeHreflang(j) = [many |-> TRUE, items |-> value.items]
      <4>1. j.json = "array"
        BY <3>1 DEF Array
      <4>2. DecodeStringArray(j).items = value.items /\ DecodeStringArray(j) # Refused
        BY <3>2, ListItems
      <4> QED
        BY <4>1, <4>2 DEF DecodeHreflang
    <3>4. value.many = TRUE
      BY <2>1, <2>5
    <3> QED
      BY <2>1, <2>2, <2>3, <2>4, <3>3, <3>4
  <2>6. CASE ~value.many
    <3>1. Len(value.items) = 1 /\ value.many = FALSE
      BY <2>1, <2>6
    <3>2. value.items # <<>> /\ value.items = <<value.items[1]>>
      BY <2>2, <3>1
    <3>3. j = String(value.items[1])
      BY <2>4, <2>6, <3>2 DEF EncodeHreflang
    <3>4. DecodeHreflang(j) = [many |-> FALSE, items |-> <<value.items[1]>>]
      BY <3>3 DEF DecodeHreflang, String
    <3> QED
      BY <2>1, <2>2, <2>3, <2>4, <3>1, <3>2, <3>4
  <2> QED
    BY <2>5, <2>6
<1> QED
  BY <1>1, <1>2, <1>3, <1>4

-----------------------------------------------------------------------------
(* Links that describe one another *)

\* A property that holds of 0, and of n + 1 if of n, holds of every n.
LEMMA UpFromZero ==
  ASSUME NEW S, 0 \in S, \A n \in Nat : n \in S => n + 1 \in S
  PROVE  Nat \subseteq S
<1> DEFINE without == {n \in Nat : n \notin S}
<1> SUFFICES ASSUME without # {} PROVE FALSE
  OBVIOUS
<1>1. PICK m \in without : \A d \in without : <<d, m>> \notin OpToRel(<, Nat)
  <2>1. without \subseteq Nat
    OBVIOUS
  <2> QED
    BY <2>1, WFMin, NatLessThanWellFounded, Zenon
<1>2. m \in Nat /\ m # 0 /\ m - 1 \in Nat /\ m - 1 < m /\ (m - 1) + 1 = m
  OBVIOUS
<1>3. m - 1 \in without
  BY <1>1, <1>2
<1>4. <<m - 1, m>> \in OpToRel(<, Nat)
  BY <1>2, Zenon DEF OpToRel
<1> QED
  BY <1>1, <1>3, <1>4, Zenon

NestStep(links, nest, depth) ==
  IF depth = Len(links) THEN links[depth]
  ELSE Object([n \in DOMAIN links[depth].members \cup {"describedby"} |->
                 IF n = "describedby" THEN nest[depth + 1] ELSE links[depth].members[n]])

ChainStep(j, chain, depth) ==
  IF depth = 1 THEN <<j>>
  ELSE LET above == chain[depth - 1]
       IN IF Len(above) = depth - 1 /\ Described(above[depth - 1])
          THEN Append(above, above[depth - 1].members["describedby"])
          ELSE above

\* The recursive function by which Nest is defined exists: it can be built from the
\* last link upwards.
LEMMA NestExists ==
  ASSUME NEW S, NEW links \in Seq(S), links # <<>>
  PROVE  \E nest : nest = [depth \in 1..Len(links) |-> NestStep(links, nest, depth)]
<1> DEFINE L == Len(links)
           Innermost(f, m) == \A depth \in 1..L : depth >= L - m => f[depth] = NestStep(links, f, depth)
           built == {m \in Nat : \E f : DOMAIN f = 1..L /\ f = [depth \in DOMAIN f |-> f[depth]]
                                        /\ Innermost(f, m)}
<1>1. L \in Nat /\ L # 0
  OBVIOUS
<1>2. 0 \in built
  <2> DEFINE f == [depth \in 1..L |-> links[depth]]
  <2>1. Innermost(f, 0)
    BY <1>1 DEF NestStep
  <2>2. DOMAIN f = 1..L /\ f = [depth \in DOMAIN f |-> f[depth]]
    OBVIOUS
  <2> QED
    BY <2>1, <2>2
<1>3. ASSUME NEW m \in Nat, m \in built
      PROVE  m + 1 \in built
  <2>1. PICK f : DOMAIN f = 1..L /\ f = [depth \in DOMAIN f |-> f[depth]] /\ Innermost(f, m)
    BY <1>3
  <2> DEFINE g == [depth \in 1..L |-> IF depth < L - m THEN NestStep(links, f, depth) ELSE f[depth]]
  <2>2. DOMAIN g = 1..L /\ g = [depth \in DOMAIN g |-> g[depth]]
    OBVIOUS
  <2>3. \A depth \in 1..L : depth >= L - m => g[depth] = f[depth]
    OBVIOUS
  <2>4. \A depth \in 1..L : depth < L - m => g[depth] = NestStep(links, f, depth)
    OBVIOUS
  <2> HIDE DEF g
  <2>5. ASSUME NEW depth \in 1..L, depth >= L - (m + 1)
        PROVE  g[depth] = NestStep(links, g, depth)
    <3>1. depth = L \/ (depth + 1 \in 1..L /\ depth + 1 >= L - m)
      BY <1>1, <2>5
    <3>2. NestStep(links, g, depth) = NestStep(links, f, depth)
      BY <2>3, <3>1 DEF NestStep
    <3>3. g[depth] = NestStep(links, f, depth)
      <4>1. CASE depth >= L - m
        BY <2>1, <2>3, <4>1
      <4>2. CASE depth < L - m
        BY <2>4, <4>2
      <4> QED
        BY <1>1, <4>1, <4>2
    <3> QED
      BY <3>2, <3>3
  <2> QED
    BY <2>2, <2>5
<1>4. L \in built
  BY <1>1, <1>2, <1>3, UpFromZero
<1>5. PICK f : DOMAIN f = 1..L /\ f = [depth \in DOMAIN f |-> f[depth]] /\ Innermost(f, L)
  BY <1>4
<1>6. \A depth \in 1..L : f[depth] = NestStep(links, f, depth)
  BY <1>1, <1>5
<1>7. f = [depth \in 1..L |-> NestStep(links, f, depth)]
  BY <1>5, <1>6
<1> QED
  BY <1>7

LEMMA NestUnfolded ==
  ASSUME NEW S, NEW links \in Seq(S), links # <<>>
  PROVE  \E nest : /\ Nest(links) = nest[1]
                   /\ \A depth \in 1..Len(links) : nest[depth] = NestStep(links, nest, depth)
<1> DEFINE nest == CHOOSE nest : nest = [depth \in 1..Len(links) |-> NestStep(links, nest, depth)]
<1>1. nest = [depth \in 1..Len(links) |-> NestStep(links, nest, depth)]
  BY NestExists
<1>2. Nest(links) = nest[1]
  BY DEF Nest, NestStep
<1> HIDE DEF nest
<1> QED
  BY <1>1, <1>2, Zenon

\* A JSON link under which others describe one another is followed to the last one.
LEMMA ChainUnfolded ==
  ASSUME NEW nest, NEW L \in 1..MaxNestingDepth,
         \A depth \in 1..L : depth # L => /\ Described(nest[depth])
                                          /\ nest[depth].members["describedby"] = nest[depth + 1],
         ~Described(nest[L])
  PROVE  Chain(nest[1]) = [depth \in 1..L |-> nest[depth]]
<1> DEFINE Prefix(m) == [k \in 1..(IF m <= L THEN m ELSE L) |-> nest[k]]
           j == nest[1]
           M == MaxNestingDepth
           chain == CHOOSE chain : chain = [depth \in 1..M |-> ChainStep(j, chain, depth)]
<1>1. M \in Nat /\ M # 0 /\ L \in Nat /\ L # 0 /\ L <= M
  BY NestingIsLimited
<1>2. Prefix(1) = <<j>>
  BY <1>1
<1>3. ASSUME NEW m \in Nat \ {0}
      PROVE  /\ Len(Prefix(m)) = IF m <= L THEN m ELSE L
             /\ \A k \in 1..(IF m <= L THEN m ELSE L) : Prefix(m)[k] = nest[k]
  BY <1>1
<1>4. ASSUME NEW m \in Nat \ {0}, m < L
      PROVE  Append(Prefix(m), nest[m + 1]) = Prefix(m + 1)
  BY <1>1, <1>4
<1>5. ASSUME NEW m \in Nat \ {0}, ~(m < L)
      PROVE  Prefix(m) = Prefix(m + 1)
  BY <1>1, <1>5
<1> HIDE DEF Prefix, j
<1>6. ASSUME NEW f, NEW m \in Nat \ {0}, f[m] = Prefix(m)
      PROVE  ChainStep(j, f, m + 1) = Prefix(m + 1)
  <2>1. m + 1 # 1 /\ (m + 1) - 1 = m
    OBVIOUS
  <2>2. ChainStep(j, f, m + 1)
          = IF Len(Prefix(m)) = m /\ Described(Prefix(m)[m])
            THEN Append(Prefix(m), Prefix(m)[m].members["describedby"])
            ELSE Prefix(m)
    BY <1>6, <2>1 DEF ChainStep
  <2>3. CASE m < L
    <3>1. Len(Prefix(m)) = m /\ Prefix(m)[m] = nest[m]
      BY <1>1, <1>3, <2>3
    <3>2. m \in 1..L /\ m # L
      BY <1>1, <2>3
    <3>3. Described(nest[m]) /\ nest[m].members["describedby"] = nest[m + 1]
      BY <3>2
    <3> QED
      BY <1>4, <2>2, <2>3, <3>1, <3>3
  <2>4. CASE m = L
    <3>1. Len(Prefix(m)) = m /\ Prefix(m)[m] = nest[L]
      BY <1>1, <1>3, <2>4
    <3> QED
      BY <1>1, <1>5, <2>2, <2>4, <3>1
  <2>5. CASE m > L
    <3>1. Len(Prefix(m)) # m
      BY <1>1, <1>3, <2>5
    <3> QED
      BY <1>1, <1>5, <2>2, <2>5, <3>1
  <2> QED
    BY <1>1, <2>3, <2>4, <2>5
<1>7. \A f : ChainStep(j, f, 1) = Prefix(1)
  BY <1>2 DEF ChainStep
<1>8. \E f : f = [depth \in 1..M |-> ChainStep(j, f, depth)]
  <2> DEFINE f == [depth \in 1..M |-> Prefix(depth)]
  <2>1. ASSUME NEW depth \in 1..M
        PROVE  ChainStep(j, f, depth) = Prefix(depth)
    <3>1. CASE depth = 1
      BY <1>7, <3>1
    <3>2. CASE depth # 1
      <4>1. depth - 1 \in 1..M /\ depth - 1 \in Nat \ {0} /\ (depth - 1) + 1 = depth
        BY <1>1, <3>2
      <4>2. f[depth - 1] = Prefix(depth - 1)
        BY <4>1
      <4> HIDE DEF f
      <4> QED
        BY <1>6, <4>1, <4>2
    <3> QED
      BY <3>1, <3>2
  <2>2. f = [depth \in 1..M |-> ChainStep(j, f, depth)]
    BY <2>1
  <2> QED
    BY <2>2
<1>9. chain = [depth \in 1..M |-> ChainStep(j, chain, depth)]
  BY <1>8
<1>10. Chain(j) = chain[M]
  BY DEF Chain, ChainStep
<1> HIDE DEF chain
<1>11. \A depth \in 1..M : chain[depth] = ChainStep(j, chain, depth)
  BY <1>9, Zenon
<1> DEFINE right == {m \in Nat : m + 1 <= M => chain[m + 1] = Prefix(m + 1)}
<1>12. 0 \in right
  BY <1>1, <1>7, <1>11
<1>13. ASSUME NEW m \in Nat, m \in right
       PROVE  m + 1 \in right
  <2> SUFFICES ASSUME (m + 1) + 1 <= M
               PROVE  chain[(m + 1) + 1] = Prefix((m + 1) + 1)
    OBVIOUS
  <2>1. m + 1 \in Nat \ {0} /\ m + 1 <= M /\ (m + 1) + 1 \in 1..M
    BY <1>1
  <2>2. chain[m + 1] = Prefix(m + 1)
    BY <1>13, <2>1
  <2>3. ChainStep(j, chain, (m + 1) + 1) = Prefix((m + 1) + 1)
    BY <1>6, <2>1, <2>2
  <2> QED
    BY <1>11, <2>1, <2>3
<1>14. Nat \subseteq right
  <2> HIDE DEF right
  <2> QED
    BY <1>12, <1>13, UpFromZero
<1>15. chain[M] = Prefix(M)
  <2>1. M - 1 \in Nat /\ (M - 1) + 1 = M
    BY <1>1
  <2> QED
    BY <1>14, <2>1
<1>16. Prefix(M) = [depth \in 1..L |-> nest[depth]]
  BY <1>1 DEF Prefix
<1> QED
  BY <1>10, <1>15, <1>16 DEF j

\* A struct in JSON, but for members it does not know.
IsStructOf(j, kind, value, written) ==
  /\ j.json = "object"
  /\ Known(kind, j) = Written(kind, value)
  /\ \A n \in Written(kind, value) : j.members[n] = written[n]

LEMMA StructIsWritten ==
  ASSUME NEW kind \in Structs, NEW value, value.extra \subseteq AtNames,
         NEW written, DOMAIN written = Written(kind, value)
  PROVE  IsStructOf(EncodeMembers(value, written), kind, value, written)
<1>1. AtNames \cap DOMAIN Schema[kind] = {}
  BY AtNamesBegin
<1>2. value.extra \cap DOMAIN Schema[kind] = {}
  BY <1>1
<1> QED
  BY <1>2, MembersFound DEF IsStructOf

LEMMA FlatIsRead ==
  ASSUME NEW kind \in Flat, NEW value, IsFlat(kind, value),
         \A n \in Always(kind) : HasText(value.core[n]), NEW j,
         IsStructOf(j, kind, value, [n \in Written(kind, value) |->
                                       EncodePlain(Schema[kind][n], value.core[n])])
  PROVE  /\ DecodeFlat(kind, j) = FlatAsRead(kind, value)
         /\ DecodeFlat(kind, j) # Refused
<1> DEFINE read == [n \in Known(kind, j) |-> DecodePlain(Schema[kind][n], j.members[n])]
           core == [n \in DOMAIN Schema[kind] |-> PlainAsRead(Schema[kind][n], value.core[n])]
<1>1. kind \in Structs
  BY DEF Flat, Structs, Schema
<1>2. DecodeFlat(kind, j) = DecodeMembers(kind, j, read)
  BY DEF DecodeFlat
<1>3. DOMAIN value.core = DOMAIN Schema[kind] /\ \A n \in DOMAIN Schema[kind] : IsPlain(Schema[kind][n], value.core[n])
  BY DEF IsFlat, HasMembers
<1>4. FlatAsRead(kind, value) = [core |-> core, extra |-> {}]
  BY <1>3 DEF FlatAsRead
<1>5. /\ j.json = "object" /\ Known(kind, j) = Written(kind, value)
      /\ \A n \in Written(kind, value) : j.members[n] = EncodePlain(Schema[kind][n], value.core[n])
  BY DEF IsStructOf
<1>6. /\ DOMAIN read = Known(kind, j) /\ core = [n \in DOMAIN Schema[kind] |-> core[n]]
      /\ \A n \in Known(kind, j) : read[n] = DecodePlain(Schema[kind][n], j.members[n])
      /\ \A n \in DOMAIN Schema[kind] : core[n] = PlainAsRead(Schema[kind][n], value.core[n])
  OBVIOUS
<1> HIDE DEF read, core
<1>7. ASSUME NEW n \in Written(kind, value)
      PROVE  read[n] = core[n] /\ read[n] # Refused
  <2>1. n \in DOMAIN Schema[kind] /\ Schema[kind][n] \in {"string", "strings", "free", "hreflang"}
    BY FlatTypes DEF Written
  <2>2. IF Schema[kind][n] = "string" THEN HasText(value.core[n]) ELSE value.core[n] # Nil
    BY <1>1, AlwaysAreStrings DEF Written
  <2>3. /\ DecodePlain(Schema[kind][n], EncodePlain(Schema[kind][n], value.core[n]))
             = PlainAsRead(Schema[kind][n], value.core[n])
        /\ PlainAsRead(Schema[kind][n], value.core[n]) # Refused
    BY <1>3, <2>1, <2>2, PlainDelivered
  <2> QED
    BY <1>5, <1>6, <2>1, <2>3
<1>8. ASSUME NEW n \in DOMAIN Schema[kind] \ Written(kind, value)
      PROVE  core[n] = IF Schema[kind][n] = "string" THEN NoText ELSE Nil
  <2>1. IF Schema[kind][n] = "string" THEN ~HasText(value.core[n]) ELSE value.core[n] = Nil
    BY NotWritten
  <2>2. CASE Schema[kind][n] = "string"
    BY <1>3, <1>6, <2>1, <2>2, StringIsRead DEF IsPlain
  <2>3. CASE Schema[kind][n] # "string"
    BY <1>6, <2>1, <2>3 DEF PlainAsRead
  <2> QED
    BY <2>2, <2>3
<1> QED
  BY <1>1, <1>2, <1>4, <1>5, <1>6, <1>7, <1>8, MembersDelivered

\* A struct of plain members alone is read back.
LEMMA FlatDelivered ==
  ASSUME NEW kind \in Flat, NEW value, IsFlat(kind, value), value.extra \subseteq AtNames,
         \A n \in Always(kind) : HasText(value.core[n])
  PROVE  /\ DecodeFlat(kind, EncodeFlat(kind, value)) = FlatAsRead(kind, value)
         /\ DecodeFlat(kind, EncodeFlat(kind, value)) # Refused
<1> DEFINE written == [n \in Written(kind, value) |-> EncodePlain(Schema[kind][n], value.core[n])]
<1>1. kind \in Structs
  BY DEF Flat, Structs, Schema
<1>2. EncodeFlat(kind, value) = EncodeMembers(value, written)
  BY DEF EncodeFlat
<1>3. IsStructOf(EncodeFlat(kind, value), kind, value, written)
  BY <1>1, <1>2, StructIsWritten
<1> QED
  BY <1>3, FlatIsRead

-----------------------------------------------------------------------------

LinkItselfAsRead(link) ==
  CASE link.form = "string" ->
         [form |-> "string", core |-> [href |-> [text |-> link.core.href.text, present |-> TRUE]]]
    [] link.form = "object" ->
         [form |-> "object", core |-> FlatAsRead("link", link).core, extra |-> {}]
    [] OTHER -> link

\* A link in JSON, whether or not another one describes it.
IsLinkOf(j, link) ==
  IF link.form = "object"
  THEN IsStructOf(j, "link", link, [n \in Written("link", link) |->
                                      EncodePlain(Schema["link"][n], link.core[n])])
  ELSE j = EncodeLinkItself(link)

\* A link is read back, but for what describes it.
LEMMA LinkItselfDelivered ==
  ASSUME NEW link, IsLinkItself(link), LinkItselfValid(link), NEW j, IsLinkOf(j, link)
  PROVE  DecodeLinkItself(j) = LinkItselfAsRead(link) /\ DecodeLinkItself(j) # Refused
<1>1. CASE link = [form |-> "null"]
  <2>1. link.form = "null"
    BY <1>1
  <2>2. j.json = "null"
    BY <2>1, JSONFields DEF IsLinkOf, EncodeLinkItself
  <2>3. DecodeLinkItself(j) = [form |-> "null"]
    BY <2>2 DEF DecodeLinkItself
  <2>4. LinkItselfAsRead(link) = link
    BY <2>1 DEF LinkItselfAsRead
  <2> QED
    BY <1>1, <2>3, <2>4 DEF Refused
<1>2. CASE link.form = "string"
  <2>1. j = String(link.core.href.text)
    BY <1>2 DEF IsLinkOf, EncodeLinkItself
  <2>2. j.json = "string" /\ j.text = link.core.href.text
    BY <2>1, JSONFields
  <2>3. DecodeString(j) = [text |-> link.core.href.text, present |-> TRUE]
    BY <2>2 DEF DecodeString
  <2>4. DecodeLinkItself(j) = [form |-> "string", core |-> [href |-> DecodeString(j)]]
    BY <2>2 DEF DecodeLinkItself
  <2>5. LinkItselfAsRead(link) = [form |-> "string", core |-> [href |-> DecodeString(j)]]
    BY <1>2, <2>3 DEF LinkItselfAsRead
  <2> QED
    BY <2>4, <2>5 DEF Refused
<1>3. CASE link.form = "object" /\ IsFlat("link", link)
  <2>1. HasText(link.core.href)
    BY <1>3 DEF LinkItselfValid, HasText
  <2>2. \A n \in Always("link") : HasText(link.core[n])
    BY <2>1 DEF Always
  <2>3. j.json = "object"
    BY <1>3 DEF IsLinkOf, IsStructOf
  <2>4. DecodeFlat("link", j) = FlatAsRead("link", link) /\ DecodeFlat("link", j) # Refused
    BY <1>3, <2>2, FlatIsRead DEF IsLinkOf, Flat
  <2>5. DecodeLinkItself(j) = [form |-> "object", core |-> FlatAsRead("link", link).core, extra |-> {}]
    BY <2>3, <2>4 DEF DecodeLinkItself, ObjectForm
  <2>6. LinkItselfAsRead(link) = DecodeLinkItself(j)
    BY <1>3, <2>5 DEF LinkItselfAsRead
  <2> QED
    BY <2>5, <2>6, ObjectLink
<1> QED
  BY <1>1, <1>2, <1>3 DEF IsLinkItself

\* An object that links, and what another is put under.
LEMMA ObjectIsWritten ==
  ASSUME NEW link, link.form = "object", IsFlat("link", link), Registered(link)
  PROVE  /\ IsLinkOf(EncodeLinkItself(link), link)
         /\ EncodeLinkItself(link).json = "object"
         /\ "describedby" \notin DOMAIN EncodeLinkItself(link).members
         /\ \A x : IsLinkOf(Object([n \in DOMAIN EncodeLinkItself(link).members \cup {"describedby"} |->
                              IF n = "describedby" THEN x ELSE EncodeLinkItself(link).members[n]]), link)
<1> DEFINE written == [n \in Written("link", link) |-> EncodePlain(Schema["link"][n], link.core[n])]
           j == EncodeLinkItself(link)
<1>1. "link" \in Structs /\ link.extra \subseteq AtNames /\ "describedby" \notin AtNames
      /\ "describedby" \notin DOMAIN Schema["link"]
  BY AtNamesBegin DEF Structs, Schema, Registered
<1>2. j = EncodeMembers(link, written)
  BY DEF EncodeLinkItself, EncodeFlat
<1>3. link.extra \cap DOMAIN Schema["link"] = {}
  BY <1>1, AtNamesBegin
<1>4. /\ j.json = "object" /\ Known("link", j) = Written("link", link)
      /\ \A n \in Written("link", link) : j.members[n] = written[n]
      /\ DOMAIN j.members = Written("link", link) \cup link.extra
  BY <1>1, <1>2, <1>3, MembersFound
<1>5. Written("link", link) \subseteq DOMAIN Schema["link"]
  BY DEF Written
<1> HIDE DEF written
<1>6. "describedby" \notin DOMAIN j.members
  BY <1>1, <1>4, <1>5
<1>7. IsStructOf(j, "link", link, written)
  BY <1>4 DEF IsStructOf
<1> HIDE DEF j
<1>8. ASSUME NEW x
      PROVE  IsStructOf(Object([n \in DOMAIN j.members \cup {"describedby"} |->
                                 IF n = "describedby" THEN x ELSE j.members[n]]), "link", link, written)
  <2> DEFINE members == [n \in DOMAIN j.members \cup {"describedby"} |->
                           IF n = "describedby" THEN x ELSE j.members[n]]
  <2>1. DOMAIN members = DOMAIN j.members \cup {"describedby"}
    OBVIOUS
  <2>2. \A n \in Written("link", link) : members[n] = j.members[n]
    BY <1>1, <1>4, <1>5
  <2> HIDE DEF members
  <2>3. Object(members).json = "object" /\ Object(members).members = members
    BY JSONFields
  <2>4. Known("link", Object(members)) = Known("link", j)
    BY <1>1, <2>1, <2>3 DEF Known
  <2>5. IsStructOf(Object(members), "link", link, written)
    BY <1>4, <2>2, <2>3, <2>4 DEF IsStructOf
  <2> QED
    BY <2>5 DEF members
<1> QED
  BY <1>4, <1>6, <1>7, <1>8 DEF IsLinkOf, j, written

\* A link is read back with all links that describe it.
LEMMA LinkDelivered ==
  ASSUME NEW value, IsLink(value), ~IsExtension(value), LinkValid(value),
         \A k \in DOMAIN value.chain : value.chain[k].form = "object" => Registered(value.chain[k])
  PROVE  /\ DecodeLink(EncodeLink(value)) = LinkAsRead(value)
         /\ DecodeLink(EncodeLink(value)) # Refused
<1> DEFINE chain == value.chain
           L == Len(chain)
           links == [k \in DOMAIN chain |-> EncodeLinkItself(chain[k])]
           S == {links[k] : k \in DOMAIN links}
<1>1. /\ chain \in Seq({chain[k] : k \in DOMAIN chain}) /\ L \in 1..MaxNestingDepth
      /\ \A k \in DOMAIN chain : IsLinkItself(chain[k]) /\ (k < L => chain[k].form = "object")
  BY DEF IsLink, IsExtension, IsSequence
<1>2. DOMAIN chain = 1..L /\ L \in Nat /\ L # 0
  BY <1>1, NestingIsLimited
<1>3. links \in Seq(S) /\ Len(links) = L /\ links # <<>>
  BY <1>2
<1>4. \A k \in 1..L : links[k] = EncodeLinkItself(chain[k])
  BY <1>2
<1>5. EncodeLink(value) = Nest(links)
  BY DEF EncodeLink
<1>6. LinkAsRead(value) = [chain |-> [k \in 1..L |-> LinkItselfAsRead(chain[k])]]
  BY <1>2 DEF LinkAsRead, LinkItselfAsRead
<1>7. \A k \in 1..L : LinkItselfValid(chain[k]) /\ (chain[k].form = "object" => Registered(chain[k]))
  BY <1>2 DEF LinkValid
<1> HIDE DEF chain, L, links, S
<1>8. PICK nest : /\ Nest(links) = nest[1]
                  /\ \A depth \in 1..L : nest[depth] = NestStep(links, nest, depth)
  BY <1>3, NestUnfolded
<1>9. ASSUME NEW k \in 1..L, k # L
      PROVE  /\ Described(nest[k]) /\ nest[k].members["describedby"] = nest[k + 1]
             /\ IsLinkOf(nest[k], chain[k])
  <2>1. k \in DOMAIN chain /\ k < L
    BY <1>2, <1>9
  <2>2. chain[k].form = "object" /\ IsFlat("link", chain[k]) /\ Registered(chain[k])
    <3>1. chain[k].form = "object" /\ IsLinkItself(chain[k])
      BY <1>1, <2>1
    <3>2. chain[k] # [form |-> "null"]
      BY <3>1
    <3> QED
      BY <1>7, <3>1, <3>2 DEF IsLinkItself
  <2> DEFINE members == [n \in DOMAIN links[k].members \cup {"describedby"} |->
                           IF n = "describedby" THEN nest[k + 1] ELSE links[k].members[n]]
  <2>3. nest[k] = Object(members)
    BY <1>3, <1>8, <1>9 DEF NestStep
  <2>4. IsLinkOf(nest[k], chain[k])
    BY <1>4, <2>2, <2>3, ObjectIsWritten
  <2>5. "describedby" \in DOMAIN members /\ members["describedby"] = nest[k + 1]
    OBVIOUS
  <2> HIDE DEF members
  <2>6. nest[k].json = "object" /\ nest[k].members = members
    BY <2>3, JSONFields
  <2> QED
    BY <2>4, <2>5, <2>6 DEF Described
<1>10. ~Described(nest[L]) /\ IsLinkOf(nest[L], chain[L])
  <2>0. L \in 1..L
    BY <1>2
  <2>1. nest[L] = EncodeLinkItself(chain[L])
    <3>1. nest[L] = NestStep(links, nest, L) /\ links[L] = EncodeLinkItself(chain[L])
      BY <1>4, <1>8, <2>0
    <3>2. NestStep(links, nest, L) = links[L]
      BY <1>3 DEF NestStep
    <3> QED
      BY <3>1, <3>2
  <2>2. IsLinkItself(chain[L])
    BY <1>1, <1>2
  <2>3. CASE chain[L] = [form |-> "null"]
    <3>1. chain[L].form = "null"
      BY <2>3
    <3> QED
      BY <2>1, <3>1, JSONFields DEF EncodeLinkItself, Described, IsLinkOf
  <2>4. CASE chain[L].form = "string"
    BY <2>1, <2>4, JSONFields DEF EncodeLinkItself, Described, IsLinkOf
  <2>5. CASE chain[L].form = "object" /\ IsFlat("link", chain[L])
    <3>1. Registered(chain[L])
      BY <1>7, <2>0, <2>5
    <3>2. IsLinkOf(EncodeLinkItself(chain[L]), chain[L])
      BY <2>5, <3>1, ObjectIsWritten
    <3>3. "describedby" \notin DOMAIN EncodeLinkItself(chain[L]).members
      BY <2>5, <3>1, ObjectIsWritten
    <3> QED
      BY <2>1, <3>2, <3>3 DEF Described
  <2> QED
    BY <2>2, <2>3, <2>4, <2>5 DEF IsLinkItself
<1>11. Chain(nest[1]) = [k \in 1..L |-> nest[k]]
  BY <1>1, <1>9, <1>10, ChainUnfolded DEF L
<1> DEFINE found == Chain(nest[1])
           read == [k \in DOMAIN found |-> DecodeLinkItself(found[k])]
<1>12. DecodeLink(nest[1]) = AllOf(read, [chain |-> read])
  BY DEF DecodeLink, Chained
<1>13. read = [k \in 1..L |-> DecodeLinkItself(nest[k])]
  BY <1>11
<1> HIDE DEF found, read
<1>14. ASSUME NEW k \in 1..L
       PROVE  DecodeLinkItself(nest[k]) = LinkItselfAsRead(chain[k]) /\ DecodeLinkItself(nest[k]) # Refused
  <2>1. IsLinkItself(chain[k]) /\ LinkItselfValid(chain[k])
    BY <1>1, <1>2, <1>7
  <2>2. IsLinkOf(nest[k], chain[k])
    BY <1>9, <1>10
  <2> QED
    BY <2>1, <2>2, LinkItselfDelivered
<1>15. read = [k \in 1..L |-> LinkItselfAsRead(chain[k])] /\ \A k \in DOMAIN read : read[k] # Refused
  BY <1>13, <1>14
<1>16. DecodeLink(nest[1]) = [chain |-> read]
  BY <1>12, <1>15 DEF AllOf
<1> QED
  BY <1>5, <1>6, <1>8, <1>15, <1>16 DEF Refused

\* A links object is read back, but for @-Members.
LEMMA LinksDelivered ==
  ASSUME NEW value, value # Nil, IsLinks(value), LinksSound(value), LinksRegistered(value)
  PROVE  /\ DecodeLinks(EncodeLinks(value)) = LinksAsRead(value)
         /\ DecodeLinks(EncodeLinks(value)) # Refused
<1> DEFINE written == [n \in DOMAIN value.entries |-> EncodeLink(value.entries[n])]
           j == Object(written)
           read == [n \in DOMAIN j.members \ AtNames |-> DecodeLink(j.members[n])]
<1>1. EncodeLinks(value) = j
  BY DEF EncodeLinks
<1>2. j.json = "object" /\ j.members = written
  BY JSONFields
<1>3. DecodeLinks(j) = AllOf(read, [entries |-> read])
  BY <1>2 DEF DecodeLinks, DecodeMap
<1>4. read = [n \in DOMAIN value.entries \ AtNames |-> DecodeLink(EncodeLink(value.entries[n]))]
  BY <1>2
<1> HIDE DEF written, j, read
<1>5. ASSUME NEW n \in DOMAIN value.entries \ AtNames
      PROVE  /\ DecodeLink(EncodeLink(value.entries[n])) = LinkAsRead(value.entries[n])
             /\ DecodeLink(EncodeLink(value.entries[n])) # Refused
  <2>1. ~IsExtension(value.entries[n])
    BY DEF LinksRegistered
  <2>2. LinkValid(value.entries[n]) /\ IsLink(value.entries[n])
    BY <2>1 DEF LinksSound, IsLinks
  <2>3. \A k \in DOMAIN value.entries[n].chain :
          value.entries[n].chain[k].form = "object" => Registered(value.entries[n].chain[k])
    BY <2>1 DEF LinksRegistered
  <2> QED
    BY <2>1, <2>2, <2>3, LinkDelivered
<1>6. /\ read = [n \in DOMAIN value.entries \ AtNames |-> LinkAsRead(value.entries[n])]
      /\ \A n \in DOMAIN read : read[n] # Refused
  BY <1>4, <1>5
<1>7. DecodeLinks(j) = [entries |-> read]
  BY <1>3, <1>6 DEF AllOf
<1> QED
  BY <1>1, <1>6, <1>7 DEF LinksAsRead, Refused

-----------------------------------------------------------------------------

\* Data is written and read item by item, whatever its items are.
LEMMA DataDelivered ==
  ASSUME NEW value, IsData(value), value.kind # "zero",
         NEW written, NEW read, read = [k \in DOMAIN value.items |-> read[k]],
         \A k \in DOMAIN value.items : read[k] # Refused,
         NEW one, NEW many,
         value.kind = "one" => written[1].json = "object" /\ one = read[1],
         value.kind = "many" => many = read
  PROVE  /\ DecodeData(EncodeData(value, written), one, many) = [kind |-> value.kind, items |-> read]
         /\ DecodeData(EncodeData(value, written), one, many) # Refused
<1> DEFINE j == EncodeData(value, written)
           data == [kind |-> value.kind, items |-> read]
<1>1. data # Refused
  BY DEF Refused
<1>2. value.items \in Seq({value.items[k] : k \in DOMAIN value.items})
  BY DEF IsData, IsSequence
<1>3. CASE value.kind = "null"
  <2>1. j.json = "null"
    BY <1>3, JSONFields DEF EncodeData
  <2>2. read = <<>>
    <3>1. value.items = <<>>
      BY <1>3 DEF IsData
    <3>2. DOMAIN value.items = {}
      BY <3>1
    <3>3. read = [k \in {} |-> read[k]]
      BY <3>2
    <3> QED
      BY <3>3
  <2>3. DecodeData(j, one, many) = [kind |-> "null", items |-> <<>>]
    BY <2>1 DEF DecodeData
  <2> QED
    BY <1>1, <1>3, <2>2, <2>3
<1>4. CASE value.kind = "one"
  <2>1. j = written[1]
    BY <1>4 DEF EncodeData
  <2>2. DOMAIN value.items = 1..1
    BY <1>2, <1>4 DEF IsData
  <2>3. read[1] # Refused
    BY <2>2
  <2>4. DecodeData(j, one, many) = [kind |-> "one", items |-> <<read[1]>>]
    BY <1>4, <2>1, <2>3 DEF DecodeData
  <2>5. <<read[1]>> = read
    BY <2>2
  <2> QED
    BY <1>1, <1>4, <2>4, <2>5
<1>5. CASE value.kind = "many"
  <2>1. j.json = "array"
    BY <1>5, JSONFields DEF EncodeData
  <2>2. DecodeData(j, one, many) = AllOf(read, [kind |-> "many", items |-> read])
    BY <1>5, <2>1 DEF DecodeData
  <2>3. \A k \in DOMAIN read : read[k] # Refused
    OBVIOUS
  <2>4. DecodeData(j, one, many) = [kind |-> "many", items |-> read]
    BY <2>2, <2>3 DEF AllOf
  <2> QED
    BY <1>1, <1>5, <2>4
<1> QED
  BY <1>3, <1>4, <1>5 DEF IsData

\* A member an encoder has written is read into the place it came from.
LEMMA StructDelivered ==
  ASSUME NEW kind \in Structs, NEW value, value.extra \subseteq AtNames,
         NEW written, DOMAIN written = Written(kind, value), NEW j, j = EncodeMembers(value, written),
         NEW read, DOMAIN read = Known(kind, j),
         NEW core, core = [n \in DOMAIN Schema[kind] |-> core[n]],
         \A n \in Written(kind, value) :
           n \in Known(kind, j) /\ j.members[n] = written[n] => read[n] = core[n] /\ read[n] # Refused,
         \A n \in DOMAIN Schema[kind] \ Written(kind, value) :
           core[n] = IF Schema[kind][n] = "string" THEN NoText ELSE Nil
  PROVE  /\ DecodeMembers(kind, j, read) = [core |-> core, extra |-> {}]
         /\ DecodeMembers(kind, j, read) # Refused
<1>1. IsStructOf(j, kind, value, written)
  BY StructIsWritten
<1>2. /\ j.json = "object" /\ Known(kind, j) = Written(kind, value)
      /\ \A n \in Written(kind, value) : j.members[n] = written[n]
  BY <1>1 DEF IsStructOf
<1>3. \A n \in Written(kind, value) : read[n] = core[n] /\ read[n] # Refused
  BY <1>2
<1> QED
  BY <1>2, <1>3, MembersDelivered

\* What a struct is written as is an object.
LEMMA StructIsObject ==
  ASSUME NEW value, NEW written
  PROVE  EncodeMembers(value, written).json = "object"
  BY JSONFields DEF EncodeMembers

LinkageDeliverable(data) ==
  /\ IsData(data) /\ data.kind # "zero"
  /\ \A k \in DOMAIN data.items :
       /\ IsFlat("identifier", data.items[k]) /\ Registered(data.items[k])
       /\ HasText(data.items[k].core.type)

\* Linkage is read back: null, one or many, in order.
LEMMA LinkageDelivered ==
  ASSUME NEW value, LinkageDeliverable(value)
  PROVE  /\ DecodeLinkage(EncodeLinkage(value)) = LinkageAsRead(value)
         /\ DecodeLinkage(EncodeLinkage(value)) # Refused
<1> DEFINE written == [k \in DOMAIN value.items |-> EncodeIdentifier(value.items[k])]
           read == [k \in DOMAIN value.items |-> FlatAsRead("identifier", value.items[k])]
           j == EncodeData(value, written)
           one == DecodeIdentifier(j)
           many == [k \in DOMAIN j.items |-> DecodeIdentifier(j.items[k])]
<1>1. EncodeLinkage(value) = j /\ DecodeLinkage(j) = DecodeData(j, one, many)
  BY DEF EncodeLinkage, DecodeLinkage
<1>2. LinkageAsRead(value) = [kind |-> value.kind, items |-> read]
  BY DEF LinkageAsRead
<1>3. ASSUME NEW k \in DOMAIN value.items
      PROVE  /\ DecodeIdentifier(written[k]) = read[k] /\ read[k] # Refused
             /\ written[k].json = "object"
  <2>1. /\ IsFlat("identifier", value.items[k]) /\ value.items[k].extra \subseteq AtNames
        /\ HasText(value.items[k].core.type)
    BY DEF LinkageDeliverable, Registered
  <2>2. Always("identifier") = {"type"}
    BY DEF Always
  <2>3. \A n \in Always("identifier") : HasText(value.items[k].core[n])
    BY <2>1, <2>2
  <2>4. written[k] = EncodeFlat("identifier", value.items[k])
    BY DEF EncodeIdentifier
  <2> HIDE DEF written
  <2>5. /\ DecodeFlat("identifier", written[k]) = FlatAsRead("identifier", value.items[k])
        /\ DecodeFlat("identifier", written[k]) # Refused
    BY <2>1, <2>3, <2>4, FlatDelivered DEF Flat
  <2>6. written[k].json = "object"
    BY <2>4, StructIsObject DEF EncodeFlat
  <2> QED
    BY <2>5, <2>6 DEF DecodeIdentifier
<1>4. IsData(value) /\ value.kind # "zero"
  BY DEF LinkageDeliverable
<1>5. read = [k \in DOMAIN value.items |-> read[k]] /\ DOMAIN written = DOMAIN value.items
  OBVIOUS
<1> HIDE DEF written, read
<1>6. value.kind = "one" => written[1].json = "object" /\ one = read[1]
  <2> SUFFICES ASSUME value.kind = "one" PROVE written[1].json = "object" /\ one = read[1]
    OBVIOUS
  <2>1. 1 \in DOMAIN value.items
    BY <1>4 DEF IsData, IsSequence
  <2>2. j = written[1]
    BY DEF EncodeData
  <2> QED
    BY <1>3, <2>1, <2>2
<1>7. value.kind = "many" => many = read
  <2> SUFFICES ASSUME value.kind = "many" PROVE many = read
    OBVIOUS
  <2>1. j = Array(written)
    BY DEF EncodeData
  <2>2. j.items = written
    BY <2>1, JSONFields
  <2>3. many = [k \in DOMAIN value.items |-> DecodeIdentifier(written[k])]
    BY <1>5, <2>2
  <2> QED
    BY <1>3, <1>5, <2>3
<1>8. DecodeData(j, one, many) = [kind |-> value.kind, items |-> read] /\ DecodeData(j, one, many) # Refused
  <2> HIDE DEF one, many
  <2> QED
    BY <1>3, <1>4, <1>5, <1>6, <1>7, DataDelivered
<1> QED
  BY <1>1, <1>2, <1>8

-----------------------------------------------------------------------------

PartDeliverable(type, value) ==
  /\ IsPart(type, value)
  /\ value # Nil =>
       /\ type = "links" => LinksSound(value) /\ LinksRegistered(value)
       /\ type = "linkage" => LinkageDeliverable(value)
       /\ type \in {"jsonapi", "source", "reference"} =>
            Registered(value) /\ \A n \in Always(type) : HasText(value.core[n])

\* So is every member of a resource, a relationship or an error,
LEMMA PartDelivered ==
  ASSUME NEW type \in PartTypes, NEW value, PartDeliverable(type, value),
         IF type = "string" THEN HasText(value) ELSE value # Nil
  PROVE  /\ DecodePart(type, EncodePart(type, value)) = PartAsRead(type, value)
         /\ DecodePart(type, EncodePart(type, value)) # Refused
<1>1. value # Nil
  BY StringIsRead DEF PartDeliverable, IsPart, IsPlain
<1>2. CASE type = "links"
  <2>1. EncodePart(type, value) = EncodeLinks(value) /\ PartAsRead(type, value) = LinksAsRead(value)
    BY <1>1, <1>2 DEF EncodePart, PartAsRead
  <2>2. \A x : DecodePart(type, x) = DecodeLinks(x)
    BY <1>2 DEF DecodePart
  <2> QED
    BY <1>1, <1>2, <2>1, <2>2, LinksDelivered DEF PartDeliverable, IsPart
<1>3. CASE type = "linkage"
  <2>1. EncodePart(type, value) = EncodeLinkage(value) /\ PartAsRead(type, value) = LinkageAsRead(value)
    BY <1>1, <1>3 DEF EncodePart, PartAsRead
  <2>2. \A x : DecodePart(type, x) = DecodeLinkage(x)
    BY <1>3 DEF DecodePart
  <2> QED
    BY <1>1, <1>3, <2>1, <2>2, LinkageDelivered DEF PartDeliverable
<1>4. CASE type \in {"jsonapi", "source", "reference"}
  <2>1. EncodePart(type, value) = EncodeFlat(type, value) /\ PartAsRead(type, value) = FlatAsRead(type, value)
    BY <1>1, <1>4 DEF EncodePart, PartAsRead, EncodeJSONAPI, EncodeErrorSource, EncodeAtomicReference
  <2>2. \A x : DecodePart(type, x) = DecodeFlat(type, x)
    BY <1>4 DEF DecodePart, DecodeJSONAPI, DecodeErrorSource, DecodeAtomicReference
  <2>3. /\ IsFlat(type, value) /\ value.extra \subseteq AtNames /\ type \in Flat
        /\ \A n \in Always(type) : HasText(value.core[n])
    BY <1>1, <1>4 DEF PartDeliverable, IsPart, Registered, Flat
  <2> QED
    BY <2>1, <2>2, <2>3, FlatDelivered
<1>5. CASE type \in {"string", "free"}
  <2>1. EncodePart(type, value) = EncodePlain(type, value) /\ PartAsRead(type, value) = PlainAsRead(type, value)
    BY <1>1, <1>5 DEF EncodePart, PartAsRead
  <2>2. \A x : DecodePart(type, x) = DecodePlain(type, x)
    BY <1>5 DEF DecodePart
  <2>3. IsPlain(type, value)
    BY DEF PartDeliverable, IsPart
  <2> QED
    BY <1>5, <2>1, <2>2, <2>3, PlainDelivered
<1> QED
  BY <1>2, <1>3, <1>4, <1>5 DEF PartTypes

\* and one that is not present is read as absent.
LEMMA PartAbsent ==
  ASSUME NEW type \in PartTypes, NEW value, IsPart(type, value),
         IF type = "string" THEN ~HasText(value) ELSE value = Nil
  PROVE  PartAsRead(type, value) = IF type = "string" THEN NoText ELSE Nil
<1>1. CASE type = "string"
  <2>1. PartAsRead(type, value) = PlainAsRead(type, value)
    BY <1>1 DEF PartAsRead, PlainAsRead
  <2> QED
    BY <1>1, <2>1, StringIsRead DEF IsPart, IsPlain
<1>2. CASE type # "string"
  BY <1>2 DEF PartAsRead
<1> QED
  BY <1>1, <1>2

NestedDeliverable(kind, value) ==
  /\ HasMembers(kind, value) /\ Registered(value)
  /\ \A n \in DOMAIN Schema[kind] : PartDeliverable(Schema[kind][n], value.core[n])

\* A relationship or an error is read back, member by member.
LEMMA NestedDelivered ==
  ASSUME NEW kind \in {"relationship", "error"}, NEW value, NestedDeliverable(kind, value)
  PROVE  /\ DecodeNested(kind, EncodeNested(kind, value)) = NestedAsRead(kind, value)
         /\ DecodeNested(kind, EncodeNested(kind, value)) # Refused
<1> DEFINE written == [n \in Written(kind, value) |-> EncodePart(Schema[kind][n], value.core[n])]
           j == EncodeMembers(value, written)
           read == [n \in Known(kind, j) |-> DecodePart(Schema[kind][n], j.members[n])]
           core == [n \in DOMAIN Schema[kind] |-> PartAsRead(Schema[kind][n], value.core[n])]
<1>1. EncodeNested(kind, value) = j /\ DecodeNested(kind, j) = DecodeMembers(kind, j, read)
  BY DEF EncodeNested, DecodeNested
<1>2. NestedAsRead(kind, value) = [core |-> core, extra |-> {}]
  BY DEF NestedAsRead, NestedDeliverable, HasMembers
<1>3. kind \in Structs /\ value.extra \subseteq AtNames /\ Always(kind) = {}
  BY DEF NestedDeliverable, Registered, Structs, Schema, Always
<1>4. /\ DOMAIN written = Written(kind, value) /\ DOMAIN read = Known(kind, j)
      /\ core = [n \in DOMAIN Schema[kind] |-> core[n]]
      /\ \A n \in Written(kind, value) : written[n] = EncodePart(Schema[kind][n], value.core[n])
      /\ \A n \in Known(kind, j) : read[n] = DecodePart(Schema[kind][n], j.members[n])
      /\ \A n \in DOMAIN Schema[kind] : core[n] = PartAsRead(Schema[kind][n], value.core[n])
  OBVIOUS
<1> HIDE DEF written, read, core
<1>5. ASSUME NEW n \in DOMAIN Schema[kind]
      PROVE  Schema[kind][n] \in PartTypes /\ PartDeliverable(Schema[kind][n], value.core[n])
  BY NestedTypes DEF PartTypes, NestedDeliverable
<1>6. ASSUME NEW n \in Written(kind, value), n \in Known(kind, j), j.members[n] = written[n]
      PROVE  read[n] = core[n] /\ read[n] # Refused
  <2>1. n \in DOMAIN Schema[kind]
    BY DEF Written
  <2>2. IF Schema[kind][n] = "string" THEN HasText(value.core[n]) ELSE value.core[n] # Nil
    BY <1>3 DEF Written
  <2> QED
    BY <1>4, <1>5, <1>6, <2>1, <2>2, PartDelivered
<1>7. ASSUME NEW n \in DOMAIN Schema[kind] \ Written(kind, value)
      PROVE  core[n] = IF Schema[kind][n] = "string" THEN NoText ELSE Nil
  BY <1>4, <1>5, NotWritten, PartAbsent DEF PartDeliverable
<1> HIDE DEF j
<1>8. /\ DOMAIN written = Written(kind, value) /\ j = EncodeMembers(value, written)
       /\ DOMAIN read = Known(kind, j) /\ core = [n \in DOMAIN Schema[kind] |-> core[n]]
  BY <1>4 DEF j
<1>9. \A n \in Written(kind, value) :
         n \in Known(kind, j) /\ j.members[n] = written[n] => read[n] = core[n] /\ read[n] # Refused
  BY <1>6
<1>10. \A n \in DOMAIN Schema[kind] \ Written(kind, value) :
         core[n] = IF Schema[kind][n] = "string" THEN NoText ELSE Nil
  BY <1>7
<1>11. /\ DecodeMembers(kind, j, read) = [core |-> core, extra |-> {}]
       /\ DecodeMembers(kind, j, read) # Refused
  BY <1>3, <1>8, <1>9, <1>10, StructDelivered
<1> QED
  BY <1>1, <1>2, <1>11

RelationshipsDeliverable(relationships) ==
  relationships # Nil =>
    \A n \in DOMAIN relationships.entries \ AtNames :
      NestedDeliverable("relationship", relationships.entries[n])

\* Relationships are read back, but for @-Members.
LEMMA RelationshipsDelivered ==
  ASSUME NEW value, value # Nil, RelationshipsDeliverable(value)
  PROVE  /\ DecodeRelationships(EncodeRelationships(value)) = RelationshipsAsRead(value)
         /\ DecodeRelationships(EncodeRelationships(value)) # Refused
<1> DEFINE written == [n \in DOMAIN value.entries |-> EncodeRelationship(value.entries[n])]
           j == Object(written)
           read == [n \in DOMAIN j.members \ AtNames |-> DecodeRelationship(j.members[n])]
<1>1. EncodeRelationships(value) = j
  BY DEF EncodeRelationships
<1>2. j.json = "object" /\ j.members = written
  BY JSONFields
<1>3. DecodeRelationships(j) = AllOf(read, [entries |-> read])
  BY <1>2 DEF DecodeRelationships, DecodeMap
<1>4. read = [n \in DOMAIN value.entries \ AtNames |->
                DecodeNested("relationship", EncodeNested("relationship", value.entries[n]))]
  BY <1>2 DEF EncodeRelationship, DecodeRelationship
<1> HIDE DEF written, j, read
<1>5. ASSUME NEW n \in DOMAIN value.entries \ AtNames
      PROVE  /\ DecodeNested("relationship", EncodeNested("relationship", value.entries[n]))
                  = NestedAsRead("relationship", value.entries[n])
             /\ DecodeNested("relationship", EncodeNested("relationship", value.entries[n])) # Refused
  BY NestedDelivered DEF RelationshipsDeliverable
<1>6. /\ read = [n \in DOMAIN value.entries \ AtNames |-> NestedAsRead("relationship", value.entries[n])]
      /\ \A n \in DOMAIN read : read[n] # Refused
  BY <1>4, <1>5
<1>7. DecodeRelationships(j) = [entries |-> read]
  BY <1>3, <1>6 DEF AllOf
<1> QED
  BY <1>1, <1>6, <1>7 DEF RelationshipsAsRead, Refused

ResourceDeliverable(object) ==
  /\ HasMembers("resource", object) /\ Registered(object)
  /\ HasText(object.core.type)
  /\ \A n \in DOMAIN Schema["resource"] \ {"relationships"} :
       PartDeliverable(Schema["resource"][n], object.core[n])
  /\ RelationshipsDeliverable(object.core.relationships)

\* A resource is read back, member by member.
LEMMA ResourceDelivered ==
  ASSUME NEW value, ResourceDeliverable(value)
  PROVE  /\ DecodeResource(EncodeResource(value)) = ResourceAsRead(value)
         /\ DecodeResource(EncodeResource(value)) # Refused
<1> DEFINE Types == Schema["resource"]
           W == Written("resource", value)
           Part(n, x) == IF n = "relationships" THEN EncodeRelationships(x) ELSE EncodePart(Types[n], x)
           Value(n, x) == IF n = "relationships" THEN DecodeRelationships(x) ELSE DecodePart(Types[n], x)
           Held(n, x) == IF n = "relationships" THEN RelationshipsAsRead(x) ELSE PartAsRead(Types[n], x)
           written == [n \in W |-> Part(n, value.core[n])]
           j == EncodeMembers(value, written)
           read == [n \in Known("resource", j) |-> Value(n, j.members[n])]
           core == [n \in DOMAIN Types |-> Held(n, value.core[n])]
<1>1. EncodeResource(value) = j /\ DecodeResource(j) = DecodeMembers("resource", j, read)
  BY DEF EncodeResource, DecodeResource
<1>2. ResourceAsRead(value) = [core |-> core, extra |-> {}]
  BY DEF ResourceAsRead, ResourceDeliverable, HasMembers
<1>3. "resource" \in Structs /\ value.extra \subseteq AtNames /\ Always("resource") = {"type"}
  BY DEF ResourceDeliverable, Registered, Structs, Schema, Always
<1>4. /\ DOMAIN written = W /\ DOMAIN read = Known("resource", j)
      /\ core = [n \in DOMAIN Types |-> core[n]]
      /\ \A n \in W : written[n] = Part(n, value.core[n])
      /\ \A n \in Known("resource", j) : read[n] = Value(n, j.members[n])
      /\ \A n \in DOMAIN Types : core[n] = Held(n, value.core[n])
  OBVIOUS
<1> HIDE DEF written, read, core
<1>5. ASSUME NEW n \in DOMAIN Types, n # "relationships"
      PROVE  Types[n] \in PartTypes /\ PartDeliverable(Types[n], value.core[n])
  BY <1>5, ResourceTypes DEF PartTypes, ResourceDeliverable
<1>6. Types["relationships"] # "string" /\ "relationships" \in DOMAIN Types /\ Types["type"] = "string"
  BY DEF Schema
<1>7. \A n \in W : n \in DOMAIN Types /\ IF Types[n] = "string" THEN HasText(value.core[n])
                                        ELSE value.core[n] # Nil
  BY <1>3, <1>6 DEF Written, ResourceDeliverable
<1>8. \A n \in DOMAIN Types \ W : IF Types[n] = "string" THEN ~HasText(value.core[n])
                                 ELSE value.core[n] = Nil
  BY NotWritten
<1> HIDE DEF j, Types, W
<1>9. ASSUME NEW n \in W, n \in Known("resource", j), j.members[n] = written[n]
      PROVE  read[n] = core[n] /\ read[n] # Refused
  <2>1. CASE n = "relationships"
    <3>1. value.core.relationships # Nil
      BY <1>6, <1>7, <2>1
    <3>2. RelationshipsDeliverable(value.core.relationships)
      BY DEF ResourceDeliverable
    <3>3. /\ read[n] = DecodeRelationships(EncodeRelationships(value.core.relationships))
          /\ core[n] = RelationshipsAsRead(value.core.relationships)
      BY <1>4, <1>7, <1>9, <2>1
    <3> QED
      BY <3>1, <3>2, <3>3, RelationshipsDelivered
  <2>2. CASE n # "relationships"
    <3>1. /\ read[n] = DecodePart(Types[n], EncodePart(Types[n], value.core[n]))
          /\ core[n] = PartAsRead(Types[n], value.core[n])
      BY <1>4, <1>7, <1>9, <2>2
    <3> QED
      BY <1>5, <1>7, <2>2, <3>1, PartDelivered
  <2> QED
    BY <2>1, <2>2
<1>10. ASSUME NEW n \in DOMAIN Types \ W
       PROVE  core[n] = IF Types[n] = "string" THEN NoText ELSE Nil
  <2>1. CASE n = "relationships"
    BY <1>4, <1>6, <1>8, <2>1 DEF RelationshipsAsRead
  <2>2. CASE n # "relationships"
    BY <1>4, <1>5, <1>8, <2>2, PartAbsent DEF PartDeliverable
  <2> QED
    BY <2>1, <2>2
<1> HIDE DEF Part, Value, Held
<1>11. /\ DOMAIN written = Written("resource", value) /\ j = EncodeMembers(value, written)
       /\ DOMAIN read = Known("resource", j) /\ core = [n \in DOMAIN Schema["resource"] |-> core[n]]
  BY <1>4 DEF j, W, Types
<1>12. \A n \in Written("resource", value) :
         n \in Known("resource", j) /\ j.members[n] = written[n] => read[n] = core[n] /\ read[n] # Refused
  BY <1>9 DEF W, Types
<1>13. \A n \in DOMAIN Schema["resource"] \ Written("resource", value) :
         core[n] = IF Schema["resource"][n] = "string" THEN NoText ELSE Nil
  BY <1>10 DEF W, Types
<1>14. /\ DecodeMembers("resource", j, read) = [core |-> core, extra |-> {}]
       /\ DecodeMembers("resource", j, read) # Refused
  BY <1>3, <1>11, <1>12, <1>13, StructDelivered
<1> QED
  BY <1>1, <1>2, <1>14

ResourcesDeliverable(list) == \A k \in DOMAIN list.items : ResourceDeliverable(list.items[k])

\* Primary data is read back: null, one or many, in order.
LEMMA PrimaryDataDelivered ==
  ASSUME NEW value, IsData(value), value.kind # "zero", ResourcesDeliverable(value)
  PROVE  LET read == [k \in DOMAIN value.items |-> ResourceAsRead(value.items[k])]
         IN /\ DecodePrimaryData(EncodePrimaryData(value)) = [kind |-> value.kind, items |-> read]
            /\ DecodePrimaryData(EncodePrimaryData(value)) # Refused
<1> DEFINE written == [k \in DOMAIN value.items |-> EncodeResource(value.items[k])]
           read == [k \in DOMAIN value.items |-> ResourceAsRead(value.items[k])]
           j == EncodeData(value, written)
           one == DecodeResource(j)
           many == [k \in DOMAIN j.items |-> DecodeResource(j.items[k])]
<1>1. EncodePrimaryData(value) = j /\ DecodePrimaryData(j) = DecodeData(j, one, many)
  BY DEF EncodePrimaryData, DecodePrimaryData
<1>3. ASSUME NEW k \in DOMAIN value.items
      PROVE  /\ DecodeResource(written[k]) = read[k] /\ read[k] # Refused
             /\ written[k].json = "object"
  <2>1. ResourceDeliverable(value.items[k])
    BY DEF ResourcesDeliverable
  <2>2. written[k] = EncodeResource(value.items[k]) /\ read[k] = ResourceAsRead(value.items[k])
    OBVIOUS
  <2> HIDE DEF written, read
  <2>3. written[k].json = "object"
    BY <2>2, StructIsObject DEF EncodeResource
  <2> QED
    BY <2>1, <2>2, <2>3, ResourceDelivered
<1>5. read = [k \in DOMAIN value.items |-> read[k]] /\ DOMAIN written = DOMAIN value.items
  OBVIOUS
<1> HIDE DEF written, read
<1>6. value.kind = "one" => written[1].json = "object" /\ one = read[1]
  <2> SUFFICES ASSUME value.kind = "one" PROVE written[1].json = "object" /\ one = read[1]
    OBVIOUS
  <2>1. 1 \in DOMAIN value.items
    BY DEF IsData, IsSequence
  <2>2. j = written[1]
    BY DEF EncodeData
  <2> QED
    BY <1>3, <2>1, <2>2
<1>7. value.kind = "many" => many = read
  <2> SUFFICES ASSUME value.kind = "many" PROVE many = read
    OBVIOUS
  <2>1. j = Array(written)
    BY DEF EncodeData
  <2>2. j.items = written
    BY <2>1, JSONFields
  <2>3. many = [k \in DOMAIN value.items |-> DecodeResource(written[k])]
    BY <1>5, <2>2
  <2> QED
    BY <1>3, <1>5, <2>3
<1>8. DecodeData(j, one, many) = [kind |-> value.kind, items |-> read] /\ DecodeData(j, one, many) # Refused
  <2> HIDE DEF one, many
  <2> QED
    BY <1>3, <1>5, <1>6, <1>7, DataDelivered
<1> QED
  BY <1>1, <1>8 DEF read

\* A list is read back if each of its items is.
LEMMA ListDelivered ==
  ASSUME NEW items, NEW j, j.json = "array", items = [k \in DOMAIN items |-> items[k]],
         \A k \in DOMAIN items : items[k] # Refused
  PROVE  DecodeList(j, items) = [items |-> items] /\ DecodeList(j, items) # Refused
  BY ListItems DEF DecodeList, AllOf

ErrorsDeliverable(list) == \A k \in DOMAIN list.items : NestedDeliverable("error", list.items[k])

BodyDeliverable(type, value) ==
  /\ type \in PartTypes => PartDeliverable(type, value)
  /\ value # Nil =>
       /\ type = "primary" => IsData(value) /\ value.kind # "zero"
       /\ type \in {"primary", "resources"} => ResourcesDeliverable(value)
       /\ type = "errors" => ErrorsDeliverable(value)

\* Every member of a document is read back,
LEMMA BodyDelivered ==
  ASSUME NEW type \in BodyTypes, NEW value, BodyDeliverable(type, value),
         IF type = "string" THEN HasText(value) ELSE value # Nil
  PROVE  /\ DecodeBody(type, EncodeBody(type, value)) = BodyAsRead(type, value)
         /\ DecodeBody(type, EncodeBody(type, value)) # Refused
<1>1. CASE type = "primary"
  <2>1. /\ EncodeBody(type, value) = EncodePrimaryData(value)
        /\ BodyAsRead(type, value) = [kind  |-> value.kind,
                                      items |-> [k \in DOMAIN value.items |-> ResourceAsRead(value.items[k])]]
    BY <1>1 DEF EncodeBody, BodyAsRead
  <2>2. \A x : DecodeBody(type, x) = DecodePrimaryData(x)
    BY <1>1 DEF DecodeBody
  <2>3. IsData(value) /\ value.kind # "zero" /\ ResourcesDeliverable(value)
    BY <1>1 DEF BodyDeliverable
  <2> QED
    BY <2>1, <2>2, <2>3, PrimaryDataDelivered
<1>2. CASE type = "resources"
  <2> DEFINE written == [k \in DOMAIN value.items |-> EncodeResource(value.items[k])]
             j == Array(written)
             read == [k \in DOMAIN j.items |-> DecodeResource(j.items[k])]
  <2>1. /\ EncodeBody(type, value) = j
        /\ BodyAsRead(type, value) = [items |-> [k \in DOMAIN value.items |-> ResourceAsRead(value.items[k])]]
    BY <1>2 DEF EncodeBody, BodyAsRead
  <2>2. DecodeBody(type, j) = DecodeList(j, read)
    BY <1>2 DEF DecodeBody, DecodeResourceArray
  <2>3. j.json = "array" /\ j.items = written
    BY JSONFields
  <2>4. read = [k \in DOMAIN value.items |-> DecodeResource(EncodeResource(value.items[k]))]
    BY <2>3
  <2> HIDE DEF read, j, written
  <2>5. \A k \in DOMAIN value.items : ResourceDeliverable(value.items[k])
    BY <1>2 DEF BodyDeliverable, ResourcesDeliverable
  <2>6. /\ read = [k \in DOMAIN value.items |-> ResourceAsRead(value.items[k])]
        /\ \A k \in DOMAIN read : read[k] # Refused
    BY <2>4, <2>5, ResourceDelivered
  <2> QED
    BY <2>1, <2>2, <2>3, <2>6, ListDelivered
<1>3. CASE type = "errors"
  <2> DEFINE written == [k \in DOMAIN value.items |-> EncodeError(value.items[k])]
             j == Array(written)
             read == [k \in DOMAIN j.items |-> DecodeError(j.items[k])]
  <2>1. /\ EncodeBody(type, value) = j
        /\ BodyAsRead(type, value)
             = [items |-> [k \in DOMAIN value.items |-> NestedAsRead("error", value.items[k])]]
    BY <1>3 DEF EncodeBody, BodyAsRead
  <2>2. DecodeBody(type, j) = DecodeList(j, read)
    BY <1>3 DEF DecodeBody, DecodeErrors
  <2>3. j.json = "array" /\ j.items = written
    BY JSONFields
  <2>4. read = [k \in DOMAIN value.items |-> DecodeNested("error", EncodeNested("error", value.items[k]))]
    BY <2>3 DEF EncodeError, DecodeError
  <2> HIDE DEF read, j, written
  <2>5. \A k \in DOMAIN value.items : NestedDeliverable("error", value.items[k])
    BY <1>3 DEF BodyDeliverable, ErrorsDeliverable
  <2>6. /\ read = [k \in DOMAIN value.items |-> NestedAsRead("error", value.items[k])]
        /\ \A k \in DOMAIN read : read[k] # Refused
    BY <2>4, <2>5, NestedDelivered
  <2> QED
    BY <2>1, <2>2, <2>3, <2>6, ListDelivered
<1>4. CASE type \in PartTypes
  <2>1. type \notin {"primary", "resources", "errors"}
    BY <1>4 DEF PartTypes
  <2>2. EncodeBody(type, value) = EncodePart(type, value) /\ \A x : DecodeBody(type, x) = DecodePart(type, x)
    BY <2>1 DEF EncodeBody, DecodeBody
  <2>3. BodyAsRead(type, value) = PartAsRead(type, value)
    BY <2>1 DEF BodyAsRead, PartAsRead
  <2> QED
    BY <1>4, <2>2, <2>3, PartDelivered DEF BodyDeliverable
<1> QED
  BY <1>1, <1>2, <1>3, <1>4 DEF BodyTypes

\* and one that is not present is read as absent.
LEMMA BodyAbsent ==
  ASSUME NEW type \in BodyTypes, NEW value, BodyDeliverable(type, value),
         IF type = "string" THEN ~HasText(value) ELSE value = Nil
  PROVE  BodyAsRead(type, value) = IF type = "string" THEN NoText ELSE Nil
<1>1. CASE type = "string"
  <2>1. BodyAsRead(type, value) = PartAsRead(type, value)
    BY <1>1 DEF BodyAsRead, PartAsRead
  <2> QED
    BY <1>1, <2>1, PartAbsent DEF BodyDeliverable, PartDeliverable, PartTypes
<1>2. CASE type # "string"
  BY <1>2 DEF BodyAsRead
<1> QED
  BY <1>1, <1>2

WholeDeliverable(kind, value) ==
  /\ HasMembers(kind, value) /\ value.extra \subseteq AtNames
  /\ \A n \in Always(kind) : HasText(value.core[n])
  /\ \A n \in DOMAIN Schema[kind] : BodyDeliverable(Schema[kind][n], value.core[n])

\* A document, an operation or a result is read back, member by member.
LEMMA WholeDelivered ==
  ASSUME NEW kind \in {"document", "operation", "result"}, NEW value, WholeDeliverable(kind, value)
  PROVE  /\ DecodeWhole(kind, EncodeWhole(kind, value)) = WholeAsRead(kind, value)
         /\ DecodeWhole(kind, EncodeWhole(kind, value)) # Refused
<1> DEFINE written == [n \in Written(kind, value) |-> EncodeBody(Schema[kind][n], value.core[n])]
           j == EncodeMembers(value, written)
           read == [n \in Known(kind, j) |-> DecodeBody(Schema[kind][n], j.members[n])]
           core == [n \in DOMAIN Schema[kind] |-> BodyAsRead(Schema[kind][n], value.core[n])]
<1>1. EncodeWhole(kind, value) = j /\ DecodeWhole(kind, j) = DecodeMembers(kind, j, read)
  BY DEF EncodeWhole, DecodeWhole
<1>2. WholeAsRead(kind, value) = [core |-> core, extra |-> {}]
  BY DEF WholeAsRead, WholeDeliverable, HasMembers
<1>3. kind \in Structs /\ value.extra \subseteq AtNames
  BY DEF WholeDeliverable, Structs, Schema
<1>4. /\ DOMAIN written = Written(kind, value) /\ DOMAIN read = Known(kind, j)
      /\ core = [n \in DOMAIN Schema[kind] |-> core[n]]
      /\ \A n \in Written(kind, value) : written[n] = EncodeBody(Schema[kind][n], value.core[n])
      /\ \A n \in Known(kind, j) : read[n] = DecodeBody(Schema[kind][n], j.members[n])
      /\ \A n \in DOMAIN Schema[kind] : core[n] = BodyAsRead(Schema[kind][n], value.core[n])
  OBVIOUS
<1> HIDE DEF written, read, core
<1>5. ASSUME NEW n \in DOMAIN Schema[kind]
      PROVE  Schema[kind][n] \in BodyTypes /\ BodyDeliverable(Schema[kind][n], value.core[n])
  BY WholeTypes DEF BodyTypes, PartTypes, WholeDeliverable
<1>6. ASSUME NEW n \in Written(kind, value), n \in Known(kind, j), j.members[n] = written[n]
      PROVE  read[n] = core[n] /\ read[n] # Refused
  <2>1. n \in DOMAIN Schema[kind]
    BY DEF Written
  <2>2. IF Schema[kind][n] = "string" THEN HasText(value.core[n]) ELSE value.core[n] # Nil
    BY <1>3, AlwaysAreStrings DEF Written, WholeDeliverable
  <2> QED
    BY <1>4, <1>5, <1>6, <2>1, <2>2, BodyDelivered
<1>7. ASSUME NEW n \in DOMAIN Schema[kind] \ Written(kind, value)
      PROVE  core[n] = IF Schema[kind][n] = "string" THEN NoText ELSE Nil
  BY <1>4, <1>5, NotWritten, BodyAbsent
<1> HIDE DEF j
<1>8. /\ DOMAIN written = Written(kind, value) /\ j = EncodeMembers(value, written)
       /\ DOMAIN read = Known(kind, j) /\ core = [n \in DOMAIN Schema[kind] |-> core[n]]
  BY <1>4 DEF j
<1>9. \A n \in Written(kind, value) :
         n \in Known(kind, j) /\ j.members[n] = written[n] => read[n] = core[n] /\ read[n] # Refused
  BY <1>6
<1>10. \A n \in DOMAIN Schema[kind] \ Written(kind, value) :
         core[n] = IF Schema[kind][n] = "string" THEN NoText ELSE Nil
  BY <1>7
<1>11. /\ DecodeMembers(kind, j, read) = [core |-> core, extra |-> {}]
       /\ DecodeMembers(kind, j, read) # Refused
  BY <1>3, <1>8, <1>9, <1>10, StructDelivered
<1> QED
  BY <1>1, <1>2, <1>11

WholesDeliverable(kind, list) ==
  list # Nil => \A k \in DOMAIN list.items : WholeDeliverable(kind, list.items[k])

WholesAsRead(kind, list) ==
  IF list = Nil THEN Nil
  ELSE [items |-> [k \in DOMAIN list.items |-> WholeAsRead(kind, list.items[k])]]

\* Operations are read back, in order.
LEMMA OperationsDelivered ==
  ASSUME NEW list, list # Nil, WholesDeliverable("operation", list)
  PROVE  /\ DecodeAtomicOperations(EncodeAtomicOperations(list)) = WholesAsRead("operation", list)
         /\ DecodeAtomicOperations(EncodeAtomicOperations(list)) # Refused
<1> DEFINE written == [k \in DOMAIN list.items |-> EncodeAtomicOperation(list.items[k])]
           j == Array(written)
           read == [k \in DOMAIN j.items |-> DecodeAtomicOperation(j.items[k])]
<1>1. EncodeAtomicOperations(list) = j /\ DecodeAtomicOperations(j) = DecodeList(j, read)
  BY DEF EncodeAtomicOperations, DecodeAtomicOperations
<1>2. j.json = "array" /\ j.items = written
  BY JSONFields
<1>3. read = [k \in DOMAIN list.items |->
                DecodeWhole("operation", EncodeWhole("operation", list.items[k]))]
  BY <1>2 DEF EncodeAtomicOperation, DecodeAtomicOperation
<1> HIDE DEF read, j, written
<1>4. \A k \in DOMAIN list.items : WholeDeliverable("operation", list.items[k])
  BY DEF WholesDeliverable
<1>5. /\ read = [k \in DOMAIN list.items |-> WholeAsRead("operation", list.items[k])]
      /\ \A k \in DOMAIN read : read[k] # Refused
  BY <1>3, <1>4, WholeDelivered
<1> QED
  BY <1>1, <1>2, <1>5, ListDelivered DEF WholesAsRead

\* Results are read back, in order.
LEMMA ResultsDelivered ==
  ASSUME NEW list, list # Nil, WholesDeliverable("result", list)
  PROVE  /\ DecodeAtomicResults(EncodeAtomicResults(list)) = WholesAsRead("result", list)
         /\ DecodeAtomicResults(EncodeAtomicResults(list)) # Refused
<1> DEFINE written == [k \in DOMAIN list.items |-> EncodeAtomicResult(list.items[k])]
           j == Array(written)
           read == [k \in DOMAIN j.items |-> DecodeAtomicResult(j.items[k])]
<1>1. EncodeAtomicResults(list) = j /\ DecodeAtomicResults(j) = DecodeList(j, read)
  BY DEF EncodeAtomicResults, DecodeAtomicResults
<1>2. j.json = "array" /\ j.items = written
  BY JSONFields
<1>3. read = [k \in DOMAIN list.items |->
                DecodeWhole("result", EncodeWhole("result", list.items[k]))]
  BY <1>2 DEF EncodeAtomicResult, DecodeAtomicResult
<1> HIDE DEF read, j, written
<1>4. \A k \in DOMAIN list.items : WholeDeliverable("result", list.items[k])
  BY DEF WholesDeliverable
<1>5. /\ read = [k \in DOMAIN list.items |-> WholeAsRead("result", list.items[k])]
      /\ \A k \in DOMAIN read : read[k] # Refused
  BY <1>3, <1>4, WholeDelivered
<1> QED
  BY <1>1, <1>2, <1>5, ListDelivered DEF WholesAsRead

AtomicDeliverable(value) ==
  /\ HasMembers("atomic", value)
  /\ \A n \in {"jsonapi", "links", "errors", "meta"} : BodyDeliverable(Schema["atomic"][n], value.core[n])
  /\ WholesDeliverable("operation", value.core.operations)
  /\ WholesDeliverable("result", value.core.results)

LEMMA AtomicTypes ==
  /\ "atomic" \in Structs /\ Always("atomic") = {} /\ "atomic" \in Closed
  /\ DOMAIN Schema["atomic"] = {"jsonapi", "links", "operations", "results", "errors", "meta"}
  /\ \A n \in DOMAIN Schema["atomic"] : Schema["atomic"][n] # "string"
  /\ \A n \in {"jsonapi", "links", "errors", "meta"} : Schema["atomic"][n] \in BodyTypes
<1>1. /\ "atomic" \in Structs /\ Always("atomic") = {} /\ "atomic" \in Closed
      /\ DOMAIN Schema["atomic"] = {"jsonapi", "links", "operations", "results", "errors", "meta"}
  BY DEF Structs, Schema, Always, Closed
<1>2. /\ \A n \in DOMAIN Schema["atomic"] : Schema["atomic"][n] # "string"
      /\ \A n \in {"jsonapi", "links", "errors", "meta"} :
           Schema["atomic"][n] \in {"jsonapi", "links", "errors", "free"}
  BY DEF Schema
<1> QED
  BY <1>1, <1>2 DEF BodyTypes, PartTypes

LEMMA ClosedIsWritten ==
  ASSUME NEW kind \in Structs, NEW value, value.extra = {},
         NEW written, DOMAIN written = Written(kind, value)
  PROVE  DOMAIN EncodeMembers(value, written).members = Written(kind, value)
<1>1. value.extra \cap DOMAIN Schema[kind] = {}
  OBVIOUS
<1>2. DOMAIN EncodeMembers(value, written).members = Written(kind, value) \cup value.extra
  BY <1>1, MembersFound
<1> QED
  BY <1>2

\* An Atomic document is read back, member by member.
LEMMA AtomicDelivered ==
  ASSUME NEW value, AtomicDeliverable(value)
  PROVE  /\ DecodeAtomic(EncodeAtomic(value)) = AtomicAsRead(value)
         /\ DecodeAtomic(EncodeAtomic(value)) # Refused
<1> DEFINE Types == Schema["atomic"]
           W == Written("atomic", value)
           Part(n, x) == CASE n = "operations" -> EncodeAtomicOperations(x)
                           [] n = "results"    -> EncodeAtomicResults(x)
                           [] OTHER            -> EncodeBody(Types[n], x)
           Value(n, x) == CASE n = "operations" -> DecodeAtomicOperations(x)
                            [] n = "results"    -> DecodeAtomicResults(x)
                            [] OTHER            -> DecodeBody(Types[n], x)
           Held(n, x) == CASE n = "operations" -> WholesAsRead("operation", x)
                           [] n = "results"    -> WholesAsRead("result", x)
                           [] OTHER            -> BodyAsRead(Types[n], x)
           written == [n \in W |-> Part(n, value.core[n])]
           j == EncodeMembers(value, written)
           read == [n \in Known("atomic", j) |-> Value(n, j.members[n])]
           core == [n \in DOMAIN Types |-> Held(n, value.core[n])]
<1>1. EncodeAtomic(value) = j
  BY DEF EncodeAtomic
<1>2. AtomicAsRead(value) = [core |-> core, extra |-> {}]
  BY DEF AtomicAsRead, WholesAsRead, AtomicDeliverable, HasMembers
<1>3. "atomic" \in Structs /\ value.extra = {} /\ W \subseteq DOMAIN Types
  BY AtomicTypes DEF AtomicDeliverable, HasMembers, Written
<1>4. /\ DOMAIN written = W /\ DOMAIN read = Known("atomic", j)
      /\ core = [n \in DOMAIN Types |-> core[n]]
      /\ \A n \in W : written[n] = Part(n, value.core[n])
      /\ \A n \in Known("atomic", j) : read[n] = Value(n, j.members[n])
      /\ \A n \in DOMAIN Types : core[n] = Held(n, value.core[n])
  OBVIOUS
<1>5. DecodeAtomic(j) = DecodeMembers("atomic", j, read)
  <2>1. DOMAIN j.members = W
    <3> HIDE DEF written
    <3> QED
      BY <1>3, <1>4, ClosedIsWritten
  <2>2. {"data", "included"} \cap DOMAIN j.members = {}
    BY <1>3, <2>1, AtomicTypes
  <2> QED
    BY <2>2 DEF DecodeAtomic
<1>6. /\ \A x : Held("operations", x) = WholesAsRead("operation", x)
      /\ \A x : Held("results", x) = WholesAsRead("result", x)
      /\ \A x : \A n \in {"jsonapi", "links", "errors", "meta"} : Held(n, x) = BodyAsRead(Types[n], x)
      /\ \A x : Part("operations", x) = EncodeAtomicOperations(x)
      /\ \A x : Part("results", x) = EncodeAtomicResults(x)
      /\ \A x : \A n \in {"jsonapi", "links", "errors", "meta"} : Part(n, x) = EncodeBody(Types[n], x)
      /\ \A x : Value("operations", x) = DecodeAtomicOperations(x)
      /\ \A x : Value("results", x) = DecodeAtomicResults(x)
      /\ \A x : \A n \in {"jsonapi", "links", "errors", "meta"} : Value(n, x) = DecodeBody(Types[n], x)
  OBVIOUS
<1>7. \A n \in DOMAIN Types : n \in W <=> value.core[n] # Nil
  BY AtomicTypes DEF Written
<1> HIDE DEF written, read, core, j, Types, W, Part, Value, Held
<1>8. DOMAIN Types = {"jsonapi", "links", "operations", "results", "errors", "meta"}
        /\ \A n \in DOMAIN Types : Types[n] # "string"
  BY AtomicTypes DEF Types
<1>9. ASSUME NEW n \in W, n \in Known("atomic", j), j.members[n] = written[n]
      PROVE  read[n] = core[n] /\ read[n] # Refused
  <2>1. n \in DOMAIN Types /\ value.core[n] # Nil
    BY <1>3, <1>7, <1>9
  <2>2. read[n] = Value(n, Part(n, value.core[n])) /\ core[n] = Held(n, value.core[n])
    BY <1>4, <1>9, <2>1
  <2>3. CASE n = "operations"
    BY <1>6, <2>1, <2>2, <2>3, OperationsDelivered DEF AtomicDeliverable
  <2>4. CASE n = "results"
    BY <1>6, <2>1, <2>2, <2>4, ResultsDelivered DEF AtomicDeliverable
  <2>5. CASE n \in {"jsonapi", "links", "errors", "meta"}
    <3>1. Types[n] \in BodyTypes /\ BodyDeliverable(Types[n], value.core[n]) /\ Types[n] # "string"
      BY <1>8, <2>1, <2>5, AtomicTypes DEF AtomicDeliverable, Types
    <3>2. read[n] = DecodeBody(Types[n], EncodeBody(Types[n], value.core[n]))
            /\ core[n] = BodyAsRead(Types[n], value.core[n])
      BY <1>6, <2>2, <2>5
    <3> QED
      BY <2>1, <3>1, <3>2, BodyDelivered
  <2> QED
    BY <1>8, <2>1, <2>3, <2>4, <2>5
<1>10. ASSUME NEW n \in DOMAIN Types \ W
       PROVE  core[n] = IF Types[n] = "string" THEN NoText ELSE Nil
  <2>1. value.core[n] = Nil /\ Types[n] # "string" /\ core[n] = Held(n, Nil)
    BY <1>4, <1>7, <1>8
  <2> QED
    BY <1>6, <1>8, <2>1 DEF WholesAsRead, BodyAsRead
<1>11. value.extra \subseteq AtNames
  BY <1>3
<1>12. /\ DOMAIN written = Written("atomic", value) /\ j = EncodeMembers(value, written)
       /\ DOMAIN read = Known("atomic", j) /\ core = [n \in DOMAIN Schema["atomic"] |-> core[n]]
  BY <1>4 DEF j, W, Types
<1>13. \A n \in Written("atomic", value) :
         n \in Known("atomic", j) /\ j.members[n] = written[n] => read[n] = core[n] /\ read[n] # Refused
  BY <1>9 DEF W, Types
<1>14. \A n \in DOMAIN Schema["atomic"] \ Written("atomic", value) :
         core[n] = IF Schema["atomic"][n] = "string" THEN NoText ELSE Nil
  BY <1>10 DEF W, Types
<1>15. /\ DecodeMembers("atomic", j, read) = [core |-> core, extra |-> {}]
       /\ DecodeMembers("atomic", j, read) # Refused
  BY <1>3, <1>11, <1>12, <1>13, <1>14, StructDelivered
<1> QED
  BY <1>1, <1>2, <1>5, <1>15

-----------------------------------------------------------------------------
(* What the rules say of the documents that are built *)

\* Links that the rules and the registry accept can be delivered.
LEMMA LinksAreDeliverable ==
  ASSUME NEW links, IsPart("links", links), LinksRegistered(links), LinksSound(links)
  PROVE  PartDeliverable("links", links)
  BY DEF PartDeliverable

LEMMA PlainIsDeliverable ==
  ASSUME NEW type \in {"string", "free"}, NEW value, IsPart(type, value)
  PROVE  PartDeliverable(type, value)
  BY DEF PartDeliverable

\* Linkage that the rules accept can be delivered: its items have a type.
LEMMA LinkageIsDeliverable ==
  ASSUME NEW data, IsPart("linkage", data), LinkageRegistered(data), NEW identity, LinkageValid(data, identity)
  PROVE  PartDeliverable("linkage", data)
<1> SUFFICES ASSUME data # Nil
             PROVE  LinkageDeliverable(data)
  BY DEF PartDeliverable
<1>1. IsData(data) /\ data.kind # "zero"
  BY DEF IsPart, LinkageValid
<1>2. ASSUME NEW k \in DOMAIN data.items
      PROVE  /\ IsFlat("identifier", data.items[k]) /\ Registered(data.items[k])
             /\ HasText(data.items[k].core.type)
  <2>1. IsFlat("identifier", data.items[k])
    BY DEF IsPart
  <2>2. Registered(data.items[k])
    BY DEF LinkageRegistered, ItemsOf
  <2>3. LinkageSound(data)
    BY LinkageIsSound
  <2> QED
    BY <2>1, <2>2, <2>3 DEF LinkageSound
<1> QED
  BY <1>1, <1>2 DEF LinkageDeliverable

\* A relationship that the rules accept can be delivered.
LEMMA RelationshipIsDeliverable ==
  ASSUME NEW relationship, IsNested("relationship", relationship), RelationshipRegistered(relationship),
         NEW requireData, NEW identity, RelationshipValid(relationship, requireData, identity)
  PROVE  NestedDeliverable("relationship", relationship)
<1> DEFINE core == relationship.core
<1>1. /\ DOMAIN Schema["relationship"] = {"links", "data", "meta"}
      /\ Schema["relationship"]["links"] = "links" /\ Schema["relationship"]["data"] = "linkage"
      /\ Schema["relationship"]["meta"] = "free"
  BY DEF Schema
<1>2. \A n \in DOMAIN Schema["relationship"] : IsPart(Schema["relationship"][n], core[n])
  BY DEF IsNested
<1>3. LinksRegistered(core.links) /\ LinkageRegistered(core.data) /\ Registered(relationship)
  BY DEF RelationshipRegistered
<1>4. LinksSound(core.links)
  BY RelationshipIsSound DEF RelationshipSound
<1>5. LinkageValid(core.data, identity)
  BY DEF RelationshipValid
<1>6. PartDeliverable("links", core["links"])
  BY <1>1, <1>2, <1>3, <1>4, LinksAreDeliverable
<1>7. PartDeliverable("linkage", core["data"])
  BY <1>1, <1>2, <1>3, <1>5, LinkageIsDeliverable
<1>8. PartDeliverable("free", core["meta"])
  BY <1>1, <1>2, PlainIsDeliverable
<1>9. HasMembers("relationship", relationship)
  BY DEF IsNested
<1> QED
  BY <1>1, <1>3, <1>6, <1>7, <1>8, <1>9 DEF NestedDeliverable

\* What every context demands of a resource, and what an identifier among primary
\* data is.
ResourceAccepted(object) ==
  \/ \E identity, requireData, identifiers : ResourceValid(object, identity, requireData, identifiers)
  \/ /\ HasText(object.core.type)
     /\ \A member \in {"attributes", "relationships", "links"} : object.core[member] = Nil

LEMMA AcceptedIsSound ==
  ASSUME NEW object, ResourceAccepted(object)
  PROVE  ResourceSound(object)
  BY ResourceIsSound, BareIsSound DEF ResourceAccepted

\* A resource that the rules accept, in whatever context, can be delivered.
LEMMA ResourceIsDeliverable ==
  ASSUME NEW object, IsResource(object), ResourceRegistered(object), ResourceAccepted(object)
  PROVE  ResourceDeliverable(object)
<1> DEFINE core == object.core
<1>1. HasText(core.type) /\ LinksSound(core.links)
  BY AcceptedIsSound DEF ResourceSound
<1>2. Registered(object) /\ LinksRegistered(core.links)
  BY DEF ResourceRegistered
<1>3. HasMembers("resource", object) /\ \A n \in DOMAIN Schema["resource"] : IsPart(Schema["resource"][n], core[n])
  BY DEF IsResource, IsNested
<1>4. ASSUME NEW n \in DOMAIN Schema["resource"] \ {"relationships"}
      PROVE  PartDeliverable(Schema["resource"][n], core[n])
  <2>1. CASE n = "links"
    <3>1. Schema["resource"][n] = "links" /\ core[n] = core.links
      BY <2>1 DEF Schema
    <3> QED
      BY <1>1, <1>2, <1>3, <3>1, LinksAreDeliverable
  <2>2. CASE n # "links"
    <3>1. Schema["resource"][n] \in {"string", "free"}
      BY <1>4, <2>2 DEF Schema
    <3> QED
      BY <1>3, <3>1, PlainIsDeliverable
  <2> QED
    BY <2>1, <2>2
<1>5. ASSUME core.relationships # Nil, NEW n \in DOMAIN core.relationships.entries \ AtNames
      PROVE  NestedDeliverable("relationship", core.relationships.entries[n])
  <2> DEFINE relationship == core.relationships.entries[n]
  <2>1. PICK identity, requireData, identifiers : ResourceValid(object, identity, requireData, identifiers)
    BY <1>5 DEF ResourceAccepted
  <2>2. RelationshipValid(relationship, requireData, identifiers)
    BY <1>5, <2>1 DEF ResourceValid
  <2>3. RelationshipRegistered(relationship)
    BY <1>5 DEF ResourceRegistered
  <2>4. IsNested("relationship", relationship)
    BY <1>5 DEF IsResource, IsRelationships
  <2> HIDE DEF relationship
  <2>5. NestedDeliverable("relationship", relationship)
    BY <2>2, <2>3, <2>4, RelationshipIsDeliverable
  <2> QED
    BY <2>5 DEF relationship
<1>6. RelationshipsDeliverable(core.relationships)
  BY <1>5 DEF RelationshipsDeliverable
<1> QED
  BY <1>1, <1>2, <1>3, <1>4, <1>6 DEF ResourceDeliverable

\* An error that the rules accept can be delivered.
LEMMA ErrorIsDeliverable ==
  ASSUME NEW error, IsNested("error", error), ErrorRegistered(error), ErrorValid(error)
  PROVE  NestedDeliverable("error", error)
<1> DEFINE core == error.core
<1>1. Registered(error) /\ LinksRegistered(core.links) /\ (core.source = Nil \/ Registered(core.source))
  BY DEF ErrorRegistered
<1>2. LinksSound(core.links)
  <2>1. LinksValid(core.links, {"about", "type"})
    BY DEF ErrorValid
  <2> QED
    BY <2>1, LinksAreSound
<1>3. HasMembers("error", error) /\ \A n \in DOMAIN Schema["error"] : IsPart(Schema["error"][n], core[n])
  BY DEF IsNested
<1>4. ASSUME NEW n \in DOMAIN Schema["error"]
      PROVE  PartDeliverable(Schema["error"][n], core[n])
  <2>1. CASE n = "links"
    <3>1. Schema["error"][n] = "links"
      BY <2>1 DEF Schema
    <3> QED
      BY <1>1, <1>2, <1>3, <2>1, <3>1, LinksAreDeliverable
  <2>2. CASE n = "source"
    <3>1. Schema["error"][n] = "source"
      BY <2>2 DEF Schema
    <3>2. Always("source") = {}
      BY DEF Always
    <3> QED
      BY <1>1, <1>3, <2>2, <3>1, <3>2 DEF PartDeliverable
  <2>3. CASE n \notin {"links", "source"}
    <3>1. Schema["error"][n] \in {"string", "free"}
      BY <2>3 DEF Schema
    <3> QED
      BY <1>3, <3>1, PlainIsDeliverable
  <2> QED
    BY <2>1, <2>2, <2>3
<1> QED
  BY <1>1, <1>3, <1>4 DEF NestedDeliverable

-----------------------------------------------------------------------------

DataAccepted(data) ==
  data # Nil => data.kind # "zero" /\ \A k \in DOMAIN data.items : ResourceAccepted(data.items[k])

ResourcesAccepted(list) == list # Nil => \A k \in DOMAIN list.items : ResourceAccepted(list.items[k])

LEMMA ResourcesAreDeliverable ==
  ASSUME NEW list, list # Nil, \A k \in DOMAIN list.items : IsResource(list.items[k]),
         DataRegistered(list), \A k \in DOMAIN list.items : ResourceAccepted(list.items[k])
  PROVE  ResourcesDeliverable(list)
<1> SUFFICES ASSUME NEW k \in DOMAIN list.items
             PROVE  ResourceDeliverable(list.items[k])
  BY DEF ResourcesDeliverable
<1>1. ResourceRegistered(list.items[k])
  BY DEF DataRegistered, ItemsOf
<1> QED
  BY <1>1, ResourceIsDeliverable

LEMMA PrimaryIsDeliverable ==
  ASSUME NEW data, IsBody("primary", data), DataRegistered(data), DataAccepted(data)
  PROVE  BodyDeliverable("primary", data)
<1> SUFFICES ASSUME data # Nil
             PROVE  IsData(data) /\ data.kind # "zero" /\ ResourcesDeliverable(data)
  BY DEF BodyDeliverable, PartTypes
<1>1. IsData(data) /\ \A k \in DOMAIN data.items : IsResource(data.items[k])
  BY DEF IsBody
<1>2. data.kind # "zero" /\ \A k \in DOMAIN data.items : ResourceAccepted(data.items[k])
  BY DEF DataAccepted
<1> QED
  BY <1>1, <1>2, ResourcesAreDeliverable

LEMMA IncludedAreDeliverable ==
  ASSUME NEW list, IsBody("resources", list), DataRegistered(list), ResourcesAccepted(list)
  PROVE  BodyDeliverable("resources", list)
<1> SUFFICES ASSUME list # Nil
             PROVE  ResourcesDeliverable(list)
  BY DEF BodyDeliverable, PartTypes
<1>1. \A k \in DOMAIN list.items : IsResource(list.items[k])
  BY DEF IsBody
<1>2. \A k \in DOMAIN list.items : ResourceAccepted(list.items[k])
  BY DEF ResourcesAccepted
<1> QED
  BY <1>1, <1>2, ResourcesAreDeliverable

LEMMA ErrorsAreDeliverable ==
  ASSUME NEW list, IsBody("errors", list), ErrorsRegistered(list),
         list # Nil => \A error \in ItemsOf(list.items) : ErrorValid(error)
  PROVE  BodyDeliverable("errors", list)
<1> SUFFICES ASSUME list # Nil, NEW k \in DOMAIN list.items
             PROVE  NestedDeliverable("error", list.items[k])
  BY DEF BodyDeliverable, PartTypes, ErrorsDeliverable
<1>1. IsNested("error", list.items[k])
  BY DEF IsBody
<1>2. ErrorRegistered(list.items[k]) /\ ErrorValid(list.items[k])
  BY DEF ErrorsRegistered, ItemsOf
<1> QED
  BY <1>1, <1>2, ErrorIsDeliverable

\* A member that is no resource, no list of them and no error.
LEMMA PartBodyIsDeliverable ==
  ASSUME NEW type \in PartTypes, NEW value, PartDeliverable(type, value)
  PROVE  BodyDeliverable(type, value)
  BY DEF PartTypes, BodyDeliverable

LEMMA JSONAPIIsDeliverable ==
  ASSUME NEW value, IsBody("jsonapi", value), value = Nil \/ Registered(value)
  PROVE  BodyDeliverable("jsonapi", value)
<1>1. Always("jsonapi") = {}
  BY DEF Always
<1>2. PartDeliverable("jsonapi", value)
  BY <1>1 DEF PartDeliverable, IsBody
<1> QED
  BY <1>2, PartBodyIsDeliverable DEF PartTypes

LEMMA LinksBodyIsDeliverable ==
  ASSUME NEW links, IsBody("links", links), LinksRegistered(links), LinksSound(links)
  PROVE  BodyDeliverable("links", links)
<1>1. IsPart("links", links)
  BY DEF IsBody
<1>2. PartDeliverable("links", links)
  BY <1>1, LinksAreDeliverable
<1> QED
  BY <1>2, PartBodyIsDeliverable DEF PartTypes

LEMMA PlainBodyIsDeliverable ==
  ASSUME NEW type \in {"string", "free"}, NEW value, IsBody(type, value)
  PROVE  BodyDeliverable(type, value)
<1>1. PartDeliverable(type, value)
  BY PlainIsDeliverable DEF IsBody
<1> QED
  BY <1>1, PartBodyIsDeliverable DEF PartTypes

\* Primary data of a valid document is not the zero value, and each resource is
\* accepted.
LEMMA DataIsAccepted ==
  ASSUME NEW data, data # Nil => IsData(data), NEW opts, opts.context \in Contexts, DataValid(data, opts)
  PROVE  DataAccepted(data)
<1> SUFFICES ASSUME data # Nil
             PROVE  data.kind # "zero" /\ \A k \in DOMAIN data.items : ResourceAccepted(data.items[k])
  BY DEF DataAccepted
<1>1. CASE opts.context \in {"create", "update"}
  <2>1. \E identity : MutationValid(data, identity, opts)
    BY <1>1 DEF DataValid
  <2>2. data.kind = "one" /\ \E identity : ResourceValid(data.items[1], identity, TRUE, "either")
    BY <2>1 DEF MutationValid
  <2>3. DOMAIN data.items = {1}
    BY <2>2 DEF IsData, IsSequence
  <2> QED
    BY <2>2, <2>3 DEF ResourceAccepted
<1>2. CASE opts.context \in {"toOne", "toMany"}
  <2>1. \E many : RelationshipPrimaryDataValid(data, many)
    BY <1>2 DEF DataValid
  <2>2. data.kind # "zero"
    BY <2>1 DEF RelationshipPrimaryDataValid
  <2>3. ASSUME NEW k \in DOMAIN data.items
        PROVE  ResourceAccepted(data.items[k])
    <3>1. /\ Identified(data.items[k].core, "id") /\ data.items[k].core.attributes = Nil
          /\ data.items[k].core.relationships = Nil /\ data.items[k].core.links = Nil
      BY <2>1 DEF RelationshipPrimaryDataValid, ItemsOf
    <3> QED
      BY <3>1, NamedIsSet DEF ResourceAccepted
  <2> QED
    BY <2>2, <2>3
<1>3. CASE opts.context \in {"response", "generic"}
  <2>1. PICK identity : PrimaryDataValid(data, identity)
    BY <1>3 DEF DataValid
  <2> QED
    BY <2>1 DEF PrimaryDataValid, ItemsOf, ResourceAccepted
<1> QED
  BY <1>1, <1>2, <1>3 DEF Contexts, Requests

\* Each included resource of a valid document is accepted.
LEMMA IncludedAreAccepted ==
  ASSUME NEW value, NEW opts, IncludedValid(value, opts)
  PROVE  ResourcesAccepted(value.core.included)
<1> SUFFICES ASSUME value.core.included # Nil, NEW k \in DOMAIN value.core.included.items
             PROVE  ResourceAccepted(value.core.included.items[k])
  BY DEF ResourcesAccepted
<1>1. \E identity : ResourceValid(value.core.included.items[k], identity, FALSE, identity)
  BY DEF IncludedValid, ItemsOf
<1> QED
  BY <1>1 DEF ResourceAccepted

\* A document that is valid in some context can be delivered.
LEMMA DocumentIsDeliverable ==
  ASSUME NEW value, IsWhole("document", value), MembersRegistered(value), NEW opts, opts.context \in Contexts,
         DocumentValid(value, opts)
  PROVE  WholeDeliverable("document", value)
<1> DEFINE core == value.core
           Types == Schema["document"]
<1>1. HasMembers("document", value) /\ \A n \in DOMAIN Types : IsBody(Types[n], core[n])
  BY DEF IsWhole
<1>2. /\ value.extra \subseteq AtNames
      /\ core.jsonapi = Nil \/ Registered(core.jsonapi)
      /\ LinksRegistered(core.links) /\ DataRegistered(core.data)
      /\ DataRegistered(core.included) /\ ErrorsRegistered(core.errors)
  BY DEF MembersRegistered, Registered
<1>3. Always("document") = {}
  BY DEF Always
<1>4. /\ DOMAIN Types = {"jsonapi", "links", "data", "included", "errors", "meta"}
      /\ Types["jsonapi"] = "jsonapi" /\ Types["links"] = "links" /\ Types["data"] = "primary"
      /\ Types["included"] = "resources" /\ Types["errors"] = "errors" /\ Types["meta"] = "free"
  BY DEF Schema
<1> HIDE DEF Types
<1>5. LinksSound(core.links)
  <2>1. LinksValid(core.links, {"self", "related", "describedby"} \cup PaginationLinks)
    BY DEF DocumentValid
  <2> QED
    BY <2>1, LinksAreSound
<1>6. DataAccepted(core.data)
  <2>1. core.data # Nil => IsData(core.data)
    BY <1>1, <1>4 DEF IsBody
  <2>2. DataValid(core.data, opts)
    BY DEF DocumentValid
  <2> QED
    BY <2>1, <2>2, DataIsAccepted
<1>7. ResourcesAccepted(core.included)
  BY IncludedAreAccepted DEF DocumentValid
<1>8. core.errors # Nil => \A error \in ItemsOf(core.errors.items) : ErrorValid(error)
  BY DEF DocumentValid
<1>9. BodyDeliverable("jsonapi", core["jsonapi"])
  BY <1>1, <1>2, <1>4, JSONAPIIsDeliverable
<1>10. BodyDeliverable("links", core["links"])
  BY <1>1, <1>2, <1>4, <1>5, LinksBodyIsDeliverable
<1>11. BodyDeliverable("primary", core["data"])
  BY <1>1, <1>2, <1>4, <1>6, PrimaryIsDeliverable
<1>12. BodyDeliverable("resources", core["included"])
  BY <1>1, <1>2, <1>4, <1>7, IncludedAreDeliverable
<1>13. BodyDeliverable("errors", core["errors"])
  BY <1>1, <1>2, <1>4, <1>8, ErrorsAreDeliverable
<1>14. BodyDeliverable("free", core["meta"])
  BY <1>1, <1>4, PlainBodyIsDeliverable
<1> QED
  BY <1>1, <1>2, <1>3, <1>4, <1>9, <1>10, <1>11, <1>12, <1>13, <1>14 DEF WholeDeliverable, Types

-----------------------------------------------------------------------------

\* What a view that the rules of operations or results accept shows.
LEMMA ViewIsAccepted ==
  ASSUME NEW object, ResourceView(object).type # None, ResourceView(object).form # "malformed"
  PROVE  ResourceAccepted(object)
<1>1. FormOf(object) # "malformed" /\ HasText(object.core.type)
  BY ViewedResource, TypeIsSet
<1> QED
  BY <1>1 DEF FormOf, ResourceAccepted

LEMMA RelationshipViewIsAccepted ==
  ASSUME NEW data, data # Nil, NEW many, Rules!RelationshipDataValid(DataView(data), many)
  PROVE  DataAccepted(data)
<1>1. data.kind # "zero"
  BY ViewedData DEF Rules!RelationshipDataValid
<1>2. ASSUME NEW k \in DOMAIN data.items
      PROVE  ResourceAccepted(data.items[k])
  <2>1. DataView(data).items[k] = ResourceView(data.items[k]) /\ k \in DOMAIN DataView(data).items
    BY ViewedData
  <2>2. /\ Rules!IdentifierValid(ResourceView(data.items[k]))
        /\ ResourceView(data.items[k]).form = "bare"
    BY <2>1 DEF Rules!RelationshipDataValid, Rules!ItemsOf
  <2> QED
    BY <2>2, ViewIsAccepted DEF Rules!IdentifierValid, Rules!Present
<1> QED
  BY <1>1, <1>2 DEF DataAccepted

LEMMA ResourceViewIsAccepted ==
  ASSUME NEW data, IsData(data), data # Nil, NEW identity, Rules!ResourceDataValid(DataView(data), identity)
  PROVE  DataAccepted(data)
<1>1. DataView(data).kind = "one" /\ Rules!ResourceValid(DataView(data).items[1], identity)
  BY DEF Rules!ResourceDataValid
<1>2. data.kind = "one"
  BY <1>1, ViewedData
<1>3. DOMAIN data.items = {1}
  BY <1>2 DEF IsData, IsSequence
<1>4. DataView(data).items[1] = ResourceView(data.items[1])
  BY <1>3, ViewedData
<1>5. ResourceView(data.items[1]).type # None /\ ResourceView(data.items[1]).form # "malformed"
  BY <1>1, <1>4 DEF Rules!ResourceValid, Rules!Present
<1> QED
  BY <1>2, <1>3, <1>5, ViewIsAccepted DEF DataAccepted

\* Each resource in the data of a valid operation is accepted.
LEMMA OperationDataIsAccepted ==
  ASSUME NEW operation, NoneIsNoView, Rules!OperationValid(OperationView(operation)),
         operation.core.data # Nil => IsData(operation.core.data)
  PROVE  DataAccepted(operation.core.data)
<1> DEFINE data == operation.core.data
           view == OperationView(operation)
<1> SUFFICES ASSUME data # Nil PROVE DataAccepted(data)
  BY DEF DataAccepted
<1>1. view.data = DataView(data)
  BY ViewedOperation
<1>2. view.data # None
  BY <1>1, ViewedData
<1>3. Rules!OperationValid(view)
  OBVIOUS
<1> HIDE DEF view, data
<1>4. \/ \E many : Rules!RelationshipDataValid(view.data, many)
      \/ \E identity : Rules!ResourceDataValid(view.data, identity)
  BY <1>2, <1>3, OperationDataIsJudged
<1>5. CASE \E many : Rules!RelationshipDataValid(view.data, many)
  BY <1>1, <1>5, RelationshipViewIsAccepted
<1>6. CASE \E identity : Rules!ResourceDataValid(view.data, identity)
  BY <1>1, <1>6, ResourceViewIsAccepted DEF data
<1> QED
  BY <1>4, <1>5, <1>6

LEMMA ReferenceIsDeliverable ==
  ASSUME NEW reference, NoneIsNoView, IsBody("reference", reference),
         Rules!Present(ReferenceView(reference)) => Rules!ReferenceValid(ReferenceView(reference))
  PROVE  BodyDeliverable("reference", reference)
<1>1. IsPart("reference", reference)
  BY DEF IsBody
<1>2. ASSUME reference # Nil
      PROVE  Registered(reference) /\ \A n \in Always("reference") : HasText(reference.core[n])
  <2>1. FlatSound("reference", reference)
    BY <1>2, ReferenceIsSound
  <2>2. reference.extra = {}
    BY <1>1, <1>2 DEF IsPart, IsFlat, HasMembers, Closed
  <2> QED
    BY <2>1, <2>2 DEF FlatSound, Registered
<1>3. PartDeliverable("reference", reference)
  BY <1>1, <1>2 DEF PartDeliverable
<1> QED
  BY <1>3, PartBodyIsDeliverable DEF PartTypes

\* An operation that the Atomic rules accept can be delivered.
LEMMA OperationIsDeliverable ==
  ASSUME NEW value, NoneIsNoView, IsWhole("operation", value), DataRegistered(value.core.data),
         Rules!OperationValid(OperationView(value))
  PROVE  WholeDeliverable("operation", value)
<1> DEFINE core == value.core
           view == OperationView(value)
           Types == Schema["operation"]
<1>1. HasMembers("operation", value) /\ \A n \in DOMAIN Types : IsBody(Types[n], core[n])
  BY DEF IsWhole
<1>2. value.extra = {}
  BY <1>1 DEF HasMembers, Closed
<1>3. Always("operation") = {"op"}
  BY DEF Always
<1>4. /\ DOMAIN Types = {"op", "ref", "href", "data", "meta"}
      /\ Types["op"] = "string" /\ Types["ref"] = "reference" /\ Types["href"] = "string"
      /\ Types["data"] = "primary" /\ Types["meta"] = "free"
  BY DEF Schema
<1> HIDE DEF Types
<1>5. HasText(core.op)
  <2>1. view.op \in {"add", "update", "remove"}
    BY DEF Rules!OperationValid
  <2>2. view.op = core.op.text
    BY ViewedOperation
  <2> HIDE DEF view, core
  <2> QED
    BY <2>1, <2>2 DEF HasText
<1>6. DataAccepted(core.data)
  BY <1>1, <1>4, OperationDataIsAccepted DEF IsBody
<1>7. Rules!Present(ReferenceView(core.ref)) => Rules!ReferenceValid(ReferenceView(core.ref))
  <2>1. Rules!Present(view.ref) => Rules!ReferenceValid(view.ref)
    BY DEF Rules!OperationValid
  <2>2. view.ref = ReferenceView(core.ref)
    BY ViewedOperation
  <2> HIDE DEF view, core
  <2> QED
    BY <2>1, <2>2
<1>8. BodyDeliverable("primary", core["data"])
  BY <1>1, <1>4, <1>6, PrimaryIsDeliverable
<1>9. BodyDeliverable("reference", core["ref"])
  BY <1>1, <1>4, <1>7, ReferenceIsDeliverable
<1>10. /\ BodyDeliverable("string", core["op"]) /\ BodyDeliverable("string", core["href"])
       /\ BodyDeliverable("free", core["meta"])
  BY <1>1, <1>4, PlainBodyIsDeliverable
<1> QED
  BY <1>1, <1>2, <1>3, <1>4, <1>5, <1>8, <1>9, <1>10 DEF WholeDeliverable, Types

\* A result that the Atomic rules accept can be delivered.
LEMMA ResultIsDeliverable ==
  ASSUME NEW value, IsWhole("result", value), DataRegistered(value.core.data),
         value.core.data # Nil => Rules!ResourceDataValid(DataView(value.core.data), "id")
  PROVE  WholeDeliverable("result", value)
<1> DEFINE core == value.core
           Types == Schema["result"]
<1>1. HasMembers("result", value) /\ \A n \in DOMAIN Types : IsBody(Types[n], core[n])
  BY DEF IsWhole
<1>2. value.extra = {} /\ Always("result") = {}
  BY <1>1 DEF HasMembers, Closed, Always
<1>3. DOMAIN Types = {"data", "meta"} /\ Types["data"] = "primary" /\ Types["meta"] = "free"
  BY DEF Schema
<1> HIDE DEF Types
<1>4. DataAccepted(core.data)
  <2>1. core.data # Nil => IsData(core.data)
    BY <1>1, <1>3 DEF IsBody
  <2> QED
    BY <2>1, ResourceViewIsAccepted DEF DataAccepted
<1>5. BodyDeliverable("primary", core["data"])
  BY <1>1, <1>3, <1>4, PrimaryIsDeliverable
<1>6. BodyDeliverable("free", core["meta"])
  BY <1>1, <1>3, PlainBodyIsDeliverable
<1> QED
  BY <1>1, <1>2, <1>3, <1>5, <1>6 DEF WholeDeliverable, Types

\* A result has a resource with an id, if it has data.
LEMMA ResultDataIsJudged ==
  ASSUME NEW results, results # Nil, NEW asked, AtomicResultsValid(results, asked), NoneIsNoView,
         NEW k \in DOMAIN results.items, results.items[k].core.data # Nil
  PROVE  Rules!ResourceDataValid(DataView(results.items[k].core.data), "id")
<1> DEFINE data == DataView(results.items[k].core.data)
<1>1. \/ \E operation : Rules!ResultValid(data, operation)
      \/ data # None => Rules!ResourceDataValid(data, "id")
  BY DEF AtomicResultsValid
<1>2. data # None
  BY ViewedData
<1> HIDE DEF data
<1>3. Rules!ResourceDataValid(data, "id")
  BY <1>1, <1>2 DEF Rules!ResultValid, Rules!Present
<1> QED
  BY <1>3 DEF data

LEMMA OperationIsJudged ==
  ASSUME NEW list, list # Nil, AtomicOperationsValid(list), NEW k \in DOMAIN list.items
  PROVE  Rules!OperationValid(OperationView(list.items[k]))
<1> DEFINE views == [i \in DOMAIN list.items |-> OperationView(list.items[i])]
<1>1. Rules!OperationsValid(views)
  BY DEF AtomicOperationsValid
<1>2. k \in DOMAIN views /\ views[k] = OperationView(list.items[k])
  OBVIOUS
<1> HIDE DEF views
<1> QED
  BY <1>1, <1>2 DEF Rules!OperationsValid

\* An Atomic document that is valid in some context can be delivered.
LEMMA AtomicIsDeliverable ==
  ASSUME NEW value, NoneIsNoView, IsAtomic(value), AtomicMembersRegistered(value), NEW opts,
         AtomicDocumentValid(value, opts)
  PROVE  AtomicDeliverable(value)
<1> DEFINE core == value.core
           Types == Schema["atomic"]
<1>1. HasMembers("atomic", value) /\ \A n \in DOMAIN Types : IsBody(Types[n], core[n])
  BY DEF IsAtomic, IsWhole
<1>2. /\ core.jsonapi = Nil \/ Registered(core.jsonapi)
      /\ LinksRegistered(core.links) /\ ErrorsRegistered(core.errors)
  BY DEF AtomicMembersRegistered
<1>3. /\ DOMAIN Types = {"jsonapi", "links", "operations", "results", "errors", "meta"}
      /\ Types["jsonapi"] = "jsonapi" /\ Types["links"] = "links"
      /\ Types["errors"] = "errors" /\ Types["meta"] = "free"
  BY DEF Schema
<1> HIDE DEF Types
<1>4. LinksSound(core.links)
  <2>1. LinksValid(core.links, {"self", "related", "describedby"} \cup PaginationLinks)
    BY DEF AtomicDocumentValid
  <2> QED
    BY <2>1, LinksAreSound
<1>5. BodyDeliverable("jsonapi", core["jsonapi"])
  BY <1>1, <1>2, <1>3, JSONAPIIsDeliverable
<1>6. BodyDeliverable("links", core["links"])
  BY <1>1, <1>2, <1>3, <1>4, LinksBodyIsDeliverable
<1>7. BodyDeliverable("errors", core["errors"])
  <2>1. core.errors # Nil => \A error \in ItemsOf(core.errors.items) : ErrorValid(error)
    BY DEF AtomicDocumentValid
  <2> QED
    BY <1>1, <1>2, <1>3, <2>1, ErrorsAreDeliverable
<1>8. BodyDeliverable("free", core["meta"])
  BY <1>1, <1>3, PlainBodyIsDeliverable
<1>9. ASSUME core.operations # Nil, NEW k \in DOMAIN core.operations.items
      PROVE  WholeDeliverable("operation", core.operations.items[k])
  <2>1. IsWhole("operation", core.operations.items[k])
    BY <1>9 DEF IsAtomic, IsListOf
  <2>2. DataRegistered(core.operations.items[k].core.data)
    BY <1>9 DEF AtomicMembersRegistered, ItemsOf
  <2>3. AtomicOperationsValid(core.operations)
    BY DEF AtomicDocumentValid
  <2>4. Rules!OperationValid(OperationView(core.operations.items[k]))
    BY <1>9, <2>3, OperationIsJudged
  <2> QED
    BY <2>1, <2>2, <2>4, OperationIsDeliverable
<1>10. ASSUME core.results # Nil, NEW k \in DOMAIN core.results.items
       PROVE  WholeDeliverable("result", core.results.items[k])
  <2>1. IsWhole("result", core.results.items[k])
    BY <1>10 DEF IsAtomic, IsListOf
  <2>2. DataRegistered(core.results.items[k].core.data)
    BY <1>10 DEF AtomicMembersRegistered, ItemsOf
  <2>3. AtomicResultsValid(core.results, opts.asked)
    BY DEF AtomicDocumentValid
  <2>4. core.results.items[k].core.data # Nil =>
          Rules!ResourceDataValid(DataView(core.results.items[k].core.data), "id")
    BY <1>10, <2>3, ResultDataIsJudged
  <2> QED
    BY <2>1, <2>2, <2>4, ResultIsDeliverable
<1> QED
  BY <1>1, <1>3, <1>5, <1>6, <1>7, <1>8, <1>9, <1>10 DEF AtomicDeliverable, WholesDeliverable, Types

-----------------------------------------------------------------------------
(* The rules say the same of a document and of what is read of it *)

IsText(field) == field \in [text : STRING, present : BOOLEAN]

\* A text names the same thing after it has been read.
LEMMA StringAsRead ==
  ASSUME NEW field, IsText(field)
  PROVE  LET read == PlainAsRead("string", field)
         IN /\ read.text = field.text
            /\ read.present <=> HasText(field)
            /\ HasText(read) <=> HasText(field)
            /\ IsText(read) /\ read # Nil
            /\ NameOf(read) = NameOf(field)
<1> DEFINE read == PlainAsRead("string", field)
<1>1. read = [text |-> field.text, present |-> HasText(field)]
  BY StringIsRead DEF IsText
<1>2. HasText(field) \in BOOLEAN /\ field.text \in STRING
  BY DEF HasText, IsText
<1> HIDE DEF read
<1>3. read.text = field.text /\ read.present = HasText(field)
  BY <1>1
<1>4. HasText(read) <=> HasText(field)
  <2>1. HasText(read) <=> read.text # "" \/ read.present
    BY DEF HasText
  <2>2. HasText(field) <=> field.text # "" \/ field.present
    BY DEF HasText
  <2> QED
    BY <1>3, <2>1, <2>2
<1>5. IsText(read) /\ read # Nil
  BY <1>1, <1>2 DEF IsText, Nil
<1>6. NameOf(read) = NameOf(field)
  BY <1>3, <1>4 DEF NameOf
<1> QED
  BY <1>3, <1>4, <1>5, <1>6 DEF read

LEMMA PlainPartAsRead ==
  ASSUME NEW type \in {"string", "free"}, NEW value
  PROVE  PartAsRead(type, value) = PlainAsRead(type, value)
  BY DEF PartAsRead, PlainAsRead

\* An identity is the same after it has been read.
LEMMA IdentityAsRead ==
  ASSUME NEW core, NEW read,
         \A n \in {"type", "id", "lid"} : IsText(core[n]) /\ read[n] = PlainAsRead("string", core[n])
  PROVE  /\ IdentityOf(read) = IdentityOf(core)
         /\ NameOf(read.id) = NameOf(core.id) /\ NameOf(read.lid) = NameOf(core.lid)
         /\ TypeOf(read) = TypeOf(core)
         /\ \A identity : Identified(core, identity) => Identified(read, identity)
         /\ \A opts : ExpectedIdentity(core, opts) => ExpectedIdentity(read, opts)
<1>1. \A n \in {"type", "id", "lid"} :
        /\ read[n].text = core[n].text /\ (HasText(read[n]) <=> HasText(core[n]))
        /\ NameOf(read[n]) = NameOf(core[n])
  BY StringAsRead
<1>2. /\ read.type.text = core.type.text
      /\ read.id.text = core.id.text /\ (HasText(read.id) <=> HasText(core.id))
      /\ HasText(read.lid) <=> HasText(core.lid)
      /\ NameOf(read.id) = NameOf(core.id) /\ NameOf(read.lid) = NameOf(core.lid)
  BY <1>1
<1>3. IdentityOf(read) = IdentityOf(core)
  BY <1>2 DEF IdentityOf
<1>4. TypeOf(read) = TypeOf(core)
  BY <1>2 DEF TypeOf
<1>5. \A identity : Identified(core, identity) => Identified(read, identity)
  BY <1>2 DEF Identified
<1>6. \A opts : ExpectedIdentity(core, opts) => ExpectedIdentity(read, opts)
  BY <1>2 DEF ExpectedIdentity
<1> QED
  BY <1>2, <1>3, <1>4, <1>5, <1>6

\* An identifier is the same after it has been read, and as acceptable.
LEMMA IdentifierAsRead ==
  ASSUME NEW identifier, IsFlat("identifier", identifier)
  PROVE  LET read == FlatAsRead("identifier", identifier)
         IN /\ IdentityOf(read.core) = IdentityOf(identifier.core)
            /\ \A identity : Identified(identifier.core, identity) => Identified(read.core, identity)
<1> DEFINE core == identifier.core
           members == [n \in DOMAIN core |-> PlainAsRead(Schema["identifier"][n], core[n])]
<1>1. {"type", "id", "lid"} \subseteq DOMAIN core
      /\ \A n \in {"type", "id", "lid"} : Schema["identifier"][n] = "string"
  BY DEF IsFlat, HasMembers, Schema
<1>2. \A n \in {"type", "id", "lid"} : n \in DOMAIN Schema["identifier"]
  BY <1>1 DEF IsFlat, HasMembers
<1>3. \A n \in {"type", "id", "lid"} : IsText(core[n])
  BY <1>1, <1>2 DEF IsFlat, IsPlain, IsText
<1>4. FlatAsRead("identifier", identifier).core = members
  BY DEF FlatAsRead
<1>5. \A n \in {"type", "id", "lid"} : members[n] = PlainAsRead("string", core[n])
  BY <1>1
<1> HIDE DEF members, core
<1>6. /\ IdentityOf(members) = IdentityOf(core)
      /\ \A identity : Identified(core, identity) => Identified(members, identity)
  BY <1>3, <1>5, IdentityAsRead
<1> QED
  BY <1>4, <1>6 DEF core

\* Linkage is valid as it is read.
LEMMA LinkageAsReadHolds ==
  ASSUME NEW data, IsPart("linkage", data)
  PROVE  LET read == PartAsRead("linkage", data)
         IN /\ read = Nil <=> data = Nil
            /\ data # Nil => /\ read.kind = data.kind /\ DOMAIN read.items = DOMAIN data.items
                             /\ \A k \in DOMAIN data.items :
                                  read.items[k] = FlatAsRead("identifier", data.items[k])
            /\ \A identity : LinkageValid(data, identity) => LinkageValid(read, identity)
<1> DEFINE items == [k \in DOMAIN data.items |-> FlatAsRead("identifier", data.items[k])]
           read == PartAsRead("linkage", data)
<1>1. data = Nil => read = Nil
  BY DEF PartAsRead
<1>2. data # Nil => read = [kind |-> data.kind, items |-> items]
  BY DEF PartAsRead, LinkageAsRead
<1>3. DOMAIN items = DOMAIN data.items
      /\ \A k \in DOMAIN data.items : items[k] = FlatAsRead("identifier", data.items[k])
  OBVIOUS
<1> HIDE DEF items, read
<1>4. data # Nil => read.kind = data.kind /\ read.items = items /\ read # Nil
  BY <1>2 DEF Nil
<1>5. ASSUME NEW identity, LinkageValid(data, identity), data # Nil
      PROVE  LinkageValid(read, identity)
  <2>1. data.kind # "zero" /\ \A k \in DOMAIN data.items : Identified(data.items[k].core, identity)
    BY <1>5 DEF LinkageValid, ItemsOf
  <2>2. \A k \in DOMAIN data.items : IsFlat("identifier", data.items[k])
    BY <1>5 DEF IsPart
  <2>3. \A k \in DOMAIN items : Identified(items[k].core, identity)
    BY <1>3, <2>1, <2>2, IdentifierAsRead
  <2> QED
    BY <1>4, <1>5, <2>1, <2>3 DEF LinkageValid, ItemsOf
<1>6. \A identity : data = Nil => LinkageValid(read, identity)
  BY <1>1 DEF LinkageValid
<1> QED
  BY <1>1, <1>3, <1>4, <1>5, <1>6 DEF read

LEMMA FlatMembersAsRead ==
  ASSUME NEW kind, NEW value, HasMembers(kind, value)
  PROVE  /\ DOMAIN FlatAsRead(kind, value).core = DOMAIN Schema[kind]
         /\ \A n \in DOMAIN Schema[kind] :
              FlatAsRead(kind, value).core[n] = PlainAsRead(Schema[kind][n], value.core[n])
  BY DEF FlatAsRead, HasMembers

LEMMA LinkItselfAsReadHolds ==
  ASSUME NEW link, IsLinkItself(link), LinkItselfValid(link)
  PROVE  LinkItselfValid(LinkItselfAsRead(link)) /\ LinkItselfAsRead(link).form # "extension"
<1> DEFINE read == LinkItselfAsRead(link)
<1>1. CASE link.form = "null"
  <2>1. read = link
    BY <1>1 DEF LinkItselfAsRead
  <2> QED
    BY <1>1, <2>1
<1>2. CASE link.form = "string"
  <2>1. read = [form |-> "string", core |-> [href |-> [text |-> link.core.href.text, present |-> TRUE]]]
    BY <1>2 DEF LinkItselfAsRead
  <2>2. link.core.href.text \in Valid.uri
    BY <1>2 DEF LinkItselfValid
  <2>3. read.form = "string" /\ read.core.href.text = link.core.href.text
    BY <2>1
  <2> HIDE DEF read
  <2> QED
    BY <2>2, <2>3 DEF LinkItselfValid, read
<1>3. CASE link.form = "object" /\ IsFlat("link", link)
  <2> DEFINE core == FlatAsRead("link", link).core
  <2>1. read.form = "object" /\ read.core = core
    BY <1>3 DEF LinkItselfAsRead
  <2>2. /\ link.core.href.present /\ link.core.href.text \in Valid.uri
        /\ HasText(link.core.rel) => link.core.rel.text \in Valid.relation
        /\ HasText(link.core.type) => link.core.type.text \in Valid.media
        /\ link.core.hreflang # Nil => ItemsOf(link.core.hreflang.items) \subseteq Valid.language
    BY <1>3 DEF LinkItselfValid
  <2>3. \A n \in DOMAIN Schema["link"] : core[n] = PlainAsRead(Schema["link"][n], link.core[n])
    BY <1>3, FlatMembersAsRead DEF IsFlat
  <2>4. \A n \in {"href", "rel", "type"} : n \in DOMAIN Schema["link"] /\ Schema["link"][n] = "string"
    BY DEF Schema
  <2>5. "hreflang" \in DOMAIN Schema["link"] /\ Schema["link"]["hreflang"] = "hreflang"
    BY DEF Schema
  <2>6. \A n \in {"href", "rel", "type"} : IsText(link.core[n])
    BY <1>3, <2>4 DEF IsFlat, IsPlain, IsText
  <2> HIDE DEF read, core
  <2>7. \A n \in {"href", "rel", "type"} :
          /\ core[n].text = link.core[n].text
          /\ core[n].present <=> HasText(link.core[n])
          /\ HasText(core[n]) <=> HasText(link.core[n])
    BY <2>3, <2>4, <2>6, StringAsRead
  <2>8. core.hreflang = link.core.hreflang
    BY <2>3, <2>5 DEF PlainAsRead
  <2>9. HasText(link.core.href)
    BY <2>2 DEF HasText
  <2>10. core.href.present /\ core.href.text \in Valid.uri
    BY <2>2, <2>7, <2>9
  <2>11. /\ HasText(core.rel) => core.rel.text \in Valid.relation
         /\ HasText(core.type) => core.type.text \in Valid.media
    BY <2>2, <2>7
  <2> QED
    BY <2>1, <2>2, <2>8, <2>10, <2>11 DEF LinkItselfValid, read
<1> QED
  BY <1>1, <1>2, <1>3 DEF IsLinkItself

\* A link, with what describes it, is valid as it is read.
LEMMA LinkAsReadHolds ==
  ASSUME NEW link, IsLink(link), ~IsExtension(link), LinkValid(link)
  PROVE  LinkValid(LinkAsRead(link)) /\ ~IsExtension(LinkAsRead(link))
<1> DEFINE chain == [k \in DOMAIN link.chain |-> LinkItselfAsRead(link.chain[k])]
<1>1. LinkAsRead(link) = [chain |-> chain]
  BY DEF LinkAsRead, LinkItselfAsRead
<1>2. /\ link.chain \in Seq({link.chain[k] : k \in DOMAIN link.chain}) /\ Len(link.chain) \in 1..MaxNestingDepth
      /\ \A k \in DOMAIN link.chain : IsLinkItself(link.chain[k])
  BY DEF IsLink, IsExtension, IsSequence
<1>3. DOMAIN chain = DOMAIN link.chain
      /\ \A k \in DOMAIN chain : chain[k] = LinkItselfAsRead(link.chain[k])
  OBVIOUS
<1>4. 1 \in DOMAIN link.chain
  BY <1>2, NestingIsLimited
<1> HIDE DEF chain
<1>5. \A k \in DOMAIN chain : LinkItselfValid(chain[k]) /\ chain[k].form # "extension"
  BY <1>2, <1>3, LinkItselfAsReadHolds DEF LinkValid
<1>6. LinkAsRead(link).chain = chain
  BY <1>1
<1>7. LinkAsRead(link) # ExtensionLink
  <2>1. ExtensionLink.chain[1].form = "extension"
    BY DEF ExtensionLink
  <2> QED
    BY <1>3, <1>4, <1>5, <1>6, <2>1
<1> QED
  BY <1>5, <1>6, <1>7 DEF LinkValid, IsExtension

\* Links are valid as they are read.
LEMMA LinksAsReadHolds ==
  ASSUME NEW links, IsPart("links", links), LinksRegistered(links)
  PROVE  LET read == PartAsRead("links", links)
         IN /\ read = Nil <=> links = Nil
            /\ links # Nil => DOMAIN read.entries = DOMAIN links.entries \ AtNames
            /\ \A allowed : LinksValid(links, allowed) => LinksValid(read, allowed)
            /\ \A collection : PaginationValid(links, collection) => PaginationValid(read, collection)
<1> DEFINE entries == [n \in DOMAIN links.entries \ AtNames |-> LinkAsRead(links.entries[n])]
           read == PartAsRead("links", links)
<1>1. links = Nil => read = Nil
  BY DEF PartAsRead
<1>2. links # Nil => read = [entries |-> entries]
  BY DEF PartAsRead, LinksAsRead
<1>3. /\ DOMAIN entries = DOMAIN links.entries \ AtNames
      /\ \A n \in DOMAIN entries : entries[n] = LinkAsRead(links.entries[n])
  OBVIOUS
<1> HIDE DEF entries, read
<1>4. links # Nil => read.entries = entries /\ read # Nil
  BY <1>2, MapEntries
<1>5. ASSUME NEW allowed, LinksValid(links, allowed), links # Nil
      PROVE  LinksValid(read, allowed)
  <2>1. ASSUME NEW n \in DOMAIN entries
        PROVE  ~IsExtension(entries[n]) /\ n \in allowed /\ LinkValid(entries[n])
    <3>1. n \in DOMAIN links.entries /\ n \notin AtNames
      BY <1>3, <2>1
    <3>2. ~IsExtension(links.entries[n])
      BY <1>5, <3>1 DEF LinksRegistered
    <3>3. n \in allowed /\ LinkValid(links.entries[n])
      BY <1>5, <3>1, <3>2 DEF LinksValid
    <3>4. IsLink(links.entries[n])
      BY <1>5, <3>1 DEF IsPart, IsLinks
    <3> QED
      BY <1>3, <3>2, <3>3, <3>4, LinkAsReadHolds
  <2> QED
    BY <1>4, <1>5, <2>1 DEF LinksValid
<1>6. ASSUME NEW collection, PaginationValid(links, collection), links # Nil
      PROVE  PaginationValid(read, collection)
  BY <1>3, <1>4, <1>6 DEF PaginationValid
<1>7. links = Nil => /\ \A allowed : LinksValid(read, allowed)
                     /\ \A collection : PaginationValid(read, collection)
  BY <1>1 DEF LinksValid, PaginationValid
<1> QED
  BY <1>1, <1>3, <1>4, <1>5, <1>6, <1>7 DEF read

LEMMA NestedMembersAsRead ==
  ASSUME NEW kind, NEW value, HasMembers(kind, value)
  PROVE  /\ NestedAsRead(kind, value).extra = {}
         /\ \A n \in DOMAIN Schema[kind] :
              NestedAsRead(kind, value).core[n] = PartAsRead(Schema[kind][n], value.core[n])
  BY DEF NestedAsRead, HasMembers

LEMMA FreeAsRead ==
  ASSUME NEW value
  PROVE  LET read == PartAsRead("free", value)
         IN /\ read = Nil <=> value = Nil
            /\ value # Nil => DOMAIN read.entries = DOMAIN value.entries \ AtNames
<1>1. value = Nil => PartAsRead("free", value) = Nil
  BY DEF PartAsRead
<1>2. value # Nil => PartAsRead("free", value) = [entries |-> Stripped(value.entries)]
  BY DEF PartAsRead, PlainAsRead
<1>3. DOMAIN Stripped(value.entries) = DOMAIN value.entries \ AtNames
  BY DEF Stripped
<1>4. value # Nil => /\ PartAsRead("free", value) # Nil
                     /\ PartAsRead("free", value).entries = Stripped(value.entries)
  BY <1>2, MapEntries
<1> QED
  BY <1>1, <1>3, <1>4

\* A relationship that has content other than what a receiver ignores is valid as it
\* is read.
LEMMA RelationshipAsReadHolds ==
  ASSUME NEW relationship, IsNested("relationship", relationship), RelationshipRegistered(relationship),
         HasContent(relationship)
  PROVE  /\ \A requireData, identity :
              RelationshipValid(relationship, requireData, identity) =>
                RelationshipValid(NestedAsRead("relationship", relationship), requireData, identity)
         /\ NestedAsRead("relationship", relationship).core.data
              = PartAsRead("linkage", relationship.core.data)
<1> DEFINE core == relationship.core
           read == NestedAsRead("relationship", relationship)
<1>1. /\ DOMAIN Schema["relationship"] = {"links", "data", "meta"}
      /\ Schema["relationship"]["links"] = "links" /\ Schema["relationship"]["data"] = "linkage"
      /\ Schema["relationship"]["meta"] = "free"
  BY DEF Schema
<1>2. HasMembers("relationship", relationship)
      /\ \A n \in DOMAIN Schema["relationship"] : IsPart(Schema["relationship"][n], core[n])
  BY DEF IsNested
<1>3. IsPart("links", core.links) /\ IsPart("linkage", core.data)
  BY <1>1, <1>2
<1>4. /\ read.core["links"] = PartAsRead("links", core["links"])
      /\ read.core["data"] = PartAsRead("linkage", core["data"])
      /\ read.core["meta"] = PartAsRead("free", core["meta"])
  BY <1>1, <1>2, NestedMembersAsRead
<1> HIDE DEF read, core
<1>5. read.core.meta # Nil <=> core.meta # Nil
  BY <1>4, FreeAsRead
<1>6. /\ read.core.data = Nil <=> core.data = Nil
      /\ core.data # Nil => read.core.data.kind = core.data.kind
      /\ \A identity : LinkageValid(core.data, identity) => LinkageValid(read.core.data, identity)
  BY <1>3, <1>4, LinkageAsReadHolds
<1>7. LinksRegistered(core.links)
  BY DEF RelationshipRegistered, core
<1>8. /\ read.core.links = Nil <=> core.links = Nil
      /\ core.links # Nil => DOMAIN read.core.links.entries = DOMAIN core.links.entries \ AtNames
      /\ \A allowed : LinksValid(core.links, allowed) => LinksValid(read.core.links, allowed)
      /\ \A collection : PaginationValid(core.links, collection) => PaginationValid(read.core.links, collection)
  BY <1>3, <1>4, <1>7, LinksAsReadHolds
<1>9. HasRelationshipLink(read.core.links) \/ read.core.data # Nil \/ read.core.meta # Nil
  <2>1. CASE core.links # Nil /\ {"self", "related"} \cap DOMAIN core.links.entries # {}
    BY <1>8, <2>1, AtNamesBegin DEF HasRelationshipLink
  <2> QED
    BY <1>5, <1>6, <2>1 DEF HasContent, core
<1>10. ASSUME NEW requireData, NEW identity, RelationshipValid(relationship, requireData, identity)
       PROVE  RelationshipValid(read, requireData, identity)
  <2>1. /\ requireData => core.data # Nil
        /\ LinksValid(core.links, {"self", "related"} \cup PaginationLinks)
        /\ PaginationValid(core.links, core.data = Nil \/ core.data.kind = "many")
        /\ LinkageValid(core.data, identity)
    BY <1>10 DEF RelationshipValid, core
  <2>2. PaginationValid(read.core.links, read.core.data = Nil \/ read.core.data.kind = "many")
    <3>1. PaginationValid(read.core.links, core.data = Nil \/ core.data.kind = "many")
      BY <1>8, <2>1
    <3> QED
      BY <1>6, <3>1 DEF PaginationValid
  <2> QED
    BY <1>6, <1>8, <1>9, <2>1, <2>2 DEF RelationshipValid
<1> QED
  BY <1>4, <1>10 DEF read, core

\* A listing of a finite set has no item that is not of it.
LEMMA ListedAreMembers ==
  ASSUME NEW S, IsFiniteSet(S)
  PROVE  \A k \in DOMAIN SetToSeq(S) : SetToSeq(S)[k] \in S
<1> DEFINE Listing(f) == f \in [1..Cardinality(S) -> S] /\ IsInjective(f)
<1>1. ExistsBijection(1..Cardinality(S), S)
  BY FS_CardinalityType
<1>2. \E f : Listing(f)
  BY <1>1 DEF ExistsBijection, Bijection, Injection
<1>3. Listing(CHOOSE f : Listing(f))
  BY <1>2, Zenon
<1>4. SetToSeq(S) \in [1..Cardinality(S) -> S]
  BY <1>2 DEF SetToSeq
<1> QED
  BY <1>4

\* The identifiers of one relationship, as the document graph sees them.
ItemsIn(entries, n) ==
  [i \in DOMAIN entries[n].core.data.items |-> IdentityOf(entries[n].core.data.items[i].core)]

LinkingNames(relationships) ==
  {n \in DOMAIN relationships.entries \ AtNames : relationships.entries[n].core.data # Nil}

LEMMA LinkageListed ==
  ASSUME NEW relationships, relationships # Nil
  PROVE  LinkageOf(relationships) =
           LET names == SetToSeq(LinkingNames(relationships))
           IN FlattenSeq([k \in DOMAIN names |-> ItemsIn(relationships.entries, names[k])])
  BY DEF LinkageOf, LinkingNames, ItemsIn

\* Relationships that link under the same names to the same have the same linkage.
LEMMA SameLinkage ==
  ASSUME NEW one, NEW other, one # Nil, other # Nil, IsFiniteSet(LinkingNames(one)),
         LinkingNames(other) = LinkingNames(one),
         \A n \in LinkingNames(one) : ItemsIn(other.entries, n) = ItemsIn(one.entries, n)
  PROVE  LinkageOf(other) = LinkageOf(one)
<1> DEFINE names == SetToSeq(LinkingNames(one))
           Of(r) == [k \in DOMAIN names |-> ItemsIn(r.entries, names[k])]
<1>1. \A k \in DOMAIN names : names[k] \in LinkingNames(one)
  BY ListedAreMembers
<1> HIDE DEF names
<1>2. Of(other) = Of(one)
  BY <1>1
<1>3. LinkageOf(one) = FlattenSeq(Of(one)) /\ LinkageOf(other) = FlattenSeq(Of(other))
  BY LinkageListed DEF names
<1> QED
  BY <1>2, <1>3

LEMMA RelationshipsRead ==
  ASSUME NEW relationships, relationships # Nil
  PROVE  LET read == RelationshipsAsRead(relationships)
         IN /\ read # Nil
            /\ DOMAIN read.entries = DOMAIN relationships.entries \ AtNames
            /\ \A n \in DOMAIN relationships.entries \ AtNames :
                 read.entries[n] = NestedAsRead("relationship", relationships.entries[n])
<1> DEFINE entries == [n \in DOMAIN relationships.entries \ AtNames |->
                         NestedAsRead("relationship", relationships.entries[n])]
<1>1. RelationshipsAsRead(relationships) = [entries |-> entries]
  BY DEF RelationshipsAsRead
<1>2. DOMAIN entries = DOMAIN relationships.entries \ AtNames
      /\ \A n \in DOMAIN entries : entries[n] = NestedAsRead("relationship", relationships.entries[n])
  OBVIOUS
<1> HIDE DEF entries
<1>3. RelationshipsAsRead(relationships).entries = entries /\ RelationshipsAsRead(relationships) # Nil
  BY <1>1, MapEntries
<1> QED
  BY <1>2, <1>3

LEMMA LinkageOfRead ==
  ASSUME NEW relationships, relationships # Nil => IsRelationships(relationships)
  PROVE  LinkageOf(RelationshipsAsRead(relationships)) = LinkageOf(relationships)
<1> DEFINE read == RelationshipsAsRead(relationships)
<1>1. CASE relationships = Nil
  BY <1>1 DEF RelationshipsAsRead
<1>2. CASE relationships # Nil
  <2>1. /\ read # Nil
        /\ DOMAIN read.entries = DOMAIN relationships.entries \ AtNames
        /\ \A n \in DOMAIN relationships.entries \ AtNames :
             read.entries[n] = NestedAsRead("relationship", relationships.entries[n])
    BY <1>2, RelationshipsRead
  <2> HIDE DEF read
  <2>2. ASSUME NEW n \in DOMAIN relationships.entries \ AtNames
        PROVE  /\ read.entries[n].core.data = PartAsRead("linkage", relationships.entries[n].core.data)
               /\ IsPart("linkage", relationships.entries[n].core.data)
    <3>1. "data" \in DOMAIN Schema["relationship"] /\ Schema["relationship"]["data"] = "linkage"
      BY DEF Schema
    <3>2. IsNested("relationship", relationships.entries[n])
      BY <1>2 DEF IsRelationships
    <3>3. /\ HasMembers("relationship", relationships.entries[n])
          /\ IsPart("linkage", relationships.entries[n].core["data"])
      BY <3>1, <3>2 DEF IsNested
    <3>4. NestedAsRead("relationship", relationships.entries[n]).core["data"]
            = PartAsRead("linkage", relationships.entries[n].core["data"])
      BY <3>1, <3>3, NestedMembersAsRead
    <3> QED
      BY <2>1, <3>3, <3>4
  <2>3. ASSUME NEW n \in DOMAIN relationships.entries \ AtNames
        PROVE  /\ read.entries[n].core.data # Nil <=> relationships.entries[n].core.data # Nil
               /\ relationships.entries[n].core.data # Nil =>
                    ItemsIn(read.entries, n) = ItemsIn(relationships.entries, n)
    <3> DEFINE data == relationships.entries[n].core.data
               found == read.entries[n].core.data
    <3>1. /\ found = Nil <=> data = Nil
          /\ data # Nil => /\ DOMAIN found.items = DOMAIN data.items
                           /\ \A k \in DOMAIN data.items :
                                found.items[k] = FlatAsRead("identifier", data.items[k])
      BY <2>2, LinkageAsReadHolds
    <3>2. data # Nil => \A k \in DOMAIN data.items : IsFlat("identifier", data.items[k])
      BY <2>2 DEF IsPart
    <3> HIDE DEF data, found
    <3>3. data # Nil => \A k \in DOMAIN data.items : IdentityOf(found.items[k].core) = IdentityOf(data.items[k].core)
      BY <3>1, <3>2, IdentifierAsRead
    <3>4. data # Nil => [i \in DOMAIN found.items |-> IdentityOf(found.items[i].core)]
                          = [i \in DOMAIN data.items |-> IdentityOf(data.items[i].core)]
      BY <3>1, <3>3
    <3> QED
      BY <3>1, <3>4 DEF ItemsIn, data, found
  <2>4. LinkingNames(read) = LinkingNames(relationships)
    BY <2>1, <2>3 DEF LinkingNames
  <2>5. IsFiniteSet(LinkingNames(relationships))
    <3>1. IsFiniteSet(DOMAIN relationships.entries)
      BY <1>2 DEF IsRelationships
    <3>2. LinkingNames(relationships) \subseteq DOMAIN relationships.entries
      BY DEF LinkingNames
    <3> QED
      BY <3>1, <3>2, FS_Subset
  <2>6. \A n \in LinkingNames(relationships) : ItemsIn(read.entries, n) = ItemsIn(relationships.entries, n)
    BY <2>3 DEF LinkingNames
  <2>7. LinkageOf(read) = LinkageOf(relationships)
    BY <1>2, <2>1, <2>4, <2>5, <2>6, SameLinkage
  <2> QED
    BY <2>7 DEF read
<1> QED
  BY <1>1, <1>2

-----------------------------------------------------------------------------

ResourceHasContent(object) ==
  object.core.relationships # Nil =>
    \A n \in DOMAIN object.core.relationships.entries \ AtNames :
      HasContent(object.core.relationships.entries[n])

LEMMA ResourceMembersAsRead ==
  ASSUME NEW object, HasMembers("resource", object)
  PROVE  /\ ResourceAsRead(object).core.relationships = RelationshipsAsRead(object.core.relationships)
         /\ \A n \in DOMAIN Schema["resource"] \ {"relationships"} :
              ResourceAsRead(object).core[n] = PartAsRead(Schema["resource"][n], object.core[n])
<1>1. "relationships" \in DOMAIN Schema["resource"] /\ DOMAIN object.core = DOMAIN Schema["resource"]
  BY DEF HasMembers, Schema
<1> QED
  BY <1>1 DEF ResourceAsRead

\* Whatever does not concern the contents of its members.
LEMMA ResourceReadAlike ==
  ASSUME NEW object, IsResource(object)
  PROVE  LET core == object.core
             read == ResourceAsRead(object).core
         IN /\ IdentityOf(read) = IdentityOf(core)
            /\ NameOf(read.id) = NameOf(core.id) /\ NameOf(read.lid) = NameOf(core.lid)
            /\ TypeOf(read) = TypeOf(core)
            /\ \A identity : Identified(core, identity) => Identified(read, identity)
            /\ \A opts : ExpectedIdentity(core, opts) => ExpectedIdentity(read, opts)
            /\ \A member \in {"attributes", "relationships", "links"} :
                 read[member] = Nil <=> core[member] = Nil
            /\ LinkageOf(read.relationships) = LinkageOf(core.relationships)
<1> DEFINE core == object.core
           read == ResourceAsRead(object).core
           Types == Schema["resource"]
<1>1. HasMembers("resource", object) /\ \A n \in DOMAIN Types : IsPart(Types[n], core[n])
  BY DEF IsResource, IsNested
<1>2. /\ {"type", "id", "lid", "attributes", "links"} \subseteq DOMAIN Types \ {"relationships"}
      /\ \A n \in {"type", "id", "lid"} : Types[n] = "string"
      /\ Types["attributes"] = "free" /\ Types["links"] = "links"
  BY DEF Schema
<1>3. /\ read.relationships = RelationshipsAsRead(core.relationships)
      /\ \A n \in DOMAIN Types \ {"relationships"} : read[n] = PartAsRead(Types[n], core[n])
  BY <1>1, ResourceMembersAsRead
<1>4. core.relationships # Nil => IsRelationships(core.relationships)
  BY DEF IsResource
<1> HIDE DEF read, core, Types
<1>5. \A n \in {"type", "id", "lid"} : IsText(core[n]) /\ read[n] = PlainAsRead("string", core[n])
  BY <1>1, <1>2, <1>3, PlainPartAsRead DEF IsPart, IsPlain, IsText
<1>6. /\ IdentityOf(read) = IdentityOf(core)
      /\ NameOf(read.id) = NameOf(core.id) /\ NameOf(read.lid) = NameOf(core.lid)
      /\ TypeOf(read) = TypeOf(core)
      /\ \A identity : Identified(core, identity) => Identified(read, identity)
      /\ \A opts : ExpectedIdentity(core, opts) => ExpectedIdentity(read, opts)
  BY <1>5, IdentityAsRead
<1>7. read["attributes"] = Nil <=> core["attributes"] = Nil
  BY <1>2, <1>3, FreeAsRead
<1>8. read["links"] = Nil <=> core["links"] = Nil
  <2>1. read["links"] = PartAsRead("links", core["links"])
    BY <1>2, <1>3
  <2> QED
    BY <2>1 DEF PartAsRead, LinksAsRead, Nil
<1>9. read["relationships"] = Nil <=> core["relationships"] = Nil
  BY <1>3, RelationshipsRead DEF RelationshipsAsRead
<1>10. LinkageOf(read.relationships) = LinkageOf(core.relationships)
  BY <1>3, <1>4, LinkageOfRead
<1> QED
  BY <1>6, <1>7, <1>8, <1>9, <1>10 DEF read, core

\* A resource is valid as it is read.
LEMMA ResourceAsReadHolds ==
  ASSUME NEW object, IsResource(object), ResourceRegistered(object), ResourceHasContent(object),
         NEW identity, NEW requireData, NEW identifiers,
         ResourceValid(object, identity, requireData, identifiers)
  PROVE  ResourceValid(ResourceAsRead(object), identity, requireData, identifiers)
<1> DEFINE core == object.core
           value == ResourceAsRead(object)
           read == value.core
           Types == Schema["resource"]
<1>1. HasMembers("resource", object) /\ \A n \in DOMAIN Types : IsPart(Types[n], core[n])
  BY DEF IsResource, IsNested
<1>2. /\ {"attributes", "links"} \subseteq DOMAIN Types \ {"relationships"}
      /\ Types["attributes"] = "free" /\ Types["links"] = "links"
  BY DEF Schema
<1>3. /\ read.relationships = RelationshipsAsRead(core.relationships)
      /\ read["attributes"] = PartAsRead("free", core["attributes"])
      /\ read["links"] = PartAsRead("links", core["links"])
  BY <1>1, <1>2, ResourceMembersAsRead
<1>4. IsPart("links", core.links) /\ LinksRegistered(core.links)
  BY <1>1, <1>2 DEF ResourceRegistered
<1>5. /\ Identified(core, identity) /\ LinksValid(core.links, {"self"})
      /\ (IF core.attributes = Nil THEN {} ELSE DOMAIN core.attributes.entries)
           \cup (IF core.relationships = Nil THEN {} ELSE DOMAIN core.relationships.entries)
           \subseteq Valid.name \ {"id", "type"}
      /\ (IF core.attributes = Nil THEN {} ELSE DOMAIN core.attributes.entries)
           \cap (IF core.relationships = Nil THEN {} ELSE DOMAIN core.relationships.entries) \subseteq AtNames
      /\ core.relationships # Nil =>
           \A n \in DOMAIN core.relationships.entries \ AtNames :
             RelationshipValid(core.relationships.entries[n], requireData, identifiers)
  BY DEF ResourceValid
<1>6. Identified(read, identity)
  BY <1>5, ResourceReadAlike
<1>7. core.relationships # Nil =>
        \A n \in DOMAIN core.relationships.entries \ AtNames :
          /\ IsNested("relationship", core.relationships.entries[n])
          /\ RelationshipRegistered(core.relationships.entries[n])
          /\ HasContent(core.relationships.entries[n])
  BY DEF IsResource, IsRelationships, ResourceRegistered, ResourceHasContent
<1> HIDE DEF read, core, Types, value
<1>8. LinksValid(read.links, {"self"})
  BY <1>3, <1>4, <1>5, LinksAsReadHolds
<1>9. /\ read.attributes = Nil <=> core.attributes = Nil
      /\ core.attributes # Nil => DOMAIN read.attributes.entries = DOMAIN core.attributes.entries \ AtNames
  BY <1>3, FreeAsRead
<1>10. core.relationships = Nil => read.relationships = Nil
  BY <1>3 DEF RelationshipsAsRead
<1>11. core.relationships # Nil =>
         /\ read.relationships # Nil
         /\ DOMAIN read.relationships.entries = DOMAIN core.relationships.entries \ AtNames
         /\ \A n \in DOMAIN core.relationships.entries \ AtNames :
              read.relationships.entries[n] = NestedAsRead("relationship", core.relationships.entries[n])
  BY <1>3, RelationshipsRead
<1>12. core.relationships # Nil =>
         \A n \in DOMAIN read.relationships.entries \ AtNames :
           RelationshipValid(read.relationships.entries[n], requireData, identifiers)
  BY <1>5, <1>7, <1>11, RelationshipAsReadHolds
<1> DEFINE attributes == IF read.attributes = Nil THEN {} ELSE DOMAIN read.attributes.entries
           relationships == IF read.relationships = Nil THEN {} ELSE DOMAIN read.relationships.entries
<1>13. attributes \cup relationships \subseteq Valid.name \ {"id", "type"}
       /\ attributes \cap relationships \subseteq AtNames
  BY <1>5, <1>9, <1>10, <1>11
<1>14. \A n \in relationships \ AtNames :
         RelationshipValid(read.relationships.entries[n], requireData, identifiers)
  BY <1>10, <1>11, <1>12
<1> QED
  BY <1>6, <1>8, <1>13, <1>14 DEF ResourceValid, read, value

LEMMA PrimaryAsRead ==
  ASSUME NEW data
  PROVE  LET read == BodyAsRead("primary", data)
         IN /\ read = Nil <=> data = Nil
            /\ data # Nil => /\ read.kind = data.kind
                             /\ read.items = [k \in DOMAIN data.items |-> ResourceAsRead(data.items[k])]
<1>1. data = Nil => BodyAsRead("primary", data) = Nil
  BY DEF BodyAsRead
<1>2. data # Nil => BodyAsRead("primary", data)
                      = [kind  |-> data.kind,
                         items |-> [k \in DOMAIN data.items |-> ResourceAsRead(data.items[k])]]
  BY DEF BodyAsRead
<1>3. \A kind, items : [kind |-> kind, items |-> items] # Nil
  BY DEF Nil
<1> QED
  BY <1>1, <1>2, <1>3

LEMMA ResourcesAsRead ==
  ASSUME NEW list
  PROVE  LET read == BodyAsRead("resources", list)
         IN /\ read = Nil <=> list = Nil
            /\ list # Nil => read.items = [k \in DOMAIN list.items |-> ResourceAsRead(list.items[k])]
<1>1. list = Nil => BodyAsRead("resources", list) = Nil
  BY DEF BodyAsRead
<1>2. list # Nil => BodyAsRead("resources", list)
                      = [items |-> [k \in DOMAIN list.items |-> ResourceAsRead(list.items[k])]]
  BY DEF BodyAsRead
<1> QED
  BY <1>1, <1>2, ListItems

LEMMA ErrorsAsRead ==
  ASSUME NEW list
  PROVE  LET read == BodyAsRead("errors", list)
         IN /\ read = Nil <=> list = Nil
            /\ list # Nil => read.items = [k \in DOMAIN list.items |-> NestedAsRead("error", list.items[k])]
<1>1. list = Nil => BodyAsRead("errors", list) = Nil
  BY DEF BodyAsRead
<1>2. list # Nil => BodyAsRead("errors", list)
                      = [items |-> [k \in DOMAIN list.items |-> NestedAsRead("error", list.items[k])]]
  BY DEF BodyAsRead
<1> QED
  BY <1>1, <1>2, ListItems

LEMMA PartBodyAsRead ==
  ASSUME NEW type \in PartTypes, NEW value
  PROVE  BodyAsRead(type, value) = PartAsRead(type, value)
  BY DEF BodyAsRead, PartAsRead, PartTypes

LEMMA WholeMembersAsRead ==
  ASSUME NEW kind, NEW value, HasMembers(kind, value)
  PROVE  /\ DOMAIN WholeAsRead(kind, value).core = DOMAIN Schema[kind]
         /\ WholeAsRead(kind, value).extra = {}
         /\ \A n \in DOMAIN Schema[kind] :
              WholeAsRead(kind, value).core[n] = BodyAsRead(Schema[kind][n], value.core[n])
  BY DEF WholeAsRead, HasMembers

-----------------------------------------------------------------------------
(* The graph of a document *)

LEMMA NodeAsRead ==
  ASSUME NEW object, IsResource(object)
  PROVE  Node(ResourceAsRead(object)) = Node(object)
<1>1. /\ IdentityOf(ResourceAsRead(object).core) = IdentityOf(object.core)
      /\ LinkageOf(ResourceAsRead(object).core.relationships) = LinkageOf(object.core.relationships)
  BY ResourceReadAlike
<1> QED
  BY <1>1 DEF Node

\* The resources of a member, if it is there.
ResourcesIn(member) == IF member = Nil THEN <<>> ELSE member.items

AreResources(items) == IsSequence(items) /\ \A k \in DOMAIN items : IsResource(items[k])

LEMMA GraphListed ==
  ASSUME NEW value
  PROVE  LET primary == ResourcesIn(value.core.data)
             others  == ResourcesIn(value.core.included)
         IN GraphOf(value) = [resources |-> [k \in 1..(Len(primary) + Len(others)) |-> Node((primary \o others)[k])],
                              primary   |-> Len(primary)]
  BY DEF GraphOf, ResourcesIn

LEMMA SequenceFacts ==
  ASSUME NEW items, IsSequence(items)
  PROVE  items \in Seq({items[k] : k \in DOMAIN items}) /\ DOMAIN items = 1..Len(items) /\ Len(items) \in Nat
  BY DEF IsSequence

LEMMA SequenceOf ==
  ASSUME NEW S, NEW items, IsSequence(items), \A k \in DOMAIN items : items[k] \in S
  PROVE  items \in Seq(S)
<1>1. DOMAIN items = 1..Len(items) /\ Len(items) \in Nat /\ items \in Seq({items[k] : k \in DOMAIN items})
  BY SequenceFacts
<1>2. \A k \in 1..Len(items) : items[k] \in S
  BY <1>1
<1>3. items = [k \in 1..Len(items) |-> items[k]]
  BY <1>1
<1> QED
  BY <1>1, <1>2, <1>3

\* A list that is read has as many resources, each the same node.
LEMMA ListAsRead ==
  ASSUME NEW items, AreResources(items)
  PROVE  LET read == [k \in DOMAIN items |-> ResourceAsRead(items[k])]
         IN /\ IsSequence(read) /\ Len(read) = Len(items)
            /\ \A k \in 1..Len(items) : Node(read[k]) = Node(items[k])
<1> DEFINE read == [k \in DOMAIN items |-> ResourceAsRead(items[k])]
<1>1. DOMAIN items = 1..Len(items) /\ Len(items) \in Nat
  BY SequenceFacts DEF AreResources
<1>2. read \in Seq({read[k] : k \in DOMAIN read}) /\ Len(read) = Len(items)
  BY <1>1
<1>3. \A k \in 1..Len(items) : Node(read[k]) = Node(items[k])
  BY <1>1, NodeAsRead DEF AreResources
<1> QED
  BY <1>2, <1>3 DEF IsSequence

LEMMA ConcatenationAt ==
  ASSUME NEW S, NEW s \in Seq(S), NEW t \in Seq(S), NEW k \in 1..(Len(s) + Len(t))
  PROVE  (s \o t)[k] = IF k <= Len(s) THEN s[k] ELSE t[k - Len(s)]
  OBVIOUS

\* Resources of the same names and linkage are the same nodes of a graph.
LEMMA SameGraph ==
  ASSUME NEW S, NEW p \in Seq(S), NEW q \in Seq(S), NEW r \in Seq(S), NEW s \in Seq(S),
         Len(p) = Len(r), Len(q) = Len(s),
         \A k \in 1..Len(p) : Node(p[k]) = Node(r[k]),
         \A k \in 1..Len(q) : Node(q[k]) = Node(s[k])
  PROVE  [k \in 1..(Len(p) + Len(q)) |-> Node((p \o q)[k])] = [k \in 1..(Len(r) + Len(s)) |-> Node((r \o s)[k])]
<1>1. ASSUME NEW k \in 1..(Len(p) + Len(q))
      PROVE  Node((p \o q)[k]) = Node((r \o s)[k])
  <2>1. CASE k <= Len(p)
    <3>1. (p \o q)[k] = p[k] /\ (r \o s)[k] = r[k] /\ k \in 1..Len(p)
      BY <2>1, ConcatenationAt
    <3> QED
      BY <3>1
  <2>2. CASE ~(k <= Len(p))
    <3>1. (p \o q)[k] = q[k - Len(p)] /\ (r \o s)[k] = s[k - Len(p)]
      BY <2>2, ConcatenationAt
    <3>2. k - Len(p) \in 1..Len(q)
      BY <2>2
    <3> QED
      BY <3>1, <3>2
  <2> QED
    BY <2>1, <2>2
<1> QED
  BY <1>1

\* The graph of a document that has been read is the one that was built.
LEMMA GraphAsRead ==
  ASSUME NEW value, IsWhole("document", value)
  PROVE  GraphOf(WholeAsRead("document", value)) = GraphOf(value)
<1> DEFINE core == value.core
           found == WholeAsRead("document", value)
           read == found.core
           p == ResourcesIn(core.data)
           q == ResourcesIn(core.included)
           r == ResourcesIn(read.data)
           s == ResourcesIn(read.included)
<1>1. /\ {"data", "included"} \subseteq DOMAIN Schema["document"]
      /\ Schema["document"]["data"] = "primary" /\ Schema["document"]["included"] = "resources"
  BY DEF Schema
<1>2. /\ HasMembers("document", value) /\ IsBody("primary", core["data"])
      /\ IsBody("resources", core["included"])
  BY <1>1 DEF IsWhole
<1>3. /\ read["data"] = BodyAsRead("primary", core["data"])
      /\ read["included"] = BodyAsRead("resources", core["included"])
  BY <1>1, <1>2, WholeMembersAsRead
<1>4. AreResources(p) /\ AreResources(q)
  <2>1. AreResources(<<>>)
    BY DEF AreResources, IsSequence
  <2>2. core.data # Nil => AreResources(core.data.items)
    BY <1>2 DEF IsBody, IsData, AreResources
  <2>3. core.included # Nil => AreResources(core.included.items)
    BY <1>2 DEF IsBody, AreResources
  <2> QED
    BY <2>1, <2>2, <2>3 DEF ResourcesIn
<1> HIDE DEF read, core
<1>5. r = [k \in DOMAIN p |-> ResourceAsRead(p[k])]
  <2>1. CASE core.data = Nil
    <3>1. r = <<>> /\ p = <<>>
      BY <1>3, <2>1, PrimaryAsRead DEF ResourcesIn
    <3> QED
      BY <3>1
  <2>2. CASE core.data # Nil
    BY <1>3, <2>2, PrimaryAsRead DEF ResourcesIn
  <2> QED
    BY <2>1, <2>2
<1>6. s = [k \in DOMAIN q |-> ResourceAsRead(q[k])]
  <2>1. CASE core.included = Nil
    <3>1. s = <<>> /\ q = <<>>
      BY <1>3, <2>1, ResourcesAsRead DEF ResourcesIn
    <3> QED
      BY <3>1
  <2>2. CASE core.included # Nil
    BY <1>3, <2>2, ResourcesAsRead DEF ResourcesIn
  <2> QED
    BY <2>1, <2>2
<1> HIDE DEF p, q, r, s
<1> DEFINE S == {p[k] : k \in DOMAIN p} \cup {q[k] : k \in DOMAIN q}
                  \cup {r[k] : k \in DOMAIN r} \cup {s[k] : k \in DOMAIN s}
<1>7. /\ IsSequence(r) /\ Len(r) = Len(p) /\ \A k \in 1..Len(p) : Node(r[k]) = Node(p[k])
      /\ IsSequence(s) /\ Len(s) = Len(q) /\ \A k \in 1..Len(q) : Node(s[k]) = Node(q[k])
  BY <1>4, <1>5, <1>6, ListAsRead
<1>8. p \in Seq(S) /\ q \in Seq(S) /\ r \in Seq(S) /\ s \in Seq(S)
  <2>2. /\ \A k \in DOMAIN p : p[k] \in S
        /\ \A k \in DOMAIN q : q[k] \in S
        /\ \A k \in DOMAIN r : r[k] \in S
        /\ \A k \in DOMAIN s : s[k] \in S
    OBVIOUS
  <2> HIDE DEF S
  <2> QED
    BY <1>4, <1>7, <2>2, SequenceOf DEF AreResources
<1> HIDE DEF S
<1>9. [k \in 1..(Len(p) + Len(q)) |-> Node((p \o q)[k])] = [k \in 1..(Len(r) + Len(s)) |-> Node((r \o s)[k])]
  BY <1>7, <1>8, SameGraph
<1>10. GraphOf(value) = [resources |-> [k \in 1..(Len(p) + Len(q)) |-> Node((p \o q)[k])], primary |-> Len(p)]
  BY GraphListed DEF p, q, core
<1>11. GraphOf(found) = [resources |-> [k \in 1..(Len(r) + Len(s)) |-> Node((r \o s)[k])], primary |-> Len(r)]
  BY GraphListed DEF r, s, read
<1> QED
  BY <1>7, <1>9, <1>10, <1>11

\* An error is valid as it is read.
LEMMA ErrorAsReadHolds ==
  ASSUME NEW error, IsNested("error", error), ErrorRegistered(error), ErrorValid(error)
  PROVE  ErrorValid(NestedAsRead("error", error))
<1> DEFINE core == error.core
           found == NestedAsRead("error", error)
           read == found.core
           Types == Schema["error"]
           Strings == {"id", "status", "code", "title", "detail"}
<1>1. HasMembers("error", error) /\ \A n \in DOMAIN Types : IsPart(Types[n], core[n])
  BY DEF IsNested
<1>2. /\ Strings \cup {"links", "source", "meta"} \subseteq DOMAIN Types
      /\ \A n \in Strings : Types[n] = "string"
      /\ Types["links"] = "links" /\ Types["source"] = "source" /\ Types["meta"] = "free"
  BY DEF Schema
<1>3. found.extra = {} /\ \A n \in DOMAIN Types : read[n] = PartAsRead(Types[n], core[n])
  BY <1>1, NestedMembersAsRead
<1>4. /\ \E n \in Strings : HasText(core[n])
         \/ core["links"] # Nil \/ core["source"] # Nil \/ core["meta"] # Nil \/ HasExtensionMember(error)
      /\ HasText(core["status"]) => core["status"].text \in Valid.status
      /\ LinksValid(core["links"], {"about", "type"})
      /\ core["source"] # Nil => core["source"].core.pointer.text \in Valid.pointer
  BY DEF ErrorValid
<1>5. ~HasExtensionMember(error) /\ LinksRegistered(core["links"])
  BY DEF ErrorRegistered, Registered, HasExtensionMember
<1> HIDE DEF core, read, found, Types, Strings
<1>6. ASSUME NEW n \in Strings
      PROVE  (HasText(read[n]) <=> HasText(core[n])) /\ read[n].text = core[n].text
  <2>1. IsText(core[n]) /\ read[n] = PlainAsRead("string", core[n])
    BY <1>1, <1>2, <1>3, PlainPartAsRead DEF IsPart, IsPlain, IsText
  <2> QED
    BY <2>1, StringAsRead
<1>7. /\ read["links"] = Nil <=> core["links"] = Nil
      /\ LinksValid(read["links"], {"about", "type"})
  <2>1. IsPart("links", core["links"]) /\ read["links"] = PartAsRead("links", core["links"])
    BY <1>1, <1>2, <1>3
  <2> QED
    BY <1>4, <1>5, <2>1, LinksAsReadHolds
<1>8. read["meta"] = Nil <=> core["meta"] = Nil
  BY <1>2, <1>3, FreeAsRead
<1>9. /\ read["source"] = Nil <=> core["source"] = Nil
      /\ core["source"] # Nil => read["source"].core.pointer.text = core["source"].core.pointer.text
  <2>1. IsPart("source", core["source"]) /\ read["source"] = PartAsRead("source", core["source"])
    BY <1>1, <1>2, <1>3
  <2>2. CASE core["source"] = Nil
    BY <2>1, <2>2 DEF PartAsRead
  <2>3. CASE core["source"] # Nil
    <3>1. IsFlat("source", core["source"])
      BY <2>1, <2>3 DEF IsPart
    <3>2. read["source"] = FlatAsRead("source", core["source"])
      BY <2>1, <2>3 DEF PartAsRead
    <3>3. read["source"] # Nil
      BY <3>2 DEF FlatAsRead, Nil
    <3>4. "pointer" \in DOMAIN Schema["source"] /\ Schema["source"]["pointer"] = "string"
      BY DEF Schema
    <3>5. IsText(core["source"].core["pointer"])
      BY <3>1, <3>4 DEF IsFlat, IsPlain, IsText
    <3>6. read["source"].core["pointer"] = PlainAsRead("string", core["source"].core["pointer"])
      BY <3>1, <3>2, <3>4, FlatMembersAsRead DEF IsFlat
    <3> QED
      BY <2>3, <3>3, <3>5, <3>6, StringAsRead
  <2> QED
    BY <2>2, <2>3
<1>10. \/ \E n \in Strings : HasText(read[n])
       \/ read["links"] # Nil \/ read["source"] # Nil \/ read["meta"] # Nil
  BY <1>4, <1>5, <1>6, <1>7, <1>8, <1>9
<1>11. HasText(read["status"]) => read["status"].text \in Valid.status
  BY <1>4, <1>6 DEF Strings
<1>12. read["source"] # Nil => read["source"].core.pointer.text \in Valid.pointer
  BY <1>4, <1>9
<1> QED
  BY <1>7, <1>10, <1>11, <1>12 DEF ErrorValid, found, read, Strings

\* The jsonapi member declares the same as it is read.
LEMMA JSONAPIAsRead ==
  ASSUME NEW value, IsPart("jsonapi", value)
  PROVE  LET read == PartAsRead("jsonapi", value)
         IN /\ read = Nil <=> value = Nil
            /\ value # Nil => /\ read.core.ext = value.core.ext
                              /\ read.core.profile = value.core.profile
<1>1. CASE value = Nil
  BY <1>1 DEF PartAsRead
<1>2. CASE value # Nil
  <2>1. PartAsRead("jsonapi", value) = FlatAsRead("jsonapi", value)
    BY <1>2 DEF PartAsRead
  <2>2. FlatAsRead("jsonapi", value) # Nil
    BY DEF FlatAsRead, Nil
  <2>3. /\ {"ext", "profile"} \subseteq DOMAIN Schema["jsonapi"]
        /\ Schema["jsonapi"]["ext"] = "strings" /\ Schema["jsonapi"]["profile"] = "strings"
    BY DEF Schema
  <2>4. HasMembers("jsonapi", value)
    BY <1>2 DEF IsPart, IsFlat
  <2>5. \A x : PlainAsRead("strings", x) = x
    BY DEF PlainAsRead
  <2>6. \A n \in {"ext", "profile"} : FlatAsRead("jsonapi", value).core[n] = value.core[n]
    BY <2>3, <2>4, <2>5, FlatMembersAsRead
  <2> QED
    BY <1>2, <2>1, <2>2, <2>6
<1> QED
  BY <1>1, <1>2

-----------------------------------------------------------------------------

DataIsUnderstood(data) ==
  data # Nil =>
    /\ IsData(data)
    /\ \A k \in DOMAIN data.items :
         /\ IsResource(data.items[k]) /\ ResourceRegistered(data.items[k])
         /\ ResourceHasContent(data.items[k])

LEMMA ContentOfItems ==
  ASSUME NEW data, data # Nil, DataHasContent(data)
  PROVE  \A k \in DOMAIN data.items : ResourceHasContent(data.items[k])
<1> SUFFICES ASSUME NEW k \in DOMAIN data.items PROVE ResourceHasContent(data.items[k])
  OBVIOUS
<1>1. data.items[k] \in ItemsOf(data.items)
  BY DEF ItemsOf
<1> QED
  BY <1>1 DEF DataHasContent, ResourceHasContent

LEMMA RegisteredItems ==
  ASSUME NEW data, data # Nil, DataRegistered(data)
  PROVE  \A k \in DOMAIN data.items : ResourceRegistered(data.items[k])
  BY DEF DataRegistered, ItemsOf

\* A mutation is valid as it is read: the identity it must have is the one it had.
LEMMA MutationAsReadHolds ==
  ASSUME NEW data, data # Nil, DataIsUnderstood(data), NEW identity, NEW opts,
         MutationValid(data, identity, opts)
  PROVE  MutationValid(BodyAsRead("primary", data), identity, opts)
<1> DEFINE read == BodyAsRead("primary", data)
<1>1. /\ data.kind = "one" /\ ResourceValid(data.items[1], identity, TRUE, "either")
      /\ ExpectedIdentity(data.items[1].core, opts)
  BY DEF MutationValid
<1>2. 1 \in DOMAIN data.items
  BY <1>1 DEF DataIsUnderstood, IsData, IsSequence
<1>3. /\ IsResource(data.items[1]) /\ ResourceRegistered(data.items[1])
      /\ ResourceHasContent(data.items[1])
  BY <1>2 DEF DataIsUnderstood
<1>4. read.kind = "one" /\ read.items[1] = ResourceAsRead(data.items[1])
  BY <1>1, <1>2, PrimaryAsRead
<1>5. ResourceValid(ResourceAsRead(data.items[1]), identity, TRUE, "either")
  BY <1>1, <1>3, ResourceAsReadHolds
<1>6. ExpectedIdentity(ResourceAsRead(data.items[1]).core, opts)
  BY <1>1, <1>3, ResourceReadAlike
<1> HIDE DEF read
<1> QED
  BY <1>4, <1>5, <1>6 DEF MutationValid, read

\* Data of a relationship endpoint is valid as it is read.
LEMMA LinkageDataAsReadHolds ==
  ASSUME NEW data, data # Nil, DataIsUnderstood(data), NEW many,
         RelationshipPrimaryDataValid(data, many)
  PROVE  RelationshipPrimaryDataValid(BodyAsRead("primary", data), many)
<1> DEFINE read == BodyAsRead("primary", data)
           Bare(object) == /\ Identified(object.core, "id")
                           /\ object.core.attributes = Nil /\ object.core.relationships = Nil
                           /\ object.core.links = Nil
<1>1. /\ data.kind \in IF many THEN {"many"} ELSE {"null", "one"}
      /\ \A k \in DOMAIN data.items : Bare(data.items[k])
  BY DEF RelationshipPrimaryDataValid, ItemsOf
<1>2. read.kind = data.kind /\ read.items = [k \in DOMAIN data.items |-> ResourceAsRead(data.items[k])]
  BY PrimaryAsRead
<1>3. ASSUME NEW k \in DOMAIN data.items
      PROVE  Bare(ResourceAsRead(data.items[k]))
  <2>1. IsResource(data.items[k]) /\ Bare(data.items[k])
    BY <1>1 DEF DataIsUnderstood
  <2>2. /\ Identified(ResourceAsRead(data.items[k]).core, "id")
        /\ \A member \in {"attributes", "relationships", "links"} :
             ResourceAsRead(data.items[k]).core[member] = Nil
    BY <2>1, ResourceReadAlike
  <2> QED
    BY <2>2
<1> HIDE DEF read, Bare
<1>4. \A object \in ItemsOf(read.items) : Bare(object)
  BY <1>2, <1>3 DEF ItemsOf
<1> QED
  BY <1>1, <1>2, <1>4 DEF RelationshipPrimaryDataValid, Bare, read

\* Primary data is valid as it is read,
LEMMA PrimaryDataAsReadHolds ==
  ASSUME NEW data, data # Nil, DataIsUnderstood(data), NEW identity, PrimaryDataValid(data, identity)
  PROVE  PrimaryDataValid(BodyAsRead("primary", data), identity)
<1> DEFINE read == BodyAsRead("primary", data)
<1>1. /\ data.kind # "zero"
      /\ \A k \in DOMAIN data.items : ResourceValid(data.items[k], identity, FALSE, identity)
  BY DEF PrimaryDataValid, ItemsOf
<1>2. read.kind = data.kind /\ read.items = [k \in DOMAIN data.items |-> ResourceAsRead(data.items[k])]
  BY PrimaryAsRead
<1>3. \A k \in DOMAIN data.items : ResourceValid(ResourceAsRead(data.items[k]), identity, FALSE, identity)
  BY <1>1, ResourceAsReadHolds DEF DataIsUnderstood
<1> HIDE DEF read
<1>4. \A object \in ItemsOf(read.items) : ResourceValid(object, identity, FALSE, identity)
  BY <1>2, <1>3 DEF ItemsOf
<1> QED
  BY <1>1, <1>2, <1>4 DEF PrimaryDataValid, read

\* in whatever context,
LEMMA DataAsReadHolds ==
  ASSUME NEW data, DataIsUnderstood(data), NEW opts, opts.context \in Contexts, DataValid(data, opts)
  PROVE  DataValid(BodyAsRead("primary", data), opts)
<1>1. CASE data = Nil
  <2>1. BodyAsRead("primary", data) = data
    BY <1>1, PrimaryAsRead
  <2> QED
    BY <2>1
<1>2. CASE data # Nil
  <2>1. CASE opts.context = "create"
    BY <1>2, <2>1, MutationAsReadHolds DEF DataValid
  <2>2. CASE opts.context = "update"
    BY <1>2, <2>2, MutationAsReadHolds DEF DataValid
  <2>3. CASE opts.context = "toOne"
    BY <1>2, <2>3, LinkageDataAsReadHolds DEF DataValid
  <2>4. CASE opts.context = "toMany"
    BY <1>2, <2>4, LinkageDataAsReadHolds DEF DataValid
  <2>5. CASE opts.context = "response"
    BY <1>2, <2>5, PrimaryDataAsReadHolds DEF DataValid
  <2>6. CASE opts.context = "generic"
    BY <1>2, <2>6, PrimaryDataAsReadHolds DEF DataValid
  <2> QED
    BY <2>1, <2>2, <2>3, <2>4, <2>5, <2>6 DEF Contexts, Requests
<1> QED
  BY <1>1, <1>2

\* and so are the included resources.
LEMMA IncludedAsReadHolds ==
  ASSUME NEW value, IsWhole("document", value), DataRegistered(value.core.included),
         DataHasContent(value.core.included), NEW opts, IncludedValid(value, opts)
  PROVE  IncludedValid(WholeAsRead("document", value), opts)
<1> DEFINE list == value.core.included
           found == WholeAsRead("document", value)
           read == BodyAsRead("resources", list)
           identity == IncludedIdentity(opts.context)
<1>1. "included" \in DOMAIN Schema["document"] /\ Schema["document"]["included"] = "resources"
  BY DEF Schema
<1>2. HasMembers("document", value) /\ IsBody("resources", list)
  BY <1>1 DEF IsWhole
<1>3. found.core["included"] = read
  BY <1>1, <1>2, WholeMembersAsRead
<1>4. CASE list = Nil
  <2>1. found.core.included = Nil
    BY <1>3, <1>4, ResourcesAsRead
  <2> QED
    BY <2>1 DEF IncludedValid
<1>5. CASE list # Nil
  <2>1. /\ \A k \in DOMAIN list.items : ResourceValid(list.items[k], identity, FALSE, identity)
        /\ opts.sparse \/ Included(GraphOf(value)) \subseteq Linked(GraphOf(value))
    BY <1>5 DEF IncludedValid, ItemsOf
  <2>2. GraphOf(found) = GraphOf(value)
    BY GraphAsRead
  <2>3. read.items = [k \in DOMAIN list.items |-> ResourceAsRead(list.items[k])]
    BY <1>5, ResourcesAsRead
  <2>4. ASSUME NEW k \in DOMAIN list.items
        PROVE  ResourceValid(ResourceAsRead(list.items[k]), identity, FALSE, identity)
    <3>1. IsResource(list.items[k])
      BY <1>2, <1>5 DEF IsBody
    <3>2. ResourceRegistered(list.items[k]) /\ ResourceHasContent(list.items[k])
      BY <1>5, RegisteredItems, ContentOfItems
    <3> QED
      BY <2>1, <3>1, <3>2, ResourceAsReadHolds
  <2> HIDE DEF read, found, list, identity
  <2>5. \A object \in ItemsOf(read.items) : ResourceValid(object, identity, FALSE, identity)
    BY <2>3, <2>4 DEF ItemsOf
  <2> QED
    BY <1>3, <2>1, <2>2, <2>5 DEF IncludedValid, found, identity
<1> QED
  BY <1>4, <1>5

\* A document that is valid is valid as its receiver holds it.
LEMMA DocumentAsReadHolds ==
  ASSUME NEW value, IsWhole("document", value), MembersRegistered(value),
         DataHasContent(value.core.data), DataHasContent(value.core.included),
         NEW opts, opts.context \in Contexts, DocumentValid(value, opts)
  PROVE  DocumentValid(WholeAsRead("document", value), opts)
<1> DEFINE core == value.core
           found == WholeAsRead("document", value)
           read == found.core
           Types == Schema["document"]
<1>1. HasMembers("document", value) /\ \A n \in DOMAIN Types : IsBody(Types[n], core[n])
  BY DEF IsWhole
<1>2. /\ value.extra \subseteq AtNames
      /\ LinksRegistered(core.links) /\ DataRegistered(core.data)
      /\ DataRegistered(core.included) /\ ErrorsRegistered(core.errors)
  BY DEF MembersRegistered, Registered
<1>3. /\ DOMAIN Types = {"jsonapi", "links", "data", "included", "errors", "meta"}
      /\ Types["jsonapi"] = "jsonapi" /\ Types["links"] = "links" /\ Types["data"] = "primary"
      /\ Types["included"] = "resources" /\ Types["errors"] = "errors" /\ Types["meta"] = "free"
  BY DEF Schema
<1>4. found.extra = {} /\ \A n \in DOMAIN Types : read[n] = BodyAsRead(Types[n], core[n])
  BY <1>1, WholeMembersAsRead
<1>5. /\ MembersAgree(value, opts.context)
      /\ core.jsonapi # Nil => /\ URIListValid(core.jsonapi.core.ext)
                               /\ URIListValid(core.jsonapi.core.profile)
      /\ LinksValid(core.links, {"self", "related", "describedby"} \cup PaginationLinks)
      /\ PaginationValid(core.links, core.data # Nil /\ core.data.kind = "many")
      /\ DataValid(core.data, opts)
      /\ IncludedValid(value, opts)
      /\ IdentitiesAgree(GraphOf(value))
      /\ core.errors # Nil => \A error \in ItemsOf(core.errors.items) : ErrorValid(error)
  BY DEF DocumentValid
<1> HIDE DEF Types
<1>6. /\ read["data"] = Nil <=> core["data"] = Nil
      /\ core["data"] # Nil => read["data"].kind = core["data"].kind
  <2>1. read["data"] = BodyAsRead("primary", core["data"])
    BY <1>3, <1>4
  <2> HIDE DEF read, core, found
  <2> QED
    BY <2>1, PrimaryAsRead
<1>7. read["included"] = Nil <=> core["included"] = Nil
  <2>1. read["included"] = BodyAsRead("resources", core["included"])
    BY <1>3, <1>4
  <2> HIDE DEF read, core, found
  <2> QED
    BY <2>1, ResourcesAsRead
<1>8. read["meta"] = Nil <=> core["meta"] = Nil
  <2>1. read["meta"] = PartAsRead("free", core["meta"])
    BY <1>3, <1>4, PartBodyAsRead DEF PartTypes
  <2> QED
    BY <2>1, FreeAsRead
<1>9. /\ read["jsonapi"] = Nil <=> core["jsonapi"] = Nil
      /\ core["jsonapi"] # Nil => /\ read["jsonapi"].core.ext = core["jsonapi"].core.ext
                                  /\ read["jsonapi"].core.profile = core["jsonapi"].core.profile
  <2>1. read["jsonapi"] = PartAsRead("jsonapi", core["jsonapi"]) /\ IsPart("jsonapi", core["jsonapi"])
    BY <1>1, <1>3, <1>4, PartBodyAsRead DEF PartTypes, IsBody
  <2> QED
    BY <2>1, JSONAPIAsRead
<1>10. /\ LinksValid(read["links"], {"self", "related", "describedby"} \cup PaginationLinks)
       /\ \A collection : PaginationValid(core["links"], collection) => PaginationValid(read["links"], collection)
  <2>1. read["links"] = PartAsRead("links", core["links"]) /\ IsPart("links", core["links"])
    BY <1>1, <1>3, <1>4, PartBodyAsRead DEF PartTypes, IsBody
  <2> QED
    BY <1>2, <1>5, <2>1, LinksAsReadHolds
<1>11. /\ read["errors"] = Nil <=> core["errors"] = Nil
       /\ core["errors"] # Nil => \A error \in ItemsOf(read["errors"].items) : ErrorValid(error)
  <2>1. read["errors"] = BodyAsRead("errors", core["errors"]) /\ IsBody("errors", core["errors"])
    BY <1>1, <1>3, <1>4
  <2>2. ASSUME core["errors"] # Nil, NEW k \in DOMAIN core["errors"].items
        PROVE  ErrorValid(NestedAsRead("error", core["errors"].items[k]))
    <3>1. /\ IsNested("error", core["errors"].items[k])
          /\ ErrorRegistered(core["errors"].items[k]) /\ ErrorValid(core["errors"].items[k])
      BY <1>2, <1>5, <2>1, <2>2 DEF IsBody, ErrorsRegistered, ItemsOf
    <3> QED
      BY <3>1, ErrorAsReadHolds
  <2> HIDE DEF read, core, found
  <2>3. /\ read["errors"] = Nil <=> core["errors"] = Nil
        /\ core["errors"] # Nil =>
             read["errors"].items = [k \in DOMAIN core["errors"].items |->
                                       NestedAsRead("error", core["errors"].items[k])]
    BY <2>1, ErrorsAsRead
  <2> QED
    BY <2>2, <2>3 DEF ItemsOf
<1>12. DataValid(read["data"], opts)
  <2>1. DataIsUnderstood(core["data"])
    <3>1. IsBody("primary", core["data"])
      BY <1>1, <1>3
    <3> QED
      BY <1>2, <3>1, RegisteredItems, ContentOfItems DEF DataIsUnderstood, IsBody
  <2>2. read["data"] = BodyAsRead("primary", core["data"])
    BY <1>3, <1>4
  <2>3. DataValid(core["data"], opts)
    BY <1>5
  <2> HIDE DEF read, core, found
  <2> QED
    BY <2>1, <2>2, <2>3, DataAsReadHolds
<1>13. IncludedValid(found, opts)
  BY <1>2, <1>5, IncludedAsReadHolds
<1>14. IdentitiesAgree(GraphOf(found))
  BY <1>5, GraphAsRead
<1>15. ~HasExtensionMember(value)
  BY <1>2 DEF HasExtensionMember
<1> HIDE DEF core, read, found
<1>16. MembersAgree(found, opts.context)
  <2>1. /\ core.data # Nil \/ core.errors # Nil \/ core.meta # Nil
        /\ core.data = Nil \/ core.errors = Nil
        /\ core.included # Nil => core.data # Nil
        /\ opts.context \in Requests => core.data # Nil /\ core.errors = Nil
    BY <1>5, <1>15 DEF MembersAgree, core
  <2>2. /\ read.data # Nil \/ read.errors # Nil \/ read.meta # Nil
        /\ read.data = Nil \/ read.errors = Nil
        /\ read.included # Nil => read.data # Nil
        /\ opts.context \in Requests => read.data # Nil /\ read.errors = Nil
    BY <1>6, <1>7, <1>8, <1>11, <2>1
  <2> QED
    BY <2>2 DEF MembersAgree, read
<1>17. read.jsonapi # Nil => URIListValid(read.jsonapi.core.ext) /\ URIListValid(read.jsonapi.core.profile)
  BY <1>5, <1>9
<1>18. PaginationValid(read.links, read.data # Nil /\ read.data.kind = "many")
  <2>1. (read.data # Nil /\ read.data.kind = "many") <=> (core.data # Nil /\ core.data.kind = "many")
    BY <1>6
  <2>2. PaginationValid(core.links, core.data # Nil /\ core.data.kind = "many")
    BY <1>5
  <2>3. PaginationValid(core.links, read.data # Nil /\ read.data.kind = "many")
    BY <2>1, <2>2 DEF PaginationValid
  <2> QED
    BY <1>10, <2>3
<1> QED
  BY <1>10, <1>11, <1>12, <1>13, <1>14, <1>16, <1>17, <1>18 DEF DocumentValid, read, found

-----------------------------------------------------------------------------
(* Contexts that demand no more *)

\* Who accepts an id or a lid accepts all that who asks for an id does: identities,
LEMMA IdentityIsWeaker ==
  ASSUME NEW core, Identified(core, "id")
  PROVE  Identified(core, "either")
  BY DEF Identified

\* linkage,
LEMMA LinkageIsWeaker ==
  ASSUME NEW data, LinkageValid(data, "id")
  PROVE  LinkageValid(data, "either")
  BY IdentityIsWeaker DEF LinkageValid

\* relationships, whether linkage is demanded of them or not,
LEMMA RelationshipIsWeaker ==
  ASSUME NEW relationship, NEW requireData, NEW identity, identity \in {"id", "either"},
         RelationshipValid(relationship, requireData, identity)
  PROVE  RelationshipValid(relationship, FALSE, "either")
<1>1. LinkageValid(relationship.core.data, "either")
  BY LinkageIsWeaker DEF RelationshipValid
<1> QED
  BY <1>1 DEF RelationshipValid

\* and resources.
LEMMA ResourceIsWeaker ==
  ASSUME NEW object, NEW identity, identity \in {"id", "either"}, NEW requireData,
         NEW identifiers, identifiers \in {"id", "either"},
         ResourceValid(object, identity, requireData, identifiers)
  PROVE  ResourceValid(object, "either", FALSE, "either")
<1>1. Identified(object.core, "either")
  BY IdentityIsWeaker DEF ResourceValid
<1>2. LET relationships == IF object.core.relationships = Nil THEN {}
                           ELSE DOMAIN object.core.relationships.entries
      IN \A n \in relationships \ AtNames :
           RelationshipValid(object.core.relationships.entries[n], FALSE, "either")
  BY RelationshipIsWeaker DEF ResourceValid
<1> QED
  BY <1>1, <1>2 DEF ResourceValid

\* What a resource is without attributes, relationships and links.
LEMMA BareIsResource ==
  ASSUME NEW object, NEW identity, NEW requireData, NEW identifiers,
         Identified(object.core, identity), object.core.attributes = Nil,
         object.core.relationships = Nil, object.core.links = Nil
  PROVE  ResourceValid(object, identity, requireData, identifiers)
  BY DEF ResourceValid, LinksValid

\* What may be sent to update may be sent to create, or as a response.
LEMMA MutationIsWeaker ==
  ASSUME NEW data, IsData(data) \/ data = Nil, NEW opts, MutationValid(data, "id", opts)
  PROVE  PrimaryDataValid(data, "either") /\ MutationValid(data, "optional", opts)
<1> SUFFICES ASSUME data # Nil
             PROVE  PrimaryDataValid(data, "either") /\ MutationValid(data, "optional", opts)
  BY DEF PrimaryDataValid, MutationValid
<1>1. /\ data.kind = "one" /\ ResourceValid(data.items[1], "id", TRUE, "either")
      /\ ExpectedIdentity(data.items[1].core, opts)
  BY DEF MutationValid
<1>2. DOMAIN data.items = {1}
  BY <1>1 DEF IsData, IsSequence
<1>3. ResourceValid(data.items[1], "either", FALSE, "either")
  BY <1>1, ResourceIsWeaker
<1>4. ResourceValid(data.items[1], "optional", TRUE, "either")
  BY <1>1 DEF ResourceValid, Identified
<1> QED
  BY <1>1, <1>2, <1>3, <1>4 DEF PrimaryDataValid, MutationValid, ItemsOf

\* What a relationship endpoint accepts is accepted as primary data.
LEMMA LinkageDataIsWeaker ==
  ASSUME NEW data, NEW many, RelationshipPrimaryDataValid(data, many)
  PROVE  PrimaryDataValid(data, "id") /\ PrimaryDataValid(data, "either")
<1> SUFFICES ASSUME data # Nil
             PROVE  PrimaryDataValid(data, "id") /\ PrimaryDataValid(data, "either")
  BY DEF PrimaryDataValid
<1>1. data.kind # "zero"
  BY DEF RelationshipPrimaryDataValid
<1>2. ASSUME NEW object \in ItemsOf(data.items)
      PROVE  ResourceValid(object, "id", FALSE, "id") /\ ResourceValid(object, "either", FALSE, "either")
  <2>1. /\ Identified(object.core, "id") /\ object.core.attributes = Nil
        /\ object.core.relationships = Nil /\ object.core.links = Nil
    BY DEF RelationshipPrimaryDataValid
  <2>2. Identified(object.core, "either")
    BY <2>1, IdentityIsWeaker
  <2> QED
    BY <2>1, <2>2, BareIsResource
<1> QED
  BY <1>1, <1>2 DEF PrimaryDataValid

\* Primary data with ids is accepted where ids or lids are.
LEMMA PrimaryIsWeaker ==
  ASSUME NEW data, PrimaryDataValid(data, "id")
  PROVE  PrimaryDataValid(data, "either")
  BY ResourceIsWeaker DEF PrimaryDataValid

\* Where primary data links to nothing, nothing is included.
LEMMA NothingLinked ==
  ASSUME NEW graph, \A k \in Primary(graph) : graph.resources[k].linkage = <<>>
  PROVE  Linked(graph) = {}
<1>1. Linkage(graph, Primary(graph) \cup {}) = {}
  BY DEF Linkage
<1>2. LinkageClosed(graph, {})
  BY <1>1 DEF LinkageClosed
<1> QED
  BY <1>2 DEF Linked

LEMMA GraphSequences ==
  ASSUME NEW value, IsWhole("document", value)
  PROVE  /\ AreResources(ResourcesIn(value.core.data)) /\ AreResources(ResourcesIn(value.core.included))
         /\ value.core.data # Nil => IsData(value.core.data)
<1>1. /\ {"data", "included"} \subseteq DOMAIN Schema["document"]
      /\ Schema["document"]["data"] = "primary" /\ Schema["document"]["included"] = "resources"
  BY DEF Schema
<1>2. IsBody("primary", value.core["data"]) /\ IsBody("resources", value.core["included"])
  BY <1>1 DEF IsWhole
<1>3. AreResources(<<>>)
  BY DEF AreResources, IsSequence
<1>4. value.core.data # Nil => IsData(value.core.data) /\ AreResources(value.core.data.items)
  BY <1>2 DEF IsBody, IsData, AreResources
<1>5. value.core.included # Nil => AreResources(value.core.included.items)
  BY <1>2 DEF IsBody, AreResources
<1> QED
  BY <1>3, <1>4, <1>5 DEF ResourcesIn

\* What is linked to must be included: with primary data that links to nothing,
\* nothing is.
LEMMA NothingIncluded ==
  ASSUME NEW value, IsWhole("document", value), value.core.data # Nil, value.core.included # Nil,
         NEW many, RelationshipPrimaryDataValid(value.core.data, many),
         Included(GraphOf(value)) \subseteq Linked(GraphOf(value))
  PROVE  ItemsOf(value.core.included.items) = {}
<1> DEFINE p == ResourcesIn(value.core.data)
           q == ResourcesIn(value.core.included)
           graph == GraphOf(value)
<1>1. IsSequence(p) /\ IsSequence(q)
  BY GraphSequences DEF AreResources
<1>2. graph = [resources |-> [k \in 1..(Len(p) + Len(q)) |-> Node((p \o q)[k])], primary |-> Len(p)]
  BY GraphListed
<1>3. \A k \in DOMAIN p : p[k].core.relationships = Nil
  BY DEF ResourcesIn, RelationshipPrimaryDataValid, ItemsOf
<1> HIDE DEF p, q, graph
<1>4. Len(p) \in Nat /\ Len(q) \in Nat /\ DOMAIN p = 1..Len(p) /\ DOMAIN q = 1..Len(q)
  BY <1>1, SequenceFacts
<1>5. \A k \in 1..Len(p) : (p \o q)[k] = p[k]
  <2> DEFINE S == {p[k] : k \in DOMAIN p} \cup {q[k] : k \in DOMAIN q}
  <2>1. (\A k \in DOMAIN p : p[k] \in S) /\ (\A k \in DOMAIN q : q[k] \in S)
    OBVIOUS
  <2> HIDE DEF S
  <2>2. p \in Seq(S) /\ q \in Seq(S)
    BY <1>1, <2>1, SequenceOf
  <2> SUFFICES ASSUME NEW k \in 1..Len(p) PROVE (p \o q)[k] = p[k]
    OBVIOUS
  <2>3. k \in 1..(Len(p) + Len(q)) /\ k <= Len(p)
    BY <1>4
  <2> QED
    BY <2>2, <2>3, ConcatenationAt
<1>6. graph.primary = Len(p) /\ graph.resources = [k \in 1..(Len(p) + Len(q)) |-> Node((p \o q)[k])]
  BY <1>2
<1>7. ASSUME NEW k \in Primary(graph)
      PROVE  graph.resources[k].linkage = <<>>
  <2>1. k \in 1..Len(p) /\ k \in 1..(Len(p) + Len(q))
    BY <1>4, <1>6 DEF Primary
  <2>2. graph.resources[k] = Node(p[k]) /\ p[k].core.relationships = Nil
    BY <1>3, <1>4, <1>5, <1>6, <2>1
  <2> QED
    BY <2>2 DEF Node, LinkageOf
<1>8. Included(graph) = {}
  <2>1. Linked(graph) = {}
    BY <1>7, NothingLinked
  <2> QED
    BY <2>1 DEF graph
<1>9. Len(q) = 0
  <2>1. Len(graph.resources) = Len(p) + Len(q)
    BY <1>4, <1>6
  <2>2. (Len(p) + 1)..(Len(p) + Len(q)) = {}
    BY <1>6, <1>8, <2>1 DEF Included
  <2>3. Len(p) + 1 \notin (Len(p) + 1)..(Len(p) + Len(q))
    BY <2>2
  <2> QED
    BY <1>4, <2>3
<1>10. DOMAIN q = {}
  BY <1>4, <1>9
<1> QED
  BY <1>10 DEF q, ResourcesIn, ItemsOf

LEMMA SameMutation ==
  ASSUME NEW data, NEW identity, NEW a, NEW b, a.type = b.type, a.id = b.id,
         MutationValid(data, identity, a)
  PROVE  MutationValid(data, identity, b)
  BY DEF MutationValid, ExpectedIdentity

\* The data of a document is accepted in a context that demands no more,
LEMMA DataIsWeaker ==
  ASSUME NEW data, IsData(data) \/ data = Nil, NEW a, NEW b, a.context \in Contexts, b.context \in Contexts,
         AdmitsDocument(a, b), DataValid(data, a)
  PROVE  DataValid(data, b)
<1>1. a.type = b.type /\ a.id = b.id
  BY DEF AdmitsDocument
<1>2. CASE a.context = b.context
  BY <1>1, <1>2, SameMutation DEF DataValid, Contexts, Requests
<1>3. CASE a.context = "update" /\ b.context = "create"
  <2>1. MutationValid(data, "id", a)
    BY <1>3 DEF DataValid
  <2>2. MutationValid(data, "optional", a)
    BY <2>1, MutationIsWeaker
  <2> QED
    BY <1>1, <1>3, <2>2, SameMutation DEF DataValid
<1>4. CASE a.context \in {"toOne", "toMany"} /\ b.context \in {"response", "generic"}
  <2>1. \E many : RelationshipPrimaryDataValid(data, many)
    BY <1>4 DEF DataValid
  <2>2. PrimaryDataValid(data, "id") /\ PrimaryDataValid(data, "either")
    BY <2>1, LinkageDataIsWeaker
  <2> QED
    BY <1>4, <2>2 DEF DataValid
<1>5. CASE a.context \in {"update", "response", "generic"} /\ b.context = "generic"
  <2>1. CASE a.context = "update"
    BY <1>5, <2>1, MutationIsWeaker DEF DataValid
  <2>2. CASE a.context = "response"
    BY <1>5, <2>2, PrimaryIsWeaker DEF DataValid
  <2>3. CASE a.context = "generic"
    BY <1>5, <2>3 DEF DataValid
  <2> QED
    BY <1>5, <2>1, <2>2, <2>3
<1> QED
  BY <1>2, <1>3, <1>4, <1>5 DEF AdmitsDocument, Contexts, Requests

\* and so are its included resources.
LEMMA IncludedIsWeaker ==
  ASSUME NEW value, IsWhole("document", value), NEW a, NEW b, a.context \in Contexts, b.context \in Contexts,
         AdmitsDocument(a, b), DocumentValid(value, a)
  PROVE  IncludedValid(value, b)
<1> DEFINE list == value.core.included
           ia == IncludedIdentity(a.context)
           ib == IncludedIdentity(b.context)
<1> SUFFICES ASSUME list # Nil
             PROVE  IncludedValid(value, b)
  BY DEF IncludedValid
<1>1. /\ \A object \in ItemsOf(list.items) : ResourceValid(object, ia, FALSE, ia)
      /\ a.sparse \/ Included(GraphOf(value)) \subseteq Linked(GraphOf(value))
  BY DEF DocumentValid, IncludedValid
<1>2. a.sparse = b.sparse
  BY DEF AdmitsDocument
<1>3. \A object \in ItemsOf(list.items) : ResourceValid(object, ib, FALSE, ib)
  <2>1. CASE ia = ib
    BY <1>1, <2>1
  <2>2. CASE ia = "id" /\ ib = "either"
    BY <1>1, <2>2, ResourceIsWeaker
  <2>3. CASE ia = "either" /\ ib = "id"
    <3>1. b.context = "response" /\ a.context # "response"
      BY <2>3 DEF IncludedIdentity
    <3>2. a.context \in {"toOne", "toMany"} /\ ~a.sparse
      BY <3>1 DEF AdmitsDocument
    <3>3. \E many : RelationshipPrimaryDataValid(value.core.data, many)
      BY <3>2 DEF DocumentValid, DataValid
    <3>4. value.core.data # Nil
      BY <3>2 DEF DocumentValid, MembersAgree, Requests
    <3>5. ItemsOf(list.items) = {}
      BY <1>1, <3>2, <3>3, <3>4, NothingIncluded
    <3> QED
      BY <3>5
  <2> QED
    BY <2>1, <2>2, <2>3 DEF IncludedIdentity
<1> HIDE DEF list
<1> QED
  BY <1>1, <1>2, <1>3 DEF IncludedValid, list

\* What is valid in a context is in one that demands no more.
LEMMA DocumentIsWeaker ==
  ASSUME NEW value, IsWhole("document", value), NEW a, NEW b, a.context \in Contexts, b.context \in Contexts,
         AdmitsDocument(a, b), DocumentValid(value, a)
  PROVE  DocumentValid(value, b)
<1>1. IncludedValid(value, b)
  BY IncludedIsWeaker
<1>2. DataValid(value.core.data, b)
  <2>1. DataValid(value.core.data, a) /\ (IsData(value.core.data) \/ value.core.data = Nil)
    BY GraphSequences DEF DocumentValid
  <2> QED
    BY <2>1, DataIsWeaker
<1>3. MembersAgree(value, b.context)
  <2>1. MembersAgree(value, a.context)
    BY DEF DocumentValid
  <2>2. b.context \in Requests => a.context \in Requests
    BY DEF AdmitsDocument, Requests
  <2> QED
    BY <2>1, <2>2 DEF MembersAgree
<1> QED
  BY <1>1, <1>2, <1>3 DEF DocumentValid

-----------------------------------------------------------------------------
(* Atomic documents as their receiver views them *)

\* The Atomic rules see the same form of a well formed resource after it has been
\* read,
LEMMA FormAsRead ==
  ASSUME NEW object, IsResource(object), ResourceRegistered(object), ResourceHasContent(object),
         FormOf(object) # "malformed"
  PROVE  FormOf(ResourceAsRead(object)) = FormOf(object)
<1> DEFINE Bare(x) == \A member \in {"attributes", "relationships", "links"} : x.core[member] = Nil
<1>1. Bare(ResourceAsRead(object)) <=> Bare(object)
  BY ResourceReadAlike
<1>2. ~Bare(object) => ResourceValid(object, "optional", TRUE, "optional")
  BY DEF FormOf
<1>3. ~Bare(object) => ResourceValid(ResourceAsRead(object), "optional", TRUE, "optional")
  BY <1>2, ResourceAsReadHolds
<1> QED
  BY <1>1, <1>2, <1>3 DEF FormOf

\* and the same resource.
LEMMA ViewAsRead ==
  ASSUME NEW object, IsResource(object), ResourceRegistered(object), ResourceHasContent(object),
         FormOf(object) # "malformed"
  PROVE  ResourceView(ResourceAsRead(object)) = ResourceView(object)
<1> DEFINE core == object.core
           read == ResourceAsRead(object).core
<1>1. /\ TypeOf(read) = TypeOf(core) /\ NameOf(read.id) = NameOf(core.id) /\ NameOf(read.lid) = NameOf(core.lid)
      /\ LinkageOf(read.relationships) = LinkageOf(core.relationships)
  BY ResourceReadAlike
<1>2. FormOf(ResourceAsRead(object)) = FormOf(object)
  BY FormAsRead
<1> QED
  BY <1>1, <1>2 DEF ResourceView

\* No resource of the data is malformed.
WellFormed(data) == data # Nil => \A k \in DOMAIN data.items : FormOf(data.items[k]) # "malformed"

LEMMA RelationshipDataIsWellFormed ==
  ASSUME NEW data, data # Nil, NEW many, Rules!RelationshipDataValid(DataView(data), many)
  PROVE  WellFormed(data)
<1> SUFFICES ASSUME NEW k \in DOMAIN data.items
             PROVE  FormOf(data.items[k]) # "malformed"
  BY DEF WellFormed
<1>1. DataView(data).items[k] = ResourceView(data.items[k]) /\ k \in DOMAIN DataView(data).items
  BY ViewedData
<1>2. ResourceView(data.items[k]).form = "bare"
  BY <1>1 DEF Rules!RelationshipDataValid, Rules!ItemsOf
<1> QED
  BY <1>2, ViewedResource

LEMMA ResourceDataIsWellFormed ==
  ASSUME NEW data, IsData(data), data # Nil, NEW identity, Rules!ResourceDataValid(DataView(data), identity)
  PROVE  WellFormed(data)
<1>1. DataView(data).kind = "one" /\ Rules!ResourceValid(DataView(data).items[1], identity)
  BY DEF Rules!ResourceDataValid
<1>2. DOMAIN data.items = {1}
  BY <1>1, ViewedData DEF IsData, IsSequence
<1>3. DataView(data).items[1] = ResourceView(data.items[1])
  BY <1>2, ViewedData
<1>4. FormOf(data.items[1]) # "malformed"
  BY <1>1, <1>3, ViewedResource DEF Rules!ResourceValid
<1> QED
  BY <1>2, <1>4 DEF WellFormed

\* The Atomic rules see the same data after it has been read, if it is well formed.
LEMMA DataViewAsRead ==
  ASSUME NEW data, DataIsUnderstood(data), WellFormed(data)
  PROVE  DataView(BodyAsRead("primary", data)) = DataView(data)
<1> DEFINE read == BodyAsRead("primary", data)
<1>1. CASE data = Nil
  BY <1>1, PrimaryAsRead DEF DataView
<1>2. CASE data # Nil
  <2>1. /\ read # Nil /\ read.kind = data.kind
        /\ read.items = [k \in DOMAIN data.items |-> ResourceAsRead(data.items[k])]
    BY <1>2, PrimaryAsRead
  <2>2. \A k \in DOMAIN data.items : ResourceView(ResourceAsRead(data.items[k])) = ResourceView(data.items[k])
    BY <1>2, ViewAsRead DEF DataIsUnderstood, WellFormed
  <2> HIDE DEF read
  <2>3. [k \in DOMAIN read.items |-> ResourceView(read.items[k])]
          = [k \in DOMAIN data.items |-> ResourceView(data.items[k])]
    BY <2>1, <2>2
  <2>4. DataView(read) = DataView(data)
    BY <1>2, <2>1, <2>3 DEF DataView
  <2> QED
    BY <2>4 DEF read
<1> QED
  BY <1>1, <1>2

\* The Atomic rules see the same syntax of a text after it has been read.
LEMMA SyntaxAsRead ==
  ASSUME NEW field, IsText(field), NEW texts
  PROVE  SyntaxOf(PlainAsRead("string", field), texts) = SyntaxOf(field, texts)
<1>1. /\ PlainAsRead("string", field).text = field.text
      /\ HasText(PlainAsRead("string", field)) <=> HasText(field)
  BY StringAsRead
<1> QED
  BY <1>1 DEF SyntaxOf

\* The Atomic rules see the same reference after it has been read.
LEMMA ReferenceViewAsRead ==
  ASSUME NEW reference, IsPart("reference", reference)
  PROVE  ReferenceView(PartAsRead("reference", reference)) = ReferenceView(reference)
<1>1. CASE reference = Nil
  BY <1>1 DEF PartAsRead
<1>2. CASE reference # Nil
  <2> DEFINE core == reference.core
             read == FlatAsRead("reference", reference).core
             Names == {"type", "id", "lid", "relationship"}
  <2>1. PartAsRead("reference", reference) = FlatAsRead("reference", reference)
          /\ FlatAsRead("reference", reference) # Nil
    BY <1>2 DEF PartAsRead, FlatAsRead, Nil
  <2>2. IsFlat("reference", reference)
    BY <1>2 DEF IsPart
  <2>3. Names \subseteq DOMAIN Schema["reference"] /\ \A n \in Names : Schema["reference"][n] = "string"
    BY DEF Schema
  <2>4. \A n \in Names : IsText(core[n]) /\ read[n] = PlainAsRead("string", core[n])
    BY <2>2, <2>3, FlatMembersAsRead DEF IsFlat, IsPlain, IsText
  <2> HIDE DEF core, read
  <2>5. /\ NameOf(read.id) = NameOf(core.id) /\ NameOf(read.lid) = NameOf(core.lid)
        /\ TypeOf(read) = TypeOf(core)
    BY <2>4, IdentityAsRead
  <2>6. SyntaxOf(read.relationship, TypeNames) = SyntaxOf(core.relationship, TypeNames)
    BY <2>4, SyntaxAsRead
  <2> QED
    BY <1>2, <2>1, <2>5, <2>6 DEF ReferenceView, core, read
<1> QED
  BY <1>1, <1>2

\* An operation that is valid is the same operation to the one who receives it.
LEMMA OperationViewAsRead ==
  ASSUME NEW value, NoneIsNoView, IsWhole("operation", value), DataRegistered(value.core.data),
         DataHasContent(value.core.data), Rules!OperationValid(OperationView(value))
  PROVE  OperationView(WholeAsRead("operation", value)) = OperationView(value)
<1> DEFINE core == value.core
           read == WholeAsRead("operation", value).core
           view == OperationView(value)
           Types == Schema["operation"]
<1>1. HasMembers("operation", value) /\ \A n \in DOMAIN Types : IsBody(Types[n], core[n])
  BY DEF IsWhole
<1>2. /\ DOMAIN Types = {"op", "ref", "href", "data", "meta"}
      /\ Types["op"] = "string" /\ Types["ref"] = "reference" /\ Types["href"] = "string"
      /\ Types["data"] = "primary"
  BY DEF Schema
<1>3. \A n \in DOMAIN Types : read[n] = BodyAsRead(Types[n], core[n])
  BY <1>1, WholeMembersAsRead
<1> HIDE DEF Types, read
<1>4. ASSUME NEW n \in {"op", "href"}
      PROVE  IsText(core[n]) /\ read[n] = PlainAsRead("string", core[n])
  <2>1. IsBody("string", core[n]) /\ read[n] = BodyAsRead("string", core[n])
    BY <1>1, <1>2, <1>3
  <2>2. BodyAsRead("string", core[n]) = PlainAsRead("string", core[n])
    BY PartBodyAsRead, PlainPartAsRead DEF PartTypes
  <2> QED
    BY <2>1, <2>2 DEF IsBody, IsPart, IsPlain, IsText
<1>5. read.op.text = core.op.text
  BY <1>4, StringAsRead
<1>6. SyntaxOf(read.href, Valid.uri) = SyntaxOf(core.href, Valid.uri)
  BY <1>4, SyntaxAsRead
<1>7. ReferenceView(read.ref) = ReferenceView(core.ref)
  <2>1. IsBody("reference", core["ref"]) /\ read["ref"] = BodyAsRead("reference", core["ref"])
    BY <1>1, <1>2, <1>3
  <2>2. BodyAsRead("reference", core["ref"]) = PartAsRead("reference", core["ref"])
    BY PartBodyAsRead DEF PartTypes
  <2> QED
    BY <2>1, <2>2, ReferenceViewAsRead DEF IsBody
<1>8. DataView(read.data) = DataView(core.data)
  <2>1. IsBody("primary", core["data"]) /\ read["data"] = BodyAsRead("primary", core["data"])
    BY <1>1, <1>2, <1>3
  <2>2. DataIsUnderstood(core["data"])
    BY <2>1, RegisteredItems, ContentOfItems DEF DataIsUnderstood, IsBody
  <2>3. WellFormed(core["data"])
    <3> SUFFICES ASSUME core["data"] # Nil PROVE WellFormed(core["data"])
      BY DEF WellFormed
    <3>1. view.data = DataView(core.data) /\ view.data # None
      BY ViewedOperation, ViewedData
    <3>2. Rules!OperationValid(view)
      OBVIOUS
    <3> HIDE DEF view, core
    <3>3. \/ \E many : Rules!RelationshipDataValid(view.data, many)
          \/ \E identity : Rules!ResourceDataValid(view.data, identity)
      BY <3>1, <3>2, OperationDataIsJudged
    <3>4. CASE \E many : Rules!RelationshipDataValid(view.data, many)
      BY <3>1, <3>4, RelationshipDataIsWellFormed
    <3>5. CASE \E identity : Rules!ResourceDataValid(view.data, identity)
      BY <2>2, <3>1, <3>5, ResourceDataIsWellFormed DEF DataIsUnderstood
    <3> QED
      BY <3>3, <3>4, <3>5
  <2> QED
    BY <2>1, <2>2, <2>3, DataViewAsRead
<1> QED
  BY <1>5, <1>6, <1>7, <1>8 DEF OperationView, read

-----------------------------------------------------------------------------
(* Operations that have been received, valid or not *)

\* What a struct that has been received holds is what has been written.
LEMMA StructReceived ==
  ASSUME NEW kind \in Structs, NEW value, value.extra \subseteq AtNames,
         NEW written, DOMAIN written = Written(kind, value), NEW j, j = EncodeMembers(value, written),
         NEW read, DOMAIN read = Known(kind, j), DecodeMembers(kind, j, read) # Refused
  PROVE  LET found == DecodeMembers(kind, j, read)
         IN /\ found # Nil
            /\ \A n \in Written(kind, value) :
                 /\ n \in Known(kind, j) /\ j.members[n] = written[n]
                 /\ found.core[n] = read[n] /\ read[n] # Refused
            /\ \A n \in DOMAIN Schema[kind] \ Written(kind, value) :
                 found.core[n] = IF Schema[kind][n] = "string" THEN NoText ELSE Nil
<1> DEFINE found == DecodeMembers(kind, j, read)
<1>1. value.extra \cap DOMAIN Schema[kind] = {}
  BY AtNamesBegin
<1>2. Known(kind, j) = Written(kind, value) /\ \A n \in Written(kind, value) : j.members[n] = written[n]
  BY <1>1, MembersFound
<1>3. /\ DOMAIN found.core = DOMAIN Schema[kind]
      /\ \A n \in Known(kind, j) : found.core[n] = read[n] /\ read[n] # Refused
      /\ \A n \in DOMAIN Schema[kind] \ Known(kind, j) :
           found.core[n] = IF Schema[kind][n] = "string" THEN NoText ELSE Nil
  BY MembersHeld
<1>4. found # Nil
  BY DEF DecodeMembers, AllOf, Nil
<1> QED
  BY <1>2, <1>3, <1>4

\* A text that was written is read as present.
LEMMA StringReceived ==
  ASSUME NEW field
  PROVE  /\ DecodePart("string", EncodePart("string", field)) = [text |-> field.text, present |-> TRUE]
         /\ DecodeBody("string", EncodeBody("string", field)) = [text |-> field.text, present |-> TRUE]
<1>1. EncodePart("string", field) = String(field.text) /\ EncodeBody("string", field) = String(field.text)
  BY DEF EncodePart, EncodeBody, EncodePlain
<1>2. \A j : DecodePart("string", j) = DecodeString(j) /\ DecodeBody("string", j) = DecodeString(j)
  BY DEF DecodePart, DecodeBody, DecodePlain
<1>3. DecodeString(String(field.text)) = [text |-> field.text, present |-> TRUE]
  BY JSONFields DEF DecodeString
<1> QED
  BY <1>1, <1>2, <1>3

\* A string is there if it has been written, and no other is.
LEMMA TextReceived ==
  ASSUME NEW field, NEW found, HasText(field) => found = [text |-> field.text, present |-> TRUE],
         ~HasText(field) => found = NoText
  PROVE  (HasText(found) <=> HasText(field)) /\ NameOf(found) = NameOf(field)
<1>1. ~HasText(NoText)
  BY DEF HasText, NoText
<1>2. HasText(field) => HasText(found) /\ found.text = field.text
  BY MarkedText
<1> QED
  BY <1>1, <1>2 DEF NameOf

\* A resource that is received has the id of the one that was sent, valid or not.
LEMMA ResourceReceived ==
  ASSUME NEW value, IsResource(value), ResourceRegistered(value), DecodeResource(EncodeResource(value)) # Refused
  PROVE  NameOf(DecodeResource(EncodeResource(value)).core.id) = NameOf(value.core.id)
<1> DEFINE Types == Schema["resource"]
           W == Written("resource", value)
           Part(n, x) == IF n = "relationships" THEN EncodeRelationships(x) ELSE EncodePart(Types[n], x)
           Value(n, x) == IF n = "relationships" THEN DecodeRelationships(x) ELSE DecodePart(Types[n], x)
           written == [n \in W |-> Part(n, value.core[n])]
           j == EncodeMembers(value, written)
           read == [n \in Known("resource", j) |-> Value(n, j.members[n])]
           found == DecodeMembers("resource", j, read)
<1>1. EncodeResource(value) = j /\ DecodeResource(j) = found
  BY DEF EncodeResource, DecodeResource
<1>2. "resource" \in Structs /\ value.extra \subseteq AtNames
  BY DEF ResourceRegistered, Registered, Structs, Schema
<1>3. /\ DOMAIN written = W /\ DOMAIN read = Known("resource", j)
      /\ \A n \in W : written[n] = Part(n, value.core[n])
      /\ \A n \in Known("resource", j) : read[n] = Value(n, j.members[n])
  OBVIOUS
<1>4. /\ "id" \in DOMAIN Types /\ Types["id"] = "string"
      /\ Always("resource") = {"type"}
  BY DEF Schema, Always
<1>5. "id" \in W <=> HasText(value.core["id"])
  BY <1>4 DEF Written
<1>6. \A x : Part("id", x) = EncodePart("string", x) /\ Value("id", x) = DecodePart("string", x)
  BY <1>4
<1>7. found # Refused
  BY <1>1
<1> HIDE DEF written, read, j, found, Part, Value, W
<1>8. /\ \A n \in W : /\ n \in Known("resource", j) /\ j.members[n] = written[n]
                      /\ found.core[n] = read[n]
      /\ \A n \in DOMAIN Types \ W : found.core[n] = IF Types[n] = "string" THEN NoText ELSE Nil
  BY <1>2, <1>3, <1>7, StructReceived DEF W, j, found
<1>9. HasText(value.core["id"]) => found.core["id"] = [text |-> value.core["id"].text, present |-> TRUE]
  <2> SUFFICES ASSUME "id" \in W
               PROVE  found.core["id"] = [text |-> value.core["id"].text, present |-> TRUE]
    BY <1>5
  <2>1. /\ found.core["id"] = read["id"] /\ "id" \in Known("resource", j)
        /\ j.members["id"] = written["id"]
    BY <1>8
  <2>2. read["id"] = Value("id", Part("id", value.core["id"]))
    BY <1>3, <2>1
  <2>3. read["id"] = DecodePart("string", EncodePart("string", value.core["id"]))
    BY <1>6, <2>2
  <2> QED
    BY <2>1, <2>3, StringReceived
<1>10. ~HasText(value.core["id"]) => found.core["id"] = NoText
  BY <1>4, <1>5, <1>8
<1> QED
  BY <1>1, <1>9, <1>10, TextReceived

\* Data that is received is of the same kind, and if it is one resource has its id.
LEMMA DataReceived ==
  ASSUME NEW data, data # Nil, IsBody("primary", data), DataRegistered(data),
         DecodePrimaryData(EncodePrimaryData(data)) # Refused
  PROVE  LET found == DecodePrimaryData(EncodePrimaryData(data))
         IN /\ found # Nil
            /\ found.kind = "one" <=> data.kind = "one"
            /\ found.kind = "many" <=> data.kind = "many"
            /\ data.kind = "one" => /\ 1 \in DOMAIN data.items /\ 1 \in DOMAIN found.items
                                    /\ NameOf(found.items[1].core.id) = NameOf(data.items[1].core.id)
<1> DEFINE written == [k \in DOMAIN data.items |-> EncodeResource(data.items[k])]
           j == EncodeData(data, written)
           one == DecodeResource(j)
           many == [k \in DOMAIN j.items |-> DecodeResource(j.items[k])]
           found == DecodeData(j, one, many)
<1>1. EncodePrimaryData(data) = j /\ DecodePrimaryData(j) = found
  BY DEF EncodePrimaryData, DecodePrimaryData
<1>2. IsData(data) /\ \A k \in DOMAIN data.items : IsResource(data.items[k])
  BY DEF IsBody
<1>3. \A kind, items : [kind |-> kind, items |-> items] # Nil
  BY DEF Nil
<1>4. CASE data.kind \in {"zero", "null"}
  <2>1. j = Null
    BY <1>4 DEF EncodeData
  <2>2. found = [kind |-> "null", items |-> <<>>]
    BY <2>1, JSONFields DEF DecodeData
  <2> HIDE DEF found
  <2> QED
    BY <1>1, <1>3, <1>4, <2>2
<1>5. CASE data.kind = "one"
  <2>1. 1 \in DOMAIN data.items
    BY <1>2, <1>5 DEF IsData, IsSequence
  <2>2. j = EncodeResource(data.items[1])
    BY <1>5, <2>1 DEF EncodeData
  <2>3. j.json = "object"
    BY <2>2, StructIsObject DEF EncodeResource
  <2>4. found = IF one = Refused THEN Refused ELSE [kind |-> "one", items |-> <<one>>]
    BY <2>3 DEF DecodeData
  <2>5. found # Refused
    BY <1>1
  <2>6. one # Refused /\ found = [kind |-> "one", items |-> <<one>>]
    BY <2>4, <2>5
  <2>7. ResourceRegistered(data.items[1])
    BY <2>1, RegisteredItems
  <2>8. one = DecodeResource(EncodeResource(data.items[1]))
    BY <2>2
  <2> HIDE DEF found, one
  <2>9. NameOf(one.core.id) = NameOf(data.items[1].core.id)
    BY <1>2, <2>1, <2>6, <2>7, <2>8, ResourceReceived
  <2>10. found.kind = "one" /\ found.items = <<one>>
    BY <2>6
  <2> QED
    BY <1>1, <1>3, <1>5, <2>1, <2>6, <2>9, <2>10
<1>6. CASE data.kind = "many"
  <2>1. j = Array(written)
    BY <1>6 DEF EncodeData
  <2>2. j.json = "array"
    BY <2>1, JSONFields
  <2>3. found = AllOf(many, [kind |-> "many", items |-> many])
    BY <2>2 DEF DecodeData
  <2>4. found # Refused
    BY <1>1
  <2> HIDE DEF found, many
  <2>5. found = [kind |-> "many", items |-> many]
    BY <2>3, <2>4, AllAreRead
  <2> QED
    BY <1>1, <1>3, <1>6, <2>5
<1> QED
  BY <1>2, <1>4, <1>5, <1>6 DEF IsData

\* A reference that is received is to a relationship if the one that was sent is.
LEMMA ReferenceReceived ==
  ASSUME NEW reference, reference # Nil, IsBody("reference", reference),
         DecodeAtomicReference(EncodeAtomicReference(reference)) # Refused
  PROVE  LET found == DecodeAtomicReference(EncodeAtomicReference(reference))
         IN /\ found # Nil
            /\ HasText(found.core.relationship) <=> HasText(reference.core.relationship)
<1> DEFINE Types == Schema["reference"]
           W == Written("reference", reference)
           written == [n \in W |-> EncodePlain(Types[n], reference.core[n])]
           j == EncodeMembers(reference, written)
           read == [n \in Known("reference", j) |-> DecodePlain(Types[n], j.members[n])]
           found == DecodeMembers("reference", j, read)
           name == "relationship"
<1>1. EncodeAtomicReference(reference) = j /\ DecodeAtomicReference(j) = found
  BY DEF EncodeAtomicReference, DecodeAtomicReference, EncodeFlat, DecodeFlat
<1>2. "reference" \in Structs /\ reference.extra \subseteq AtNames
  BY DEF IsBody, IsPart, IsFlat, HasMembers, Closed, Structs, Schema
<1>3. /\ DOMAIN written = W /\ DOMAIN read = Known("reference", j)
      /\ \A n \in W : written[n] = EncodePlain(Types[n], reference.core[n])
      /\ \A n \in Known("reference", j) : read[n] = DecodePlain(Types[n], j.members[n])
  OBVIOUS
<1>4. /\ name \in DOMAIN Types /\ Types[name] = "string"
      /\ Always("reference") = {"type"}
  BY DEF Schema, Always
<1>5. name \in W <=> HasText(reference.core[name])
  BY <1>4 DEF Written
<1>6. found # Refused
  BY <1>1
<1> HIDE DEF written, read, j, found, W
<1>7. /\ found # Nil
      /\ \A n \in W : /\ n \in Known("reference", j) /\ j.members[n] = written[n]
                      /\ found.core[n] = read[n]
      /\ \A n \in DOMAIN Types \ W : found.core[n] = IF Types[n] = "string" THEN NoText ELSE Nil
  BY <1>2, <1>3, <1>6, StructReceived DEF W, j, found
<1>8. HasText(reference.core[name]) => found.core[name] = [text |-> reference.core[name].text, present |-> TRUE]
  <2> SUFFICES ASSUME name \in W
               PROVE  found.core[name] = [text |-> reference.core[name].text, present |-> TRUE]
    BY <1>5
  <2>1. /\ found.core[name] = read[name] /\ name \in Known("reference", j)
        /\ j.members[name] = written[name]
    BY <1>7
  <2>2. read[name] = DecodePlain("string", EncodePlain("string", reference.core[name]))
    BY <1>3, <1>4, <2>1
  <2>3. EncodePlain("string", reference.core[name]) = String(reference.core[name].text)
    BY DEF EncodePlain
  <2>4. DecodePlain("string", String(reference.core[name].text)) = [text |-> reference.core[name].text, present |-> TRUE]
    BY JSONFields DEF DecodePlain, DecodeString
  <2> QED
    BY <2>1, <2>2, <2>3, <2>4
<1>9. ~HasText(reference.core[name]) => found.core[name] = NoText
  BY <1>4, <1>5, <1>7
<1> QED
  BY <1>1, <1>7, <1>8, <1>9, TextReceived

\* An operation that is received has the code of the one that was sent, and the kind
\* of its reference and data.
LEMMA OperationReceived ==
  ASSUME NEW value, IsWhole("operation", value), DataRegistered(value.core.data),
         DecodeAtomicOperation(EncodeAtomicOperation(value)) # Refused
  PROVE  LET core == value.core
             read == DecodeAtomicOperation(EncodeAtomicOperation(value)).core
         IN /\ read.op.text = core.op.text
            /\ read.ref = Nil <=> core.ref = Nil
            /\ core.ref # Nil => (HasText(read.ref.core.relationship) <=> HasText(core.ref.core.relationship))
            /\ read.data = Nil <=> core.data = Nil
            /\ core.data # Nil =>
                 /\ read.data.kind = "one" <=> core.data.kind = "one"
                 /\ read.data.kind = "many" <=> core.data.kind = "many"
                 /\ core.data.kind = "one" =>
                      /\ 1 \in DOMAIN core.data.items /\ 1 \in DOMAIN read.data.items
                      /\ NameOf(read.data.items[1].core.id) = NameOf(core.data.items[1].core.id)
<1> DEFINE core == value.core
           Types == Schema["operation"]
           W == Written("operation", value)
           written == [n \in W |-> EncodeBody(Types[n], core[n])]
           j == EncodeMembers(value, written)
           read == [n \in Known("operation", j) |-> DecodeBody(Types[n], j.members[n])]
           found == DecodeMembers("operation", j, read)
<1>1. EncodeAtomicOperation(value) = j /\ DecodeAtomicOperation(j) = found
  BY DEF EncodeAtomicOperation, DecodeAtomicOperation, EncodeWhole, DecodeWhole
<1>2. "operation" \in Structs /\ value.extra \subseteq AtNames
  BY DEF IsWhole, HasMembers, Closed, Structs, Schema
<1>3. /\ DOMAIN written = W /\ DOMAIN read = Known("operation", j)
      /\ \A n \in W : written[n] = EncodeBody(Types[n], core[n])
      /\ \A n \in Known("operation", j) : read[n] = DecodeBody(Types[n], j.members[n])
  OBVIOUS
<1>4. /\ {"op", "ref", "data"} \subseteq DOMAIN Types
      /\ Types["op"] = "string" /\ Types["ref"] = "reference" /\ Types["data"] = "primary"
      /\ Always("operation") = {"op"}
  BY DEF Schema, Always
<1>5. "op" \in W /\ ("ref" \in W <=> core["ref"] # Nil) /\ ("data" \in W <=> core["data"] # Nil)
  BY <1>4 DEF Written
<1>6. found # Refused
  BY <1>1
<1>7. IsBody("reference", core["ref"]) /\ IsBody("primary", core["data"])
  BY <1>4 DEF IsWhole
<1> HIDE DEF written, read, j, found, W
<1>8. /\ \A n \in W : /\ n \in Known("operation", j) /\ j.members[n] = written[n]
                      /\ found.core[n] = read[n] /\ read[n] # Refused
      /\ \A n \in DOMAIN Types \ W : found.core[n] = IF Types[n] = "string" THEN NoText ELSE Nil
  BY <1>2, <1>3, <1>6, StructReceived DEF W, j, found
<1>9. ASSUME NEW n \in W
      PROVE  found.core[n] = DecodeBody(Types[n], EncodeBody(Types[n], core[n])) /\ found.core[n] # Refused
  <2>1. /\ n \in Known("operation", j) /\ j.members[n] = written[n]
        /\ found.core[n] = read[n] /\ read[n] # Refused
    BY <1>8
  <2>2. read[n] = DecodeBody(Types[n], written[n]) /\ written[n] = EncodeBody(Types[n], core[n])
    BY <1>3, <2>1
  <2> QED
    BY <2>1, <2>2
<1>10. found.core["op"].text = core["op"].text
  <2>1. found.core["op"] = DecodeBody("string", EncodeBody("string", core["op"]))
    BY <1>4, <1>5, <1>9
  <2>2. found.core["op"] = [text |-> core["op"].text, present |-> TRUE]
    BY <2>1, StringReceived
  <2> QED
    BY <2>2, MarkedText
<1>11. /\ found.core["ref"] = Nil <=> core["ref"] = Nil
       /\ core["ref"] # Nil => (HasText(found.core["ref"].core.relationship) <=> HasText(core["ref"].core.relationship))
  <2>1. CASE core["ref"] = Nil
    BY <1>4, <1>5, <1>8, <2>1
  <2>2. CASE core["ref"] # Nil
    <3>1. found.core["ref"] = DecodeBody("reference", EncodeBody("reference", core["ref"]))
            /\ found.core["ref"] # Refused
      BY <1>4, <1>5, <1>9, <2>2
    <3>2. found.core["ref"] = DecodeAtomicReference(EncodeAtomicReference(core["ref"]))
      BY <3>1 DEF DecodeBody, EncodeBody, DecodePart, EncodePart
    <3> QED
      BY <1>7, <2>2, <3>1, <3>2, ReferenceReceived
  <2> QED
    BY <2>1, <2>2
<1>12. /\ found.core["data"] = Nil <=> core["data"] = Nil
       /\ core["data"] # Nil =>
            /\ found.core["data"].kind = "one" <=> core["data"].kind = "one"
            /\ found.core["data"].kind = "many" <=> core["data"].kind = "many"
            /\ core["data"].kind = "one" =>
                 /\ 1 \in DOMAIN core["data"].items /\ 1 \in DOMAIN found.core["data"].items
                 /\ NameOf(found.core["data"].items[1].core.id) = NameOf(core["data"].items[1].core.id)
  <2>1. CASE core["data"] = Nil
    BY <1>4, <1>5, <1>8, <2>1
  <2>2. CASE core["data"] # Nil
    <3>1. found.core["data"] = DecodeBody("primary", EncodeBody("primary", core["data"]))
            /\ found.core["data"] # Refused
      BY <1>4, <1>5, <1>9, <2>2
    <3>2. found.core["data"] = DecodePrimaryData(EncodePrimaryData(core["data"]))
      BY <3>1 DEF DecodeBody, EncodeBody
    <3> HIDE DEF core
    <3>3. DataRegistered(core["data"])
      BY DEF core
    <3> QED
      BY <1>7, <2>2, <3>1, <3>2, <3>3, DataReceived
  <2> QED
    BY <2>1, <2>2
<1> QED
  BY <1>1, <1>10, <1>11, <1>12

\* Operations that are received are those sent, each of them received.
LEMMA OperationsReceived ==
  ASSUME NEW asked, asked # Nil, Received(asked) # Refused
  PROVE  /\ DOMAIN Received(asked).items = DOMAIN asked.items
         /\ \A k \in DOMAIN asked.items :
              /\ Received(asked).items[k] = DecodeAtomicOperation(EncodeAtomicOperation(asked.items[k]))
              /\ Received(asked).items[k] # Refused
<1> DEFINE written == [k \in DOMAIN asked.items |-> EncodeAtomicOperation(asked.items[k])]
           j == Array(written)
           read == [k \in DOMAIN j.items |-> DecodeAtomicOperation(j.items[k])]
<1>1. Received(asked) = DecodeList(j, read)
  BY DEF Received, EncodeAtomicOperations, DecodeAtomicOperations
<1>2. j.json = "array" /\ j.items = written
  BY JSONFields
<1>3. read = [k \in DOMAIN asked.items |-> DecodeAtomicOperation(EncodeAtomicOperation(asked.items[k]))]
  BY <1>2
<1> HIDE DEF read, j, written
<1>4. Received(asked) = AllOf(read, [items |-> read])
  BY <1>1, <1>2 DEF DecodeList
<1>5. Received(asked) = [items |-> read] /\ \A k \in DOMAIN read : read[k] # Refused
  BY <1>4, AllAreRead
<1>6. Received(asked).items = read
  BY <1>5
<1> QED
  BY <1>3, <1>5, <1>6

\* The rules of results see of an operation no more than this.
LEMMA AnsweredAlike ==
  ASSUME NEW o, NEW p, NEW result, o.op = p.op,
         o.ref = None <=> p.ref = None,
         o.ref # None => (o.ref.relationship = "absent" <=> p.ref.relationship = "absent"),
         o.data = None <=> p.data = None,
         o.data # None => /\ o.data.kind = "one" <=> p.data.kind = "one"
                          /\ o.data.kind = "many" <=> p.data.kind = "many"
                          /\ o.data.kind = "one" => o.data.items[1].id = p.data.items[1].id
  PROVE  Rules!ResultValid(result, o) <=> Rules!ResultValid(result, p)
<1>1. Rules!RelationshipOperation(o) <=> Rules!RelationshipOperation(p)
  BY DEF Rules!RelationshipOperation, Rules!Present, Rules!HasRelationship
<1>2. Rules!CreateRequiresResultData(o) <=> Rules!CreateRequiresResultData(p)
  BY <1>1 DEF Rules!CreateRequiresResultData, Rules!Present
<1> QED
  BY <1>1, <1>2 DEF Rules!ResultValid

\* A reference is to be viewed as one to a relationship if it names one.
LEMMA ReferenceViewed ==
  ASSUME NEW reference, NoneIsNoView, reference # Nil
  PROVE  /\ ReferenceView(reference) # None
         /\ ReferenceView(reference).relationship = "absent" <=> ~HasText(reference.core.relationship)
<1> DEFINE core == reference.core
<1>1. ReferenceView(reference) = [type |-> TypeOf(core), id |-> NameOf(core.id), lid |-> NameOf(core.lid),
                                  relationship |-> SyntaxOf(core.relationship, TypeNames)]
  BY DEF ReferenceView
<1>2. ReferenceView(reference) # None
  BY <1>1 DEF NoneIsNoView
<1>3. ReferenceView(reference).relationship = SyntaxOf(core.relationship, TypeNames)
  BY <1>1
<1> QED
  BY <1>2, <1>3 DEF SyntaxOf

\* A result answers the operation that was asked for if it answers the one received.
LEMMA AnswersReceived ==
  ASSUME NEW value, NoneIsNoView, IsWhole("operation", value), DataRegistered(value.core.data),
         DecodeAtomicOperation(EncodeAtomicOperation(value)) # Refused, NEW result
  PROVE  Rules!ResultValid(result, OperationView(DecodeAtomicOperation(EncodeAtomicOperation(value))))
           <=> Rules!ResultValid(result, OperationView(value))
<1> DEFINE found == DecodeAtomicOperation(EncodeAtomicOperation(value))
           core == value.core
           read == found.core
           o == OperationView(found)
           p == OperationView(value)
<1>1. /\ read.op.text = core.op.text
      /\ read.ref = Nil <=> core.ref = Nil
      /\ core.ref # Nil => (HasText(read.ref.core.relationship) <=> HasText(core.ref.core.relationship))
      /\ read.data = Nil <=> core.data = Nil
      /\ core.data # Nil =>
           /\ read.data.kind = "one" <=> core.data.kind = "one"
           /\ read.data.kind = "many" <=> core.data.kind = "many"
           /\ core.data.kind = "one" =>
                /\ 1 \in DOMAIN core.data.items /\ 1 \in DOMAIN read.data.items
                /\ NameOf(read.data.items[1].core.id) = NameOf(core.data.items[1].core.id)
  BY OperationReceived
<1>2. /\ o.op = read.op.text /\ o.ref = ReferenceView(read.ref) /\ o.data = DataView(read.data)
      /\ p.op = core.op.text /\ p.ref = ReferenceView(core.ref) /\ p.data = DataView(core.data)
  BY ViewedOperation
<1> HIDE DEF o, p, read, core, found
<1>3. ReferenceView(Nil) = None /\ DataView(Nil) = None
  BY DEF ReferenceView, DataView
<1>4. /\ o.ref = None <=> p.ref = None
      /\ o.ref # None => (o.ref.relationship = "absent" <=> p.ref.relationship = "absent")
  BY <1>1, <1>2, <1>3, ReferenceViewed
<1>5. /\ o.data = None <=> p.data = None
      /\ o.data # None => /\ o.data.kind = "one" <=> p.data.kind = "one"
                          /\ o.data.kind = "many" <=> p.data.kind = "many"
                          /\ o.data.kind = "one" => o.data.items[1].id = p.data.items[1].id
  <2>1. CASE core.data = Nil
    BY <1>1, <1>2, <1>3, <2>1
  <2>2. CASE core.data # Nil
    <3>1. o.data # None /\ p.data # None /\ o.data.kind = read.data.kind /\ p.data.kind = core.data.kind
      BY <1>1, <1>2, <2>2, ViewedData
    <3>2. ASSUME core.data.kind = "one"
          PROVE  o.data.items[1].id = p.data.items[1].id
      <4>1. /\ o.data.items[1] = ResourceView(read.data.items[1])
            /\ p.data.items[1] = ResourceView(core.data.items[1])
        BY <1>1, <1>2, <2>2, <3>2, ViewedData
      <4> QED
        BY <1>1, <2>2, <3>2, <4>1 DEF ResourceView
    <3> QED
      BY <1>1, <2>2, <3>1, <3>2
  <2> QED
    BY <2>1, <2>2
<1>6. Rules!ResultValid(result, o) <=> Rules!ResultValid(result, p)
  BY <1>1, <1>2, <1>4, <1>5, AnsweredAlike
<1> QED
  BY <1>6 DEF o, p, found

\* An interval within another is no longer.
LEMMA SameInterval ==
  ASSUME NEW m \in Nat, NEW n \in Nat, \A k \in 1..m : k \in 1..n
  PROVE  m <= n
<1>1. m = 0 \/ m \in 1..m
  OBVIOUS
<1> QED
  BY <1>1

LEMMA SameLength ==
  ASSUME NEW s, IsSequence(s), NEW t, IsSequence(t), DOMAIN s = DOMAIN t
  PROVE  Len(s) = Len(t)
<1>1. /\ DOMAIN s = 1..Len(s) /\ Len(s) \in Nat
      /\ DOMAIN t = 1..Len(t) /\ Len(t) \in Nat
  BY SequenceFacts
<1>2. (\A k \in 1..Len(s) : k \in 1..Len(t)) /\ \A k \in 1..Len(t) : k \in 1..Len(s)
  <2>1. 1..Len(s) = 1..Len(t)
    BY <1>1
  <2> QED
    BY <2>1
<1>3. Len(s) <= Len(t) /\ Len(t) <= Len(s)
  BY <1>1, <1>2, SameInterval
<1>4. Len(s) \in Nat /\ Len(t) \in Nat
  BY <1>1
<1> QED
  BY <1>3, <1>4

\* The operations of the sender, who has received them, and those of the receiver.
LEMMA AskedAlike ==
  ASSUME NoneIsNoView, NEW a \in Options["atomic"], NEW b \in Options["atomic"], AdmitsAtomic(a, b)
  PROVE  /\ a.asked = Nil <=> b.asked = Nil
         /\ b.asked # Nil =>
              /\ DOMAIN a.asked.items = DOMAIN b.asked.items
              /\ Len(a.asked.items) = Len(b.asked.items)
              /\ \A k \in DOMAIN b.asked.items : \A result :
                   Rules!ResultValid(result, OperationView(a.asked.items[k]))
                     <=> Rules!ResultValid(result, OperationView(b.asked.items[k]))
<1>1. a.asked = Received(b.asked)
  BY DEF AdmitsAtomic
<1>2. b.asked = Nil => a.asked = Nil
  BY <1>1 DEF Received
<1>3. ASSUME b.asked # Nil
      PROVE  a.asked # Nil
  <2>1. Received(b.asked) = Refused \/ \E items : Received(b.asked) = [items |-> items]
    BY <1>3 DEF Received, DecodeAtomicOperations, DecodeList, AllOf
  <2>2. Refused # Nil /\ \A items : [items |-> items] # Nil
    BY DEF Refused, Nil
  <2> QED
    BY <1>1, <2>1, <2>2
<1>4. ASSUME b.asked # Nil
      PROVE  /\ DOMAIN a.asked.items = DOMAIN b.asked.items
             /\ Len(a.asked.items) = Len(b.asked.items)
             /\ \A k \in DOMAIN b.asked.items : \A result :
                  Rules!ResultValid(result, OperationView(a.asked.items[k]))
                    <=> Rules!ResultValid(result, OperationView(b.asked.items[k]))
  <2>1. DOMAIN a.asked = {"items"} /\ IsListOf("operation", a.asked)
    BY <1>3, <1>4, OptionsWellFormed
  <2>2. /\ IsListOf("operation", b.asked)
        /\ \A k \in DOMAIN b.asked.items : DataRegistered(b.asked.items[k].core.data)
    BY <1>4, OptionsWellFormed DEF ItemsOf
  <2>3. a.asked # Refused
    <3>1. DOMAIN Refused = {"refused"}
      BY DEF Refused
    <3> QED
      BY <2>1, <3>1
  <2>4. /\ DOMAIN a.asked.items = DOMAIN b.asked.items
        /\ \A k \in DOMAIN b.asked.items :
             /\ a.asked.items[k] = DecodeAtomicOperation(EncodeAtomicOperation(b.asked.items[k]))
             /\ a.asked.items[k] # Refused
    BY <1>1, <1>4, <2>3, OperationsReceived
  <2>5. IsSequence(a.asked.items) /\ IsSequence(b.asked.items)
    BY <1>3, <1>4, <2>1, <2>2 DEF IsListOf
  <2>6. Len(a.asked.items) = Len(b.asked.items)
    BY <2>4, <2>5, SameLength
  <2>7. ASSUME NEW k \in DOMAIN b.asked.items, NEW result
        PROVE  Rules!ResultValid(result, OperationView(a.asked.items[k]))
                 <=> Rules!ResultValid(result, OperationView(b.asked.items[k]))
    <3>1. IsWhole("operation", b.asked.items[k]) /\ DataRegistered(b.asked.items[k].core.data)
      BY <1>4, <2>2 DEF IsListOf
    <3> QED
      BY <2>4, <3>1, AnswersReceived
  <2> QED
    BY <2>4, <2>6, <2>7
<1> QED
  BY <1>2, <1>3, <1>4

-----------------------------------------------------------------------------

LEMMA WholesRead ==
  ASSUME NEW kind, NEW list
  PROVE  /\ WholesAsRead(kind, list) = Nil <=> list = Nil
         /\ list # Nil => WholesAsRead(kind, list).items = [k \in DOMAIN list.items |-> WholeAsRead(kind, list.items[k])]
<1>1. list = Nil => WholesAsRead(kind, list) = Nil
  BY DEF WholesAsRead
<1>2. list # Nil => WholesAsRead(kind, list) = [items |-> [k \in DOMAIN list.items |-> WholeAsRead(kind, list.items[k])]]
  BY DEF WholesAsRead
<1> QED
  BY <1>1, <1>2, ListItems

\* An Atomic document is read member by member.
LEMMA AtomicMembersAsRead ==
  ASSUME NEW value, HasMembers("atomic", value)
  PROVE  LET read == AtomicAsRead(value).core
         IN /\ read.operations = WholesAsRead("operation", value.core.operations)
            /\ read.results = WholesAsRead("result", value.core.results)
            /\ \A n \in {"jsonapi", "links", "errors", "meta"} :
                 read[n] = BodyAsRead(Schema["atomic"][n], value.core[n])
<1> DEFINE Held(n) == CASE n = "operations" -> WholesAsRead("operation", value.core[n])
                        [] n = "results"    -> WholesAsRead("result", value.core[n])
                        [] OTHER            -> BodyAsRead(Schema["atomic"][n], value.core[n])
           core == [n \in DOMAIN value.core |-> Held(n)]
<1>1. AtomicAsRead(value).core = core
  BY DEF AtomicAsRead, WholesAsRead
<1>2. {"jsonapi", "links", "operations", "results", "errors", "meta"} = DOMAIN value.core
  BY AtomicTypes DEF HasMembers
<1>3. \A n \in DOMAIN value.core : core[n] = Held(n)
  OBVIOUS
<1>4. /\ Held("operations") = WholesAsRead("operation", value.core["operations"])
      /\ Held("results") = WholesAsRead("result", value.core["results"])
      /\ \A n \in {"jsonapi", "links", "errors", "meta"} : Held(n) = BodyAsRead(Schema["atomic"][n], value.core[n])
  OBVIOUS
<1> HIDE DEF core, Held
<1> QED
  BY <1>1, <1>2, <1>3, <1>4

ListHasContent(list) == list # Nil => \A k \in DOMAIN list.items : DataHasContent(list.items[k].core.data)

ListIsRegistered(list) == list # Nil => \A k \in DOMAIN list.items : DataRegistered(list.items[k].core.data)

\* Operations are valid as they are read.
LEMMA OperationsAsReadHold ==
  ASSUME NoneIsNoView, NEW list, IsListOf("operation", list), ListIsRegistered(list), ListHasContent(list),
         AtomicOperationsValid(list)
  PROVE  AtomicOperationsValid(WholesAsRead("operation", list))
<1> SUFFICES ASSUME list # Nil
             PROVE  AtomicOperationsValid(WholesAsRead("operation", list))
  BY WholesRead DEF AtomicOperationsValid
<1> DEFINE read == WholesAsRead("operation", list)
           views == [k \in DOMAIN list.items |-> OperationView(list.items[k])]
           others == [k \in DOMAIN read.items |-> OperationView(read.items[k])]
<1>1. read # Nil /\ read.items = [k \in DOMAIN list.items |-> WholeAsRead("operation", list.items[k])]
  BY WholesRead
<1>2. ASSUME NEW k \in DOMAIN list.items
      PROVE  OperationView(WholeAsRead("operation", list.items[k])) = OperationView(list.items[k])
  <2>1. /\ IsWhole("operation", list.items[k]) /\ DataRegistered(list.items[k].core.data)
        /\ DataHasContent(list.items[k].core.data)
    BY DEF IsListOf, ListIsRegistered, ListHasContent
  <2>2. Rules!OperationValid(OperationView(list.items[k]))
    BY OperationIsJudged
  <2> QED
    BY <2>1, <2>2, OperationViewAsRead
<1>3. others = views
  <2> HIDE DEF read
  <2> QED
    BY <1>1, <1>2
<1>4. Rules!OperationsValid(views)
  BY DEF AtomicOperationsValid
<1> QED
  BY <1>3, <1>4 DEF AtomicOperationsValid

\* The Atomic rules see the same result after it has been read.
LEMMA ResultViewAsRead ==
  ASSUME NoneIsNoView, NEW results, results # Nil, IsListOf("result", results), ListIsRegistered(results),
         ListHasContent(results), NEW asked, AtomicResultsValid(results, asked),
         NEW k \in DOMAIN results.items
  PROVE  DataView(WholeAsRead("result", results.items[k]).core.data) = DataView(results.items[k].core.data)
<1> DEFINE value == results.items[k]
           data == value.core.data
<1>1. /\ "data" \in DOMAIN Schema["result"] /\ Schema["result"]["data"] = "primary"
  BY DEF Schema
<1>2. IsWhole("result", value) /\ DataRegistered(data) /\ DataHasContent(data)
  BY DEF IsListOf, ListIsRegistered, ListHasContent
<1>3. data # Nil => Rules!ResourceDataValid(DataView(data), "id")
  BY ResultDataIsJudged
<1> HIDE DEF value
<1>4. HasMembers("result", value) /\ IsBody("primary", value.core["data"])
  BY <1>1, <1>2 DEF IsWhole
<1>5. WholeAsRead("result", value).core["data"] = BodyAsRead("primary", value.core["data"])
  BY <1>1, <1>4, WholeMembersAsRead
<1>6. DataIsUnderstood(data)
  BY <1>2, <1>4, RegisteredItems, ContentOfItems DEF DataIsUnderstood, IsBody
<1>7. WellFormed(data)
  BY <1>3, <1>6, ResourceDataIsWellFormed DEF WellFormed, DataIsUnderstood
<1> QED
  BY <1>5, <1>6, <1>7, DataViewAsRead DEF value

\* Results that are valid for the operations one party has are valid, as they are
\* read, for those of the other.
LEMMA ResultsAsReadHold ==
  ASSUME NoneIsNoView, NEW results, IsListOf("result", results), ListIsRegistered(results),
         ListHasContent(results), NEW a \in Options["atomic"], NEW b \in Options["atomic"], AdmitsAtomic(a, b),
         AtomicResultsValid(results, a.asked)
  PROVE  AtomicResultsValid(WholesAsRead("result", results), b.asked)
<1> SUFFICES ASSUME results # Nil
             PROVE  AtomicResultsValid(WholesAsRead("result", results), b.asked)
  BY WholesRead DEF AtomicResultsValid
<1> DEFINE read == WholesAsRead("result", results)
           AnswerIsJudged(data, asked, k) ==
             IF asked # Nil /\ k \in DOMAIN asked.items
             THEN Rules!ResultValid(data, OperationView(asked.items[k]))
             ELSE data # None => Rules!ResourceDataValid(data, "id")
<1>1. read # Nil /\ read.items = [k \in DOMAIN results.items |-> WholeAsRead("result", results.items[k])]
  BY WholesRead
<1>2. \A k \in DOMAIN results.items : AnswerIsJudged(DataView(results.items[k].core.data), a.asked, k)
  BY DEF AtomicResultsValid
<1>3. \A k \in DOMAIN results.items :
        DataView(WholeAsRead("result", results.items[k]).core.data) = DataView(results.items[k].core.data)
  BY ResultViewAsRead
<1>4. \A data, k : AnswerIsJudged(data, a.asked, k) => AnswerIsJudged(data, b.asked, k)
  BY AskedAlike
<1> HIDE DEF read, AnswerIsJudged
<1>5. \A k \in DOMAIN read.items : AnswerIsJudged(DataView(read.items[k].core.data), b.asked, k)
  BY <1>1, <1>2, <1>3, <1>4
<1> QED
  BY <1>1, <1>5 DEF AtomicResultsValid, read, AnswerIsJudged

LEMMA MappedSequence ==
  ASSUME NEW items, IsSequence(items), NEW read, DOMAIN read = DOMAIN items,
         read = [k \in DOMAIN read |-> read[k]]
  PROVE  IsSequence(read)
<1>1. DOMAIN items = 1..Len(items) /\ Len(items) \in Nat
  BY SequenceFacts
<1> DEFINE S == {read[k] : k \in DOMAIN read}
<1>2. read \in [1..Len(items) -> S]
  BY <1>1
<1> HIDE DEF S
<1>3. read \in Seq(S)
  BY <1>1, <1>2
<1> QED
  BY <1>3 DEF IsSequence, S

LEMMA ListReadAlike ==
  ASSUME NEW kind, NEW list, IsListOf(kind, list)
  PROVE  /\ WholesAsRead(kind, list) = Nil <=> list = Nil
         /\ list # Nil => /\ WholesAsRead(kind, list).items = <<>> <=> list.items = <<>>
                          /\ Len(WholesAsRead(kind, list).items) = Len(list.items)
<1>1. WholesAsRead(kind, list) = Nil <=> list = Nil
  <2>1. CASE list = Nil
    BY <2>1 DEF WholesAsRead
  <2>2. CASE list # Nil
    BY <2>2, ListItems DEF WholesAsRead
  <2> QED
    BY <2>1, <2>2
<1>2. ASSUME list # Nil
      PROVE  /\ WholesAsRead(kind, list).items = <<>> <=> list.items = <<>>
             /\ Len(WholesAsRead(kind, list).items) = Len(list.items)
  <2> DEFINE s == list.items
             t == WholesAsRead(kind, list).items
  <2>1. t = [k \in DOMAIN s |-> WholeAsRead(kind, s[k])]
    BY <1>2, WholesRead
  <2>2. IsSequence(s)
    BY <1>2 DEF IsListOf
  <2> HIDE DEF s, t
  <2>3. DOMAIN t = DOMAIN s /\ t = [k \in DOMAIN t |-> t[k]]
    BY <2>1
  <2>4. IsSequence(t)
    BY <2>2, <2>3, MappedSequence
  <2>5. Len(t) = Len(s)
    BY <2>2, <2>3, <2>4, SameLength
  <2>6. (s = <<>> <=> Len(s) = 0) /\ (t = <<>> <=> Len(t) = 0)
    BY <2>2, <2>4 DEF IsSequence
  <2> QED
    BY <2>5, <2>6 DEF s, t
<1> QED
  BY <1>1, <1>2

\* The members that an Atomic document shares with others are as valid as they are
\* read.
LEMMA BodiesAsRead ==
  ASSUME NEW value, NEW read
  PROVE  /\ read = BodyAsRead("jsonapi", value) /\ IsBody("jsonapi", value) =>
              /\ read = Nil <=> value = Nil
              /\ value # Nil => read.core.ext = value.core.ext /\ read.core.profile = value.core.profile
         /\ read = BodyAsRead("links", value) /\ IsBody("links", value) /\ LinksRegistered(value) =>
              /\ \A allowed : LinksValid(value, allowed) => LinksValid(read, allowed)
              /\ \A collection : PaginationValid(value, collection) => PaginationValid(read, collection)
         /\ read = BodyAsRead("free", value) => (read = Nil <=> value = Nil)
         /\ read = BodyAsRead("errors", value) /\ IsBody("errors", value) /\ ErrorsRegistered(value) =>
              /\ read = Nil <=> value = Nil
              /\ value # Nil /\ (\A error \in ItemsOf(value.items) : ErrorValid(error)) =>
                   \A error \in ItemsOf(read.items) : ErrorValid(error)
<1>1. \A type \in {"jsonapi", "links", "free"} : BodyAsRead(type, value) = PartAsRead(type, value)
  BY PartBodyAsRead DEF PartTypes
<1>2. \A type : IsBody(type, value) => IsPart(type, value)
  BY DEF IsBody
<1>3. ASSUME read = BodyAsRead("jsonapi", value), IsBody("jsonapi", value)
      PROVE  /\ read = Nil <=> value = Nil
             /\ value # Nil => read.core.ext = value.core.ext /\ read.core.profile = value.core.profile
  BY <1>1, <1>2, <1>3, JSONAPIAsRead
<1>4. ASSUME read = BodyAsRead("links", value), IsBody("links", value), LinksRegistered(value)
      PROVE  /\ \A allowed : LinksValid(value, allowed) => LinksValid(read, allowed)
             /\ \A collection : PaginationValid(value, collection) => PaginationValid(read, collection)
  BY <1>1, <1>2, <1>4, LinksAsReadHolds
<1>5. read = BodyAsRead("free", value) => (read = Nil <=> value = Nil)
  BY <1>1, FreeAsRead
<1>6. ASSUME read = BodyAsRead("errors", value), IsBody("errors", value), ErrorsRegistered(value)
      PROVE  /\ read = Nil <=> value = Nil
             /\ value # Nil /\ (\A error \in ItemsOf(value.items) : ErrorValid(error)) =>
                  \A error \in ItemsOf(read.items) : ErrorValid(error)
  <2>1. read = Nil <=> value = Nil
    BY <1>6, ErrorsAsRead
  <2>2. ASSUME value # Nil, \A error \in ItemsOf(value.items) : ErrorValid(error)
        PROVE  \A error \in ItemsOf(read.items) : ErrorValid(error)
    <3>1. read.items = [k \in DOMAIN value.items |-> NestedAsRead("error", value.items[k])]
      BY <1>6, <2>2, ErrorsAsRead
    <3>2. ASSUME NEW k \in DOMAIN value.items
          PROVE  ErrorValid(NestedAsRead("error", value.items[k]))
      <4>1. IsNested("error", value.items[k]) /\ ErrorRegistered(value.items[k]) /\ ErrorValid(value.items[k])
        BY <1>6, <2>2 DEF IsBody, ErrorsRegistered, ItemsOf
      <4> QED
        BY <4>1, ErrorAsReadHolds
    <3> QED
      BY <3>1, <3>2 DEF ItemsOf
  <2> QED
    BY <2>1, <2>2
<1> QED
  BY <1>3, <1>4, <1>5, <1>6

\* An Atomic document that is valid to its sender is valid as its receiver holds it.
LEMMA AtomicAsReadHolds ==
  ASSUME NoneIsNoView, NEW value, IsAtomic(value), AtomicMembersRegistered(value),
         ListHasContent(value.core.operations), ListHasContent(value.core.results),
         NEW a \in Options["atomic"], NEW b \in Options["atomic"], AdmitsAtomic(a, b),
         AtomicDocumentValid(value, a)
  PROVE  AtomicDocumentValid(AtomicAsRead(value), b)
<1> DEFINE core == value.core
           read == AtomicAsRead(value).core
           Types == Schema["atomic"]
<1>1. /\ HasMembers("atomic", value) /\ \A n \in DOMAIN Types : IsBody(Types[n], core[n])
      /\ IsListOf("operation", core.operations) /\ IsListOf("result", core.results)
  BY DEF IsAtomic, IsWhole
<1>2. /\ LinksRegistered(core["links"]) /\ ErrorsRegistered(core["errors"])
      /\ ListIsRegistered(core.operations) /\ ListIsRegistered(core.results)
  BY DEF AtomicMembersRegistered, ListIsRegistered, ItemsOf
<1>3. /\ DOMAIN Types = {"jsonapi", "links", "operations", "results", "errors", "meta"}
      /\ Types["jsonapi"] = "jsonapi" /\ Types["links"] = "links"
      /\ Types["errors"] = "errors" /\ Types["meta"] = "free"
  BY DEF Schema
<1>4. /\ read.operations = WholesAsRead("operation", core.operations)
      /\ read.results = WholesAsRead("result", core.results)
      /\ \A n \in {"jsonapi", "links", "errors", "meta"} : read[n] = BodyAsRead(Types[n], core[n])
  BY <1>1, AtomicMembersAsRead
<1>5. /\ a.context = b.context \/ b.context = "atomicGeneric"
      /\ a.count = b.count
  BY DEF AdmitsAtomic
<1>6. /\ a.asked = Nil <=> b.asked = Nil
      /\ b.asked # Nil => Len(a.asked.items) = Len(b.asked.items)
  BY AskedAlike
<1>7. /\ ExpectationsAgree(a.count, a.asked)
      /\ AtomicMembersAgree(core, a.context, a.count, a.asked)
      /\ AtomicDeclared(core["jsonapi"])
      /\ LinksValid(core["links"], {"self", "related", "describedby"} \cup PaginationLinks)
      /\ PaginationValid(core["links"], FALSE)
      /\ AtomicOperationsValid(core.operations)
      /\ AtomicResultsValid(core.results, a.asked)
      /\ core["errors"] # Nil => \A error \in ItemsOf(core["errors"].items) : ErrorValid(error)
  BY DEF AtomicDocumentValid
<1>8. /\ IsBody("jsonapi", core["jsonapi"]) /\ read["jsonapi"] = BodyAsRead("jsonapi", core["jsonapi"])
      /\ IsBody("links", core["links"]) /\ read["links"] = BodyAsRead("links", core["links"])
      /\ IsBody("errors", core["errors"]) /\ read["errors"] = BodyAsRead("errors", core["errors"])
      /\ read["meta"] = BodyAsRead("free", core["meta"])
  BY <1>1, <1>3, <1>4
<1> HIDE DEF Types, read, core
<1>9. /\ read.operations = Nil <=> core.operations = Nil
      /\ core.operations # Nil => (read.operations.items = <<>> <=> core.operations.items = <<>>)
      /\ read.results = Nil <=> core.results = Nil
      /\ core.results # Nil => /\ read.results.items = <<>> <=> core.results.items = <<>>
                               /\ Len(read.results.items) = Len(core.results.items)
  <2>1. ASSUME NEW kind, NEW list, IsListOf(kind, list)
        PROVE  /\ WholesAsRead(kind, list) = Nil <=> list = Nil
               /\ list # Nil => /\ WholesAsRead(kind, list).items = <<>> <=> list.items = <<>>
                                /\ Len(WholesAsRead(kind, list).items) = Len(list.items)
    BY <2>1, ListReadAlike
  <2> QED
    BY <1>1, <1>4, <2>1
<1>10. read["jsonapi"] = Nil <=> core["jsonapi"] = Nil
  BY <1>8, BodiesAsRead
<1>11. read["meta"] = Nil <=> core["meta"] = Nil
  BY <1>8, BodiesAsRead
<1>12. /\ read["errors"] = Nil <=> core["errors"] = Nil
       /\ read["errors"] # Nil => \A error \in ItemsOf(read["errors"].items) : ErrorValid(error)
  BY <1>2, <1>7, <1>8, BodiesAsRead
<1>13. AtomicDeclared(read["jsonapi"])
  <2>1. core["jsonapi"] # Nil => /\ read["jsonapi"].core.ext = core["jsonapi"].core.ext
                                 /\ read["jsonapi"].core.profile = core["jsonapi"].core.profile
    BY <1>8, BodiesAsRead
  <2> QED
    BY <1>7, <1>10, <2>1 DEF AtomicDeclared
<1>14. /\ LinksValid(read["links"], {"self", "related", "describedby"} \cup PaginationLinks)
       /\ PaginationValid(read["links"], FALSE)
  <2>1. /\ \A allowed : LinksValid(core["links"], allowed) => LinksValid(read["links"], allowed)
        /\ \A collection : PaginationValid(core["links"], collection) => PaginationValid(read["links"], collection)
    BY <1>2, <1>8, BodiesAsRead
  <2> QED
    BY <1>7, <2>1
<1>15. AtomicOperationsValid(read.operations)
  BY <1>1, <1>2, <1>4, <1>7, OperationsAsReadHold DEF core
<1>16. AtomicResultsValid(read.results, b.asked)
  BY <1>1, <1>2, <1>4, <1>7, ResultsAsReadHold DEF core
<1>17. ExpectationsAgree(b.count, b.asked)
  BY <1>5, <1>6, <1>7 DEF ExpectationsAgree
<1>18. AtomicMembersAgree(read, b.context, b.count, b.asked)
  <2> DEFINE Expected(o) == IF o.asked # Nil THEN Len(o.asked.items) ELSE o.count
  <2>1. Expected(a) = Expected(b) /\ (a.asked # Nil \/ a.count > 0 <=> b.asked # Nil \/ b.count > 0)
    BY <1>5, <1>6
  <2>2. /\ core.operations # Nil \/ core.results # Nil \/ core.errors # Nil \/ core.meta # Nil
        /\ core.operations # Nil => core.operations.items # <<>>
        /\ core.results # Nil => core.results.items # <<>>
        /\ core.operations = Nil \/ core.results = Nil
        /\ core.errors = Nil \/ (core.operations = Nil /\ core.results = Nil)
        /\ a.context = "atomicRequest" =>
             core.operations # Nil /\ core.results = Nil /\ core.errors = Nil
        /\ a.context = "atomicResponse" =>
             /\ core.operations = Nil
             /\ IF core.results = Nil THEN core.errors # Nil \/ Expected(a) = 0
                ELSE a.asked # Nil \/ a.count > 0 => Len(core.results.items) = Expected(a)
    BY <1>7 DEF AtomicMembersAgree
  <2> HIDE DEF Expected
  <2>3. /\ \E member \in {"operations", "results", "errors", "meta"} : read[member] # Nil
        /\ \A member \in {"operations", "results"} : read[member] # Nil => read[member].items # <<>>
        /\ read.operations = Nil \/ read.results = Nil
        /\ read.errors = Nil \/ (read.operations = Nil /\ read.results = Nil)
    BY <1>9, <1>11, <1>12, <2>2
  <2>4. b.context = "atomicRequest" =>
          read.operations # Nil /\ read.results = Nil /\ read.errors = Nil
    BY <1>5, <1>9, <1>12, <2>2
  <2>5. b.context = "atomicResponse" =>
          /\ read.operations = Nil
          /\ IF read.results = Nil THEN read.errors # Nil \/ Expected(b) = 0
             ELSE b.asked # Nil \/ b.count > 0 => Len(read.results.items) = Expected(b)
    BY <1>5, <1>9, <1>12, <2>1, <2>2
  <2> QED
    BY <2>3, <2>4, <2>5 DEF AtomicMembersAgree, Expected
<1> QED
  BY <1>12, <1>13, <1>14, <1>15, <1>16, <1>17, <1>18 DEF AtomicDocumentValid, read

-----------------------------------------------------------------------------
(* The exchange of a document that has been built *)

\* The root of a document follows from the options of its parties.
LEMMA RootOfOptions ==
  ASSUME NEW root \in Roots, NEW o \in Options[root]
  PROVE  /\ Root(o) = root
         /\ root = "document" => o.context \in Contexts
<1>1. CASE root = "atomic"
  BY <1>1, OptionsWellFormed DEF Root
<1>2. CASE root = "document"
  <2>1. o.context \in Contexts
    BY <1>2, OptionsWellFormed
  <2>2. o.context \notin AtomicContexts
    BY <2>1 DEF Contexts, Requests, AtomicContexts
  <2> QED
    BY <1>2, <2>1, <2>2 DEF Root
<1> QED
  BY <1>1, <1>2 DEF Roots

\* A document that is marshalled is accepted, and read as it was built.
LEMMA DocumentIsDelivered ==
  ASSUME NEW a \in Options["document"], NEW b \in Options["document"], NEW value \in Built["document"],
         AdmitsDocument(a, b), MembersRegistered(value), DocumentValid(value, a),
         DataHasContent(value.core.data), DataHasContent(value.core.included)
  PROVE  /\ DecodeDocument(EncodeDocument(value)) = WholeAsRead("document", value)
         /\ DecodeDocument(EncodeDocument(value)) # Refused
         /\ DocumentValid(WholeAsRead("document", value), b)
<1>1. a.context \in Contexts /\ b.context \in Contexts
  BY OptionsWellFormed
<1>2. IsWhole("document", value)
  BY BuiltAreValues
<1>3. WholeDeliverable("document", value)
  BY <1>1, <1>2, DocumentIsDeliverable
<1>4. DocumentValid(value, b)
  BY <1>1, <1>2, DocumentIsWeaker
<1>5. DocumentValid(WholeAsRead("document", value), b)
  BY <1>1, <1>2, <1>4, DocumentAsReadHolds
<1>6. /\ DecodeWhole("document", EncodeWhole("document", value)) = WholeAsRead("document", value)
      /\ DecodeWhole("document", EncodeWhole("document", value)) # Refused
  BY <1>3, WholeDelivered
<1> QED
  BY <1>5, <1>6 DEF DecodeDocument, EncodeDocument

\* An Atomic document that is marshalled is accepted, and read as it was built.
LEMMA AtomicIsDelivered ==
  ASSUME NoneIsNoView, NEW a \in Options["atomic"], NEW b \in Options["atomic"], NEW value \in Built["atomic"],
         AdmitsAtomic(a, b), AtomicMembersRegistered(value), AtomicDocumentValid(value, a),
         ListHasContent(value.core.operations), ListHasContent(value.core.results)
  PROVE  /\ DecodeAtomic(EncodeAtomic(value)) = AtomicAsRead(value)
         /\ DecodeAtomic(EncodeAtomic(value)) # Refused
         /\ AtomicDocumentValid(AtomicAsRead(value), b)
<1>1. IsAtomic(value)
  BY BuiltAreValues
<1>2. AtomicDeliverable(value)
  BY <1>1, AtomicIsDeliverable
<1>3. AtomicDocumentValid(AtomicAsRead(value), b)
  BY <1>1, AtomicAsReadHolds
<1> QED
  BY <1>2, <1>3, AtomicDelivered

\* What a sender has marshaled, a receiver who demands no more reads as it was built.
LEMMA SentIsRead ==
  ASSUME NoneIsNoView, NEW root \in Roots, NEW a \in Options[root], NEW b \in Options[root],
         NEW value \in Built[root], Admits(a, b), Marshals(value, a), Understood(value, a)
  PROVE  Unmarshal(Encode(value, a), b) = AsRead(value, a) /\ AsRead(value, a) # Refused
<1>1. Root(a) = root /\ Root(b) = root
  BY RootOfOptions
<1>2. CASE root = "atomic"
  <2>1. AdmitsAtomic(a, b) /\ AtomicDocumentValid(value, a)
    BY <1>1, <1>2 DEF Admits, Marshals, Checked
  <2>2. /\ AtomicMembersRegistered(value)
        /\ ListHasContent(value.core.operations) /\ ListHasContent(value.core.results)
    BY <1>1, <1>2 DEF Understood, HasKnownMembers, ListHasContent, ItemsOf
  <2>3. /\ DecodeAtomic(EncodeAtomic(value)) = AtomicAsRead(value)
        /\ DecodeAtomic(EncodeAtomic(value)) # Refused
        /\ AtomicDocumentValid(AtomicAsRead(value), b)
    BY <1>2, <2>1, <2>2, AtomicIsDelivered
  <2> QED
    BY <1>1, <1>2, <2>3 DEF Unmarshal, Judged, Decode, Encode, Checked, AsRead
<1>3. CASE root = "document"
  <2>1. AdmitsDocument(a, b) /\ MembersRegistered(value) /\ DocumentValid(value, a)
    BY <1>1, <1>3 DEF Admits, Marshals, Checked
  <2>2. DataHasContent(value.core.data) /\ DataHasContent(value.core.included)
    BY <1>1, <1>3 DEF Understood
  <2>3. /\ DecodeDocument(EncodeDocument(value)) = WholeAsRead("document", value)
        /\ DecodeDocument(EncodeDocument(value)) # Refused
        /\ DocumentValid(WholeAsRead("document", value), b)
    BY <1>3, <2>1, <2>2, DocumentIsDelivered
  <2> QED
    BY <1>1, <1>3, <2>3 DEF Unmarshal, Judged, Decode, Encode, Checked, AsRead
<1> QED
  BY <1>2, <1>3 DEF Roots

\* Of a document that is sent: it has been built, it is on its way once the sender
\* has marshaled it, and the receiver refuses or holds what it has read of it.
DeliverInv ==
  /\ pc \in {"write", "unsent", "read", "refused", "relay", "stuck", "relayed"}
  /\ \E root \in Roots :
       /\ options \in Parties(Options[root])
       /\ sent # Nil =>
            /\ sent \in Built[root] /\ Admits(options.sender, options.receiver)
            /\ pc \in {"write", "unsent", "read", "refused"} => held = Nil
            /\ pc \notin {"write", "unsent"} => Marshals(sent, options.sender)
            /\ pc = "read" => wire = Encode(sent, options.sender)
            /\ pc = "refused" => Unmarshal(Encode(sent, options.sender), options.receiver) = Refused
            /\ pc \in {"relay", "stuck", "relayed"} =>
                 held = Unmarshal(Encode(sent, options.sender), options.receiver)

\* MarshalWith and UnmarshalWith, and their Atomic counterparts: whatever documents
\* are built and whatever the options of the parties, a receiver whose context
\* demands no more than the sender's accepts what the sender has written, if it
\* knows its members and no relationship consists of what it ignores, and holds the
\* document that was built, with every member that was present.
THEOREM DeliversFaithfully == ASSUME NoneIsNoView PROVE ExchangeSpec => []DeliversWhatIsSent
<1>1. ExchangeInit => DeliverInv
  BY DEF ExchangeInit, DeliverInv
<1>2. DeliverInv /\ [ExchangeNext]_exchangeVars => DeliverInv'
  <2> SUFFICES ASSUME DeliverInv, [ExchangeNext]_exchangeVars PROVE DeliverInv'
    OBVIOUS
  <2>1. CASE Write
    BY <2>1 DEF Write, DeliverInv
  <2>2. CASE Read
    <3>1. /\ pc = "read" /\ UNCHANGED <<options, sent>>
          /\ \/ /\ pc' = "relay" /\ held' = Unmarshal(wire, options.receiver)
             \/ /\ pc' = "refused" /\ held' = held
                /\ Unmarshal(wire, options.receiver) = Refused
      BY <2>2 DEF Read
    <3> QED
      BY <3>1 DEF DeliverInv
  <2>3. CASE Relay
    <3>1. pc = "relay" /\ pc' \in {"relayed", "stuck"} /\ UNCHANGED <<options, sent, held>>
      BY <2>3 DEF Relay
    <3> QED
      BY <3>1 DEF DeliverInv
  <2>4. CASE UNCHANGED exchangeVars
    BY <2>4 DEF exchangeVars, DeliverInv
  <2> QED
    BY <2>1, <2>2, <2>3, <2>4 DEF ExchangeNext
<1>3. DeliverInv => DeliversWhatIsSent
  <2> SUFFICES ASSUME DeliverInv, sent # Nil, Understood(sent, options.sender)
               PROVE  pc # "refused" /\ (held # Nil => held = AsRead(sent, options.sender))
    BY DEF DeliversWhatIsSent
  <2>1. PICK root \in Roots :
          /\ options \in Parties(Options[root])
          /\ sent \in Built[root] /\ Admits(options.sender, options.receiver)
          /\ pc \in {"write", "unsent", "read", "refused"} => held = Nil
          /\ pc \notin {"write", "unsent"} => Marshals(sent, options.sender)
          /\ pc = "refused" => Unmarshal(Encode(sent, options.sender), options.receiver) = Refused
          /\ pc \in {"relay", "stuck", "relayed"} =>
               held = Unmarshal(Encode(sent, options.sender), options.receiver)
    BY DEF DeliverInv
  <2>2. options.sender \in Options[root] /\ options.receiver \in Options[root]
    BY <2>1 DEF Parties
  <2>3. pc \notin {"write", "unsent"} =>
          /\ Unmarshal(Encode(sent, options.sender), options.receiver) = AsRead(sent, options.sender)
          /\ AsRead(sent, options.sender) # Refused
    BY <2>1, <2>2, SentIsRead
  <2> QED
    BY <2>1, <2>3 DEF DeliverInv
<1> QED
  BY <1>1, <1>2, <1>3, PTL DEF ExchangeSpec
=============================================================================
