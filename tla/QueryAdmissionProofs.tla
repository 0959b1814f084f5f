--------------------------- MODULE QueryAdmissionProofs ---------------------------
(***************************************************************************)
(* For queries and limits of any size, in whatever order Go ranges over    *)
(* the maps: QueryParser and CursorPagination refuse for its size what     *)
(* exceeds their limits and nothing else, though the one adds up to them   *)
(* and the other subtracts from them, and the second never refuses what    *)
(* the first has accepted under the same limits.                           *)
(***************************************************************************)
EXTENDS QueryAdmission, FiniteSetTheorems, TLAPS

-----------------------------------------------------------------------------
(* Induction, in the form of sets *)

\* A set of naturals has a least member.
LEMMA LeastNatural ==
  ASSUME NEW S, S \subseteq Nat, S # {}
  PROVE  \E m \in S : \A d \in S : ~(d < m)
<1>1. PICK m \in S : \A d \in S : <<d, m>> \notin OpToRel(<, Nat)
  BY WFMin, NatLessThanWellFounded, Zenon
<1>2. ASSUME NEW d \in S, d < m PROVE FALSE
  <2>1. d \in Nat /\ m \in Nat
    BY <1>1
  <2>2. <<d, m>> \in OpToRel(<, Nat)
    BY <1>2, <2>1, Zenon DEF OpToRel
  <2>3. QED
    BY <1>1, <2>2, Zenon
<1>3. QED
  BY <1>1, <1>2

\* Induction over the subsets of a finite set, one member at a time.
LEMMA SubsetInduction ==
  ASSUME NEW D, IsFiniteSet(D), NEW G, {} \in G,
         \A s \in SUBSET D : s # {} /\ (\A x \in s : s \ {x} \in G) => s \in G
  PROVE  SUBSET D \subseteq G
<1> DEFINE bad == {s \in SUBSET D : s \notin G}
<1> SUFFICES ASSUME bad # {} PROVE FALSE
  OBVIOUS
<1> DEFINE sizes == {Cardinality(s) : s \in bad}
<1>1. \A s \in SUBSET D : IsFiniteSet(s) /\ Cardinality(s) \in Nat
  BY FS_Subset, FS_CardinalityType
<1>2. sizes \subseteq Nat /\ sizes # {}
  BY <1>1
<1> HIDE DEF sizes
<1>3. PICK m \in sizes : \A d \in sizes : ~(d < m)
  BY <1>2, LeastNatural
<1>4. PICK s \in bad : m = Cardinality(s)
  BY <1>3 DEF sizes
<1>5. ASSUME NEW x \in s PROVE s \ {x} \in G
  <2>1. Cardinality(s \ {x}) < m
    BY <1>1, <1>4, FS_RemoveElement
  <2>2. Cardinality(s \ {x}) \notin sizes
    BY <1>3, <2>1
  <2>3. QED
    BY <2>2 DEF sizes
<1>6. QED
  BY <1>4, <1>5

-----------------------------------------------------------------------------
(* Sum, which folds over the domain of a function in the order of CHOOSE *)

Chosen(s) == CHOOSE x \in s : TRUE

SumStep(f, fold, s) == IF s = {} THEN 0 ELSE f[Chosen(s)] + fold[s \ {Chosen(s)}]

IsFold(f, fold) == fold = [s \in SUBSET DOMAIN f |-> SumStep(f, fold, s)]

LEMMA ChosenIsMember == \A s : s # {} => Chosen(s) \in s
BY DEF Chosen

\* The recursive function that Sum chooses exists.
LEMMA FoldExists ==
  ASSUME NEW f, NEW D, IsFiniteSet(D), f \in [D -> Nat]
  PROVE  \E fold : IsFold(f, fold)
<1> DEFINE Folds(n) == {g \in [SUBSET D -> Nat] :
                         \A s \in SUBSET D : Cardinality(s) <= n => g[s] = SumStep(f, g, s)}
           without == {n \in Nat : Folds(n) = {}}
<1>1. \A s \in SUBSET D : IsFiniteSet(s) /\ Cardinality(s) \in Nat
  BY FS_Subset, FS_CardinalityType
<1>2. Folds(0) # {}
  <2>1. [s \in SUBSET D |-> 0] \in Folds(0)
    <3>1. \A s \in SUBSET D : Cardinality(s) <= 0 => s = {}
      BY <1>1, FS_EmptySet
    <3>2. QED
      BY <3>1 DEF SumStep
  <2>2. QED
    BY <2>1
<1>3. ASSUME NEW n \in Nat, Folds(n) # {} PROVE Folds(n + 1) # {}
  <2>1. PICK g \in [SUBSET D -> Nat] :
          \A s \in SUBSET D : Cardinality(s) <= n => g[s] = SumStep(f, g, s)
    BY <1>3
  <2> DEFINE h == [s \in SUBSET D |-> SumStep(f, g, s)]
  <2>2. \A s \in SUBSET D : SumStep(f, g, s) \in Nat
    BY ChosenIsMember DEF SumStep
  <2>3. h \in [SUBSET D -> Nat]
    BY <2>2
  <2>4. ASSUME NEW s \in SUBSET D, Cardinality(s) <= n + 1 PROVE h[s] = SumStep(f, h, s)
    <3>1. CASE s = {}
      BY <3>1 DEF SumStep
    <3>2. CASE s # {}
      <4> DEFINE rest == s \ {Chosen(s)}
      <4>1. rest \in SUBSET D /\ Cardinality(rest) <= n
        BY <1>1, <2>4, <3>2, ChosenIsMember, FS_RemoveElement
      <4>2. h[rest] = g[rest]
        BY <2>1, <4>1
      <4>3. h[s] = f[Chosen(s)] + g[rest]
        BY <3>2 DEF SumStep
      <4>4. SumStep(f, h, s) = f[Chosen(s)] + h[rest]
        BY <3>2 DEF SumStep
      <4>5. QED
        BY <4>2, <4>3, <4>4
    <3>3. QED
      BY <3>1, <3>2
  <2>5. h \in Folds(n + 1)
    BY <2>3, <2>4
  <2>6. QED
    BY <2>5
<1> HIDE DEF Folds
<1>4. without = {}
  <2> SUFFICES ASSUME without # {} PROVE FALSE
    OBVIOUS
  <2>1. PICK m \in without : \A d \in without : ~(d < m)
    BY LeastNatural
  <2>2. m # 0 /\ m - 1 \in Nat /\ m - 1 < m /\ (m - 1) + 1 = m
    BY <1>2
  <2>3. Folds(m - 1) # {}
    BY <2>1, <2>2
  <2>4. QED
    BY <1>3, <2>2, <2>3
<1>5. Folds(Cardinality(D)) # {}
  BY <1>1, <1>4
<1>6. PICK g \in [SUBSET D -> Nat] :
        \A s \in SUBSET D : Cardinality(s) <= Cardinality(D) => g[s] = SumStep(f, g, s)
  BY <1>5 DEF Folds
<1>7. \A s \in SUBSET D : g[s] = SumStep(f, g, s)
  BY <1>6, FS_Subset
<1>8. g = [s \in SUBSET D |-> SumStep(f, g, s)] /\ DOMAIN f = D
  BY <1>6, <1>7
<1>9. QED
  BY <1>8 DEF IsFold

\* In whatever order, a member more adds what it stands for.
LEMMA FoldSplits ==
  ASSUME NEW f, NEW D, IsFiniteSet(D), f \in [D -> Nat], NEW fold, IsFold(f, fold)
  PROVE  /\ fold[{}] = 0
         /\ \A s \in SUBSET D : fold[s] \in Nat
         /\ \A s \in SUBSET D : \A x \in s : fold[s] = f[x] + fold[s \ {x}]
<1>1. \A s \in SUBSET D : fold[s] = SumStep(f, fold, s)
  BY Zenon DEF IsFold
<1>2. fold[{}] = 0
  BY <1>1 DEF SumStep
<1>3. \A s \in SUBSET D : s # {} => Chosen(s) \in s /\ fold[s] = f[Chosen(s)] + fold[s \ {Chosen(s)}]
  BY <1>1, ChosenIsMember DEF SumStep
<1> DEFINE typed == {s \in SUBSET D : fold[s] \in Nat}
           split == {s \in SUBSET D : \A x \in s : fold[s] = f[x] + fold[s \ {x}]}
<1>4. SUBSET D \subseteq typed
  <2>1. {} \in typed
    BY <1>2
  <2>2. ASSUME NEW s \in SUBSET D, s # {}, \A x \in s : s \ {x} \in typed PROVE s \in typed
    <3> DEFINE y == Chosen(s)
    <3>1. y \in s /\ fold[s] = f[y] + fold[s \ {y}]
      BY <1>3, <2>2
    <3> HIDE DEF y
    <3>2. fold[s \ {y}] \in Nat /\ f[y] \in Nat
      BY <2>2, <3>1
    <3>3. QED
      BY <3>1, <3>2
  <2> HIDE DEF typed
  <2>3. QED
    BY <2>1, <2>2, SubsetInduction
<1>5. SUBSET D \subseteq split
  <2>1. {} \in split
    OBVIOUS
  <2>2. ASSUME NEW s \in SUBSET D, s # {}, \A x \in s : s \ {x} \in split PROVE s \in split
    <3> SUFFICES ASSUME NEW x \in s, x # Chosen(s) PROVE fold[s] = f[x] + fold[s \ {x}]
      BY <1>3, <2>2
    <3> DEFINE y == Chosen(s)
    <3>1. y \in s /\ fold[s] = f[y] + fold[s \ {y}]
      BY <1>3, <2>2
    <3> HIDE DEF y
    <3>2. fold[s \ {y}] = f[x] + fold[(s \ {y}) \ {x}]
      BY <2>2, <3>1 DEF y
    <3>3. fold[s \ {x}] = f[y] + fold[(s \ {x}) \ {y}]
      BY <2>2, <3>1 DEF y
    <3>4. (s \ {y}) \ {x} = (s \ {x}) \ {y}
      OBVIOUS
    <3>5. f[x] \in Nat /\ f[y] \in Nat /\ fold[(s \ {x}) \ {y}] \in Nat
      BY <1>4, <3>1
    <3>6. QED
      BY <3>1, <3>2, <3>3, <3>4, <3>5
  <2> HIDE DEF split
  <2>3. QED
    BY <2>1, <2>2, SubsetInduction
<1>6. QED
  BY <1>2, <1>4, <1>5

\* A function folds to the same over a set, whatever more it is defined for.
LEMMA FoldsAgree ==
  ASSUME NEW f, NEW D, IsFiniteSet(D), f \in [D -> Nat], NEW S \in SUBSET D, NEW g,
         g = [x \in S |-> f[x]], NEW foldF, IsFold(f, foldF), NEW foldG, IsFold(g, foldG)
  PROVE  foldG[S] = foldF[S]
<1>1. IsFiniteSet(S) /\ g \in [S -> Nat]
  BY FS_Subset
<1> DEFINE same == {s \in SUBSET S : foldG[s] = foldF[s]}
<1>2. {} \in same
  BY <1>1, FoldSplits
<1>3. ASSUME NEW s \in SUBSET S, s # {}, \A x \in s : s \ {x} \in same PROVE s \in same
  <2>1. PICK x \in s : foldG[s \ {x}] = foldF[s \ {x}]
    BY <1>3
  <2>2. foldF[s] = f[x] + foldF[s \ {x}]
    BY FoldSplits
  <2>3. foldG[s] = g[x] + foldG[s \ {x}]
    BY <1>1, FoldSplits
  <2>4. QED
    BY <2>1, <2>2, <2>3
<1> HIDE DEF same
<1>4. SUBSET S \subseteq same
  BY <1>1, <1>2, <1>3, SubsetInduction
<1>5. QED
  BY <1>4 DEF same

SumOver(f, S) == Sum([x \in S |-> f[x]])

LEMMA SumIsFold == \A f : Sum(f) = (CHOOSE fold : IsFold(f, fold))[DOMAIN f]
BY Zenon DEF Sum, FoldFunction, FoldFunctionOnSet, MapThenFoldSet, IsFold, SumStep, Chosen

\* What the sums over the parts of the domain of a function are.
LEMMA SumOverFacts ==
  ASSUME NEW f, NEW D, IsFiniteSet(D), f \in [D -> Nat]
  PROVE  /\ SumOver(f, {}) = 0
         /\ SumOver(f, D) = Sum(f)
         /\ \A S \in SUBSET D : SumOver(f, S) \in Nat
         /\ \A S \in SUBSET D : \A x \in S : SumOver(f, S) = f[x] + SumOver(f, S \ {x})
         /\ \A S \in SUBSET D : \A T \in SUBSET S : SumOver(f, T) <= SumOver(f, S)
<1>1. PICK fold : IsFold(f, fold)
  BY FoldExists
<1>2. ASSUME NEW S \in SUBSET D PROVE SumOver(f, S) = fold[S]
  <2> DEFINE g == [x \in S |-> f[x]]
  <2>1. IsFiniteSet(S) /\ g \in [S -> Nat] /\ DOMAIN g = S
    BY FS_Subset
  <2>2. PICK foldG : foldG = (CHOOSE h : IsFold(g, h)) /\ IsFold(g, foldG)
    <3>1. \E h : IsFold(g, h)
      BY <2>1, FoldExists
    <3>2. QED
      BY <3>1, Zenon
  <2>3. Sum(g) = foldG[S]
    BY <2>1, <2>2, SumIsFold, Zenon
  <2>4. foldG[S] = fold[S]
    BY <1>1, <2>2, FoldsAgree
  <2>5. QED
    BY <2>3, <2>4 DEF SumOver
<1>3. /\ fold[{}] = 0
      /\ \A s \in SUBSET D : fold[s] \in Nat
      /\ \A s \in SUBSET D : \A x \in s : fold[s] = f[x] + fold[s \ {x}]
  BY <1>1, FoldSplits
<1> DEFINE grows == {s \in SUBSET D : \A t \in SUBSET s : fold[t] <= fold[s]}
<1>4. SUBSET D \subseteq grows
  <2>1. {} \in grows
    <3>1. fold[{}] <= fold[{}] /\ \A t \in SUBSET {} : t = {}
      BY <1>3
    <3>2. QED
      BY <3>1
  <2>2. ASSUME NEW s \in SUBSET D, s # {}, \A x \in s : s \ {x} \in grows PROVE s \in grows
    <3> SUFFICES ASSUME NEW t \in SUBSET s, t # s PROVE fold[t] <= fold[s]
      BY <1>3
    <3>1. PICK x \in s : x \notin t
      OBVIOUS
    <3>2. fold[t] <= fold[s \ {x}]
      BY <2>2, <3>1
    <3>3. /\ fold[s] = f[x] + fold[s \ {x}] /\ f[x] \in Nat
          /\ fold[s \ {x}] \in Nat /\ fold[t] \in Nat
      BY <1>3, <3>1
    <3>4. QED
      BY <3>2, <3>3
  <2> HIDE DEF grows
  <2>3. QED
    BY <2>1, <2>2, SubsetInduction
<1>5. SumOver(f, D) = Sum(f)
  BY DEF SumOver
<1>6. ASSUME NEW S \in SUBSET D, NEW x \in S PROVE SumOver(f, S) = f[x] + SumOver(f, S \ {x})
  BY <1>2, <1>3
<1>7. ASSUME NEW S \in SUBSET D, NEW T \in SUBSET S PROVE SumOver(f, T) <= SumOver(f, S)
  BY <1>2, <1>4
<1>8. QED
  BY <1>2, <1>3, <1>5, <1>6, <1>7

-----------------------------------------------------------------------------
(* What a query weighs *)

Charge(query) == [n \in DOMAIN query |-> query[n].bytes + ValueBytes(query[n])]
Amount(query) == [n \in DOMAIN query |-> Len(query[n].values)]

Small(max, p) == p.bytes <= max.MaxNameBytes /\ ~LongValue(p, max.MaxValueBytes)

\* Within, of the parameters S of a query.
Fits(max, query, S) ==
  /\ Cardinality(S) <= max.MaxParameters
  /\ \A n \in S : Small(max, query[n])
  /\ SumOver(Amount(query), S) <= max.MaxValues
  /\ SumOver(Charge(query), S) <= max.MaxTotalBytes

\* The bytes that a field adds to the text of a list.
Sizes(items) ==
  [k \in DOMAIN items |->
     items[k].bytes + (IF k > 1 THEN 1 ELSE 0) + (IF items[k].descending THEN 1 ELSE 0)]

Prefix(items, k) == SumOver(Sizes(items), 1..k)

LEMMA QueryShape ==
  ASSUME NEW query \in Queries
  PROVE  /\ IsFiniteSet(DOMAIN query) /\ DOMAIN query \subseteq Nat
         /\ \A n \in DOMAIN query : query[n] \in Parameters
BY QueriesTyped

LEMMA ValueBytesIsNat ==
  ASSUME NEW p \in Parameters
  PROVE  ValueBytes(p) \in Nat /\ p.bytes \in Nat /\ Len(p.values) \in Nat
<1> DEFINE f == [k \in DOMAIN p.values |-> p.values[k].bytes]
<1> DEFINE texts == [bytes : Nat, valid : BOOLEAN, items : Seq(Fields)]
<1>1. p.values \in Seq(texts) /\ p.bytes \in Nat
  BY DEF Parameters
<1>2. \A v \in texts : v.bytes \in Nat
  OBVIOUS
<1> HIDE DEF texts
<1>3. /\ Len(p.values) \in Nat /\ DOMAIN p.values = 1..Len(p.values)
      /\ \A k \in DOMAIN p.values : p.values[k] \in texts
  BY <1>1
<1>4. f \in [DOMAIN p.values -> Nat]
  BY <1>2, <1>3
<1>5. IsFiniteSet(DOMAIN p.values)
  BY <1>3, FS_Interval
<1>6. Sum(f) \in Nat
  BY <1>4, <1>5, SumOverFacts
<1>7. QED
  BY <1>1, <1>3, <1>6 DEF ValueBytes

LEMMA ChargeTyped ==
  ASSUME NEW query \in Queries
  PROVE  /\ Charge(query) \in [DOMAIN query -> Nat] /\ Amount(query) \in [DOMAIN query -> Nat]
         /\ IsFiniteSet(DOMAIN query)
BY QueryShape, ValueBytesIsNat DEF Charge, Amount

\* Within, of the query that has the parameters S only.
LEMMA WithinIsFits ==
  ASSUME NEW query \in Queries, NEW S \in SUBSET DOMAIN query, NEW max
  PROVE  Within(max, [n \in S |-> query[n]]) <=> Fits(max, query, S)
<1> DEFINE part == [n \in S |-> query[n]]
<1>1. DOMAIN part = S /\ \A n \in S : part[n] = query[n]
  OBVIOUS
<1> HIDE DEF part
<1>2. /\ [n \in DOMAIN part |-> Len(part[n].values)] = [n \in S |-> Amount(query)[n]]
      /\ [n \in DOMAIN part |-> part[n].bytes + ValueBytes(part[n])] = [n \in S |-> Charge(query)[n]]
  BY <1>1 DEF Amount, Charge
<1>3. /\ Sum([n \in DOMAIN part |-> Len(part[n].values)]) = SumOver(Amount(query), S)
      /\ Sum([n \in DOMAIN part |-> part[n].bytes + ValueBytes(part[n])]) = SumOver(Charge(query), S)
  BY <1>2, Zenon DEF SumOver
<1>4. Within(max, part) <=> Fits(max, query, S)
  BY <1>1, <1>3 DEF Within, Fits, Small
<1>5. QED
  BY <1>4 DEF part

LEMMA FitsParts ==
  ASSUME NEW query \in Queries, NEW S \in SUBSET DOMAIN query, NEW T \in SUBSET S,
         NEW max \in Limits, Fits(max, query, S)
  PROVE  Fits(max, query, T)
<1>1. /\ SumOver(Amount(query), T) <= SumOver(Amount(query), S)
      /\ SumOver(Charge(query), T) <= SumOver(Charge(query), S)
      /\ SumOver(Amount(query), T) \in Nat /\ SumOver(Amount(query), S) \in Nat
      /\ SumOver(Charge(query), T) \in Nat /\ SumOver(Charge(query), S) \in Nat
  BY ChargeTyped, SumOverFacts
<1>2. Cardinality(T) <= Cardinality(S) /\ Cardinality(T) \in Nat /\ Cardinality(S) \in Nat
  BY ChargeTyped, FS_Subset, FS_CardinalityType
<1>3. max.MaxParameters \in Nat /\ max.MaxValues \in Nat /\ max.MaxTotalBytes \in Nat
  BY DEF Limits
<1>4. QED
  BY <1>1, <1>2, <1>3 DEF Fits

\* What one parameter more adds.
LEMMA Adds ==
  ASSUME NEW query \in Queries, NEW S \in SUBSET DOMAIN query, NEW n \in DOMAIN query, n \notin S
  PROVE  /\ SumOver(Charge(query), S \cup {n})
              = SumOver(Charge(query), S) + query[n].bytes + ValueBytes(query[n])
         /\ SumOver(Amount(query), S \cup {n}) = SumOver(Amount(query), S) + Len(query[n].values)
         /\ SumOver(Charge(query), S) \in Nat /\ SumOver(Amount(query), S) \in Nat
<1>1. /\ S \cup {n} \in SUBSET DOMAIN query /\ n \in S \cup {n} /\ (S \cup {n}) \ {n} = S
  OBVIOUS
<1>2. /\ SumOver(Charge(query), S \cup {n}) = Charge(query)[n] + SumOver(Charge(query), S)
      /\ SumOver(Amount(query), S \cup {n}) = Amount(query)[n] + SumOver(Amount(query), S)
      /\ SumOver(Charge(query), S) \in Nat /\ SumOver(Amount(query), S) \in Nat
  BY <1>1, ChargeTyped, SumOverFacts
<1>3. query[n].bytes \in Nat /\ ValueBytes(query[n]) \in Nat /\ Len(query[n].values) \in Nat
  BY QueryShape, ValueBytesIsNat
<1>4. QED
  BY <1>2, <1>3 DEF Charge, Amount

\* The text of a list, field by field.
LEMMA PrefixFacts ==
  ASSUME NEW items \in Seq(Fields)
  PROVE  /\ Prefix(items, 0) = 0
         /\ Prefix(items, Len(items)) = Encoded(items)
         /\ \A k \in 0..Len(items) : Prefix(items, k) \in Nat /\ Prefix(items, k) <= Encoded(items)
         /\ \A k \in 0..(Len(items) - 1) : Prefix(items, k + 1) = Prefix(items, k) + Sizes(items)[k + 1]
<1>1. Len(items) \in Nat /\ DOMAIN items = 1..Len(items) /\ IsFiniteSet(DOMAIN items)
  BY FS_Interval
<1>2. \A k \in DOMAIN items : items[k].bytes \in Nat
  <2>1. \A k \in DOMAIN items : items[k] \in Fields
    BY <1>1
  <2>2. QED
    BY <2>1 DEF Fields
<1>3. Sizes(items) \in [DOMAIN items -> Nat]
  BY <1>1, <1>2 DEF Sizes
<1>4. /\ SumOver(Sizes(items), {}) = 0
      /\ SumOver(Sizes(items), DOMAIN items) = Encoded(items)
      /\ \A S \in SUBSET DOMAIN items : SumOver(Sizes(items), S) \in Nat
      /\ \A S \in SUBSET DOMAIN items : \A x \in S :
           SumOver(Sizes(items), S) = Sizes(items)[x] + SumOver(Sizes(items), S \ {x})
      /\ \A S \in SUBSET DOMAIN items : \A T \in SUBSET S :
           SumOver(Sizes(items), T) <= SumOver(Sizes(items), S)
  BY <1>1, <1>3, SumOverFacts DEF Sizes, Encoded
<1>5. 1..0 = {} /\ \A k \in 0..Len(items) : 1..k \in SUBSET DOMAIN items
  BY <1>1
<1>6. ASSUME NEW k \in 0..(Len(items) - 1)
      PROVE  Prefix(items, k + 1) = Prefix(items, k) + Sizes(items)[k + 1]
  <2>1. 1..(k + 1) \in SUBSET DOMAIN items /\ k + 1 \in 1..(k + 1) /\ (1..(k + 1)) \ {k + 1} = 1..k
    BY <1>1
  <2>2. SumOver(Sizes(items), 1..(k + 1)) = Sizes(items)[k + 1] + SumOver(Sizes(items), 1..k)
    BY <1>4, <2>1
  <2>3. SumOver(Sizes(items), 1..k) \in Nat /\ Sizes(items)[k + 1] \in Nat
    BY <1>1, <1>3, <1>4, <1>5
  <2>4. QED
    BY <2>2, <2>3 DEF Prefix
<1>7. QED
  BY <1>1, <1>4, <1>5, <1>6 DEF Prefix

-----------------------------------------------------------------------------
(* What cursor pagination reads of a query that the parser accepts *)

AllAccepted == \A n \in DOMAIN values : FamilyRefusal(values[n]) = "none"

IsSmall == Within(DefaultLimits, Paged) /\ Len(SortFields) <= DefaultLimits.MaxListItems

LEMMA LimitsFacts ==
  /\ DefaultLimits \in Limits /\ ParserLimits \subseteq Limits
  /\ \A max \in Limits :
       /\ max.MaxParameters \in Nat \ {0} /\ max.MaxNameBytes \in Nat \ {0}
       /\ max.MaxValues \in Nat \ {0} /\ max.MaxValueBytes \in Nat \ {0}
       /\ max.MaxTotalBytes \in Nat \ {0} /\ max.MaxListItems \in Nat \ {0}
  /\ SortNameBytes \in Nat /\ SortNameBytes <= DefaultLimits.MaxNameBytes
<1>1. /\ DefaultLimits \in Limits /\ ParserLimits \subseteq Limits
      /\ SortNameBytes \in 1..DefaultLimits.MaxNameBytes
  BY LimitsArePositive
<1>2. \A max \in Limits :
        /\ max.MaxParameters \in Nat \ {0} /\ max.MaxNameBytes \in Nat \ {0}
        /\ max.MaxValues \in Nat \ {0} /\ max.MaxValueBytes \in Nat \ {0}
        /\ max.MaxTotalBytes \in Nat \ {0} /\ max.MaxListItems \in Nat \ {0}
  BY DEF Limits
<1>3. QED
  BY <1>1, <1>2

\* The one sort parameter of a query that is accepted is the text of its fields.
LEMMA SortFacts ==
  ASSUME values \in Queries, limits \in Limits, AllAccepted, SortFields # <<>>
  PROVE  \E n \in DOMAIN values :
           /\ SortNames = {n} /\ n \notin PageNames
           /\ values[n].bytes = SortNameBytes /\ Len(values[n].values) = 1
           /\ ValueBytes(values[n]) = Encoded(SortFields)
           /\ \A max : LongValue(values[n], max) <=> Encoded(SortFields) > max
           /\ SortFields \in Seq(Fields) /\ Len(SortFields) <= limits.MaxListItems
<1>1. SortNames # {} /\ SortNames \subseteq DOMAIN values
  BY DEF SortFields, SortNames
<1> DEFINE n == CHOOSE name \in SortNames : TRUE
<1>2. n \in SortNames /\ SortFields = values[n].values[1].items
  BY <1>1, Zenon DEF SortFields
<1> HIDE DEF n
<1>3. n \in DOMAIN values /\ values[n].family = "sort" /\ values[n] \in Parameters
  BY <1>2, QueryShape DEF SortNames
<1>4. ASSUME NEW m \in SortNames
      PROVE  /\ values[m].family = "sort" /\ values[m].selectors = 0 /\ Len(values[m].values) = 1
             /\ Len(values[m].values[1].items) <= limits.MaxListItems
  <2>1. m \in DOMAIN values /\ values[m].family = "sort" /\ FamilyRefusal(values[m]) = "none"
    BY DEF SortNames, AllAccepted
  <2>2. /\ values[m].selectors = 0 /\ Len(values[m].values) = 1
        /\ ~(Len(values[m].values[1].items) > limits.MaxListItems)
    BY <2>1 DEF FamilyRefusal, Lists
  <2>3. Len(values[m].values[1].items) \in Nat
    <3> DEFINE texts == [bytes : Nat, valid : BOOLEAN, items : Seq(Fields)]
    <3>1. values[m].values \in Seq(texts)
      BY <2>1, QueryShape DEF Parameters
    <3> HIDE DEF texts
    <3>2. values[m].values[1] \in texts
      BY <2>2, <3>1
    <3>3. QED
      BY <3>2 DEF texts
  <2>4. QED
    BY <2>1, <2>2, <2>3, LimitsFacts
<1>5. SortNames = {n}
  <2>1. ASSUME NEW m \in SortNames PROVE m = n
    BY <1>2, <1>4, QueriesWellFormed DEF SortNames
  <2>2. QED
    BY <1>2, <2>1
<1>6. values[n].bytes = SortNameBytes
  BY <1>2, <1>3, <1>4, QueriesWellFormed
<1>7. /\ Len(values[n].values) = 1 /\ DOMAIN values[n].values = {1}
      /\ values[n].values[1] \in [bytes : Nat, valid : BOOLEAN, items : Seq(Fields)]
  <2> DEFINE texts == [bytes : Nat, valid : BOOLEAN, items : Seq(Fields)]
  <2>1. values[n].values \in Seq(texts)
    BY <1>3 DEF Parameters
  <2> HIDE DEF texts
  <2>2. Len(values[n].values) = 1
    BY <1>2, <1>4
  <2>3. DOMAIN values[n].values = {1} /\ values[n].values[1] \in texts
    BY <2>1, <2>2
  <2>4. QED
    BY <2>2, <2>3 DEF texts
<1>8. values[n].values[1].bytes = Encoded(SortFields)
  <2>1. values[n].values[1] \in Range(values[n].values)
    BY <1>7 DEF Range
  <2>2. QED
    BY <1>2, <1>3, <2>1, QueriesWellFormed DEF Lists
<1>9. SortFields \in Seq(Fields) /\ Encoded(SortFields) \in Nat
  BY <1>2, <1>7, <1>8
<1>10. ValueBytes(values[n]) = Encoded(SortFields)
  <2> DEFINE f == [k \in DOMAIN values[n].values |-> values[n].values[k].bytes]
  <2>1. f \in [{1} -> Nat] /\ f[1] = Encoded(SortFields) /\ IsFiniteSet({1})
    BY <1>7, <1>8, <1>9, FS_Singleton
  <2> HIDE DEF f
  <2>2. Sum(f) = f[1] + 0
    <3>1. SumOver(f, {1}) = f[1] + SumOver(f, {1} \ {1})
      BY <2>1, SumOverFacts
    <3>2. SumOver(f, {}) = 0 /\ SumOver(f, {1}) = Sum(f) /\ {1} \ {1} = {}
      BY <2>1, SumOverFacts
    <3>3. QED
      BY <3>1, <3>2
  <2>3. QED
    BY <1>9, <2>1, <2>2 DEF ValueBytes, f
<1>11. \A max : LongValue(values[n], max) <=> Encoded(SortFields) > max
  BY <1>7, <1>8 DEF LongValue
<1>12. n \notin PageNames
  BY <1>3 DEF PageNames
<1>13. Len(SortFields) <= limits.MaxListItems
  BY <1>2, <1>4
<1>14. QED
  BY <1>3, <1>5, <1>6, <1>7, <1>9, <1>10, <1>11, <1>12, <1>13

\* IsSmall, of the page family and the sort fields.
PageFits(names) ==
  /\ \A n \in names : Small(DefaultLimits, values[n])
  /\ SumOver(Amount(values), names) <= DefaultLimits.MaxValues
  /\ SumOver(Charge(values), names) <= DefaultLimits.MaxTotalBytes

SortFits ==
  /\ Cardinality(PageNames) + 1 <= DefaultLimits.MaxParameters
  /\ SumOver(Amount(values), PageNames) + 1 <= DefaultLimits.MaxValues
  /\ Encoded(SortFields) <= DefaultLimits.MaxValueBytes
  /\ SumOver(Charge(values), PageNames) + SortNameBytes + Encoded(SortFields)
       <= DefaultLimits.MaxTotalBytes

LEMMA PageFacts ==
  ASSUME values \in Queries
  PROVE  /\ PageNames \subseteq DOMAIN values /\ IsFiniteSet(PageNames)
         /\ Cardinality(PageNames) \in Nat
         /\ \A S \in SUBSET DOMAIN values :
              SumOver(Charge(values), S) \in Nat /\ SumOver(Amount(values), S) \in Nat
<1>1. PageNames \subseteq DOMAIN values
  BY DEF PageNames
<1>2. QED
  BY <1>1, ChargeTyped, SumOverFacts, FS_Subset, FS_CardinalityType

LEMMA SmallIs ==
  ASSUME values \in Queries, limits \in Limits, AllAccepted
  PROVE  IsSmall <=> /\ Cardinality(PageNames) <= DefaultLimits.MaxParameters
                     /\ Len(SortFields) <= DefaultLimits.MaxListItems
                     /\ PageFits(PageNames)
                     /\ SortFields # <<>> => SortFits
<1>1. CASE SortFields = <<>>
  <2>1. Paged = [n \in PageNames |-> values[n]]
    BY <1>1 DEF Paged
  <2>2. Within(DefaultLimits, Paged) <=> Fits(DefaultLimits, values, PageNames)
    BY <2>1, WithinIsFits, PageFacts
  <2>3. QED
    BY <1>1, <2>2 DEF IsSmall, Fits, PageFits
<1>2. CASE SortFields # <<>>
  <2>1. PICK n \in DOMAIN values :
           /\ SortNames = {n} /\ n \notin PageNames
           /\ values[n].bytes = SortNameBytes /\ Len(values[n].values) = 1
           /\ ValueBytes(values[n]) = Encoded(SortFields)
           /\ \A max : LongValue(values[n], max) <=> Encoded(SortFields) > max
           /\ SortFields \in Seq(Fields)
    BY <1>2, SortFacts
  <2> DEFINE S == PageNames \cup {n}
  <2>2. S \in SUBSET DOMAIN values /\ Paged = [m \in S |-> values[m]]
    BY <1>2, <2>1, PageFacts DEF Paged
  <2>3. Within(DefaultLimits, Paged) <=> Fits(DefaultLimits, values, S)
    BY <2>2, WithinIsFits
  <2>4. Encoded(SortFields) \in Nat
    BY <2>1, QueryShape, ValueBytesIsNat
  <2>5. Small(DefaultLimits, values[n]) <=> Encoded(SortFields) <= DefaultLimits.MaxValueBytes
    BY <2>1, <2>4, LimitsFacts DEF Small
  <2>6. /\ SumOver(Charge(values), S)
              = SumOver(Charge(values), PageNames) + SortNameBytes + Encoded(SortFields)
        /\ SumOver(Amount(values), S) = SumOver(Amount(values), PageNames) + 1
    BY <2>1, PageFacts, Adds
  <2>7. Cardinality(S) = Cardinality(PageNames) + 1
    BY <2>1, PageFacts, FS_AddElement
  <2> HIDE DEF S
  <2>8. (\A m \in S : Small(DefaultLimits, values[m])) <=>
           (\A m \in PageNames : Small(DefaultLimits, values[m])) /\ Small(DefaultLimits, values[n])
    BY DEF S
  <2>9. Fits(DefaultLimits, values, S) <=>
          /\ Cardinality(PageNames) + 1 <= DefaultLimits.MaxParameters
          /\ \A m \in PageNames : Small(DefaultLimits, values[m])
          /\ Encoded(SortFields) <= DefaultLimits.MaxValueBytes
          /\ SumOver(Amount(values), PageNames) + 1 <= DefaultLimits.MaxValues
          /\ SumOver(Charge(values), PageNames) + SortNameBytes + Encoded(SortFields)
               <= DefaultLimits.MaxTotalBytes
    BY <2>5, <2>6, <2>7, <2>8 DEF Fits
  <2>10. /\ SumOver(Amount(values), PageNames) \in Nat /\ SumOver(Charge(values), PageNames) \in Nat
         /\ Cardinality(PageNames) \in Nat /\ SortNameBytes \in Nat
         /\ DefaultLimits.MaxParameters \in Nat /\ DefaultLimits.MaxValues \in Nat
         /\ DefaultLimits.MaxTotalBytes \in Nat
    BY PageFacts, LimitsFacts
  <2>11. SumOver(Amount(values), PageNames) + 1 <= DefaultLimits.MaxValues =>
           SumOver(Amount(values), PageNames) <= DefaultLimits.MaxValues
    BY <2>10
  <2>12. SumOver(Charge(values), PageNames) + SortNameBytes + Encoded(SortFields)
               <= DefaultLimits.MaxTotalBytes =>
           SumOver(Charge(values), PageNames) <= DefaultLimits.MaxTotalBytes
    BY <2>4, <2>10
  <2>13. Cardinality(PageNames) + 1 <= DefaultLimits.MaxParameters =>
           Cardinality(PageNames) <= DefaultLimits.MaxParameters
    BY <2>10
  <2>14. QED
    BY <1>2, <2>3, <2>9, <2>11, <2>12, <2>13 DEF IsSmall, PageFits, SortFits
<1>3. QED
  BY <1>1, <1>2

-----------------------------------------------------------------------------
(* The inductive invariant *)

Typed ==
  /\ TypeOK /\ values \in Queries
  /\ pending \in [Calls -> SUBSET DOMAIN values] /\ DOMAIN answer = Calls

\* What validateLimits has passed is within the limits, and it has the exact totals of it.
Counting(c) ==
  /\ pc[c] = "start" => bytes[c] = 0 /\ counted[c] = 0
  /\ pc[c] = "limits" =>
       LET passed == DOMAIN values \ pending[c] IN
       /\ Cardinality(DOMAIN values) <= limits.MaxParameters
       /\ \A n \in passed : Small(limits, values[n])
       /\ counted[c] = SumOver(Amount(values), passed) /\ counted[c] <= limits.MaxValues
       /\ bytes[c] = SumOver(Charge(values), passed) /\ bytes[c] <= limits.MaxTotalBytes

\* Parse has accepted what it has passed, and all the parameters when it has ended.
Accepting(c) ==
  /\ pc[c] = "families" => \A n \in DOMAIN values \ pending[c] : FamilyRefusal(values[n]) = "none"
  /\ pc[c] \in {"parsed", "page", "sort", "admitted"} \/ RefusedBy(c, "admit") => AllAccepted

\* The budgets of admit are what the page family passed leaves of them, and the sort
\* name and fields passed.
Paging(c) ==
  pc[c] = "page" =>
    LET passed == PageNames \ pending[c] IN
    /\ pending[c] \subseteq PageNames
    /\ Cardinality(PageNames) <= DefaultLimits.MaxParameters
    /\ Len(SortFields) <= DefaultLimits.MaxListItems
    /\ \A n \in passed : Small(DefaultLimits, values[n])
    /\ counted[c] = DefaultLimits.MaxValues - SumOver(Amount(values), passed)
    /\ bytes[c] = DefaultLimits.MaxTotalBytes - SumOver(Charge(values), passed)

Sorting(c) ==
  pc[c] = "sort" =>
    /\ SortFields # <<>>
    /\ Cardinality(PageNames) + 1 <= DefaultLimits.MaxParameters
    /\ Len(SortFields) <= DefaultLimits.MaxListItems
    /\ \A n \in PageNames : Small(DefaultLimits, values[n])
    /\ SumOver(Amount(values), PageNames) + 1 <= DefaultLimits.MaxValues
    /\ sorted[c].count <= Len(SortFields)
    /\ sorted[c].bytes = Prefix(SortFields, sorted[c].count)
    /\ sorted[c].bytes <= DefaultLimits.MaxValueBytes
    /\ bytes[c] = DefaultLimits.MaxTotalBytes - SumOver(Charge(values), PageNames) - SortNameBytes
                  - sorted[c].bytes

Unsorted(c) ==
  pc[c] \in {"start", "limits", "families", "parsed", "page"} => sorted[c] = [count |-> 0, bytes |-> 0]

Exact(c) ==
  /\ RefusedBy(c, "limits") => ~Within(limits, values)
  /\ pc[c] \notin {"start", "limits"} /\ ~RefusedBy(c, "limits") => Within(limits, values)
  /\ RefusedBy(c, "admit") => ~IsSmall
  /\ pc[c] = "admitted" => IsSmall

Sound(c) == Counting(c) /\ Accepting(c) /\ Paging(c) /\ Sorting(c) /\ Unsorted(c) /\ Exact(c)

IInv == Typed /\ \A c \in Calls : Sound(c)

Unread == UNCHANGED <<values, limits>>

\* Nothing that is said of the query changes.
LEMMA QueryStays ==
  ASSUME Unread
  PROVE  /\ PageNames' = PageNames /\ SortNames' = SortNames /\ SortFields' = SortFields
         /\ Paged' = Paged
         /\ IsSmall' <=> IsSmall
         /\ AllAccepted' <=> AllAccepted
         /\ \A p : FamilyRefusal(p)' = FamilyRefusal(p)
<1>1. values' = values /\ limits' = limits
  BY DEF Unread
<1>2. PageNames' = PageNames /\ SortNames' = SortNames
  BY <1>1 DEF PageNames, SortNames
<1>3. SortFields' = SortFields
  BY <1>1, <1>2 DEF SortFields
<1>4. Paged' = Paged
  BY <1>1, <1>2, <1>3 DEF Paged
<1>5. \A p : FamilyRefusal(p)' = FamilyRefusal(p)
  BY <1>1 DEF FamilyRefusal
<1>6. QED
  BY <1>1, <1>2, <1>3, <1>4, <1>5 DEF IsSmall, AllAccepted

\* A call whose own state does not change stays sound.
LEMMA SoundStays ==
  ASSUME Unread, NEW d \in Calls, Sound(d),
         pc'[d] = pc[d], pending'[d] = pending[d], bytes'[d] = bytes[d],
         counted'[d] = counted[d], sorted'[d] = sorted[d], answer'[d] = answer[d]
  PROVE  Sound(d)'
<1>1. values' = values /\ limits' = limits /\ (RefusedBy(d, "admit")' <=> RefusedBy(d, "admit"))
      /\ (RefusedBy(d, "limits")' <=> RefusedBy(d, "limits"))
  BY DEF Unread, RefusedBy
<1>2. Counting(d)' /\ Accepting(d)'
  <2>1. Counting(d)'
    BY <1>1 DEF Sound, Counting
  <2>2. Accepting(d)'
    BY <1>1, QueryStays DEF Sound, Accepting
  <2>3. QED
    BY <2>1, <2>2
<1>3. Paging(d)'
  BY <1>1, QueryStays DEF Sound, Paging
<1>4. Sorting(d)'
  BY <1>1, QueryStays DEF Sound, Sorting
<1>5. Unsorted(d)' /\ Exact(d)'
  BY <1>1, QueryStays DEF Sound, Unsorted, Exact
<1>6. QED
  BY <1>2, <1>3, <1>4, <1>5 DEF Sound

\* A refusal says what the query exceeds.
LEMMA RefuseKeeps ==
  ASSUME IInv, Unread, NEW c \in Calls, NEW by \in {"limits", "families", "admit"}, NEW code,
         NEW parameter, Refuse(c, by, code, parameter),
         by = "limits" <=> ~Within(limits, values),
         by = "admit" => ~IsSmall /\ AllAccepted
  PROVE  IInv'
<1>1. /\ pc'[c] = "refused" /\ answer'[c].by = by /\ answer'[c] # NoAnswer
      /\ DOMAIN answer' = Calls
      /\ pc' \in [Calls -> {"start", "limits", "families", "parsed", "page", "sort", "admitted",
                       "refused"}]
      /\ \A d \in Calls \ {c} : pc'[d] = pc[d] /\ answer'[d] = answer[d]
      /\ UNCHANGED <<values, limits, pending, bytes, counted, sorted>>
  BY DEF IInv, Typed, TypeOK, Refuse, Unread, NoAnswer
<1>2. Typed'
  BY <1>1 DEF IInv, Typed, TypeOK, NoAnswer
<1>3. Sound(c)'
  <2>1. (RefusedBy(c, "limits")' <=> by = "limits") /\ (RefusedBy(c, "admit")' <=> by = "admit")
    BY <1>1 DEF RefusedBy
  <2>2. Counting(c)' /\ Paging(c)' /\ Sorting(c)' /\ Unsorted(c)'
    BY <1>1 DEF Counting, Paging, Sorting, Unsorted
  <2>3. Accepting(c)' /\ Exact(c)'
    BY <1>1, <2>1, QueryStays DEF Accepting, Exact
  <2>4. QED
    BY <2>2, <2>3 DEF Sound
<1>4. \A d \in Calls \ {c} : Sound(d)'
  BY <1>1, SoundStays DEF IInv
<1>5. QED
  BY <1>2, <1>3, <1>4 DEF IInv

\* A call goes on.
LEMMA GotoKeeps ==
  ASSUME IInv, Unread, NEW c \in Calls, NEW names \in SUBSET DOMAIN values,
         NEW next \in {"start", "limits", "families", "parsed", "page", "sort", "admitted"},
         pc[c] # "refused", Goto(c, next, names),
         bytes' \in [Calls -> Nat], counted' \in [Calls -> Nat],
         sorted' \in [Calls -> [count : Nat, bytes : Nat]],
         \A d \in Calls \ {c} :
           bytes'[d] = bytes[d] /\ counted'[d] = counted[d] /\ sorted'[d] = sorted[d],
         pc'[c] = next /\ pending'[c] = names => Sound(c)'
  PROVE  IInv'
<1>1. /\ pc'[c] = next /\ pending'[c] = names /\ answer' = answer
      /\ pending' \in [Calls -> SUBSET DOMAIN values]
      /\ pc' \in [Calls -> {"start", "limits", "families", "parsed", "page", "sort", "admitted",
                       "refused"}]
      /\ \A d \in Calls \ {c} : pc'[d] = pc[d] /\ pending'[d] = pending[d]
      /\ values' = values /\ limits' = limits
  BY DEF IInv, Typed, TypeOK, Goto, Unread
<1>2. Typed'
  BY <1>1 DEF IInv, Typed, TypeOK
<1>3. \A d \in Calls \ {c} : Sound(d)'
  BY <1>1, SoundStays DEF IInv
<1>4. QED
  BY <1>1, <1>2, <1>3 DEF IInv

LEMMA InitIInv == Init => IInv
<1> SUFFICES ASSUME Init PROVE IInv
  OBVIOUS
<1>1. Typed
  BY DEF Init, Typed, TypeOK, NoAnswer
<1>2. ASSUME NEW c \in Calls PROVE Sound(c)
  BY DEF Init, Sound, Counting, Accepting, Paging, Sorting, Unsorted, Exact, RefusedBy
<1>3. QED
  BY <1>1, <1>2 DEF IInv

-----------------------------------------------------------------------------
(* Every step keeps it *)

\* What is known of the numbers in any state.
LEMMA Numbers ==
  ASSUME IInv, NEW c \in Calls
  PROVE  /\ values \in Queries /\ limits \in Limits
         /\ bytes[c] \in Nat /\ counted[c] \in Nat
         /\ sorted[c] \in [count : Nat, bytes : Nat]
         /\ pending[c] \subseteq DOMAIN values
         /\ pc[c] = "refused" <=> answer[c] # NoAnswer
         /\ Sound(c)
BY LimitsFacts DEF IInv, Typed, TypeOK

LEMMA WithinAll ==
  ASSUME values \in Queries
  PROVE  Within(limits, values) <=> Fits(limits, values, DOMAIN values)
<1>1. [n \in DOMAIN values |-> values[n]] = values
  BY QueriesTyped
<1>2. Within(limits, [n \in DOMAIN values |-> values[n]]) <=> Fits(limits, values, DOMAIN values)
  BY WithinIsFits
<1>3. QED
  BY <1>1, <1>2

LEMMA CountParametersKeeps == ASSUME IInv, NEW c \in Calls, CountParameters(c) PROVE IInv'
<1>1. pc[c] = "start" /\ Unread
  BY DEF CountParameters, Unread
<1>2. CASE Cardinality(DOMAIN values) > limits.MaxParameters /\ Refuse(c, "limits", "limit", 0)
  <2>1. ~Within(limits, values)
    <3>1. Cardinality(DOMAIN values) \in Nat /\ limits.MaxParameters \in Nat
      BY Numbers, ChargeTyped, FS_CardinalityType, LimitsFacts
    <3>2. QED
      BY <1>2, <3>1 DEF Within
  <2>2. QED
    BY <1>1, <1>2, <2>1, RefuseKeeps
<1>3. CASE /\ Cardinality(DOMAIN values) <= limits.MaxParameters
           /\ Goto(c, "limits", DOMAIN values) /\ UNCHANGED <<bytes, counted, sorted>>
  <2>1. bytes[c] = 0 /\ counted[c] = 0
    BY <1>1, Numbers DEF Sound, Counting
  <2>2. ASSUME pc'[c] = "limits" /\ pending'[c] = DOMAIN values PROVE Sound(c)'
    <3>1. SumOver(Amount(values), {}) = 0 /\ SumOver(Charge(values), {}) = 0
      BY Numbers, ChargeTyped, SumOverFacts
    <3>2. Counting(c)'
      <4>1. /\ values' = values /\ limits' = limits /\ bytes'[c] = 0 /\ counted'[c] = 0
            /\ DOMAIN values \ pending'[c] = {}
        BY <1>1, <1>3, <2>1, <2>2 DEF Unread
      <4>2. 0 <= limits.MaxValues /\ 0 <= limits.MaxTotalBytes
        BY Numbers, LimitsFacts
      <4>3. QED
        BY <1>3, <2>2, <3>1, <4>1, <4>2 DEF Counting
    <3>3. Unsorted(c)'
      BY <1>1, <1>3, Numbers DEF Sound, Unsorted
    <3>4. Accepting(c)' /\ Paging(c)' /\ Sorting(c)' /\ Exact(c)'
      BY <2>2 DEF Accepting, Paging, Sorting, Exact, RefusedBy
    <3>5. QED
      BY <3>2, <3>3, <3>4 DEF Sound
  <2>3. QED
    BY <1>1, <1>3, <2>2, GotoKeeps DEF IInv, Typed, TypeOK
<1>4. QED
  BY <1>2, <1>3 DEF CountParameters

LEMMA ChargeParameterKeeps == ASSUME IInv, NEW c \in Calls, ChargeParameter(c) PROVE IInv'
<1>1. pc[c] = "limits" /\ Unread /\ values' = values /\ limits' = limits
  BY DEF ChargeParameter, Unread
<1> DEFINE total(n) == bytes[c] + values[n].bytes + ValueBytes(values[n])
           count(n) == counted[c] + Len(values[n].values)
           over(n) == \/ values[n].bytes > limits.MaxNameBytes \/ count(n) > limits.MaxValues
                      \/ LongValue(values[n], limits.MaxValueBytes)
<1>2. PICK name \in pending[c] :
        \/ over(name) /\ Refuse(c, "limits", "limit", name)
        \/ ~over(name) /\ total(name) > limits.MaxTotalBytes /\ Refuse(c, "limits", "limit", 0)
        \/ /\ ~over(name) /\ total(name) <= limits.MaxTotalBytes
           /\ Charged(c, name)
           /\ bytes' = [bytes EXCEPT ![c] = total(name)]
           /\ counted' = [counted EXCEPT ![c] = count(name)]
           /\ UNCHANGED sorted
  BY DEF ChargeParameter
<1> DEFINE passed == DOMAIN values \ pending[c]
           more == passed \cup {name}
<1>3. /\ name \in DOMAIN values /\ name \notin passed /\ passed \in SUBSET DOMAIN values
      /\ more \in SUBSET DOMAIN values /\ more = DOMAIN values \ (pending[c] \ {name})
  BY Numbers
<1>4. /\ \A n \in passed : Small(limits, values[n])
      /\ counted[c] = SumOver(Amount(values), passed) /\ bytes[c] = SumOver(Charge(values), passed)
      /\ Cardinality(DOMAIN values) <= limits.MaxParameters
  BY <1>1, Numbers DEF Sound, Counting
<1>5. /\ values \in Queries /\ limits \in Limits
      /\ values[name].bytes \in Nat /\ ValueBytes(values[name]) \in Nat
      /\ Len(values[name].values) \in Nat /\ bytes[c] \in Nat /\ counted[c] \in Nat
      /\ limits.MaxNameBytes \in Nat /\ limits.MaxValues \in Nat /\ limits.MaxTotalBytes \in Nat
  BY <1>3, Numbers, QueryShape, ValueBytesIsNat, LimitsFacts
<1> HIDE DEF passed, more
<1>6. /\ SumOver(Charge(values), more) = total(name) /\ SumOver(Amount(values), more) = count(name)
      /\ total(name) \in Nat /\ count(name) \in Nat
  <2>1. /\ SumOver(Charge(values), more)
              = SumOver(Charge(values), passed) + values[name].bytes + ValueBytes(values[name])
        /\ SumOver(Amount(values), more) = SumOver(Amount(values), passed) + Len(values[name].values)
    BY <1>3, <1>5, Adds DEF more
  <2>2. total(name) \in Nat /\ count(name) \in Nat
    <3>1. \A a, b, d \in Nat : a + b + d \in Nat /\ a + b \in Nat
      OBVIOUS
    <3>2. total(name) \in Nat
      BY <1>5, <3>1, Zenon
    <3>3. count(name) \in Nat
      BY <1>5, <3>1, Zenon
    <3>4. QED
      BY <3>2, <3>3
  <2>3. /\ SumOver(Amount(values), passed) = counted[c]
        /\ SumOver(Charge(values), passed) = bytes[c]
    BY <1>4
  <2>4. QED
    BY <2>1, <2>2, <2>3
<1>7. Within(limits, values) => ~over(name) /\ total(name) <= limits.MaxTotalBytes
  <2> SUFFICES ASSUME Within(limits, values)
               PROVE  ~over(name) /\ total(name) <= limits.MaxTotalBytes
    OBVIOUS
  <2>1. Fits(limits, values, more)
    BY <1>3, <1>5, WithinAll, FitsParts
  <2>2. /\ Small(limits, values[name]) /\ SumOver(Amount(values), more) <= limits.MaxValues
        /\ SumOver(Charge(values), more) <= limits.MaxTotalBytes
    BY <2>1 DEF Fits, more
  <2>3. QED
    BY <1>5, <1>6, <2>2 DEF Small
<1>8. CASE \/ over(name) /\ Refuse(c, "limits", "limit", name)
           \/ ~over(name) /\ total(name) > limits.MaxTotalBytes /\ Refuse(c, "limits", "limit", 0)
  <2>1. ~Within(limits, values)
    BY <1>5, <1>6, <1>7, <1>8
  <2>2. PICK parameter : Refuse(c, "limits", "limit", parameter)
    BY <1>8, Zenon
  <2>3. QED
    BY <1>1, <2>1, <2>2, RefuseKeeps
<1>9. CASE /\ ~over(name) /\ total(name) <= limits.MaxTotalBytes
           /\ Charged(c, name)
           /\ bytes' = [bytes EXCEPT ![c] = total(name)]
           /\ counted' = [counted EXCEPT ![c] = count(name)]
           /\ UNCHANGED sorted
  <2>1. /\ bytes' \in [Calls -> Nat] /\ counted' \in [Calls -> Nat]
        /\ bytes'[c] = total(name) /\ counted'[c] = count(name)
        /\ \A d \in Calls \ {c} : bytes'[d] = bytes[d] /\ counted'[d] = counted[d]
    BY <1>6, <1>9 DEF IInv, Typed, TypeOK
  <2>2. ASSUME pc'[c] = "limits", pending'[c] = pending[c] \ {name} PROVE Sound(c)'
    <3>1. Counting(c)'
      <4>1. DOMAIN values' \ pending'[c] = more
        BY <1>1, <1>3, <2>2
      <4>2. \A n \in more : Small(limits, values[n])
        BY <1>4, <1>5, <1>9 DEF Small, more
      <4>3. count(name) <= limits.MaxValues
        BY <1>5, <1>6, <1>9
      <4>4. QED
        BY <1>1, <1>4, <1>6, <1>9, <2>1, <2>2, <4>1, <4>2, <4>3 DEF Counting
    <3>2. Unsorted(c)'
      BY <1>1, <1>9, Numbers DEF Sound, Unsorted
    <3>3. ~RefusedBy(c, "admit")' /\ ~RefusedBy(c, "limits")'
      BY <2>2 DEF RefusedBy
    <3>4. Accepting(c)' /\ Paging(c)' /\ Sorting(c)' /\ Exact(c)'
      BY <2>2, <3>3 DEF Accepting, Paging, Sorting, Exact
    <3>5. QED
      BY <3>1, <3>2, <3>4 DEF Sound
  <2>3. Goto(c, "limits", pending[c] \ {name}) /\ pending[c] \ {name} \in SUBSET DOMAIN values
    BY <1>1, <1>9, Numbers DEF Charged
  <2>4. QED
    BY <1>1, <1>9, <2>1, <2>2, <2>3, GotoKeeps DEF IInv, Typed, TypeOK
<1>10. QED
  BY <1>2, <1>8, <1>9

LEMMA LimitsHoldKeeps == ASSUME IInv, NEW c \in Calls, LimitsHold(c) PROVE IInv'
<1>1. /\ pc[c] = "limits" /\ pending[c] = {} /\ Unread /\ values' = values /\ limits' = limits
      /\ Goto(c, "families", DOMAIN values) /\ UNCHANGED <<bytes, counted, sorted>>
  BY DEF LimitsHold, Unread
<1>2. Within(limits, values)
  <2>1. DOMAIN values \ pending[c] = DOMAIN values
    BY <1>1
  <2>2. Fits(limits, values, DOMAIN values)
    BY <1>1, <2>1, Numbers DEF Sound, Counting, Fits
  <2>3. QED
    BY <2>2, Numbers, WithinAll
<1>3. ASSUME pc'[c] = "families", pending'[c] = DOMAIN values PROVE Sound(c)'
  <2>1. ~RefusedBy(c, "admit")' /\ ~RefusedBy(c, "limits")'
    BY <1>3 DEF RefusedBy
  <2>2. Unsorted(c)'
    BY <1>1, Numbers DEF Sound, Unsorted
  <2>3. Counting(c)' /\ Accepting(c)' /\ Paging(c)' /\ Sorting(c)' /\ Exact(c)'
    BY <1>1, <1>2, <1>3, <2>1 DEF Counting, Accepting, Paging, Sorting, Exact
  <2>4. QED
    BY <2>2, <2>3 DEF Sound
<1>4. QED
  BY <1>1, <1>3, GotoKeeps DEF IInv, Typed, TypeOK

\* Past validateLimits the query is within the limits, and no refusal to come says otherwise.
LEMMA PastLimits ==
  ASSUME IInv, NEW c \in Calls, pc[c] \in {"families", "parsed", "page", "sort"}
  PROVE  Within(limits, values) /\ pc[c] # "refused"
BY Numbers DEF Sound, Exact, RefusedBy

LEMMA ParseParameterKeeps == ASSUME IInv, NEW c \in Calls, ParseParameter(c) PROVE IInv'
<1>1. pc[c] = "families" /\ Unread /\ values' = values /\ limits' = limits /\ Within(limits, values)
  BY PastLimits DEF ParseParameter, Unread
<1>2. PICK name \in pending[c] :
        \/ Refuse(c, "families", FamilyRefusal(values[name]), name)
        \/ /\ FamilyRefusal(values[name]) = "none"
           /\ Charged(c, name)
           /\ UNCHANGED <<bytes, counted, sorted>>
  BY DEF ParseParameter
<1>3. CASE Refuse(c, "families", FamilyRefusal(values[name]), name)
  BY <1>1, <1>3, RefuseKeeps
<1>4. CASE FamilyRefusal(values[name]) = "none" /\ Charged(c, name) /\ UNCHANGED <<bytes, counted, sorted>>
  <2>1. ASSUME pc'[c] = "families", pending'[c] = pending[c] \ {name} PROVE Sound(c)'
    <3>1. ~RefusedBy(c, "admit")' /\ ~RefusedBy(c, "limits")'
      BY <2>1 DEF RefusedBy
    <3>2. \A n \in DOMAIN values \ pending'[c] : FamilyRefusal(values[n]) = "none"
      BY <1>1, <1>4, <2>1, Numbers DEF Sound, Accepting
    <3>3. Accepting(c)'
      BY <1>1, <2>1, <3>1, <3>2, QueryStays DEF Accepting
    <3>4. Unsorted(c)'
      BY <1>1, <1>4, Numbers DEF Sound, Unsorted
    <3>5. Counting(c)' /\ Paging(c)' /\ Sorting(c)' /\ Exact(c)'
      BY <1>1, <2>1, <3>1 DEF Counting, Paging, Sorting, Exact
    <3>6. QED
      BY <3>3, <3>4, <3>5 DEF Sound
  <2>2. Goto(c, "families", pending[c] \ {name}) /\ pending[c] \ {name} \in SUBSET DOMAIN values
    BY <1>1, <1>4, Numbers DEF Charged
  <2>3. QED
    BY <1>1, <1>4, <2>1, <2>2, GotoKeeps DEF IInv, Typed, TypeOK
<1>5. QED
  BY <1>2, <1>3, <1>4

LEMMA ParsedKeeps == ASSUME IInv, NEW c \in Calls, Parsed(c) PROVE IInv'
<1>1. /\ pc[c] = "families" /\ pending[c] = {} /\ Unread /\ values' = values /\ limits' = limits
      /\ Goto(c, "parsed", {}) /\ UNCHANGED <<bytes, counted, sorted>>
  BY DEF Parsed, Unread
<1>2. Within(limits, values) /\ AllAccepted
  BY <1>1, PastLimits, Numbers DEF Sound, Accepting, AllAccepted
<1>3. ASSUME pc'[c] = "parsed" PROVE Sound(c)'
  <2>1. ~RefusedBy(c, "admit")' /\ ~RefusedBy(c, "limits")'
    BY <1>3 DEF RefusedBy
  <2>2. Unsorted(c)'
    BY <1>1, Numbers DEF Sound, Unsorted
  <2>3. Counting(c)' /\ Accepting(c)' /\ Paging(c)' /\ Sorting(c)' /\ Exact(c)'
    BY <1>1, <1>2, <1>3, <2>1, QueryStays DEF Counting, Accepting, Paging, Sorting, Exact
  <2>4. QED
    BY <2>2, <2>3 DEF Sound
<1>4. QED
  BY <1>1, <1>3, GotoKeeps DEF IInv, Typed, TypeOK

\* What admit knows of the query and of its own limits.
LEMMA AdmitNumbers ==
  ASSUME IInv, NEW c \in Calls, pc[c] \in {"parsed", "page", "sort"}
  PROVE  /\ values \in Queries /\ limits \in Limits /\ AllAccepted /\ Within(limits, values)
         /\ DefaultLimits.MaxParameters \in Nat \ {0} /\ DefaultLimits.MaxValues \in Nat \ {0}
         /\ DefaultLimits.MaxTotalBytes \in Nat \ {0} /\ DefaultLimits.MaxListItems \in Nat \ {0}
         /\ DefaultLimits.MaxNameBytes \in Nat \ {0} /\ DefaultLimits.MaxValueBytes \in Nat \ {0}
         /\ SortNameBytes \in Nat
         /\ Cardinality(PageNames) \in Nat /\ Len(SortFields) \in Nat
         /\ SumOver(Charge(values), PageNames) \in Nat /\ SumOver(Amount(values), PageNames) \in Nat
         /\ SortFields # <<>> => SortFields \in Seq(Fields)
<1>1. values \in Queries /\ limits \in Limits /\ AllAccepted /\ Within(limits, values)
  BY PastLimits, Numbers DEF Sound, Accepting
<1>2. SortFields # <<>> => SortFields \in Seq(Fields)
  BY <1>1, SortFacts
<1>3. Len(SortFields) \in Nat
  BY <1>2
<1>4. QED
  BY <1>1, <1>2, <1>3, PageFacts, LimitsFacts

LEMMA CountPageKeeps == ASSUME IInv, NEW c \in Calls, CountPage(c) PROVE IInv'
<1> DEFINE over == \/ Cardinality(PageNames) > DefaultLimits.MaxParameters
                   \/ Len(SortFields) > DefaultLimits.MaxListItems
<1>1. pc[c] = "parsed" /\ Unread /\ values' = values /\ limits' = limits
  BY DEF CountPage, Unread
<1>2. CASE over /\ Refuse(c, "admit", "limit", 0)
  <2>1. ~IsSmall /\ AllAccepted /\ Within(limits, values)
    BY <1>1, <1>2, AdmitNumbers, SmallIs
  <2>2. QED
    BY <1>1, <1>2, <2>1, RefuseKeeps
<1>3. CASE /\ ~over /\ Goto(c, "page", PageNames)
           /\ bytes' = [bytes EXCEPT ![c] = DefaultLimits.MaxTotalBytes]
           /\ counted' = [counted EXCEPT ![c] = DefaultLimits.MaxValues]
           /\ UNCHANGED sorted
  <2>1. /\ bytes' \in [Calls -> Nat] /\ counted' \in [Calls -> Nat]
        /\ bytes'[c] = DefaultLimits.MaxTotalBytes /\ counted'[c] = DefaultLimits.MaxValues
        /\ \A d \in Calls \ {c} : bytes'[d] = bytes[d] /\ counted'[d] = counted[d]
    BY <1>3, LimitsFacts DEF IInv, Typed, TypeOK
  <2>2. ASSUME pc'[c] = "page", pending'[c] = PageNames PROVE Sound(c)'
    <3>1. ~RefusedBy(c, "admit")' /\ ~RefusedBy(c, "limits")'
      BY <2>2 DEF RefusedBy
    <3>2. Paging(c)'
      <4>1. PageNames' = PageNames /\ SortFields' = SortFields /\ PageNames' \ pending'[c] = {}
        BY <1>1, <2>2, QueryStays
      <4>2. SumOver(Charge(values), {}) = 0 /\ SumOver(Amount(values), {}) = 0
        BY <1>1, AdmitNumbers, ChargeTyped, SumOverFacts
      <4>3. /\ Cardinality(PageNames) <= DefaultLimits.MaxParameters
            /\ Len(SortFields) <= DefaultLimits.MaxListItems
            /\ DefaultLimits.MaxTotalBytes - 0 = DefaultLimits.MaxTotalBytes
            /\ DefaultLimits.MaxValues - 0 = DefaultLimits.MaxValues
        BY <1>1, <1>3, AdmitNumbers
      <4>4. QED
        BY <1>1, <2>1, <2>2, <4>1, <4>2, <4>3 DEF Paging
    <3>3. Unsorted(c)'
      BY <1>1, <1>3, Numbers DEF Sound, Unsorted
    <3>4. Counting(c)' /\ Accepting(c)' /\ Sorting(c)' /\ Exact(c)'
      BY <1>1, <2>2, <3>1, AdmitNumbers, QueryStays DEF Counting, Accepting, Sorting, Exact
    <3>5. QED
      BY <3>2, <3>3, <3>4 DEF Sound
  <2>3. PageNames \in SUBSET DOMAIN values /\ pc[c] # "refused"
    BY <1>1 DEF PageNames
  <2>4. QED
    BY <1>1, <1>3, <2>1, <2>2, <2>3, GotoKeeps DEF IInv, Typed, TypeOK
<1>4. QED
  BY <1>2, <1>3 DEF CountPage

LEMMA SpentOne == \A max, spent, a \in Nat : (max - spent) - a = max - (spent + a)
OBVIOUS

LEMMA Spent == \A max, spent, a, b \in Nat : (max - spent) - a - b = max - (spent + a + b)
OBVIOUS

LEMMA ChargePageKeeps == ASSUME IInv, NEW c \in Calls, ChargePage(c) PROVE IInv'
<1>1. pc[c] = "page" /\ Unread /\ values' = values /\ limits' = limits
  BY DEF ChargePage, Unread
<1> DEFINE over(n) == \/ values[n].bytes > DefaultLimits.MaxNameBytes
                      \/ Len(values[n].values) > counted[c]
                      \/ LongValue(values[n], DefaultLimits.MaxValueBytes)
                      \/ values[n].bytes + ValueBytes(values[n]) > bytes[c]
           passed == PageNames \ pending[c]
           charge == SumOver(Charge(values), passed)
           amount == SumOver(Amount(values), passed)
<1>2. PICK name \in pending[c] :
        \/ over(name) /\ Refuse(c, "admit", "limit", 0)
        \/ /\ ~over(name) /\ Charged(c, name)
           /\ bytes' = [bytes EXCEPT ![c] = @ - values[name].bytes - ValueBytes(values[name])]
           /\ counted' = [counted EXCEPT ![c] = @ - Len(values[name].values)]
           /\ UNCHANGED sorted
  BY DEF ChargePage
<1> DEFINE more == passed \cup {name}
<1>3. /\ pending[c] \subseteq PageNames /\ PageNames \subseteq DOMAIN values
      /\ Cardinality(PageNames) <= DefaultLimits.MaxParameters
      /\ Len(SortFields) <= DefaultLimits.MaxListItems
      /\ \A n \in passed : Small(DefaultLimits, values[n])
      /\ counted[c] = DefaultLimits.MaxValues - amount
      /\ bytes[c] = DefaultLimits.MaxTotalBytes - charge
  BY <1>1, Numbers, PageFacts DEF Sound, Paging
<1>4. /\ name \in DOMAIN values /\ name \notin passed /\ passed \in SUBSET DOMAIN values
      /\ more \subseteq PageNames /\ more = PageNames \ (pending[c] \ {name})
  BY <1>3
<1> HIDE DEF passed, more
<1>5. /\ values[name].bytes \in Nat /\ ValueBytes(values[name]) \in Nat
      /\ Len(values[name].values) \in Nat
  BY <1>4, Numbers, QueryShape, ValueBytesIsNat
<1>6. /\ SumOver(Charge(values), more) = charge + values[name].bytes + ValueBytes(values[name])
      /\ SumOver(Amount(values), more) = amount + Len(values[name].values)
      /\ charge \in Nat /\ amount \in Nat
  BY <1>4, Numbers, Adds DEF more
<1> HIDE DEF charge, amount
<1>7. CASE over(name) /\ Refuse(c, "admit", "limit", 0)
  <2>1. ASSUME IsSmall PROVE FALSE
    <3>1. PageFits(PageNames)
      BY <1>1, <2>1, AdmitNumbers, SmallIs
    <3>2. /\ SumOver(Charge(values), more) <= SumOver(Charge(values), PageNames)
          /\ SumOver(Amount(values), more) <= SumOver(Amount(values), PageNames)
      BY <1>3, <1>4, Numbers, ChargeTyped, SumOverFacts
    <3>3. Small(DefaultLimits, values[name])
      BY <1>4, <3>1 DEF PageFits, more
    <3>4. Len(values[name].values) <= counted[c]
      <4> DEFINE whole == SumOver(Amount(values), PageNames)
                 own == Len(values[name].values)
                 max == DefaultLimits.MaxValues
      <4>1. whole <= max /\ whole \in Nat /\ max \in Nat
        BY <1>1, <3>1, AdmitNumbers DEF PageFits
      <4>2. amount + own <= whole /\ amount \in Nat /\ own \in Nat
        BY <1>5, <1>6, <3>2
      <4>3. counted[c] = max - amount
        BY <1>3
      <4> HIDE DEF whole, own, max, amount
      <4>4. own <= counted[c]
        BY <4>1, <4>2, <4>3
      <4>5. QED
        BY <4>4 DEF own
    <3>5. values[name].bytes + ValueBytes(values[name]) <= bytes[c]
      <4> DEFINE whole == SumOver(Charge(values), PageNames)
                 own == values[name].bytes
                 text == ValueBytes(values[name])
                 max == DefaultLimits.MaxTotalBytes
      <4>1. whole <= max /\ whole \in Nat /\ max \in Nat
        BY <1>1, <3>1, AdmitNumbers DEF PageFits
      <4>2. charge + own + text <= whole /\ charge \in Nat /\ own \in Nat /\ text \in Nat
        BY <1>5, <1>6, <3>2
      <4>3. bytes[c] = max - charge
        BY <1>3
      <4> HIDE DEF whole, own, text, max, charge
      <4>4. own + text <= bytes[c]
        BY <4>1, <4>2, <4>3
      <4>5. QED
        BY <4>4 DEF own, text
    <3>6. values[name].bytes <= DefaultLimits.MaxNameBytes
      BY <3>3 DEF Small
    <3>7. bytes[c] \in Nat /\ counted[c] \in Nat /\ DefaultLimits.MaxNameBytes \in Nat
      BY <1>1, Numbers, AdmitNumbers
    <3>8. QED
      BY <1>5, <1>7, <3>3, <3>4, <3>5, <3>6, <3>7 DEF Small
  <2>2. AllAccepted /\ Within(limits, values)
    BY <1>1, AdmitNumbers
  <2>3. QED
    BY <1>1, <1>7, <2>1, <2>2, RefuseKeeps
<1>8. CASE /\ ~over(name) /\ Charged(c, name)
           /\ bytes' = [bytes EXCEPT ![c] = @ - values[name].bytes - ValueBytes(values[name])]
           /\ counted' = [counted EXCEPT ![c] = @ - Len(values[name].values)]
           /\ UNCHANGED sorted
  <2>1. /\ bytes[c] \in Nat /\ counted[c] \in Nat
        /\ bytes[c] - values[name].bytes - ValueBytes(values[name]) \in Nat
        /\ counted[c] - Len(values[name].values) \in Nat
    <3>1. bytes[c] \in Nat /\ counted[c] \in Nat
      BY Numbers
    <3>2. ~(values[name].bytes + ValueBytes(values[name]) > bytes[c])
      BY <1>8
    <3>3. ~(Len(values[name].values) > counted[c])
      BY <1>8
    <3>4. QED
      BY <1>5, <3>1, <3>2, <3>3
  <2>2. /\ bytes' \in [Calls -> Nat] /\ counted' \in [Calls -> Nat]
        /\ bytes'[c] = bytes[c] - values[name].bytes - ValueBytes(values[name])
        /\ counted'[c] = counted[c] - Len(values[name].values)
        /\ \A d \in Calls \ {c} : bytes'[d] = bytes[d] /\ counted'[d] = counted[d]
    BY <1>8, <2>1 DEF IInv, Typed, TypeOK
  <2>3. ASSUME pc'[c] = "page", pending'[c] = pending[c] \ {name} PROVE Sound(c)'
    <3>1. ~RefusedBy(c, "admit")' /\ ~RefusedBy(c, "limits")'
      BY <2>3 DEF RefusedBy
    <3>2. Paging(c)'
      <4>1. PageNames' \ pending'[c] = more /\ pending'[c] \subseteq PageNames'
        BY <1>1, <1>3, <1>4, <2>3, QueryStays
      <4>2. \A n \in more : Small(DefaultLimits, values[n])
        BY <1>3, <1>5, <1>8, LimitsFacts DEF Small, more
      <4>3. counted'[c] = DefaultLimits.MaxValues - SumOver(Amount(values), more)
        <5>1. counted'[c] = (DefaultLimits.MaxValues - amount) - Len(values[name].values)
          BY <1>3, <2>2
        <5>2. DefaultLimits.MaxValues \in Nat
          BY <1>1, AdmitNumbers
        <5>3. amount \in Nat /\ SumOver(Amount(values), more) = amount + Len(values[name].values)
          BY <1>6
        <5>4. Len(values[name].values) \in Nat
          BY <1>5
        <5>5. QED
          BY <5>1, <5>2, <5>3, <5>4, SpentOne
      <4>4. bytes'[c] = DefaultLimits.MaxTotalBytes - SumOver(Charge(values), more)
        <5>1. bytes'[c] = (DefaultLimits.MaxTotalBytes - charge) - values[name].bytes
                          - ValueBytes(values[name])
          BY <1>3, <2>2
        <5>2. DefaultLimits.MaxTotalBytes \in Nat
          BY <1>1, AdmitNumbers
        <5>3. QED
          BY <1>5, <1>6, <5>1, <5>2, Spent
      <4>5. /\ PageNames' = PageNames /\ SortFields' = SortFields
        BY <1>1, QueryStays
      <4>6. QED
        BY <1>1, <1>3, <4>1, <4>2, <4>3, <4>4, <4>5 DEF Paging
    <3>3. Unsorted(c)'
      BY <1>1, <1>8, Numbers DEF Sound, Unsorted
    <3>4. Counting(c)' /\ Accepting(c)' /\ Sorting(c)' /\ Exact(c)'
      BY <1>1, <2>3, <3>1, AdmitNumbers, QueryStays DEF Counting, Accepting, Sorting, Exact
    <3>5. QED
      BY <3>2, <3>3, <3>4 DEF Sound
  <2>4. Goto(c, "page", pending[c] \ {name}) /\ pending[c] \ {name} \in SUBSET DOMAIN values
    BY <1>1, <1>8, Numbers DEF Charged
  <2>5. QED
    BY <1>1, <1>8, <2>2, <2>3, <2>4, GotoKeeps DEF IInv, Typed, TypeOK
<1>9. QED
  BY <1>2, <1>7, <1>8

LEMMA ChargeSortNameKeeps == ASSUME IInv, NEW c \in Calls, ChargeSortName(c) PROVE IInv'
<1> DEFINE over == \/ Cardinality(PageNames) = DefaultLimits.MaxParameters
                   \/ counted[c] = 0 \/ bytes[c] < SortNameBytes
<1>1. /\ pc[c] = "page" /\ pending[c] = {} /\ Unread /\ values' = values /\ limits' = limits
      /\ UNCHANGED <<counted, sorted>>
      /\ \/ SortFields = <<>> /\ Goto(c, "admitted", {}) /\ UNCHANGED bytes
         \/ SortFields # <<>> /\ over /\ Refuse(c, "admit", "limit", 0)
         \/ /\ SortFields # <<>> /\ ~over /\ Goto(c, "sort", {})
            /\ bytes' = [bytes EXCEPT ![c] = @ - SortNameBytes]
  BY DEF ChargeSortName, Unread
<1>2. /\ Cardinality(PageNames) <= DefaultLimits.MaxParameters
      /\ Len(SortFields) <= DefaultLimits.MaxListItems
      /\ \A n \in PageNames : Small(DefaultLimits, values[n])
      /\ counted[c] = DefaultLimits.MaxValues - SumOver(Amount(values), PageNames)
      /\ bytes[c] = DefaultLimits.MaxTotalBytes - SumOver(Charge(values), PageNames)
      /\ counted[c] \in Nat /\ bytes[c] \in Nat
      /\ sorted[c] = [count |-> 0, bytes |-> 0]
  <2>1. PageNames \ pending[c] = PageNames
    BY <1>1
  <2>2. Paging(c) /\ Unsorted(c) /\ counted[c] \in Nat /\ bytes[c] \in Nat
    BY Numbers DEF Sound
  <2>3. QED
    BY <1>1, <2>1, <2>2 DEF Paging, Unsorted
<1>3. PageFits(PageNames)
  BY <1>1, <1>2, AdmitNumbers DEF PageFits
<1>4. CASE SortFields = <<>> /\ Goto(c, "admitted", {}) /\ UNCHANGED bytes
  <2>1. IsSmall
    BY <1>1, <1>2, <1>3, <1>4, AdmitNumbers, SmallIs
  <2>2. ASSUME pc'[c] = "admitted" PROVE Sound(c)'
    <3>1. ~RefusedBy(c, "admit")' /\ ~RefusedBy(c, "limits")'
      BY <2>2 DEF RefusedBy
    <3>2. QED
      BY <1>1, <2>1, <2>2, <3>1, AdmitNumbers, QueryStays
         DEF Sound, Counting, Accepting, Paging, Sorting, Unsorted, Exact
  <2>3. QED
    BY <1>1, <1>4, <2>2, GotoKeeps DEF IInv, Typed, TypeOK
<1>5. CASE SortFields # <<>> /\ over /\ Refuse(c, "admit", "limit", 0)
  <2>1. ~SortFits
    <3>1. Encoded(SortFields) \in Nat
      BY <1>1, <1>5, AdmitNumbers, PrefixFacts
    <3> DEFINE amount == SumOver(Amount(values), PageNames)
               charge == SumOver(Charge(values), PageNames)
    <3>2. /\ amount \in Nat /\ charge \in Nat /\ Cardinality(PageNames) \in Nat
          /\ DefaultLimits.MaxValues \in Nat /\ DefaultLimits.MaxTotalBytes \in Nat
          /\ DefaultLimits.MaxParameters \in Nat /\ SortNameBytes \in Nat
      BY <1>1, AdmitNumbers
    <3>3. /\ counted[c] = DefaultLimits.MaxValues - amount
          /\ bytes[c] = DefaultLimits.MaxTotalBytes - charge
      BY <1>2
    <3>4. \/ Cardinality(PageNames) = DefaultLimits.MaxParameters
          \/ counted[c] = 0 \/ bytes[c] < SortNameBytes
      BY <1>5
    <3> HIDE DEF amount, charge
    <3>5. \/ ~(Cardinality(PageNames) + 1 <= DefaultLimits.MaxParameters)
          \/ ~(amount + 1 <= DefaultLimits.MaxValues)
          \/ ~(charge + SortNameBytes + Encoded(SortFields) <= DefaultLimits.MaxTotalBytes)
      BY <3>1, <3>2, <3>3, <3>4
    <3>6. QED
      BY <3>5 DEF SortFits, amount, charge
  <2>2. ~IsSmall /\ AllAccepted /\ Within(limits, values)
    BY <1>1, <1>5, <2>1, AdmitNumbers, SmallIs
  <2>3. QED
    BY <1>1, <1>5, <2>2, RefuseKeeps
<1>6. CASE /\ SortFields # <<>> /\ ~over /\ Goto(c, "sort", {})
           /\ bytes' = [bytes EXCEPT ![c] = @ - SortNameBytes]
  <2>1. bytes[c] - SortNameBytes \in Nat
    BY <1>1, <1>2, <1>6, AdmitNumbers
  <2>2. /\ bytes' \in [Calls -> Nat] /\ bytes'[c] = bytes[c] - SortNameBytes
        /\ \A d \in Calls \ {c} : bytes'[d] = bytes[d]
    BY <1>6, <2>1 DEF IInv, Typed, TypeOK
  <2>3. ASSUME pc'[c] = "sort" PROVE Sound(c)'
    <3>1. ~RefusedBy(c, "admit")' /\ ~RefusedBy(c, "limits")'
      BY <2>3 DEF RefusedBy
    <3>2. Sorting(c)'
      <4>1. PageNames' = PageNames /\ SortFields' = SortFields
        BY <1>1, QueryStays
      <4>2. Prefix(SortFields, 0) = 0 /\ Len(SortFields) >= 0
        BY <1>1, <1>6, AdmitNumbers, PrefixFacts
      <4>3. /\ Cardinality(PageNames) + 1 <= DefaultLimits.MaxParameters
            /\ SumOver(Amount(values), PageNames) + 1 <= DefaultLimits.MaxValues
            /\ 0 <= DefaultLimits.MaxValueBytes
            /\ bytes'[c] = DefaultLimits.MaxTotalBytes - SumOver(Charge(values), PageNames)
                           - SortNameBytes - 0
        <5> DEFINE amount == SumOver(Amount(values), PageNames)
                   charge == SumOver(Charge(values), PageNames)
        <5>1. /\ amount \in Nat /\ charge \in Nat /\ Cardinality(PageNames) \in Nat
              /\ DefaultLimits.MaxValues \in Nat /\ DefaultLimits.MaxTotalBytes \in Nat
              /\ DefaultLimits.MaxParameters \in Nat /\ DefaultLimits.MaxValueBytes \in Nat
              /\ SortNameBytes \in Nat
          BY <1>1, AdmitNumbers
        <5>2. /\ counted[c] = DefaultLimits.MaxValues - amount /\ counted[c] \in Nat
              /\ bytes[c] = DefaultLimits.MaxTotalBytes - charge
              /\ bytes'[c] = bytes[c] - SortNameBytes
              /\ Cardinality(PageNames) <= DefaultLimits.MaxParameters
          BY <1>2, <2>2
        <5>3. Cardinality(PageNames) # DefaultLimits.MaxParameters /\ counted[c] # 0
          BY <1>6
        <5> HIDE DEF amount, charge
        <5>4. /\ Cardinality(PageNames) + 1 <= DefaultLimits.MaxParameters
              /\ amount + 1 <= DefaultLimits.MaxValues
              /\ 0 <= DefaultLimits.MaxValueBytes
              /\ bytes'[c] = DefaultLimits.MaxTotalBytes - charge - SortNameBytes - 0
          BY <5>1, <5>2, <5>3
        <5>5. QED
          BY <5>4 DEF amount, charge
      <4>4. sorted'[c].count = 0 /\ sorted'[c].bytes = 0
        BY <1>1, <1>2
      <4>5. QED
        BY <1>1, <1>2, <1>6, <4>1, <4>2, <4>3, <4>4 DEF Sorting
    <3>3. Counting(c)' /\ Accepting(c)' /\ Paging(c)' /\ Unsorted(c)' /\ Exact(c)'
      BY <1>1, <2>3, <3>1, AdmitNumbers, QueryStays DEF Counting, Accepting, Paging, Unsorted, Exact
    <3>4. QED
      BY <3>2, <3>3 DEF Sound
  <2>4. QED
    BY <1>1, <1>6, <2>2, <2>3, GotoKeeps DEF IInv, Typed, TypeOK
<1>7. QED
  BY <1>1, <1>4, <1>5, <1>6

LEMMA SizeAt ==
  ASSUME NEW items, NEW k \in DOMAIN items
  PROVE  Sizes(items)[k] = items[k].bytes + (IF k > 1 THEN 1 ELSE 0)
                                          + (IF items[k].descending THEN 1 ELSE 0)
BY DEF Sizes

LEMMA ChargeFieldKeeps == ASSUME IInv, NEW c \in Calls, ChargeField(c) PROVE IInv'
<1> DEFINE k == sorted[c].count
           field == SortFields[k + 1]
           size == field.bytes + (IF k > 0 THEN 1 ELSE 0) + (IF field.descending THEN 1 ELSE 0)
           over == size > DefaultLimits.MaxValueBytes - sorted[c].bytes \/ size > bytes[c]
           charge == SumOver(Charge(values), PageNames)
<1>1. /\ pc[c] = "sort" /\ k < Len(SortFields) /\ Unread /\ values' = values /\ limits' = limits
      /\ \/ over /\ Refuse(c, "admit", "limit", 0)
         \/ /\ ~over
            /\ bytes' = [bytes EXCEPT ![c] = @ - size]
            /\ sorted' = [sorted EXCEPT ![c] = [count |-> @.count + 1, bytes |-> @.bytes + size]]
            /\ UNCHANGED <<pc, pending, counted, answer>>
  BY DEF ChargeField, Unread
<1>2. /\ SortFields # <<>> /\ SortFields \in Seq(Fields)
      /\ Cardinality(PageNames) + 1 <= DefaultLimits.MaxParameters
      /\ Len(SortFields) <= DefaultLimits.MaxListItems
      /\ \A n \in PageNames : Small(DefaultLimits, values[n])
      /\ SumOver(Amount(values), PageNames) + 1 <= DefaultLimits.MaxValues
      /\ sorted[c].bytes = Prefix(SortFields, k)
      /\ bytes[c] = DefaultLimits.MaxTotalBytes - charge - SortNameBytes - sorted[c].bytes
  BY <1>1, Numbers, AdmitNumbers DEF Sound, Sorting
<1>3. /\ k \in Nat /\ sorted[c].bytes \in Nat /\ bytes[c] \in Nat /\ charge \in Nat
      /\ DefaultLimits.MaxValueBytes \in Nat /\ DefaultLimits.MaxTotalBytes \in Nat
      /\ SortNameBytes \in Nat /\ Len(SortFields) \in Nat
  <2>1. sorted[c] \in [count : Nat, bytes : Nat] /\ bytes[c] \in Nat
    BY Numbers
  <2>2. QED
    BY <1>1, <2>1, AdmitNumbers
<1>4. k + 1 \in 1..Len(SortFields) /\ k \in 0..(Len(SortFields) - 1) /\ k + 1 \in 0..Len(SortFields)
  BY <1>1, <1>3
<1>5. size \in Nat /\ size = Sizes(SortFields)[k + 1]
  <2>1. field \in Fields /\ k + 1 \in DOMAIN SortFields /\ (k > 0 <=> k + 1 > 1)
    <3>1. k + 1 \in DOMAIN SortFields /\ SortFields[k + 1] \in Fields
      BY <1>2, <1>4
    <3>2. k > 0 <=> k + 1 > 1
      BY <1>3
    <3>3. QED
      BY <3>1, <3>2
  <2>2. field.bytes \in Nat
    BY <2>1 DEF Fields
  <2>3. Sizes(SortFields)[k + 1] = field.bytes + (IF k + 1 > 1 THEN 1 ELSE 0)
                                              + (IF field.descending THEN 1 ELSE 0)
    BY <2>1, SizeAt
  <2> HIDE DEF field, k
  <2>4. size \in Nat
    BY <2>2
  <2>5. QED
    BY <2>1, <2>3, <2>4
<1>6. /\ Prefix(SortFields, k + 1) = sorted[c].bytes + size
      /\ Prefix(SortFields, k + 1) <= Encoded(SortFields)
      /\ Encoded(SortFields) \in Nat
  <2>1. Len(SortFields) \in 0..Len(SortFields)
    BY <1>3
  <2>2. QED
    BY <1>2, <1>4, <1>5, <2>1, PrefixFacts
<1> HIDE DEF size, k, field, charge
<1>7. CASE over /\ Refuse(c, "admit", "limit", 0)
  <2>1. ~SortFits
    <3> DEFINE text == Encoded(SortFields)
               done == sorted[c].bytes
               value == DefaultLimits.MaxValueBytes
               total == DefaultLimits.MaxTotalBytes
    <3>1. text \in Nat /\ done \in Nat /\ size \in Nat /\ done + size <= text
      BY <1>3, <1>5, <1>6
    <3>2. value \in Nat /\ total \in Nat /\ charge \in Nat /\ SortNameBytes \in Nat
      BY <1>3
    <3>3. size > value - done \/ size > total - charge - SortNameBytes - done
      BY <1>2, <1>7
    <3>4. SortFits => text <= value /\ charge + SortNameBytes + text <= total
      BY DEF SortFits, charge
    <3> HIDE DEF text, done, value, total
    <3>5. CASE size > value - done
      <4>1. ~(text <= value)
        BY <3>1, <3>2, <3>5
      <4>2. QED
        BY <3>4, <4>1
    <3>6. CASE size > total - charge - SortNameBytes - done
      <4>1. ~(charge + SortNameBytes + text <= total)
        BY <3>1, <3>2, <3>6
      <4>2. QED
        BY <3>4, <4>1
    <3>7. QED
      BY <3>3, <3>5, <3>6
  <2>2. ~IsSmall /\ AllAccepted
    BY <1>1, <1>2, <2>1, AdmitNumbers, SmallIs
  <2>3. Within(limits, values)
    BY <1>1, AdmitNumbers
  <2>4. QED
    BY <1>1, <1>7, <2>2, <2>3, RefuseKeeps
<1>8. CASE /\ ~over
           /\ bytes' = [bytes EXCEPT ![c] = @ - size]
           /\ sorted' = [sorted EXCEPT ![c] = [count |-> @.count + 1, bytes |-> @.bytes + size]]
           /\ UNCHANGED <<pc, pending, counted, answer>>
  <2>1. /\ bytes[c] - size \in Nat /\ sorted[c].bytes + size \in Nat /\ k + 1 \in Nat
        /\ sorted[c].bytes + size <= DefaultLimits.MaxValueBytes
    <3>1. ~(size > DefaultLimits.MaxValueBytes - sorted[c].bytes) /\ ~(size > bytes[c])
      BY <1>8
    <3>2. QED
      BY <1>3, <1>5, <3>1
  <2>2. /\ bytes' \in [Calls -> Nat] /\ bytes'[c] = bytes[c] - size
        /\ \A d \in Calls \ {c} : bytes'[d] = bytes[d]
    BY <1>8, <2>1 DEF IInv, Typed, TypeOK
  <2>3. /\ sorted' \in [Calls -> [count : Nat, bytes : Nat]]
        /\ sorted'[c] = [count |-> k + 1, bytes |-> sorted[c].bytes + size]
        /\ \A d \in Calls \ {c} : sorted'[d] = sorted[d]
    BY <1>8, <2>1 DEF IInv, Typed, TypeOK, k
  <2>4. Goto(c, "sort", pending[c])
    <3>1. pc = [pc EXCEPT ![c] = "sort"]
      BY <1>1 DEF IInv, Typed, TypeOK
    <3>2. pending = [pending EXCEPT ![c] = pending[c]]
      BY DEF IInv, Typed
    <3>3. pc' = pc /\ pending' = pending /\ answer' = answer
      BY <1>8
    <3>4. QED
      BY <3>1, <3>2, <3>3 DEF Goto
  <2>5. ASSUME pc'[c] = "sort" PROVE Sound(c)'
    <3>1. ~RefusedBy(c, "admit")' /\ ~RefusedBy(c, "limits")'
      BY <2>5 DEF RefusedBy
    <3>2. Sorting(c)'
      <4>1. PageNames' = PageNames /\ SortFields' = SortFields
        BY <1>1, QueryStays
      <4>2. bytes'[c] = DefaultLimits.MaxTotalBytes - charge - SortNameBytes
                        - (sorted[c].bytes + size)
        <5> DEFINE max == DefaultLimits.MaxTotalBytes
                   done == sorted[c].bytes
                   left == bytes'[c]
        <5>1. left = (max - charge - SortNameBytes - done) - size
          BY <1>2, <2>2
        <5>2. max \in Nat /\ charge \in Nat /\ SortNameBytes \in Nat /\ done \in Nat /\ size \in Nat
          BY <1>3, <1>5
        <5> HIDE DEF max, done, left
        <5>3. left = max - charge - SortNameBytes - (done + size)
          BY <5>1, <5>2
        <5>4. QED
          BY <5>3 DEF max, done, left
      <4>3. k + 1 <= Len(SortFields)
        BY <1>4
      <4>4. /\ sorted'[c].count = k + 1 /\ sorted'[c].bytes = sorted[c].bytes + size
            /\ sorted'[c].bytes = Prefix(SortFields, k + 1)
        BY <1>6, <2>3
      <4>5. QED
        BY <1>1, <1>2, <2>1, <4>1, <4>2, <4>3, <4>4 DEF Sorting, charge
    <3>3. Counting(c)' /\ Accepting(c)' /\ Paging(c)' /\ Unsorted(c)' /\ Exact(c)'
      BY <1>1, <2>5, <3>1, AdmitNumbers, QueryStays DEF Counting, Accepting, Paging, Unsorted, Exact
    <3>4. QED
      BY <3>2, <3>3 DEF Sound
  <2>6. pending[c] \in SUBSET DOMAIN values /\ pc[c] # "refused" /\ counted' = counted
    BY <1>1, <1>8, Numbers
  <2>7. QED
    BY <1>1, <2>2, <2>3, <2>4, <2>5, <2>6, GotoKeeps DEF IInv, Typed, TypeOK
<1>9. QED
  BY <1>1, <1>7, <1>8

LEMMA FieldsChargedKeeps == ASSUME IInv, NEW c \in Calls, FieldsCharged(c) PROVE IInv'
<1>1. /\ pc[c] = "sort" /\ sorted[c].count = Len(SortFields) /\ Unread
      /\ values' = values /\ limits' = limits
      /\ Goto(c, "admitted", {}) /\ UNCHANGED <<bytes, counted, sorted>>
  BY DEF FieldsCharged, Unread
<1>2. Sorting(c) /\ bytes[c] \in Nat
  BY Numbers DEF Sound
<1>3. SortFields # <<>> /\ SortFields \in Seq(Fields) /\ sorted[c].bytes = Encoded(SortFields)
  BY <1>1, <1>2, AdmitNumbers, PrefixFacts DEF Sorting
<1> DEFINE amount == SumOver(Amount(values), PageNames)
           charge == SumOver(Charge(values), PageNames)
           text == Encoded(SortFields)
<1>4. /\ amount \in Nat /\ charge \in Nat /\ Cardinality(PageNames) \in Nat
      /\ DefaultLimits.MaxValues \in Nat /\ DefaultLimits.MaxTotalBytes \in Nat
      /\ DefaultLimits.MaxParameters \in Nat /\ SortNameBytes \in Nat
  BY <1>1, AdmitNumbers
<1>5. text \in Nat
  BY <1>3, PrefixFacts, <1>1, AdmitNumbers
<1>6. /\ Cardinality(PageNames) + 1 <= DefaultLimits.MaxParameters
      /\ Len(SortFields) <= DefaultLimits.MaxListItems
      /\ \A n \in PageNames : Small(DefaultLimits, values[n])
      /\ amount + 1 <= DefaultLimits.MaxValues /\ text <= DefaultLimits.MaxValueBytes
      /\ bytes[c] = DefaultLimits.MaxTotalBytes - charge - SortNameBytes - text
  BY <1>1, <1>2, <1>3 DEF Sorting
<1> HIDE DEF amount, charge, text
<1>7. /\ amount <= DefaultLimits.MaxValues /\ charge <= DefaultLimits.MaxTotalBytes
      /\ Cardinality(PageNames) <= DefaultLimits.MaxParameters
      /\ charge + SortNameBytes + text <= DefaultLimits.MaxTotalBytes
  <2>1. bytes[c] \in Nat
    BY <1>2
  <2>2. /\ amount <= DefaultLimits.MaxValues
        /\ Cardinality(PageNames) <= DefaultLimits.MaxParameters
    BY <1>4, <1>6
  <2>3. bytes[c] = DefaultLimits.MaxTotalBytes - charge - SortNameBytes - text
    BY <1>6
  <2>4. /\ charge <= DefaultLimits.MaxTotalBytes
        /\ charge + SortNameBytes + text <= DefaultLimits.MaxTotalBytes
    BY <1>4, <1>5, <2>1, <2>3
  <2>5. QED
    BY <2>2, <2>4
<1>8. PageFits(PageNames) /\ SortFits
  BY <1>6, <1>7 DEF PageFits, SortFits, amount, charge, text
<1>9. IsSmall
  BY <1>1, <1>6, <1>7, <1>8, AdmitNumbers, SmallIs
<1>10. ASSUME pc'[c] = "admitted" PROVE Sound(c)'
  <2>1. ~RefusedBy(c, "admit")' /\ ~RefusedBy(c, "limits")'
    BY <1>10 DEF RefusedBy
  <2>2. QED
    BY <1>1, <1>9, <1>10, <2>1, AdmitNumbers, QueryStays
       DEF Sound, Counting, Accepting, Paging, Sorting, Unsorted, Exact
<1>11. QED
  BY <1>1, <1>10, GotoKeeps DEF IInv, Typed, TypeOK

LEMMA NextKeeps == IInv /\ [Next]_vars => IInv'
<1> SUFFICES ASSUME IInv, [Next]_vars PROVE IInv'
  OBVIOUS
<1>1. ASSUME NEW c \in Calls,
             \/ CountParameters(c) \/ ChargeParameter(c) \/ LimitsHold(c)
             \/ ParseParameter(c) \/ Parsed(c)
             \/ CountPage(c) \/ ChargePage(c) \/ ChargeSortName(c) \/ ChargeField(c)
             \/ FieldsCharged(c)
      PROVE  IInv'
  BY <1>1, CountParametersKeeps, ChargeParameterKeeps, LimitsHoldKeeps, ParseParameterKeeps,
     ParsedKeeps, CountPageKeeps, ChargePageKeeps, ChargeSortNameKeeps, ChargeFieldKeeps,
     FieldsChargedKeeps
<1>2. CASE UNCHANGED vars
  <2>1. Unread /\ Typed'
    BY <1>2 DEF vars, Unread, IInv, Typed, TypeOK
  <2>2. ASSUME NEW d \in Calls PROVE Sound(d)'
    BY <1>2, <2>1, SoundStays DEF vars, IInv
  <2>3. QED
    BY <2>1, <2>2 DEF IInv
<1>3. QED
  BY <1>1, <1>2 DEF Next, Done

-----------------------------------------------------------------------------
(* What follows *)

THEOREM Invariance == Spec => []IInv
<1>1. Init => IInv
  BY InitIInv
<1>2. IInv /\ [Next]_vars => IInv'
  BY NextKeeps
<1>3. QED
  BY <1>1, <1>2, PTL DEF Spec

\* A call only ever counts in naturals: neither totals nor budgets fall below zero.
THEOREM TypeCorrect == Spec => []TypeOK
<1>1. IInv => TypeOK
  BY DEF IInv, Typed
<1>2. QED
  BY <1>1, Invariance, PTL

\* validateLimits refuses what exceeds the limits, and nothing else: no order in which Go
\* yields the map adds a value up differently or returns before one.
THEOREM LimitsAreExact == Spec => []LimitsExact
<1>1. IInv => LimitsExact
  BY DEF IInv, Sound, Exact, LimitsExact
<1>2. QED
  BY <1>1, Invariance, PTL

\* admit, which subtracts and never sees the encoded query, admits the page family and the
\* sort fields of exactly the queries that are within the default limits.
THEOREM AdmissionIsExact == Spec => []AdmitExact
<1>1. IInv => AdmitExact
  BY DEF IInv, Sound, Exact, IsSmall, AdmitExact
<1>2. QED
  BY <1>1, Invariance, PTL

\* A query that the parser with the default limits has accepted is small.
LEMMA AcceptedIsSmall ==
  ASSUME values \in Queries, limits = DefaultLimits, AllAccepted, Within(limits, values)
  PROVE  IsSmall
<1>1. DefaultLimits \in Limits /\ Fits(DefaultLimits, values, DOMAIN values)
  BY LimitsFacts, WithinAll
<1>2. CASE SortFields = <<>>
  <2>1. Paged = [n \in PageNames |-> values[n]] /\ PageNames \in SUBSET DOMAIN values
    BY <1>2, PageFacts DEF Paged
  <2>2. Within(DefaultLimits, Paged)
    BY <1>1, <2>1, FitsParts, WithinIsFits
  <2>3. Len(SortFields) <= DefaultLimits.MaxListItems
    BY <1>1, <1>2, LimitsFacts
  <2>4. QED
    BY <2>2, <2>3 DEF IsSmall
<1>3. CASE SortFields # <<>>
  <2>1. Paged = [n \in PageNames \cup SortNames |-> values[n]]
    BY <1>3 DEF Paged
  <2>2. PageNames \cup SortNames \in SUBSET DOMAIN values
    BY DEF PageNames, SortNames
  <2>3. Within(DefaultLimits, Paged)
    BY <1>1, <2>1, <2>2, FitsParts, WithinIsFits
  <2>4. Len(SortFields) <= DefaultLimits.MaxListItems
    BY <1>1, <1>3, SortFacts
  <2>5. QED
    BY <2>3, <2>4 DEF IsSmall
<1>4. QED
  BY <1>2, <1>3

\* Cursor pagination never refuses for its size what a parser with the default limits has
\* accepted: the bytes that it reconstructs from the sort fields are no more than those of
\* the value that they were parsed from.
THEOREM AdmitsWhatIsParsed == Spec => []AdmitsParsed
<1>1. IInv => AdmitsParsed
  <2> SUFFICES ASSUME IInv, limits = DefaultLimits, NEW c \in Calls, RefusedBy(c, "admit")
               PROVE  FALSE
    BY DEF AdmitsParsed
  <2>1. values \in Queries /\ AllAccepted /\ ~IsSmall
    BY Numbers DEF Sound, Accepting, Exact
  <2>2. pc[c] \notin {"start", "limits"} /\ ~RefusedBy(c, "limits")
    BY DEF RefusedBy
  <2>3. Within(limits, values)
    BY <2>2, Numbers DEF Sound, Exact
  <2>4. QED
    BY <2>1, <2>3, AcceptedIsSmall
<1>2. QED
  BY <1>1, Invariance, PTL
===================================================================================
