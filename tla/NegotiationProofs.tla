---------------------------- MODULE NegotiationProofs ----------------------------
(***************************************************************************)
(* For every set of headers, of supported URIs and every limit, what       *)
(* NegotiateAccept selects is the content type that the header prefers,    *)
(* and the negotiator's own content type check accepts it.                 *)
(***************************************************************************)
EXTENDS Negotiation, TLAPS

Ranges == [type : ContentTypes, quality : 0..FullQuality, specificity : 0..4,
           matchesAll : BOOLEAN]

AdmittedBefore(n) ==
  {Range(header.candidates[k]) :
     k \in {j \in DOMAIN header.candidates : j < n /\ Admitted(header.candidates[j])}}

\* The ranges admitted are those of the candidates read, and the representations
\* are their content types.
AdmissionInv ==
  /\ pc \in {"admit", "match"} => ~header.long /\ ~header.blank
  /\ pc = "check" => index = 1 /\ ranges = <<>>
  /\ pc \in {"check", "admit"} =>
       /\ ItemsOf(ranges) = AdmittedBefore(index)
       /\ range = 1 /\ best = NoMatch /\ selected = <<>> /\ answer = "none"
  /\ pc = "match" => ItemsOf(ranges) = Offered /\ answer = "none"
  /\ ItemsOf(representations) = {r.type : r \in ItemsOf(ranges)}

NotBetter(r, b) ==
  r.specificity < b.specificity \/ (r.specificity = b.specificity /\ r.quality <= b.quality)

\* Of the ranges before n that match the type, b is the best.
BestOf(type, n, b) ==
  \/ b = NoMatch /\ \A k \in DOMAIN ranges : k < n => ~Matches(ranges[k], type)
  \/ \E k \in DOMAIN ranges :
       /\ k < n /\ Matches(ranges[k], type)
       /\ b = [specificity |-> ranges[k].specificity, quality |-> ranges[k].quality]
       /\ \A j \in DOMAIN ranges : j < n /\ Matches(ranges[j], type) => NotBetter(ranges[j], b)

BestInv ==
  (pc = "match" /\ index <= Len(representations)) =>
    BestOf(representations[index], range, best)

NotPreferred(type, quality) ==
  /\ selected # <<>>
  /\ \/ selected[1].quality > quality
     \/ selected[1].quality = quality /\ RankOf[selected[1].type] <= RankOf[type]

\* The content types ranked do not surpass the selected one, which is acceptable.
SelectedInv ==
  /\ \A j \in DOMAIN representations : j < index =>
       \A quality \in 1..FullQuality :
         HasQuality(representations[j], quality) => NotPreferred(representations[j], quality)
  /\ selected # <<>> =>
       /\ HasQuality(selected[1].type, selected[1].quality)
       /\ selected[1].type \in ItemsOf(representations)

RankedInv == pc = "match" => SelectedInv

AnsweredInv ==
  (pc = "answered" /\ ~header.long /\ ~header.blank /\ answer # "limit") =>
    /\ ItemsOf(ranges) = Offered
    /\ SelectedInv
    /\ \A j \in DOMAIN representations : j < index
    /\ answer = IF selected = <<>> THEN "not-acceptable" ELSE "accepted"

\* What is accepted is selected, from the header unless it is blank.
AcceptedInv ==
  answer = "accepted" =>
    /\ pc = "answered" /\ ~header.long /\ Len(selected) = 1
    /\ header.blank => selected[1].type = Bare

IInv ==
  TypeOK /\ AdmissionInv /\ BestInv /\ RankedInv /\ AnsweredInv /\ AcceptedInv
-----------------------------------------------------------------------------
(* Lemmas *)

\* The elements of a sequence are in its set.
LEMMA ElementOf ==
  ASSUME NEW S, NEW s \in Seq(S), NEW k \in DOMAIN s
  PROVE  s[k] \in S /\ k \in Nat \ {0} /\ k <= Len(s)
OBVIOUS

\* A sequence that is not empty has a first element.
LEMMA FirstOf ==
  ASSUME NEW S, NEW s \in Seq(S), s # <<>>
  PROVE  1 \in DOMAIN s /\ s[1] \in S /\ Len(s) \in Nat \ {0}
OBVIOUS

\* Appending an element of the set.
LEMMA AppendOf ==
  ASSUME NEW S, NEW s \in Seq(S), NEW e \in S
  PROVE  Append(s, e) \in Seq(S) /\ <<e>> \in Seq(S) /\ Len(<<e>>) = 1 /\ <<e>>[1] = e
OBVIOUS

\* Appending adds one item.
LEMMA ItemsOfAppend ==
  ASSUME NEW S, NEW s \in Seq(S), NEW e \in S
  PROVE  ItemsOf(Append(s, e)) = ItemsOf(s) \cup {e}
<1>1. /\ DOMAIN Append(s, e) = DOMAIN s \cup {Len(s) + 1}
      /\ \A k \in DOMAIN s : Append(s, e)[k] = s[k]
      /\ Append(s, e)[Len(s) + 1] = e
  OBVIOUS
<1> QED
  BY <1>1 DEF ItemsOf

\* The media range of an admitted candidate is well formed.
LEMMA RangeType ==
  ASSUME NEW h, IsHeader(h), NEW c \in ItemsOf(h.candidates)
  PROVE  Range(c) \in Ranges /\ Range(c).type = Requested(c)
<1>1. c.q \in 0..FullQuality /\ Requested(c) \in ContentTypes
  BY DEF IsHeader
<1>2. Parameters(Requested(c)) \in 0..2
  BY DEF Parameters
<1>3. Specificity(c) \in 0..4
  BY <1>2 DEF Specificity
<1>4. FullQuality \in 0..FullQuality
  BY QualitiesArePositive
<1> QED
  BY <1>1, <1>2, <1>3, <1>4 DEF Range, Ranges

\* A content type has one quality at most.
LEMMA QualityUnique ==
  ASSUME TypeOK, NEW type, NEW p \in Nat, NEW q \in Nat,
         HasQuality(type, p), HasQuality(type, q)
  PROVE  p = q
<1>1. Offered \subseteq Ranges
  BY RangeType DEF Offered, TypeOK
<1>2. PICK r \in Offered :
        /\ Matches(r, type) /\ r.quality = p
        /\ \A s \in Offered : Matches(s, type) => NotBetter(s, r)
  BY DEF HasQuality, NotBetter
<1>3. PICK s \in Offered :
        /\ Matches(s, type) /\ s.quality = q
        /\ \A t \in Offered : Matches(t, type) => NotBetter(t, s)
  BY DEF HasQuality, NotBetter
<1>4. NotBetter(s, r) /\ NotBetter(r, s)
  BY <1>2, <1>3
<1>5. r \in Ranges /\ s \in Ranges
  BY <1>1
<1> QED
  BY <1>2, <1>3, <1>4, <1>5 DEF NotBetter, Ranges

\* When all ranges are matched, the best of them is the quality of the type.
LEMMA BestIsQuality ==
  ASSUME TypeOK, ItemsOf(ranges) = Offered, NEW type, NEW n \in Nat, n > Len(ranges),
         BestOf(type, n, best), best.quality # 0
  PROVE  HasQuality(type, best.quality)
<1>1. PICK k \in DOMAIN ranges :
        /\ Matches(ranges[k], type)
        /\ best = [specificity |-> ranges[k].specificity, quality |-> ranges[k].quality]
        /\ \A j \in DOMAIN ranges :
             j < n /\ Matches(ranges[j], type) => NotBetter(ranges[j], best)
  BY DEF BestOf, NoMatch
<1>2. \A j \in DOMAIN ranges : j < n
  BY DEF TypeOK
<1>3. ranges[k] \in Offered
  BY DEF ItemsOf
<1>4. ASSUME NEW s \in Offered, Matches(s, type)
      PROVE  NotBetter(s, ranges[k])
  <2>1. PICK j \in DOMAIN ranges : s = ranges[j]
    BY DEF ItemsOf
  <2> QED
    BY <2>1, <1>1, <1>2, <1>4 DEF NotBetter
<1> QED
  BY <1>1, <1>3, <1>4 DEF HasQuality, NotBetter

\* A type with a quality is matched, and the best of the ranges has that quality.
LEMMA QualityIsBest ==
  ASSUME TypeOK, ItemsOf(ranges) = Offered, NEW type, NEW n \in Nat, n > Len(ranges),
         BestOf(type, n, best), NEW q \in 1..FullQuality, HasQuality(type, q)
  PROVE  best.quality = q
<1>1. \A j \in DOMAIN ranges : j < n
  BY DEF TypeOK
<1>2. PICK r \in Offered :
        /\ Matches(r, type) /\ r.quality = q
        /\ \A s \in Offered : Matches(s, type) => NotBetter(s, r)
  BY DEF HasQuality, NotBetter
<1>3. PICK j \in DOMAIN ranges : r = ranges[j]
  BY DEF ItemsOf
<1>4. PICK k \in DOMAIN ranges :
        /\ Matches(ranges[k], type)
        /\ best = [specificity |-> ranges[k].specificity, quality |-> ranges[k].quality]
        /\ \A i \in DOMAIN ranges :
             i < n /\ Matches(ranges[i], type) => NotBetter(ranges[i], best)
  BY <1>1, <1>2, <1>3 DEF BestOf
<1>5. NotBetter(ranges[j], best) /\ NotBetter(ranges[k], ranges[j])
  BY <1>1, <1>2, <1>3, <1>4 DEF ItemsOf
<1>6. ranges[j] \in Ranges /\ ranges[k] \in Ranges
  <2>1. ranges \in Seq(Ranges)
    BY DEF TypeOK, Ranges
  <2> QED
    BY <2>1, ElementOf
<1> QED
  BY <1>2, <1>3, <1>4, <1>5, <1>6 DEF NotBetter, Ranges
\* What is selected is a content type with a positive quality.
LEMMA SelectedType ==
  ASSUME TypeOK, selected # <<>>
  PROVE  /\ selected[1] \in [type : ContentTypes, quality : 1..FullQuality]
         /\ selected[1].type \in ContentTypes /\ selected[1].quality \in 1..FullQuality
         /\ Len(selected) = 1
<1> DEFINE S == [type : ContentTypes, quality : 1..FullQuality]
<1>1. selected \in Seq(S) /\ Len(selected) <= 1
  BY DEF TypeOK
<1> HIDE DEF S
<1>2. Len(selected) = 1 /\ selected[1] \in S
  <2>1. 1 \in DOMAIN selected /\ selected[1] \in S /\ Len(selected) \in Nat \ {0}
    BY <1>1, FirstOf, Zenon
  <2>2. \A n \in Nat \ {0} : n <= 1 => n = 1
    OBVIOUS
  <2> QED
    BY <1>1, <2>1, <2>2, Zenon
<1> QED
  BY <1>2 DEF S
-----------------------------------------------------------------------------
(* The steps *)

\* Nothing is admitted, matched or ranked at first.
LEMMA Initially == Init => IInv
<1> SUFFICES ASSUME Init PROVE IInv
  OBVIOUS
<1>1. TypeOK
  BY HeadersWellFormed, QualitiesArePositive DEF Init, TypeOK, NoMatch
<1>2. IsHeader(header)
  BY HeadersWellFormed DEF Init
<1>3. AdmittedBefore(1) = {}
  BY <1>2 DEF AdmittedBefore, IsHeader
<1>4. AdmissionInv
  BY <1>3 DEF Init, AdmissionInv, ItemsOf
<1> QED
  BY <1>1, <1>4 DEF Init, IInv, BestInv, RankedInv, AnsweredInv, AcceptedInv

\* The header's own checks.
LEMMA CheckHeaderStep == ASSUME IInv, CheckHeader PROVE IInv'
<1> USE DEF IInv, CheckHeader, Answer
<1>1. TypeOK'
  BY DEF TypeOK
<1>2. AdmissionInv'
  BY DEF AdmissionInv, AdmittedBefore, Offered
<1>3. BestInv' /\ RankedInv'
  BY DEF BestInv, RankedInv
<1>4. AnsweredInv' /\ AcceptedInv'
  BY DEF AnsweredInv, AcceptedInv, AdmissionInv
<1> QED
  BY <1>1, <1>2, <1>3, <1>4

\* A blank header.
LEMMA AcceptAnythingStep == ASSUME IInv, AcceptAnything PROVE IInv'
<1> USE DEF IInv, AcceptAnything, Answer
<1>1. TypeOK'
  BY BareIsAContentType, QualitiesArePositive DEF TypeOK
<1>2. AdmissionInv'
  BY DEF AdmissionInv, Offered
<1>3. BestInv' /\ RankedInv' /\ AnsweredInv' /\ AcceptedInv'
  BY DEF BestInv, RankedInv, AnsweredInv, AcceptedInv
<1> QED
  BY <1>1, <1>2, <1>3

\* A candidate is admitted or dropped.
LEMMA AdmitCandidateStep == ASSUME IInv, AdmitCandidate PROVE IInv'
<1> DEFINE c == header.candidates[index]
<1>1. TypeOK /\ IsHeader(header) /\ pc = "admit" /\ pc' = "admit" /\ answer = "none"
  BY DEF IInv, TypeOK, AdmitCandidate, AdmissionInv
<1>2. c \in ItemsOf(header.candidates) /\ index \in DOMAIN header.candidates
  BY <1>1 DEF AdmitCandidate, ItemsOf, IsHeader, TypeOK
<1>3. Range(c) \in Ranges /\ Range(c).type = Requested(c) /\ Requested(c) \in ContentTypes
  BY <1>1, <1>2, RangeType DEF IsHeader
<1>0. ranges \in Seq(Ranges) /\ representations \in Seq(ContentTypes)
  BY <1>1 DEF TypeOK, Ranges
<1>4. ItemsOf(ranges') = ItemsOf(ranges) \cup (IF Admitted(c) THEN {Range(c)} ELSE {})
  BY <1>0, <1>3, ItemsOfAppend DEF AdmitCandidate
<1>5. ItemsOf(representations') =
        ItemsOf(representations) \cup (IF Admitted(c) THEN {Requested(c)} ELSE {})
  BY <1>0, <1>3, ItemsOfAppend DEF AdmitCandidate
<1>6. TypeOK'
  <2>1. ranges' \in Seq(Ranges) /\ representations' \in Seq(ContentTypes)
    BY <1>0, <1>3, AppendOf DEF AdmitCandidate
  <2>2. index' \in Nat \ {0} /\ UNCHANGED <<header, pc, range, best, selected, answer>>
    BY <1>1 DEF AdmitCandidate, TypeOK
  <2> QED
    BY <1>1, <2>1, <2>2 DEF TypeOK, Ranges
<1>7. AdmittedBefore(index)' =
        AdmittedBefore(index) \cup (IF Admitted(c) THEN {Range(c)} ELSE {})
  <2>1. header' = header /\ index' = index + 1 /\ index \in Nat
    BY <1>1 DEF AdmitCandidate, TypeOK
  <2>2. DOMAIN header.candidates \subseteq Nat
    BY <1>1 DEF IsHeader
  <2>3. \A j \in DOMAIN header.candidates : j < index' <=> (j < index \/ j = index)
    BY <2>1, <2>2
  <2> QED
    BY <2>1, <2>3, <1>2 DEF AdmittedBefore
<1>8. AdmissionInv'
  <2>1. ItemsOf(ranges)' = AdmittedBefore(index)'
    BY <1>1, <1>4, <1>7 DEF IInv, AdmissionInv, ItemsOf
  <2>2. ItemsOf(representations') = {r.type : r \in ItemsOf(ranges')}
    BY <1>3, <1>4, <1>5 DEF IInv, AdmissionInv
  <2> QED
    BY <1>1, <2>1, <2>2 DEF IInv, AdmissionInv, AdmitCandidate, ItemsOf
<1>9. BestInv' /\ RankedInv' /\ AnsweredInv' /\ AcceptedInv'
  BY <1>1 DEF AdmitCandidate, BestInv, RankedInv, AnsweredInv, AcceptedInv
<1> QED
  BY <1>6, <1>8, <1>9 DEF IInv

\* With all candidates admitted, matching begins.
LEMMA AllAdmittedStep == ASSUME IInv, AllAdmitted PROVE IInv'
<1>1. /\ TypeOK /\ IsHeader(header) /\ pc = "admit" /\ answer = "none" /\ selected = <<>>
      /\ range = 1 /\ best = NoMatch /\ ItemsOf(ranges) = AdmittedBefore(index)
  BY DEF IInv, TypeOK, AllAdmitted, AdmissionInv
<1>2. TypeOK'
  BY <1>1 DEF TypeOK, AllAdmitted
<1>3. \A j \in DOMAIN header.candidates : j < index
  BY <1>1 DEF AllAdmitted, IsHeader, TypeOK
<1>4. AdmittedBefore(index) = Offered
  BY <1>3 DEF AdmittedBefore, Offered, ItemsOf
<1>5. AdmissionInv'
  BY <1>1, <1>4 DEF IInv, AdmissionInv, AllAdmitted, Offered
<1>6. DOMAIN ranges \subseteq Nat \ {0} /\ DOMAIN representations \subseteq Nat \ {0}
  BY <1>1 DEF TypeOK
<1>7. BestInv'
  BY <1>1, <1>6 DEF AllAdmitted, BestInv, BestOf
<1>8. RankedInv'
  BY <1>1, <1>6 DEF AllAdmitted, RankedInv, SelectedInv
<1>9. AnsweredInv' /\ AcceptedInv'
  BY <1>1 DEF AllAdmitted, AnsweredInv, AcceptedInv
<1> QED
  BY <1>2, <1>5, <1>7, <1>8, <1>9 DEF IInv

\* A range is compared with the best so far.
LEMMA MatchRangeStep == ASSUME IInv, MatchRange PROVE IInv'
<1> DEFINE type == representations[index]
           r == ranges[range]
           new == [specificity |-> r.specificity, quality |-> r.quality]
<1>1. /\ TypeOK /\ pc = "match" /\ answer = "none"
      /\ UNCHANGED <<header, pc, index, ranges, representations, selected, answer>>
      /\ range' = range + 1
      /\ best' = IF Matches(r, type) /\ Governs(r, best) THEN new ELSE best
  BY DEF IInv, AdmissionInv, MatchRange
<1>2. /\ ranges \in Seq(Ranges) /\ range \in DOMAIN ranges /\ r \in Ranges
      /\ best \in [specificity : -1..4, quality : 0..FullQuality] /\ range \in Nat
      /\ \A k \in DOMAIN ranges : k \in Nat /\ ranges[k] \in Ranges
  <2>1. ranges \in Seq(Ranges) /\ range \in Nat \ {0} /\ range <= Len(ranges)
    BY <1>1 DEF TypeOK, Ranges, MatchRange
  <2>2. range \in DOMAIN ranges
    BY <2>1
  <2> QED
    BY <2>1, <2>2, <1>1, ElementOf DEF TypeOK
<1>3. TypeOK'
  BY <1>1, <1>2 DEF TypeOK, Ranges
<1>4. AdmissionInv'
  BY <1>1 DEF IInv, AdmissionInv, Offered
<1>5. \A k \in DOMAIN ranges : k < range' <=> (k < range \/ k = range)
  BY <1>1, <1>2
<1>6. BestOf(type, range, best)
  BY DEF IInv, BestInv, MatchRange
<1>7. BestOf(type, range', best')
  <2>1. CASE ~Matches(r, type)
    BY <2>1, <1>1, <1>5, <1>6 DEF BestOf
  <2>2. CASE Matches(r, type) /\ Governs(r, best)
    <3>1. ASSUME NEW j \in DOMAIN ranges, j < range', Matches(ranges[j], type)
          PROVE  NotBetter(ranges[j], new)
      <4>1. CASE j = range
        BY <4>1, <1>2 DEF NotBetter, Ranges
      <4>2. CASE j < range
        <5>1. NotBetter(ranges[j], best)
          BY <4>2, <3>1, <1>6 DEF BestOf
        <5>2. ranges[j] \in Ranges
          BY <1>2
        <5> QED
          BY <5>1, <5>2, <2>2, <1>2 DEF NotBetter, Governs, Ranges
      <4> QED
        BY <4>1, <4>2, <3>1, <1>5
    <3>2. range < range' /\ best' = new
      BY <2>2, <1>1, <1>2
    <3> QED
      BY <3>1, <3>2, <2>2, <1>2 DEF BestOf
  <2>3. CASE Matches(r, type) /\ ~Governs(r, best)
    <3>1. best # NoMatch
      BY <2>3, <1>2 DEF Governs, NoMatch, Ranges
    <3>2. NotBetter(r, best)
      BY <2>3, <1>2 DEF Governs, NotBetter, Ranges
    <3>3. best' = best
      BY <2>3, <1>1
    <3> QED
      BY <3>1, <3>2, <3>3, <1>5, <1>6 DEF BestOf
  <2> QED
    BY <2>1, <2>2, <2>3
<1>8. BestInv'
  BY <1>1, <1>7 DEF BestInv, BestOf
<1>9. RankedInv' /\ AnsweredInv' /\ AcceptedInv'
  BY <1>1 DEF IInv, RankedInv, SelectedInv, NotPreferred, HasQuality, Offered, AnsweredInv,
              AcceptedInv
<1> QED
  BY <1>3, <1>4, <1>8, <1>9 DEF IInv

\* A representation with its quality is ranked.
LEMMA RankRepresentationStep == ASSUME IInv, RankRepresentation PROVE IInv'
<1> DEFINE type == representations[index]
           new == <<[type |-> type, quality |-> best.quality]>>
           ranked == best.quality # 0 /\ Replaces(best.quality, type)
<1>1. /\ TypeOK /\ pc = "match" /\ answer = "none" /\ ItemsOf(ranges) = Offered
      /\ UNCHANGED <<header, pc, ranges, representations, answer>>
      /\ index' = index + 1 /\ range' = 1 /\ best' = NoMatch
      /\ selected' = IF ranked THEN new ELSE selected
      /\ range > Len(ranges)
  BY DEF IInv, AdmissionInv, RankRepresentation
<1>2. /\ index \in DOMAIN representations /\ type \in ContentTypes /\ index \in Nat
      /\ range \in Nat /\ best.quality \in 0..FullQuality /\ type \in ItemsOf(representations)
      /\ \A k \in DOMAIN ranges : k \in Nat /\ k >= 1
  BY <1>1 DEF TypeOK, RankRepresentation, ItemsOf
<1>3. TypeOK'
  <2>1. best' \in [specificity : -1..4, quality : 0..FullQuality]
    BY <1>1, QualitiesArePositive DEF NoMatch
  <2>2. selected' \in Seq([type : ContentTypes, quality : 1..FullQuality])
        /\ Len(selected') <= 1
    <3>1. CASE ranked
      <4>1. [type |-> type, quality |-> best.quality] \in
              [type : ContentTypes, quality : 1..FullQuality]
        BY <3>1, <1>2, QualitiesArePositive
      <4> QED
        BY <3>1, <4>1, <1>1
    <3>2. CASE ~ranked
      BY <3>2, <1>1 DEF TypeOK
    <3> QED
      BY <3>1, <3>2
  <2> QED
    BY <2>1, <2>2, <1>1, <1>2 DEF TypeOK
<1>4. AdmissionInv'
  BY <1>1 DEF IInv, AdmissionInv, Offered
<1>5. BestInv'
  BY <1>1, <1>2 DEF BestInv, BestOf
<1>6. BestOf(type, range, best)
  BY DEF IInv, BestInv, RankRepresentation
<1>7. SelectedInv
  BY <1>1 DEF IInv, RankedInv
<1>8. \A t, q : HasQuality(t, q)' <=> HasQuality(t, q)
  BY <1>1 DEF HasQuality, Offered
<1>9. selected' # <<>> =>
        /\ HasQuality(selected'[1].type, selected'[1].quality)
        /\ selected'[1].type \in ItemsOf(representations)
  <2>1. CASE ranked
    BY <2>1, <1>1, <1>2, <1>6, BestIsQuality
  <2>2. CASE ~ranked
    BY <2>2, <1>1, <1>7 DEF SelectedInv
  <2> QED
    BY <2>1, <2>2
<1>10. ASSUME NEW j \in DOMAIN representations, j < index', NEW q \in 1..FullQuality,
              HasQuality(representations[j], q)
       PROVE  /\ selected' # <<>>
              /\ \/ selected'[1].quality > q
                 \/ /\ selected'[1].quality = q
                    /\ RankOf[selected'[1].type] <= RankOf[representations[j]]
  <2>1. representations[j] \in ContentTypes /\ j \in Nat
    BY <1>1 DEF TypeOK
  <2>2. \A t \in ContentTypes : RankOf[t] \in Nat
    BY RanksDiffer
  <2>3. selected # <<>> =>
          selected[1].quality \in Nat /\ selected[1].type \in ContentTypes
    BY <1>1, SelectedType DEF TypeOK
  <2>4. CASE j = index
    <3>1. best.quality = q
      BY <2>4, <1>10, <1>1, <1>2, <1>6, QualityIsBest
    <3>2. q # 0 /\ q \in Nat
      BY <1>10
    <3> QED
      BY <2>1, <2>2, <2>3, <2>4, <3>1, <3>2, <1>1, <1>2 DEF Replaces
  <2>5. CASE j < index
    <3>1. NotPreferred(representations[j], q)
      BY <2>5, <1>7, <1>10 DEF SelectedInv
    <3>2. CASE ranked
      <4>1. /\ selected' = new /\ selected'[1].quality = best.quality
            /\ selected'[1].type = type /\ selected' # <<>>
        BY <3>2, <1>1
      <4>2. \/ best.quality > selected[1].quality
            \/ /\ best.quality = selected[1].quality
               /\ RankOf[type] < RankOf[selected[1].type]
        BY <3>1, <3>2 DEF Replaces, NotPreferred
      <4> HIDE DEF new
      <4> QED
        BY <2>1, <2>2, <2>3, <3>1, <4>1, <4>2, <1>2, <1>10 DEF NotPreferred
    <3>3. CASE ~ranked
      BY <3>1, <3>3, <1>1 DEF NotPreferred
    <3> QED
      BY <3>2, <3>3
  <2> QED
    BY <2>1, <2>4, <2>5, <1>1, <1>2, <1>10
<1>11. RankedInv'
  BY <1>1, <1>8, <1>9, <1>10 DEF RankedInv, SelectedInv, NotPreferred, ItemsOf
<1>12. AnsweredInv' /\ AcceptedInv'
  BY <1>1 DEF AnsweredInv, AcceptedInv
<1> QED
  BY <1>3, <1>4, <1>5, <1>11, <1>12 DEF IInv

\* With all representations ranked, the answer is given.
LEMMA RespondStep == ASSUME IInv, Respond PROVE IInv'
<1>1. /\ TypeOK /\ pc = "match" /\ ItemsOf(ranges) = Offered /\ SelectedInv
      /\ UNCHANGED <<header, index, ranges, representations, range, best, selected>>
      /\ pc' = "answered"
      /\ answer' = IF selected = <<>> THEN "not-acceptable" ELSE "accepted"
  BY DEF IInv, AdmissionInv, RankedInv, Respond, Answer
<1>2. TypeOK'
  BY <1>1 DEF TypeOK
<1>3. AdmissionInv'
  BY <1>1 DEF IInv, AdmissionInv
<1>4. SelectedInv'
  BY <1>1 DEF SelectedInv, NotPreferred, HasQuality, Offered
<1>5. \A j \in DOMAIN representations : j < index
  BY <1>1 DEF Respond, TypeOK
<1>6. AnsweredInv'
  BY <1>1, <1>4, <1>5 DEF AnsweredInv, Offered
<1> QED
  <2>1. ~header.long /\ ~header.blank
    BY <1>1 DEF IInv, AdmissionInv
  <2>2. AcceptedInv'
    BY <2>1, <1>1, SelectedType DEF AcceptedInv
  <2>3. BestInv' /\ RankedInv'
    BY <1>1 DEF BestInv, RankedInv
  <2> QED
    BY <1>2, <1>3, <1>6, <2>2, <2>3 DEF IInv

\* The invariant is inductive.
THEOREM Inductive == Spec => []IInv
<1>1. Init => IInv
  BY Initially
<1>2. IInv /\ [Next]_vars => IInv'
  <2> SUFFICES ASSUME IInv, [Next]_vars PROVE IInv'
    OBVIOUS
  <2>1. CASE UNCHANGED vars
    <3> USE <2>1 DEF vars
    <3>1. TypeOK'
      BY DEF IInv, TypeOK
    <3>2. AdmissionInv'
      BY DEF IInv, AdmissionInv, AdmittedBefore, Offered
    <3>3. BestInv' /\ AcceptedInv'
      BY DEF IInv, BestInv, BestOf, AcceptedInv
    <3>4. SelectedInv' <=> SelectedInv
      BY DEF SelectedInv, NotPreferred, HasQuality, Offered
    <3>5. RankedInv' /\ AnsweredInv'
      BY <3>4 DEF IInv, RankedInv, AnsweredInv, Offered
    <3> QED
      BY <3>1, <3>2, <3>3, <3>5 DEF IInv
  <2> QED
    BY <2>1, CheckHeaderStep, AcceptAnythingStep, AdmitCandidateStep, AllAdmittedStep,
       MatchRangeStep, RankRepresentationStep, RespondStep DEF Next
<1> QED
  BY <1>1, <1>2, PTL DEF Spec

\* The state of a negotiation is well typed, whatever the header and the limits.
THEOREM TypeCorrect == Spec => []TypeOK
<1>1. IInv => TypeOK
  BY DEF IInv
<1> QED
  BY <1>1, Inductive, PTL

\* Preference, for every header: the selected content type is acceptable and no other is
\* preferred to it; a refusal means that none is acceptable.
THEOREM PreferenceHolds == Spec => []SelectsPreferred
<1>1. IInv => SelectsPreferred
  <2> SUFFICES ASSUME IInv, pc = "answered", ~header.long, ~header.blank, answer # "limit"
               PROVE  /\ answer = "not-acceptable" =>
                           \A type \in ContentTypes : ~Acceptable(type)
                      /\ answer = "accepted" => Preferred(selected[1].type)
    BY DEF SelectsPreferred
  <2>1. /\ TypeOK /\ SelectedInv /\ ItemsOf(ranges) = Offered
        /\ \A j \in DOMAIN representations : j < index
        /\ answer = IF selected = <<>> THEN "not-acceptable" ELSE "accepted"
        /\ ItemsOf(representations) = {r.type : r \in Offered}
    BY DEF IInv, AnsweredInv, AdmissionInv
  <2>2. ASSUME NEW type \in ContentTypes, Acceptable(type)
        PROVE  \E q \in 1..FullQuality : HasQuality(type, q) /\ NotPreferred(type, q)
    <3>1. PICK j \in DOMAIN representations : representations[j] = type
      BY <2>1, <2>2 DEF Acceptable, ItemsOf
    <3> QED
      BY <2>1, <2>2, <3>1 DEF Acceptable, SelectedInv
  <2>3. answer = "not-acceptable" => \A type \in ContentTypes : ~Acceptable(type)
    BY <2>1, <2>2 DEF NotPreferred
  <2>4. ASSUME answer = "accepted" PROVE Preferred(selected[1].type)
    <3>1. /\ selected # <<>> /\ HasQuality(selected[1].type, selected[1].quality)
          /\ selected[1].quality \in 1..FullQuality /\ selected[1].type \in ContentTypes
          /\ \E r \in Offered : r.type = selected[1].type
      BY <2>1, <2>4, SelectedType DEF SelectedInv
    <3>2. Acceptable(selected[1].type)
      BY <3>1 DEF Acceptable
    <3>3. ASSUME NEW other \in ContentTypes, Acceptable(other)
          PROVE  \E p, q \in 1..FullQuality :
                   /\ HasQuality(selected[1].type, p) /\ HasQuality(other, q)
                   /\ p > q \/ (p = q /\ RankOf[selected[1].type] <= RankOf[other])
      BY <2>2, <3>1, <3>3 DEF NotPreferred
    <3> QED
      BY <3>2, <3>3 DEF Preferred
  <2> QED
    BY <2>3, <2>4
<1> QED
  BY <1>1, Inductive, PTL

\* What is selected, the negotiator's own check of a request accepts.
THEOREM SelectionIsReadable == Spec => []SelectedIsReadable
<1>1. IInv => SelectedIsReadable
  <2> SUFFICES ASSUME IInv, answer = "accepted"
               PROVE  selected[1].type.ext \subseteq Extensions
    BY DEF SelectedIsReadable, ContentTypeVerdict
  <2>1. pc = "answered" /\ ~header.long /\ selected # <<>> /\ TypeOK
    BY DEF IInv, AcceptedInv
  <2>2. CASE header.blank
    BY <2>2 DEF IInv, AcceptedInv, Bare
  <2>3. CASE ~header.blank
    <3>1. PICK r \in Offered : r.type = selected[1].type
      BY <2>1, <2>3 DEF IInv, AnsweredInv, AdmissionInv, SelectedInv
    <3>2. PICK c \in ItemsOf(header.candidates) : Admitted(c) /\ r.type = Requested(c)
      BY <3>1 DEF Offered, Range
    <3> QED
      BY <3>1, <3>2 DEF Admitted, Requested, Bare
  <2> QED
    BY <2>2, <2>3
<1> QED
  BY <1>1, Inductive, PTL
=============================================================================
