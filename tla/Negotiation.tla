------------------------------- MODULE Negotiation -------------------------------
(***************************************************************************)
(* Content negotiation (negotiation.go): NegotiateAccept selects the       *)
(* representation of a response from an Accept header, CheckContentType    *)
(* judges the media type of a request.                                     *)
(*                                                                         *)
(* A header is [long, blank, candidates]: whether it exceeds the byte      *)
(* limit, whether it is empty, and the media ranges between its commas.  A *)
(* candidate is what mime.ParseMediaType and the parameter parsers make of *)
(* a media range: [range, other, qform, q, lists, ext, profile] with range *)
(* "malformed", "all" for "*/*", "application" for "application/*",        *)
(* "jsonapi" or "other"; other, whether it has a parameter that is not     *)
(* ext, profile or q; qform "absent", "valid" or "invalid"; q in           *)
(* thousandths of any scale; lists "valid", "malformed" or "over-limit";   *)
(* ext and profile, the sets of URIs listed ({} for an absent parameter).  *)
(*                                                                         *)
(* A content type is [ext, profile].  RankOf is its place in the lexical   *)
(* order of MediaType.String().                                            *)
(***************************************************************************)
EXTENDS Integers, Sequences

CONSTANTS
  Headers,               \* the Accept headers
  Extensions, Profiles,  \* the URIs the negotiator supports
  MaxAcceptCandidates,
  FullQuality,           \* 1.0
  ContentTypes, RankOf

ItemsOf(sequence) == {sequence[k] : k \in DOMAIN sequence}

ASSUME QualitiesArePositive == FullQuality \in Nat \ {0}

\* Different content types differ as text.
ASSUME RanksDiffer ==
  /\ RankOf \in [ContentTypes -> Nat]
  /\ \A x, y \in ContentTypes : RankOf[x] = RankOf[y] => x = y

VARIABLES
  header,           \* the Accept header
  pc,               \* "check", "admit", "match" or "answered"
  index,            \* the candidate, and then the representation, of the next step
  ranges,           \* the admitted media ranges
  representations,  \* the content types asked for, in the order of their first mention
  range,            \* the media range of the next step
  best,             \* the governing specificity and quality so far
  selected,         \* the best acceptable representation so far, a sequence of at most one
  answer            \* "none", a failure code, or "accepted" with selected

vars == <<header, pc, index, ranges, representations, range, best, selected, answer>>

NoMatch == [specificity |-> -1, quality |-> 0]

Init ==
  /\ header \in Headers
  /\ pc = "check"
  /\ index = 1
  /\ ranges = <<>>
  /\ representations = <<>>
  /\ range = 1
  /\ best = NoMatch
  /\ selected = <<>>
  /\ answer = "none"

Answer(code) == pc' = "answered" /\ answer' = code

-----------------------------------------------------------------------------
(* CheckContentType *)

ContentTypeVerdict(c) ==
  IF c.range # "jsonapi" THEN "unsupported-media-type"
  ELSE IF c.other \/ c.qform # "absent" THEN "unsupported-parameter"
  ELSE IF c.lists = "over-limit" THEN "limit"
  ELSE IF c.lists = "malformed" THEN "invalid-parameter"
  ELSE IF ~(c.ext \subseteq Extensions) THEN "unsupported-extension"
  ELSE "accepted"

-----------------------------------------------------------------------------
(* acceptCandidate *)

\* Bug: a range with an unsupported extension is kept without it.
AdmittedWithUnknown(c) ==
  /\ c.range \in {"all", "application", "jsonapi"}
  /\ c.qform # "invalid" /\ ~c.other /\ c.lists = "valid"
  /\ c.range # "jsonapi" => c.ext = {} /\ c.profile = {}

\* A wildcard takes no parameter but q; the media type itself only valid lists of
\* URIs and extensions that are supported.
Admitted(c) ==
  /\ c.range \in {"all", "application", "jsonapi"}
  /\ c.qform # "invalid" /\ ~c.other /\ c.lists = "valid"
  /\ c.range # "jsonapi" => c.ext = {} /\ c.profile = {}
  /\ c.ext \subseteq Extensions

\* The supported content type that a candidate asks for.
Bare == [ext |-> {}, profile |-> {}]

Requested(c) ==
  IF c.range = "jsonapi" THEN [ext |-> c.ext, profile |-> c.profile \cap Profiles] ELSE Bare

IsHeader(h) ==
  /\ h.candidates \in Seq(ItemsOf(h.candidates))
  /\ \A c \in ItemsOf(h.candidates) :
       c.q \in 0..FullQuality /\ Requested(c) \in ContentTypes

ASSUME HeadersWellFormed == \A h \in Headers : IsHeader(h)

ASSUME BareIsAContentType == Bare \in ContentTypes

Parameters(type) ==
  (IF type.ext = {} THEN 0 ELSE 1) + (IF type.profile = {} THEN 0 ELSE 1)

Specificity(c) ==
  IF c.range = "all" THEN 0
  ELSE IF c.range = "application" THEN 1
  ELSE 2 + Parameters(Requested(c))

Range(c) ==
  [type        |-> Requested(c),
   quality     |-> IF c.qform = "absent" THEN FullQuality ELSE c.q,
   specificity |-> Specificity(c),
   matchesAll  |-> Parameters(Requested(c)) = 0]

-----------------------------------------------------------------------------
(* NegotiateAccept *)

CheckHeader ==
  /\ pc = "check"
  /\ \/ header.long /\ Answer("limit")
     \/ /\ ~header.long /\ ~header.blank
        /\ Len(header.candidates) > MaxAcceptCandidates /\ Answer("limit")
     \/ /\ ~header.long /\ ~header.blank
        /\ Len(header.candidates) <= MaxAcceptCandidates
        /\ pc' = "admit" /\ UNCHANGED answer
  /\ UNCHANGED <<header, index, ranges, representations, range, best, selected>>

\* Without an Accept header the bare media type is sent.
AcceptAnything ==
  /\ pc = "check" /\ ~header.long /\ header.blank
  /\ selected' = <<[type |-> Bare, quality |-> FullQuality]>>
  /\ Answer("accepted")
  /\ UNCHANGED <<header, index, ranges, representations, range, best>>

AdmitCandidate ==
  /\ pc = "admit" /\ index <= Len(header.candidates)
  /\ LET c == header.candidates[index]
         new == Admitted(c) /\ Requested(c) \notin ItemsOf(representations)
     IN /\ ranges' = IF Admitted(c) THEN Append(ranges, Range(c)) ELSE ranges
        /\ representations' = IF new THEN Append(representations, Requested(c))
                              ELSE representations
  /\ index' = index + 1
  /\ UNCHANGED <<header, pc, range, best, selected, answer>>

AllAdmitted ==
  /\ pc = "admit" /\ index > Len(header.candidates)
  /\ pc' = "match" /\ index' = 1
  /\ UNCHANGED <<header, ranges, representations, range, best, selected, answer>>

Matches(r, type) == r.matchesAll \/ r.type = type

\* Bug: the wildcards' quality counts even where a more specific range governs.
GovernsByQuality(r, b) ==
  r.specificity > b.specificity \/ r.quality > b.quality

\* qualityForRepresentation: the more specific range governs, the better quality
\* among ranges that are equally specific.
Governs(r, b) ==
  \/ r.specificity > b.specificity
  \/ r.specificity = b.specificity /\ r.quality > b.quality

MatchRange ==
  /\ pc = "match" /\ index <= Len(representations) /\ range <= Len(ranges)
  /\ LET r == ranges[range] IN
       best' = IF Matches(r, representations[index]) /\ Governs(r, best)
               THEN [specificity |-> r.specificity, quality |-> r.quality]
               ELSE best
  /\ range' = range + 1
  /\ UNCHANGED <<header, pc, index, ranges, representations, selected, answer>>

\* Better quality wins, and among equals the first in lexical order.
Replaces(quality, type) ==
  \/ selected = <<>>
  \/ quality > selected[1].quality
  \/ quality = selected[1].quality /\ RankOf[type] < RankOf[selected[1].type]

RankRepresentation ==
  /\ pc = "match" /\ index <= Len(representations) /\ range > Len(ranges)
  /\ LET type == representations[index] IN
       selected' = IF best.quality # 0 /\ Replaces(best.quality, type)
                   THEN <<[type |-> type, quality |-> best.quality]>>
                   ELSE selected
  /\ index' = index + 1 /\ range' = 1 /\ best' = NoMatch
  /\ UNCHANGED <<header, pc, ranges, representations, answer>>

Respond ==
  /\ pc = "match" /\ index > Len(representations)
  /\ Answer(IF selected = <<>> THEN "not-acceptable" ELSE "accepted")
  /\ UNCHANGED <<header, index, ranges, representations, range, best, selected>>

Next ==
  \/ CheckHeader \/ AcceptAnything \/ AdmitCandidate \/ AllAdmitted
  \/ MatchRange \/ RankRepresentation \/ Respond
  \/ pc = "answered" /\ UNCHANGED vars

Spec == Init /\ [][Next]_vars

-----------------------------------------------------------------------------
(* RFC 9110 section 12.5.1 and JSONAPI-DEC-013, over the set of media ranges *)

Offered == {Range(c) : c \in {d \in ItemsOf(header.candidates) : Admitted(d)}}

\* The quality that the header gives a content type: that of the most specific
\* ranges that match it, the best of them.
HasQuality(type, quality) ==
  \E r \in Offered :
    /\ Matches(r, type) /\ r.quality = quality
    /\ \A s \in Offered : Matches(s, type) =>
         \/ s.specificity < r.specificity
         \/ s.specificity = r.specificity /\ s.quality <= r.quality

Acceptable(type) ==
  /\ \E r \in Offered : r.type = type
  /\ \E quality \in 1..FullQuality : HasQuality(type, quality)

\* No acceptable content type is better, or as good and lexically smaller.
Preferred(type) ==
  /\ Acceptable(type)
  /\ \A other \in ContentTypes : Acceptable(other) =>
       \E p, q \in 1..FullQuality :
         /\ HasQuality(type, p) /\ HasQuality(other, q)
         /\ p > q \/ (p = q /\ RankOf[type] <= RankOf[other])

-----------------------------------------------------------------------------

TypeOK ==
  /\ IsHeader(header)
  /\ pc \in {"check", "admit", "match", "answered"}
  /\ index \in Nat \ {0}
  /\ ranges \in Seq([type : ContentTypes, quality : 0..FullQuality,
                     specificity : 0..4, matchesAll : BOOLEAN])
  /\ representations \in Seq(ContentTypes)
  /\ range \in Nat \ {0}
  /\ best \in [specificity : -1..4, quality : 0..FullQuality]
  /\ selected \in Seq([type : ContentTypes, quality : 1..FullQuality]) /\ Len(selected) <= 1
  /\ answer \in {"none", "limit", "not-acceptable", "accepted"}

\* NegotiateAccept answers with the preferred content type of the header, and with
\* 406 only when it accepts none.  The right-hand sides know the header only as a
\* set of ranges: neither the order of the ranges nor repetition has any influence.
SelectsPreferred ==
  (pc = "answered" /\ ~header.long /\ ~header.blank /\ answer # "limit") =>
    /\ answer = "not-acceptable" => \A type \in ContentTypes : ~Acceptable(type)
    /\ answer = "accepted" => Preferred(selected[1].type)

\* docs/performance.md:57: what NegotiateAccept selects is a media type that
\* CheckContentType accepts of a request to the same negotiator (but for the limit on
\* the bytes of a header, which depends on their text).
SelectedIsReadable ==
  answer = "accepted" =>
    ContentTypeVerdict([range |-> "jsonapi", other |-> FALSE, qform |-> "absent", q |-> 0,
                        lists |-> "valid", ext |-> selected[1].type.ext,
                        profile |-> selected[1].type.profile]) = "accepted"
=============================================================================
