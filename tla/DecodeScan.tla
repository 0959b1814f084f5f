------------------------------- MODULE DecodeScan -------------------------------
(***************************************************************************)
(* rejectDuplicateMembersWithLimits (codec.go): before a document is       *)
(* decoded, one scan of its tokens enforces the structural limits and      *)
(* refuses duplicate member names.  The recursion of                       *)
(* scanJSONValueWithLimits is a stack with a frame per open object or      *)
(* array; one action is one token.                                         *)
(*                                                                         *)
(* The text is revealed as json.Decoder hands it out: any valid JSON text, *)
(* for validateJSONPayload has run json.Valid.  A token is "scalar", the  *)
(* delimiter that begins an "object" or an "array" or the one that "end"s  *)
(* it, or a member name.                                                   *)
(***************************************************************************)
EXTENDS Integers, FiniteSets, SequencesExt

CONSTANTS
  Names,               \* member names
  MaxTotalValues, MaxNestingDepth, MaxObjectMembers, MaxArrayItems  \* DecodeLimits

Openers == {"object", "array"}

ASSUME NamesAreNames == Names \cap (Openers \cup {"scalar", "end"}) = {}

\* normalizeDecodeLimits replaces zero by a default and refuses less.
ASSUME LimitsArePositive ==
  /\ MaxTotalValues \in Nat \ {0} /\ MaxNestingDepth \in Nat \ {0}
  /\ MaxObjectMembers \in Nat \ {0} /\ MaxArrayItems \in Nat \ {0}

VARIABLES
  text,    \* the tokens the scan has seen
  stack,   \* the open objects and arrays, outermost first
  values,  \* decodeBudget.values
  verdict  \* "scanning", "accepted", or the rule that is broken

vars == <<text, stack, values, verdict>>

\* An open object or array: its items or members so far, the member names seen,
\* and whether a name has been read whose value has not.
Frame(opener) == [opener |-> opener, count |-> 0, seen |-> {}, named |-> FALSE]

Init ==
  /\ text = <<>>
  /\ stack = <<>>
  /\ values = 0
  /\ verdict = "scanning"

Depth == Len(stack)
Top == stack[Depth]
InObject == Depth > 0 /\ Top.opener = "object"
InArray == Depth > 0 /\ Top.opener = "array"

ExpectsValue == text = <<>> \/ InArray \/ (InObject /\ Top.named)
ExpectsName == InObject /\ ~Top.named

Reads(token) == verdict = "scanning" /\ text' = Append(text, token)

\* A frame once the value of its next item or member has begun, or a name is read.
WithValue(frame) ==
  IF frame.opener = "array" THEN [frame EXCEPT !.count = @ + 1] ELSE [frame EXCEPT !.named = FALSE]

WithName(frame, name) ==
  [opener |-> frame.opener, count |-> frame.count + 1, seen |-> frame.seen \cup {name},
   named |-> TRUE]

Advanced == IF Depth = 0 THEN stack ELSE [stack EXCEPT ![Depth] = WithValue(Top)]

\* Bug: only scalars are charged to the budget.
ScanValueScalarsOnly(token) ==
  /\ ExpectsValue
  /\ Reads(token)
  /\ LET composite == token \in Openers
         charged   == IF composite THEN values ELSE values + 1
         broken    == IF InArray /\ Top.count >= MaxArrayItems THEN "items"
                      ELSE IF charged > MaxTotalValues THEN "values"
                      ELSE IF composite /\ Depth + 1 > MaxNestingDepth THEN "depth"
                      ELSE "none"
     IN /\ values' = IF broken = "items" THEN values ELSE charged
        /\ stack' = IF broken # "none" THEN stack
                    ELSE IF composite THEN Append(Advanced, Frame(token)) ELSE Advanced
        /\ verdict' = IF broken # "none" THEN broken
                      ELSE IF Depth = 0 /\ ~composite THEN "accepted" ELSE "scanning"

\* A value begins.  An item too many is refused before its token is read; then
\* the value is charged to the budget of the whole text, and only then is the
\* depth of an object or array checked.
ScanValue(token) ==
  /\ ExpectsValue
  /\ Reads(token)
  /\ LET composite == token \in Openers
         broken    == IF InArray /\ Top.count >= MaxArrayItems THEN "items"
                      ELSE IF values + 1 > MaxTotalValues THEN "values"
                      ELSE IF composite /\ Depth + 1 > MaxNestingDepth THEN "depth"
                      ELSE "none"
     IN /\ values' = IF broken = "items" THEN values ELSE values + 1
        /\ stack' = IF broken # "none" THEN stack
                    ELSE IF composite THEN Append(Advanced, Frame(token)) ELSE Advanced
        /\ verdict' = IF broken # "none" THEN broken
                      ELSE IF Depth = 0 /\ ~composite THEN "accepted" ELSE "scanning"

\* Bug: one set of names serves every object of the text that is open.
ScanNameShared(name) ==
  /\ ExpectsName
  /\ Reads(name)
  /\ LET broken == IF Top.count + 1 > MaxObjectMembers THEN "members"
                   ELSE IF \E d \in 1..Depth : name \in stack[d].seen THEN "duplicate"
                   ELSE "none"
     IN /\ stack' = IF broken # "none" THEN stack
                    ELSE [stack EXCEPT ![Depth] = WithName(Top, name)]
        /\ verdict' = IF broken # "none" THEN broken ELSE "scanning"
  /\ UNCHANGED values

ScanName(name) ==
  /\ ExpectsName
  /\ Reads(name)
  /\ LET broken == IF Top.count + 1 > MaxObjectMembers THEN "members"
                   ELSE IF name \in Top.seen THEN "duplicate"
                   ELSE "none"
     IN /\ stack' = IF broken # "none" THEN stack
                    ELSE [stack EXCEPT ![Depth] = WithName(Top, name)]
        /\ verdict' = IF broken # "none" THEN broken ELSE "scanning"
  /\ UNCHANGED values

ScanClose ==
  /\ InArray \/ ExpectsName
  /\ Reads("end")
  /\ stack' = Front(stack)
  /\ verdict' = IF Depth = 1 THEN "accepted" ELSE "scanning"
  /\ UNCHANGED values

Done == verdict # "scanning"

Next ==
  \/ \E token \in Openers \cup {"scalar"} : ScanValue(token)
  \/ \E name \in Names : ScanName(name)
  \/ ScanClose
  \/ Done /\ UNCHANGED vars

Spec == Init /\ [][Next]_vars

-----------------------------------------------------------------------------
(* What the text is, without regard to the scan *)

Positions(n, kinds) == {p \in 1..n : text[p] \in kinds}

\* How many objects and arrays are open after n tokens.
OpenAfter(n) == Cardinality(Positions(n, Openers)) - Cardinality(Positions(n, {"end"}))

\* The token at p belongs directly to the object or array that opens at o.
Belongs(p, o) ==
  /\ o < p
  /\ \A q \in o..(p - 1) : OpenAfter(q) >= OpenAfter(o)
  /\ OpenAfter(p - 1) = OpenAfter(o)

MembersOf(o, n) == {p \in Positions(n, Names) : Belongs(p, o)}
ItemsWithin(o, n) == {p \in Positions(n, Openers \cup {"scalar"}) : Belongs(p, o)}

TooMany(n) == Cardinality(Positions(n, Openers \cup {"scalar"})) > MaxTotalValues
TooDeep(n) == \E p \in 1..n : OpenAfter(p) > MaxNestingDepth
TooLong(n) == \E o \in Positions(n, {"array"}) : Cardinality(ItemsWithin(o, n)) > MaxArrayItems
TooWide(n) == \E o \in Positions(n, {"object"}) : Cardinality(MembersOf(o, n)) > MaxObjectMembers
Duplicate(n) ==
  \E o \in Positions(n, {"object"}) :
    \E p, q \in MembersOf(o, n) : p # q /\ text[p] = text[q]

Refusable(n) == TooMany(n) \/ TooDeep(n) \/ TooLong(n) \/ TooWide(n) \/ Duplicate(n)

-----------------------------------------------------------------------------

Verdicts == {"scanning", "accepted", "items", "values", "depth", "members", "duplicate"}

Tokens == Names \cup Openers \cup {"scalar", "end"}
Frames == [opener : Openers, count : Nat, seen : SUBSET Names, named : BOOLEAN]

TypeOK ==
  /\ text \in Seq(Tokens)
  /\ stack \in Seq(Frames)
  /\ values \in 0..(MaxTotalValues + 1)
  /\ verdict \in Verdicts

\* The scan refuses a text at the first token at which it breaks a limit or
\* repeats a member name in one object, for the rule that it breaks, and accepts
\* every other text: limits are inclusive, and each holds for every nesting.
ScanExact ==
  /\ Len(text) > 0 => ~Refusable(Len(text) - 1)
  /\ Refusable(Len(text)) <=> verdict \notin {"scanning", "accepted"}
  /\ verdict = "values" => TooMany(Len(text))
  /\ verdict = "depth" => TooDeep(Len(text))
  /\ verdict = "items" => TooLong(Len(text))
  /\ verdict = "members" => TooWide(Len(text))
  /\ verdict = "duplicate" => Duplicate(Len(text))

\* The scan's own cost is bounded by the limits, however long the text is: it
\* reads at most three tokens per admitted value and the one that is refused, its
\* recursion is no deeper than MaxNestingDepth, and what it remembers of each
\* open object is at most MaxObjectMembers names.
ScanBounded ==
  /\ Len(text) <= 3 * MaxTotalValues + 1
  /\ Depth <= MaxNestingDepth
  /\ \A d \in 1..Depth :
       /\ Cardinality(stack[d].seen) <= MaxObjectMembers
       /\ stack[d].opener = "array" => stack[d].seen = {}
=============================================================================
