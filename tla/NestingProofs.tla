----------------------------- MODULE NestingProofs -----------------------------
(***************************************************************************)
(* Of the limits on nesting: that of a text to be decoded, and that of a   *)
(* chain of links to be encoded.                                           *)
(*                                                                         *)
(* The cost of the scan is bounded by its limits, and it refuses a text    *)
(* exactly where the text breaks one of its rules: whatever the limits are *)
(* and however long the text is.                                           *)
(*                                                                         *)
(* For every graph of pointers and every limit, the walkers of a chain     *)
(* report a limit or a cycle exactly when the chain does not end within    *)
(* the limit, they judge each link above that end, and the encoder starts  *)
(* on no other chain.                                                      *)
(***************************************************************************)
EXTENDS DecodeScan, LinkChain, FiniteSetTheorems, WellFoundedInduction, TLAPS

-----------------------------------------------------------------------------
(* The inductive invariant *)

\* An object remembers one name per member, an array none.
FramesBounded ==
  \A d \in 1..Depth :
    /\ IsFiniteSet(stack[d].seen)
    /\ stack[d].opener = "object" => /\ Cardinality(stack[d].seen) = stack[d].count
                                /\ stack[d].count <= MaxObjectMembers
    /\ stack[d].opener = "array" => stack[d].seen = {} /\ ~stack[d].named

\* Only the innermost object may wait for the value of a member.
OnlyTopNamed == \A d \in 1..(Depth - 1) : ~stack[d].named

Pending == IF Depth > 0 /\ Top.named THEN 1 ELSE 0

\* Every value pays for its own token, for its name and for its closing token:
\* the open values have yet to spend the last one.
TokensPaid ==
  IF verdict \in {"scanning", "accepted"}
  THEN /\ values <= MaxTotalValues
       /\ Len(text) <= 3 * values - Depth + Pending
  ELSE Len(text) <= 3 * MaxTotalValues + 1

IInv ==
  /\ TypeOK
  /\ Depth <= MaxNestingDepth
  /\ FramesBounded
  /\ OnlyTopNamed
  /\ TokensPaid

-----------------------------------------------------------------------------
(* The steps *)

LEMMA InitIInv == Init => IInv
BY LimitsArePositive
   DEF Init, IInv, TypeOK, Verdicts, Depth, FramesBounded, OnlyTopNamed, TokensPaid, Pending

\* What TypeOK says of the innermost frame.
LEMMA TopTyped ==
  ASSUME TypeOK
  PROVE  /\ Depth \in Nat
         /\ Depth > 0 => /\ Top.opener \in Openers /\ Top.count \in Nat
                         /\ Top.seen \in SUBSET Names /\ Top.named \in BOOLEAN
                         /\ Depth \in DOMAIN stack
<1>1. stack \in Seq(Frames) /\ Depth = Len(stack)
  BY DEF TypeOK, Depth
<1>2. Depth \in Nat /\ DOMAIN stack = 1..Depth
  BY <1>1
<1>3. Depth > 0 => Depth \in DOMAIN stack /\ Top \in Frames
  BY <1>1, <1>2 DEF Top
<1> QED
  BY <1>2, <1>3 DEF Frames

\* A frame whose next value has begun does not wait for one.
LEMMA FrameWithValue ==
  ASSUME NEW frame \in Frames, frame.opener = "array" => ~frame.named
  PROVE  /\ WithValue(frame) \in Frames
         /\ WithValue(frame).seen = frame.seen /\ WithValue(frame).opener = frame.opener
         /\ frame.opener = "object" => WithValue(frame).count = frame.count
         /\ ~WithValue(frame).named
<1>1. CASE frame.opener = "array"
  <2>1. WithValue(frame) = [frame EXCEPT !.count = @ + 1]
    BY <1>1 DEF WithValue
  <2>2. /\ WithValue(frame).opener = frame.opener /\ WithValue(frame).seen = frame.seen
        /\ WithValue(frame).named = frame.named
    BY <2>1 DEF Frames
  <2>3. WithValue(frame) \in Frames
    BY <2>1 DEF Frames
  <2> QED
    BY <1>1, <2>2, <2>3
<1>2. CASE frame.opener # "array"
  <2>1. WithValue(frame) = [frame EXCEPT !.named = FALSE]
    BY <1>2 DEF WithValue
  <2>2. /\ WithValue(frame).opener = frame.opener /\ WithValue(frame).seen = frame.seen
        /\ WithValue(frame).count = frame.count /\ WithValue(frame).named = FALSE
    BY <2>1 DEF Frames
  <2>3. WithValue(frame) \in Frames
    BY <2>1 DEF Frames
  <2> QED
    BY <1>2, <2>2, <2>3
<1> QED
  BY <1>1, <1>2

\* A name read is counted and remembered.
LEMMA FrameWithName ==
  ASSUME NEW frame \in Frames, NEW name \in Names
  PROVE  /\ WithName(frame, name) \in Frames
         /\ WithName(frame, name) = [opener |-> frame.opener, count |-> frame.count + 1,
                                     seen |-> frame.seen \cup {name}, named |-> TRUE]
<1>1. frame.opener \in Openers /\ frame.count + 1 \in Nat /\ frame.seen \cup {name} \in SUBSET Names
  BY DEF Frames
<1> QED
  BY <1>1 DEF WithName, Frames

\* Replacing the innermost frame leaves the others alone.
LEMMA TopReplaced ==
  ASSUME stack \in Seq(Frames), Depth > 0, NEW frame \in Frames
  PROVE  LET after == [stack EXCEPT ![Depth] = frame] IN
         /\ after \in Seq(Frames) /\ Len(after) = Depth
         /\ after[Depth] = frame
         /\ \A d \in 1..(Depth - 1) : after[d] = stack[d]
BY DEF Depth

\* A token is read at most once for each unit that the budget has left.
LEMMA TokensLeft ==
  ASSUME IInv, verdict = "scanning"
  PROVE  /\ Len(text) \in Nat /\ Len(text) + 1 <= 3 * MaxTotalValues + 1
         /\ Pending \in {0, 1}
<1>1. /\ Depth \in Nat /\ values \in Nat /\ Len(text) \in Nat
      /\ values <= MaxTotalValues /\ Len(text) <= 3 * values - Depth + Pending
  BY LimitsArePositive DEF IInv, TypeOK, TokensPaid, Depth
<1>2. Pending \in {0, 1} /\ (Pending = 1 => Depth > 0)
  BY DEF Pending
<1> QED
  BY <1>1, <1>2, LimitsArePositive

LEMMA ScanValueIInv ==
  ASSUME IInv, NEW token \in Openers \cup {"scalar"}, ScanValue(token)
  PROVE  IInv'
<1> DEFINE composite == token \in Openers
           broken == IF InArray /\ Top.count >= MaxArrayItems THEN "items"
                     ELSE IF values + 1 > MaxTotalValues THEN "values"
                     ELSE IF composite /\ Depth + 1 > MaxNestingDepth THEN "depth"
                     ELSE "none"
<1>1. /\ verdict = "scanning" /\ text' = Append(text, token)
      /\ values' = IF broken = "items" THEN values ELSE values + 1
      /\ stack' = IF broken # "none" THEN stack
                  ELSE IF composite THEN Append(Advanced, Frame(token)) ELSE Advanced
      /\ verdict' = IF broken # "none" THEN broken
                    ELSE IF Depth = 0 /\ ~composite THEN "accepted" ELSE "scanning"
  BY DEF ScanValue, Reads
<1>2. /\ TypeOK /\ Depth <= MaxNestingDepth /\ FramesBounded /\ OnlyTopNamed /\ TokensPaid
  BY DEF IInv
<1>3. /\ values \in Nat /\ values <= MaxTotalValues
      /\ text \in Seq(Tokens)
      /\ Len(text) <= 3 * values - Depth + Pending
      /\ stack \in Seq(Frames)
  BY <1>1, <1>2, LimitsArePositive DEF TypeOK, TokensPaid
<1>4. /\ text' \in Seq(Tokens)
      /\ Len(text') = Len(text) + 1
  BY <1>1, <1>3 DEF Tokens
<1>5. values' \in 0..(MaxTotalValues + 1)
  BY <1>1, <1>3, LimitsArePositive
<1>6. CASE broken # "none"
  <2>1. verdict' \in {"items", "values", "depth"} /\ stack' = stack
    BY <1>1, <1>6
  <2>2. TypeOK'
    BY <1>3, <1>4, <1>5, <2>1 DEF TypeOK, Verdicts
  <2>3. (Depth <= MaxNestingDepth)' /\ FramesBounded' /\ OnlyTopNamed'
    BY <1>2, <2>1 DEF Depth, FramesBounded, OnlyTopNamed
  <2>4. TokensPaid'
    BY <1>1, <1>4, <2>1, TokensLeft DEF TokensPaid
  <2> QED
    BY <2>2, <2>3, <2>4 DEF IInv
<1>7. CASE broken = "none"
  <2>1. /\ values' = values + 1 /\ values + 1 <= MaxTotalValues
        /\ composite => Depth + 1 <= MaxNestingDepth
        /\ stack' = IF composite THEN Append(Advanced, Frame(token)) ELSE Advanced
        /\ verdict' \in {"scanning", "accepted"}
    BY <1>1, <1>3, <1>7, TopTyped, <1>2, LimitsArePositive
  <2>2. /\ Advanced \in Seq(Frames)
        /\ Len(Advanced) = Depth
        /\ \A d \in 1..Depth :
             /\ Advanced[d].seen = stack[d].seen /\ Advanced[d].opener = stack[d].opener
             /\ stack[d].opener = "object" => Advanced[d].count = stack[d].count
             /\ ~Advanced[d].named
    <3>1. CASE Depth = 0
      BY <1>3, <3>1 DEF Advanced, Depth
    <3>2. CASE Depth # 0
      <4>1. Depth \in 1..Depth /\ Top \in Frames /\ Top = stack[Depth]
        BY <1>2, <1>3, <3>2, TopTyped DEF Depth, Top
      <4>2. Top.opener = "array" => ~Top.named
        BY <1>2, <4>1 DEF FramesBounded
      <4>3. /\ WithValue(Top) \in Frames
            /\ WithValue(Top).seen = Top.seen /\ WithValue(Top).opener = Top.opener
            /\ Top.opener = "object" => WithValue(Top).count = Top.count
            /\ ~WithValue(Top).named
        BY <4>1, <4>2, FrameWithValue
      <4>4. /\ Advanced \in Seq(Frames) /\ Len(Advanced) = Depth
            /\ Advanced[Depth] = WithValue(Top)
            /\ \A d \in 1..(Depth - 1) : Advanced[d] = stack[d]
        BY <1>3, <3>2, <4>1, <4>3, TopReplaced DEF Advanced
      <4>5. \A d \in 1..(Depth - 1) : ~stack[d].named
        BY <1>2 DEF OnlyTopNamed
      <4>6. \A d \in 1..Depth : d = Depth \/ d \in 1..(Depth - 1)
        BY <4>1
      <4> QED
        BY <4>1, <4>3, <4>4, <4>5, <4>6
    <3> QED
      BY <3>1, <3>2
  <2>3. /\ stack' \in Seq(Frames)
        /\ Depth' = IF composite THEN Depth + 1 ELSE Depth
        /\ \A d \in 1..Depth : stack'[d] = Advanced[d]
        /\ composite => stack'[Depth'] = Frame(token)
    <3>1. CASE composite
      <4>1. Frame(token) \in Frames
        BY <3>1 DEF Frame, Frames
      <4> QED
        BY <2>1, <2>2, <3>1, <4>1 DEF Depth
    <3>2. CASE ~composite
      BY <2>1, <2>2, <3>2 DEF Depth
    <3> QED
      BY <3>1, <3>2
  <2>4. TypeOK'
    BY <1>4, <1>5, <2>1, <2>3 DEF TypeOK, Verdicts
  <2>5. (Depth <= MaxNestingDepth)'
    BY <1>2, <2>1, <2>3
  <2>6. FramesBounded'
    <3> SUFFICES ASSUME NEW d \in 1..Depth'
                 PROVE  /\ IsFiniteSet(stack'[d].seen)
                        /\ stack'[d].opener = "object" =>
                             /\ Cardinality(stack'[d].seen) = stack'[d].count
                             /\ stack'[d].count <= MaxObjectMembers
                        /\ stack'[d].opener = "array" => stack'[d].seen = {} /\ ~stack'[d].named
      BY DEF FramesBounded
    <3>1. CASE d \in 1..Depth
      BY <1>2, <2>2, <2>3, <3>1 DEF FramesBounded
    <3>2. CASE d \notin 1..Depth
      <4>1. composite /\ d = Depth' /\ stack'[d] = Frame(token)
        BY <1>2, <2>3, <3>2, TopTyped
      <4> QED
        BY <4>1, FS_EmptySet, LimitsArePositive DEF Frame
    <3> QED
      BY <3>1, <3>2
  <2>7. OnlyTopNamed' /\ Pending' = 0
    <3>1. \A d \in 1..Depth' : ~stack'[d].named
      <4> SUFFICES ASSUME NEW d \in 1..Depth' PROVE ~stack'[d].named
        OBVIOUS
      <4>1. CASE d \in 1..Depth
        BY <2>2, <2>3, <4>1
      <4>2. CASE d \notin 1..Depth
        BY <1>2, <2>3, <4>2, TopTyped DEF Frame
      <4> QED
        BY <4>1, <4>2
    <3>2. Depth' \in Nat
      BY <1>2, <2>3, TopTyped
    <3>3. OnlyTopNamed'
      <4>1. \A d \in 1..(Depth' - 1) : d \in 1..Depth'
        <5>1. \A n \in Nat : \A d \in 1..(n - 1) : d \in 1..n
          OBVIOUS
        <5> QED
          BY <3>2, <5>1, Zenon
      <4>2. \A d \in 1..(Depth' - 1) : ~stack'[d].named
        BY <3>1, <4>1, Zenon
      <4> QED
        BY <4>2, Zenon DEF OnlyTopNamed
    <3>4. ~(Depth > 0 /\ Top.named)'
      BY <3>1, <3>2 DEF Top
    <3> QED
      BY <3>3, <3>4 DEF Pending
  <2>8. TokensPaid'
    <3>1. Depth \in Nat /\ Pending \in {0, 1}
      BY <1>1, <1>2, TopTyped, TokensLeft
    <3>2. Len(text') <= 3 * values' - Depth' + Pending'
      BY <1>3, <1>4, <2>1, <2>3, <2>7, <3>1
    <3> QED
      BY <2>1, <3>2 DEF TokensPaid
  <2> QED
    BY <2>4, <2>5, <2>6, <2>7, <2>8 DEF IInv
<1> QED
  BY <1>6, <1>7

LEMMA ScanNameIInv ==
  ASSUME IInv, NEW name \in Names, ScanName(name)
  PROVE  IInv'
<1> DEFINE broken == IF Top.count + 1 > MaxObjectMembers THEN "members"
                     ELSE IF name \in Top.seen THEN "duplicate"
                     ELSE "none"
           after == [stack EXCEPT ![Depth] = WithName(Top, name)]
<1>1. /\ verdict = "scanning" /\ text' = Append(text, name) /\ values' = values
      /\ InObject /\ ~Top.named
      /\ stack' = IF broken # "none" THEN stack ELSE after
      /\ verdict' = IF broken # "none" THEN broken ELSE "scanning"
  BY DEF ScanName, Reads, ExpectsName
<1>2. /\ TypeOK /\ Depth <= MaxNestingDepth /\ FramesBounded /\ OnlyTopNamed /\ TokensPaid
  BY DEF IInv
<1>3. /\ values \in 0..(MaxTotalValues + 1) /\ values <= MaxTotalValues
      /\ text \in Seq(Tokens)
      /\ Len(text) <= 3 * values - Depth + Pending
      /\ stack \in Seq(Frames)
      /\ Depth \in Nat \ {0} /\ Top.count \in Nat /\ Top.seen \in SUBSET Names
  BY <1>1, <1>2, TopTyped DEF TypeOK, TokensPaid, InObject
<1>4. /\ text' \in Seq(Tokens)
      /\ Len(text') = Len(text) + 1
  BY <1>1, <1>3 DEF Tokens
<1>5. CASE broken # "none"
  <2>1. verdict' \in {"members", "duplicate"} /\ stack' = stack
    BY <1>1, <1>5
  <2>2. TypeOK'
    BY <1>1, <1>3, <1>4, <2>1 DEF TypeOK, Verdicts
  <2>3. (Depth <= MaxNestingDepth)' /\ FramesBounded' /\ OnlyTopNamed'
    BY <1>2, <2>1 DEF Depth, FramesBounded, OnlyTopNamed
  <2>4. TokensPaid'
    BY <1>1, <1>4, <2>1, TokensLeft DEF TokensPaid
  <2> QED
    BY <2>2, <2>3, <2>4 DEF IInv
<1>6. CASE broken = "none"
  <2>1. /\ stack' = after /\ verdict' = "scanning"
        /\ Top.count + 1 <= MaxObjectMembers /\ name \notin Top.seen
    BY <1>1, <1>3, <1>6, LimitsArePositive
  <2>2. /\ stack' \in Seq(Frames)
        /\ Depth' = Depth
        /\ \A d \in 1..(Depth - 1) : stack'[d] = stack[d]
        /\ stack'[Depth] = [opener |-> Top.opener, count |-> Top.count + 1,
                            seen |-> Top.seen \cup {name}, named |-> TRUE]
    <3>1. Top \in Frames /\ Depth \in 1..Depth
      BY <1>3 DEF Depth, Top
    <3>2. /\ WithName(Top, name) \in Frames
          /\ WithName(Top, name) = [opener |-> Top.opener, count |-> Top.count + 1,
                                    seen |-> Top.seen \cup {name}, named |-> TRUE]
      BY <3>1, FrameWithName
    <3>3. /\ after \in Seq(Frames) /\ Len(after) = Depth
          /\ after[Depth] = WithName(Top, name)
          /\ \A d \in 1..(Depth - 1) : after[d] = stack[d]
      BY <1>3, <3>2, TopReplaced
    <3> QED
      BY <2>1, <3>2, <3>3 DEF Depth
  <2>3. TypeOK'
    BY <1>1, <1>3, <1>4, <2>1, <2>2 DEF TypeOK, Verdicts
  <2>4. FramesBounded'
    <3> SUFFICES ASSUME NEW d \in 1..Depth
                 PROVE  /\ IsFiniteSet(stack'[d].seen)
                        /\ stack'[d].opener = "object" =>
                             /\ Cardinality(stack'[d].seen) = stack'[d].count
                             /\ stack'[d].count <= MaxObjectMembers
                        /\ stack'[d].opener = "array" => stack'[d].seen = {} /\ ~stack'[d].named
      BY <2>2 DEF FramesBounded
    <3>1. CASE d # Depth
      <4>1. stack'[d] = stack[d]
        BY <1>3, <2>2, <3>1
      <4> QED
        BY <1>2, <4>1, Zenon DEF FramesBounded
    <3>2. CASE d = Depth
      <4>0. Depth \in 1..Depth /\ Top = stack[Depth] /\ Top.opener = "object"
        BY <1>1, <1>3 DEF InObject, Top
      <4>1. IsFiniteSet(Top.seen) /\ Cardinality(Top.seen) = Top.count /\ Top.opener = "object"
        BY <1>2, <4>0, Zenon DEF FramesBounded
      <4>2. /\ IsFiniteSet(Top.seen \cup {name})
            /\ Cardinality(Top.seen \cup {name}) = Top.count + 1
        BY <2>1, <4>1, FS_AddElement
      <4>3. /\ stack'[d].opener = "object" /\ stack'[d].seen = Top.seen \cup {name}
            /\ stack'[d].count = Top.count + 1
        BY <2>2, <3>2, <4>1
      <4> QED
        BY <2>1, <4>2, <4>3
    <3> QED
      BY <3>1, <3>2
  <2>5. (Depth <= MaxNestingDepth)' /\ OnlyTopNamed'
    BY <1>2, <2>2 DEF OnlyTopNamed
  <2>6. TokensPaid'
    <3>1. Pending = 0 /\ Pending' = 1
      BY <1>1, <1>3, <2>2 DEF Pending, Top
    <3> QED
      BY <1>1, <1>3, <1>4, <2>1, <2>2, <3>1 DEF TokensPaid
  <2> QED
    BY <2>3, <2>4, <2>5, <2>6 DEF IInv
<1> QED
  BY <1>5, <1>6

LEMMA ScanCloseIInv == IInv /\ ScanClose => IInv'
<1> SUFFICES ASSUME IInv, ScanClose PROVE IInv'
  OBVIOUS
<1>1. /\ verdict = "scanning" /\ values' = values
      /\ text' = Append(text, "end")
      /\ Depth > 0 /\ (InArray \/ ~Top.named)
      /\ stack' = Front(stack)
      /\ verdict' \in {"accepted", "scanning"}
  BY DEF ScanClose, Reads, InArray, InObject, ExpectsName
<1>2. /\ TypeOK /\ Depth <= MaxNestingDepth /\ FramesBounded /\ OnlyTopNamed /\ TokensPaid
  BY DEF IInv
<1>3. /\ values \in 0..(MaxTotalValues + 1) /\ values <= MaxTotalValues
      /\ text \in Seq(Tokens)
      /\ Len(text) <= 3 * values - Depth + Pending
      /\ stack \in Seq(Frames)
      /\ Depth \in Nat \ {0}
  <2>1. Depth \in Nat \ {0}
    BY <1>1, <1>2, TopTyped
  <2>2. values <= MaxTotalValues /\ Len(text) <= 3 * values - Depth + Pending
    BY <1>1, <1>2 DEF TokensPaid
  <2> QED
    BY <1>2, <2>1, <2>2 DEF TypeOK
<1>4. /\ stack' \in Seq(Frames)
      /\ Depth' = Depth - 1
      /\ \A d \in 1..(Depth - 1) : stack'[d] = stack[d]
  <2>1. stack' = [d \in 1..(Len(stack) - 1) |-> stack[d]] /\ Len(stack) \in Nat \ {0}
    BY <1>1, <1>3 DEF Depth, Front
  <2>2. \A d \in 1..(Len(stack) - 1) : stack[d] \in Frames
    BY <1>3
  <2> QED
    BY <2>1, <2>2 DEF Depth
<1>5. /\ text' \in Seq(Tokens)
      /\ Len(text') = Len(text) + 1
  BY <1>1, <1>3 DEF Tokens
<1>6. TypeOK'
  BY <1>1, <1>3, <1>4, <1>5 DEF TypeOK, Verdicts
<1>7. (Depth <= MaxNestingDepth)'
  BY <1>2, <1>3, <1>4, LimitsArePositive
<1>8. FramesBounded'
  BY <1>2, <1>3, <1>4 DEF FramesBounded
<1>9. OnlyTopNamed'
  BY <1>2, <1>3, <1>4 DEF OnlyTopNamed
<1>10. Pending = 0 /\ Pending' = 0
  BY <1>1, <1>2, <1>3, <1>4 DEF Pending, Top, InArray, FramesBounded, OnlyTopNamed
<1>11. TokensPaid'
  BY <1>1, <1>3, <1>4, <1>5, <1>10 DEF TokensPaid
<1> QED
  BY <1>6, <1>7, <1>8, <1>9, <1>11 DEF IInv

LEMMA NextIInv == IInv /\ [Next]_vars => IInv'
<1>1. ASSUME IInv, UNCHANGED vars PROVE IInv'
  BY <1>1 DEF vars, IInv, TypeOK, Depth, FramesBounded, OnlyTopNamed, TokensPaid, Pending, Top
<1> QED
  BY <1>1, ScanValueIInv, ScanNameIInv, ScanCloseIInv DEF Next

LEMMA Inductive == Spec => []IInv
BY InitIInv, NextIInv, PTL DEF Spec

-----------------------------------------------------------------------------
(* The text as a value: the definitions that ScanExact is about, of any text *)

Begins == Openers \cup {"scalar"}

PositionsIn(t, n, kinds) == {p \in 1..n : t[p] \in kinds}

OpenIn(t, n) ==
  Cardinality(PositionsIn(t, n, Openers)) - Cardinality(PositionsIn(t, n, {"end"}))

\* What is at p belongs directly to what opens at o.
BelongsIn(t, p, o) ==
  /\ o < p
  /\ \A q \in o..(p - 1) : OpenIn(t, q) >= OpenIn(t, o)
  /\ OpenIn(t, p - 1) = OpenIn(t, o)

\* The members or the items of what opens at o.
ChildrenIn(t, o, n, kinds) == {p \in PositionsIn(t, n, kinds) : BelongsIn(t, p, o)}

\* No two members have the same name.
DistinctIn(t, o, n) == \A p, q \in ChildrenIn(t, o, n, Names) : t[p] = t[q] => p = q

\* The first n tokens break no rule.
WithinLimits(t, n) ==
  /\ Cardinality(PositionsIn(t, n, Begins)) <= MaxTotalValues
  /\ \A p \in 1..n : OpenIn(t, p) <= MaxNestingDepth
  /\ \A o \in PositionsIn(t, n, {"array"}) : Cardinality(ChildrenIn(t, o, n, Begins)) <= MaxArrayItems
  /\ \A o \in PositionsIn(t, n, {"object"}) :
       Cardinality(ChildrenIn(t, o, n, Names)) <= MaxObjectMembers /\ DistinctIn(t, o, n)

\* What opens at o is still open after n tokens, and is the d-th of those.
OpensAt(t, n, o, d) ==
  /\ t[o] \in Openers
  /\ OpenIn(t, o) = d
  /\ \A q \in o..n : OpenIn(t, q) >= d

\* The frame of an object or array says what the text has of it.
Describes(frame, t, n, o) ==
  /\ frame.opener = t[o]
  /\ frame.opener = "array" => frame.count = Cardinality(ChildrenIn(t, o, n, Begins))
  /\ frame.opener = "object" =>
       /\ frame.count = Cardinality(ChildrenIn(t, o, n, Names))
       /\ frame.seen = {t[p] : p \in ChildrenIn(t, o, n, Names)}

\* The stack, the budget and the text tell the same story.
Matched ==
  /\ OpenIn(text, Len(text)) = Depth
  /\ values = Cardinality(PositionsIn(text, Len(text), Begins))
  /\ \A d \in 1..Depth : \E o \in 1..Len(text) :
       OpensAt(text, Len(text), o, d) /\ Describes(stack[d], text, Len(text), o)

\* A text that has been refused breaks the rule that the verdict names.
Broken ==
  /\ verdict = "values" => Cardinality(PositionsIn(text, Len(text), Begins)) > MaxTotalValues
  /\ verdict = "depth" => \E p \in 1..Len(text) : OpenIn(text, p) > MaxNestingDepth
  /\ verdict = "items" =>
       \E o \in PositionsIn(text, Len(text), {"array"}) :
         Cardinality(ChildrenIn(text, o, Len(text), Begins)) > MaxArrayItems
  /\ verdict = "members" =>
       \E o \in PositionsIn(text, Len(text), {"object"}) :
         Cardinality(ChildrenIn(text, o, Len(text), Names)) > MaxObjectMembers
  /\ verdict = "duplicate" =>
       \E o \in PositionsIn(text, Len(text), {"object"}) : ~DistinctIn(text, o, Len(text))

\* The invariant that ScanExact needs besides IInv.
Exact ==
  /\ verdict = "scanning" => Matched
  /\ verdict \in {"scanning", "accepted"} => WithinLimits(text, Len(text))
  /\ Len(text) > 0 => WithinLimits(text, Len(text) - 1)
  /\ Broken

LEMMA PositionsFinite ==
  ASSUME NEW t, NEW n \in Nat, NEW kinds
  PROVE  /\ IsFiniteSet(PositionsIn(t, n, kinds))
         /\ Cardinality(PositionsIn(t, n, kinds)) \in Nat
<1>1. IsFiniteSet(1..n)
  BY FS_Interval
<1>2. PositionsIn(t, n, kinds) \subseteq 1..n
  BY DEF PositionsIn
<1> QED
  BY <1>1, <1>2, FS_Subset, FS_CardinalityType

LEMMA OpenIsInt ==
  ASSUME NEW t, NEW n \in Nat
  PROVE  OpenIn(t, n) \in Int
BY PositionsFinite DEF OpenIn

\* One position more.
LEMMA PositionsNext ==
  ASSUME NEW t, NEW n \in Nat, NEW kinds
  PROVE  /\ PositionsIn(t, n + 1, kinds) =
              PositionsIn(t, n, kinds) \cup (IF t[n + 1] \in kinds THEN {n + 1} ELSE {})
         /\ Cardinality(PositionsIn(t, n + 1, kinds)) =
              Cardinality(PositionsIn(t, n, kinds)) + (IF t[n + 1] \in kinds THEN 1 ELSE 0)
<1>1. PositionsIn(t, n + 1, kinds) =
        PositionsIn(t, n, kinds) \cup (IF t[n + 1] \in kinds THEN {n + 1} ELSE {})
  <2>1. 1..(n + 1) = (1..n) \cup {n + 1}
    OBVIOUS
  <2> QED
    BY <2>1 DEF PositionsIn
<1>2. n + 1 \notin PositionsIn(t, n, kinds)
  BY DEF PositionsIn
<1>3. CASE t[n + 1] \in kinds
  BY <1>1, <1>2, <1>3, PositionsFinite, FS_AddElement
<1>4. CASE t[n + 1] \notin kinds
  BY <1>1, <1>4, PositionsFinite
<1> QED
  BY <1>1, <1>3, <1>4

\* A token opens one more, closes one or neither.
LEMMA OpenNext ==
  ASSUME NEW t, NEW n \in Nat
  PROVE  OpenIn(t, n + 1) = OpenIn(t, n) + (IF t[n + 1] \in Openers THEN 1 ELSE 0)
                                         - (IF t[n + 1] = "end" THEN 1 ELSE 0)
<1>1. /\ Cardinality(PositionsIn(t, n, Openers)) \in Nat
      /\ Cardinality(PositionsIn(t, n, {"end"})) \in Nat
  BY PositionsFinite
<1>2. /\ Cardinality(PositionsIn(t, n + 1, Openers)) =
           Cardinality(PositionsIn(t, n, Openers)) + (IF t[n + 1] \in Openers THEN 1 ELSE 0)
      /\ Cardinality(PositionsIn(t, n + 1, {"end"})) =
           Cardinality(PositionsIn(t, n, {"end"})) + (IF t[n + 1] \in {"end"} THEN 1 ELSE 0)
  BY PositionsNext
<1>3. (t[n + 1] \in {"end"}) = (t[n + 1] = "end")
  OBVIOUS
<1> QED
  BY <1>1, <1>2, <1>3 DEF OpenIn

\* u is the first n tokens of t and one more.
Extends(u, t, n, token) == u[n + 1] = token /\ \A p \in 1..n : u[p] = t[p]

\* What is open after some tokens is a matter of those tokens alone.
LEMMA PositionsPrefixed ==
  ASSUME NEW t, NEW u, NEW n \in Nat, NEW token, Extends(u, t, n, token), NEW k \in 0..n, NEW kinds
  PROVE  PositionsIn(u, k, kinds) = PositionsIn(t, k, kinds)
<1>1. \A p \in 1..k : p \in 1..n
  OBVIOUS
<1> QED
  BY <1>1 DEF PositionsIn, Extends

LEMMA OpenPrefixed ==
  ASSUME NEW t, NEW u, NEW n \in Nat, NEW token, Extends(u, t, n, token), NEW k \in 0..n
  PROVE  OpenIn(u, k) = OpenIn(t, k)
<1>1. /\ PositionsIn(u, k, Openers) = PositionsIn(t, k, Openers)
      /\ PositionsIn(u, k, {"end"}) = PositionsIn(t, k, {"end"})
  BY PositionsPrefixed
<1> QED
  BY <1>1 DEF OpenIn

LEMMA BelongsPrefixed ==
  ASSUME NEW t, NEW u, NEW n \in Nat, NEW token, Extends(u, t, n, token),
         NEW o \in 1..(n + 1), NEW p \in 1..(n + 1)
  PROVE  BelongsIn(u, p, o) <=> BelongsIn(t, p, o)
<1>1. CASE o < p
  <2>1. /\ \A q \in o..(p - 1) : q \in 0..n
        /\ o \in 0..n /\ p - 1 \in 0..n
    BY <1>1
  <2>2. /\ \A q \in o..(p - 1) : OpenIn(u, q) = OpenIn(t, q)
        /\ OpenIn(u, o) = OpenIn(t, o) /\ OpenIn(u, p - 1) = OpenIn(t, p - 1)
    BY <2>1, OpenPrefixed
  <2> QED
    BY <2>2 DEF BelongsIn
<1>2. CASE ~(o < p)
  BY <1>2 DEF BelongsIn
<1> QED
  BY <1>1, <1>2

LEMMA ChildrenPrefixed ==
  ASSUME NEW t, NEW u, NEW n \in Nat, NEW token, Extends(u, t, n, token),
         NEW o \in 1..(n + 1), NEW k \in 0..n, NEW kinds
  PROVE  ChildrenIn(u, o, k, kinds) = ChildrenIn(t, o, k, kinds)
<1>1. PositionsIn(u, k, kinds) = PositionsIn(t, k, kinds)
  BY PositionsPrefixed
<1>2. \A p \in PositionsIn(t, k, kinds) : p \in 1..(n + 1)
  BY DEF PositionsIn
<1>3. \A p \in PositionsIn(t, k, kinds) : BelongsIn(u, p, o) <=> BelongsIn(t, p, o)
  BY <1>2, BelongsPrefixed
<1> QED
  BY <1>1, <1>3 DEF ChildrenIn

LEMMA ChildrenFinite ==
  ASSUME NEW t, NEW o, NEW n \in Nat, NEW kinds
  PROVE  /\ IsFiniteSet(ChildrenIn(t, o, n, kinds))
         /\ Cardinality(ChildrenIn(t, o, n, kinds)) \in Nat
         /\ n + 1 \notin ChildrenIn(t, o, n, kinds)
<1>1. ChildrenIn(t, o, n, kinds) \subseteq PositionsIn(t, n, kinds)
  BY DEF ChildrenIn
<1>2. n + 1 \notin PositionsIn(t, n, kinds)
  BY DEF PositionsIn
<1> QED
  BY <1>1, <1>2, PositionsFinite, FS_Subset, FS_CardinalityType

\* A token joins the children of what it belongs to.
LEMMA ChildrenNext ==
  ASSUME NEW t, NEW n \in Nat, NEW o, NEW kinds
  PROVE  /\ ChildrenIn(t, o, n + 1, kinds) = ChildrenIn(t, o, n, kinds) \cup
              (IF t[n + 1] \in kinds /\ BelongsIn(t, n + 1, o) THEN {n + 1} ELSE {})
         /\ Cardinality(ChildrenIn(t, o, n + 1, kinds)) = Cardinality(ChildrenIn(t, o, n, kinds)) +
              (IF t[n + 1] \in kinds /\ BelongsIn(t, n + 1, o) THEN 1 ELSE 0)
<1> DEFINE joins == t[n + 1] \in kinds /\ BelongsIn(t, n + 1, o)
<1>1. ChildrenIn(t, o, n + 1, kinds) = ChildrenIn(t, o, n, kinds) \cup (IF joins THEN {n + 1} ELSE {})
  <2>1. PositionsIn(t, n + 1, kinds) =
          PositionsIn(t, n, kinds) \cup (IF t[n + 1] \in kinds THEN {n + 1} ELSE {})
    BY PositionsNext
  <2> QED
    BY <2>1 DEF ChildrenIn
<1>2. CASE joins
  <2>1. ChildrenIn(t, o, n + 1, kinds) = ChildrenIn(t, o, n, kinds) \cup {n + 1}
    BY <1>1, <1>2
  <2> HIDE DEF joins
  <2>2. IsFiniteSet(ChildrenIn(t, o, n, kinds)) /\ n + 1 \notin ChildrenIn(t, o, n, kinds)
    BY ChildrenFinite
  <2>3. Cardinality(ChildrenIn(t, o, n, kinds) \cup {n + 1}) =
          Cardinality(ChildrenIn(t, o, n, kinds)) + 1
    BY <2>2, FS_AddElement
  <2>4. /\ ChildrenIn(t, o, n + 1, kinds) =
             ChildrenIn(t, o, n, kinds) \cup (IF joins THEN {n + 1} ELSE {})
        /\ Cardinality(ChildrenIn(t, o, n + 1, kinds)) =
             Cardinality(ChildrenIn(t, o, n, kinds)) + (IF joins THEN 1 ELSE 0)
    BY <1>2, <2>1, <2>3
  <2> QED
    BY <2>4 DEF joins
<1>3. CASE ~joins
  <2>1. ChildrenIn(t, o, n + 1, kinds) = ChildrenIn(t, o, n, kinds)
    BY <1>1, <1>3
  <2> HIDE DEF joins
  <2>2. Cardinality(ChildrenIn(t, o, n, kinds)) + 0 = Cardinality(ChildrenIn(t, o, n, kinds))
    BY ChildrenFinite
  <2>3. /\ ChildrenIn(t, o, n + 1, kinds) =
             ChildrenIn(t, o, n, kinds) \cup (IF joins THEN {n + 1} ELSE {})
        /\ Cardinality(ChildrenIn(t, o, n + 1, kinds)) =
             Cardinality(ChildrenIn(t, o, n, kinds)) + (IF joins THEN 1 ELSE 0)
    BY <1>3, <2>1, <2>2
  <2> QED
    BY <2>3 DEF joins
<1> QED
  BY <1>2, <1>3

\* A token belongs to what opens innermost, of which there is one.
LEMMA BelongsToTop ==
  ASSUME NEW t, NEW n \in Nat, NEW o \in 1..n, OpensAt(t, n, o, OpenIn(t, n))
  PROVE  /\ BelongsIn(t, n + 1, o)
         /\ \A other \in 1..n : t[other] \in Openers /\ BelongsIn(t, n + 1, other) => other = o
<1>1. OpenIn(t, o) = OpenIn(t, n) /\ t[o] \in Openers
      /\ \A q \in o..n : OpenIn(t, q) >= OpenIn(t, n)
  BY DEF OpensAt
<1>2. BelongsIn(t, n + 1, o)
  BY <1>1 DEF BelongsIn
<1>3. ASSUME NEW p \in 1..n, t[p] \in Openers
      PROVE  OpenIn(t, p - 1) < OpenIn(t, p)
  <2>1. p - 1 \in Nat /\ t[(p - 1) + 1] \in Openers /\ t[(p - 1) + 1] # "end" /\ (p - 1) + 1 = p
    BY <1>3 DEF Openers
  <2> DEFINE q == p - 1
  <2> HIDE DEF q
  <2>2. q \in Nat /\ t[q + 1] \in Openers /\ t[q + 1] # "end" /\ q + 1 = p
    BY <2>1 DEF q
  <2>3. OpenIn(t, q + 1) = OpenIn(t, q) + 1 /\ OpenIn(t, q) \in Int
    BY <2>2, OpenNext, OpenIsInt
  <2> QED
    BY <2>2, <2>3 DEF q
<1>4. ASSUME NEW other \in 1..n, t[other] \in Openers, BelongsIn(t, n + 1, other)
      PROVE  other = o
  <2>1. /\ OpenIn(t, other) = OpenIn(t, n)
        /\ \A q \in other..n : OpenIn(t, q) >= OpenIn(t, n)
    BY <1>4 DEF BelongsIn
  <2>2. OpenIn(t, n) \in Int /\ OpenIn(t, o - 1) \in Int /\ OpenIn(t, other - 1) \in Int
    BY OpenIsInt
  <2>3. ~(o < other)
    <3> SUFFICES ASSUME o < other PROVE FALSE
      OBVIOUS
    <3>1. other - 1 \in o..n
      OBVIOUS
    <3> QED
      BY <1>1, <1>3, <1>4, <2>1, <2>2, <3>1
  <2>4. ~(other < o)
    <3> SUFFICES ASSUME other < o PROVE FALSE
      OBVIOUS
    <3>1. o - 1 \in other..n
      OBVIOUS
    <3> QED
      BY <1>1, <1>3, <2>1, <2>2, <3>1
  <2> QED
    BY <2>3, <2>4
<1> QED
  BY <1>2, <1>4

-----------------------------------------------------------------------------
(* One token more *)

\* What a token changes of a text: the counts it is in, and the children of what it belongs to.
LEMMA OpenGrown ==
  ASSUME NEW t, NEW n \in Nat, NEW token, NEW u, Extends(u, t, n, token)
  PROVE  OpenIn(u, n + 1) = OpenIn(t, n) + (IF token \in Openers THEN 1 ELSE 0)
                                         - (IF token = "end" THEN 1 ELSE 0)
<1>1. u[n + 1] = token
  BY DEF Extends
<1>2. OpenIn(u, n) = OpenIn(t, n)
  BY OpenPrefixed
<1> QED
  BY <1>1, <1>2, OpenNext

LEMMA PositionsGrown ==
  ASSUME NEW t, NEW n \in Nat, NEW token, NEW u, Extends(u, t, n, token), NEW kinds
  PROVE  /\ PositionsIn(u, n + 1, kinds) =
              PositionsIn(t, n, kinds) \cup (IF token \in kinds THEN {n + 1} ELSE {})
         /\ Cardinality(PositionsIn(u, n + 1, kinds)) =
              Cardinality(PositionsIn(t, n, kinds)) + (IF token \in kinds THEN 1 ELSE 0)
<1>1. u[n + 1] = token
  BY DEF Extends
<1>2. PositionsIn(u, n, kinds) = PositionsIn(t, n, kinds)
  BY PositionsPrefixed
<1> QED
  BY <1>1, <1>2, PositionsNext

LEMMA ChildrenGrown ==
  ASSUME NEW t, NEW n \in Nat, NEW token, NEW u, Extends(u, t, n, token), NEW o \in 1..n, NEW kinds
  PROVE  /\ ChildrenIn(u, o, n + 1, kinds) = ChildrenIn(t, o, n, kinds) \cup
              (IF token \in kinds /\ BelongsIn(t, n + 1, o) THEN {n + 1} ELSE {})
         /\ Cardinality(ChildrenIn(u, o, n + 1, kinds)) = Cardinality(ChildrenIn(t, o, n, kinds)) +
              (IF token \in kinds /\ BelongsIn(t, n + 1, o) THEN 1 ELSE 0)
<1>1. u[n + 1] = token
  BY DEF Extends
<1>2. o \in 1..(n + 1) /\ n + 1 \in 1..(n + 1) /\ n \in 0..n
  OBVIOUS
<1>3. ChildrenIn(u, o, n, kinds) = ChildrenIn(t, o, n, kinds)
  BY <1>2, ChildrenPrefixed
<1>4. BelongsIn(u, n + 1, o) <=> BelongsIn(t, n + 1, o)
  BY <1>2, BelongsPrefixed
<1> QED
  BY <1>1, <1>3, <1>4, ChildrenNext

LEMMA OneChildMore ==
  ASSUME NEW t, NEW n \in Nat, NEW token, NEW u, Extends(u, t, n, token), NEW o \in 1..n,
         NEW kinds, token \in kinds, BelongsIn(t, n + 1, o)
  PROVE  /\ ChildrenIn(u, o, n + 1, kinds) = ChildrenIn(t, o, n, kinds) \cup {n + 1}
         /\ Cardinality(ChildrenIn(u, o, n + 1, kinds)) = Cardinality(ChildrenIn(t, o, n, kinds)) + 1
<1> DEFINE joins == token \in kinds /\ BelongsIn(t, n + 1, o)
<1>1. /\ ChildrenIn(u, o, n + 1, kinds) =
            ChildrenIn(t, o, n, kinds) \cup (IF joins THEN {n + 1} ELSE {})
      /\ Cardinality(ChildrenIn(u, o, n + 1, kinds)) =
            Cardinality(ChildrenIn(t, o, n, kinds)) + (IF joins THEN 1 ELSE 0)
  BY ChildrenGrown
<1>2. joins
  OBVIOUS
<1> HIDE DEF joins
<1> QED
  BY <1>1, <1>2

LEMMA SameChildren ==
  ASSUME NEW t, NEW n \in Nat, NEW token, NEW u, Extends(u, t, n, token), NEW o \in 1..n,
         NEW kinds, ~(token \in kinds /\ BelongsIn(t, n + 1, o))
  PROVE  ChildrenIn(u, o, n + 1, kinds) = ChildrenIn(t, o, n, kinds)
<1>1. ChildrenIn(u, o, n + 1, kinds) = ChildrenIn(t, o, n, kinds) \cup
        (IF token \in kinds /\ BelongsIn(t, n + 1, o) THEN {n + 1} ELSE {})
  BY ChildrenGrown
<1> QED
  BY <1>1

\* What has just opened has no children.
LEMMA NoChildrenYet ==
  ASSUME NEW u, NEW n \in Nat, NEW kinds
  PROVE  ChildrenIn(u, n, n, kinds) = {}
BY DEF ChildrenIn, BelongsIn, PositionsIn

\* The limits of a text do not depend on what follows it.
LEMMA StaysWithin ==
  ASSUME NEW t, NEW n \in Nat, NEW token, NEW u, Extends(u, t, n, token), WithinLimits(t, n)
  PROVE  WithinLimits(u, n)
<1>1. \A kinds : \A o \in PositionsIn(t, n, kinds) : o \in 1..n
  BY DEF PositionsIn
<1>2. \A p \in 1..n : u[p] = t[p] /\ p \in 0..n /\ p \in 1..(n + 1)
  BY DEF Extends
<1>3. \A p \in 1..n : OpenIn(u, p) = OpenIn(t, p)
  BY <1>2, OpenPrefixed
<1>4. \A kinds : PositionsIn(u, n, kinds) = PositionsIn(t, n, kinds)
  BY PositionsPrefixed
<1>5. \A o \in 1..n : \A kinds : ChildrenIn(u, o, n, kinds) = ChildrenIn(t, o, n, kinds)
  BY <1>2, ChildrenPrefixed
<1>6. \A o \in 1..n : DistinctIn(t, o, n) => DistinctIn(u, o, n)
  <2>1. \A o \in 1..n : \A p \in ChildrenIn(t, o, n, Names) : u[p] = t[p]
    BY <1>2 DEF ChildrenIn, PositionsIn
  <2> QED
    BY <1>5, <2>1 DEF DistinctIn
<1> QED
  BY <1>1, <1>3, <1>4, <1>5, <1>6 DEF WithinLimits

\* A token that breaks no rule by itself.
LEMMA StillWithin ==
  ASSUME NEW t, NEW n \in Nat, NEW token, NEW u, Extends(u, t, n, token), WithinLimits(t, n),
         Cardinality(PositionsIn(u, n + 1, Begins)) <= MaxTotalValues,
         OpenIn(u, n + 1) <= MaxNestingDepth,
         \A o \in 1..n : t[o] = "array" /\ token \in Begins /\ BelongsIn(t, n + 1, o) =>
           Cardinality(ChildrenIn(t, o, n, Begins)) + 1 <= MaxArrayItems,
         \A o \in 1..n : t[o] = "object" /\ token \in Names /\ BelongsIn(t, n + 1, o) =>
           /\ Cardinality(ChildrenIn(t, o, n, Names)) + 1 <= MaxObjectMembers
           /\ \A p \in ChildrenIn(t, o, n, Names) : t[p] # token
  PROVE  WithinLimits(u, n + 1)
<1>1. \A p \in 1..n : u[p] = t[p]
  BY DEF Extends
<1>2. u[n + 1] = token
  BY DEF Extends
<1>3. \A p \in 1..(n + 1) : OpenIn(u, p) <= MaxNestingDepth
  <2>1. \A p \in 1..n : p \in 0..n
    OBVIOUS
  <2>2. \A p \in 1..n : OpenIn(u, p) = OpenIn(t, p)
    BY <2>1, OpenPrefixed
  <2>3. \A p \in 1..n : OpenIn(u, p) <= MaxNestingDepth
    BY <2>2 DEF WithinLimits
  <2>4. \A p \in 1..(n + 1) : p \in 1..n \/ p = n + 1
    OBVIOUS
  <2> QED
    BY <2>3, <2>4
<1>4. ASSUME NEW o \in 1..(n + 1), u[o] = "array"
      PROVE  Cardinality(ChildrenIn(u, o, n + 1, Begins)) <= MaxArrayItems
  <2>1. CASE o = n + 1
    <3>1. ChildrenIn(u, o, n + 1, Begins) = {}
      BY <2>1, NoChildrenYet
    <3> QED
      BY <3>1, FS_EmptySet, LimitsArePositive
  <2>2. CASE o \in 1..n
    <3> DEFINE joins == token \in Begins /\ BelongsIn(t, n + 1, o)
    <3>1. t[o] = "array" /\ o \in PositionsIn(t, n, {"array"})
      BY <1>1, <1>4, <2>2 DEF PositionsIn
    <3>2. Cardinality(ChildrenIn(t, o, n, Begins)) <= MaxArrayItems
      BY <3>1 DEF WithinLimits
    <3>3. /\ ChildrenIn(u, o, n + 1, Begins) =
               ChildrenIn(t, o, n, Begins) \cup (IF joins THEN {n + 1} ELSE {})
          /\ Cardinality(ChildrenIn(u, o, n + 1, Begins)) =
               Cardinality(ChildrenIn(t, o, n, Begins)) + (IF joins THEN 1 ELSE 0)
      BY <2>2, ChildrenGrown
    <3>4. Cardinality(ChildrenIn(t, o, n, Begins)) \in Nat
      BY ChildrenFinite
    <3>5. joins => Cardinality(ChildrenIn(t, o, n, Begins)) + 1 <= MaxArrayItems
      BY <2>2, <3>1
    <3> QED
      BY <3>2, <3>3, <3>4, <3>5
  <2> QED
    BY <2>1, <2>2
<1>5. ASSUME NEW o \in 1..(n + 1), u[o] = "object"
      PROVE  /\ Cardinality(ChildrenIn(u, o, n + 1, Names)) <= MaxObjectMembers
             /\ DistinctIn(u, o, n + 1)
  <2>1. CASE o = n + 1
    <3>1. ChildrenIn(u, o, n + 1, Names) = {}
      BY <2>1, NoChildrenYet
    <3> QED
      BY <3>1, FS_EmptySet, LimitsArePositive DEF DistinctIn
  <2>2. CASE o \in 1..n
    <3> DEFINE joins == token \in Names /\ BelongsIn(t, n + 1, o)
    <3>1. t[o] = "object" /\ o \in PositionsIn(t, n, {"object"})
      BY <1>1, <1>5, <2>2 DEF PositionsIn
    <3>2. Cardinality(ChildrenIn(t, o, n, Names)) <= MaxObjectMembers /\ DistinctIn(t, o, n)
      BY <3>1 DEF WithinLimits
    <3>3. /\ ChildrenIn(u, o, n + 1, Names) =
               ChildrenIn(t, o, n, Names) \cup (IF joins THEN {n + 1} ELSE {})
          /\ Cardinality(ChildrenIn(u, o, n + 1, Names)) =
               Cardinality(ChildrenIn(t, o, n, Names)) + (IF joins THEN 1 ELSE 0)
      BY <2>2, ChildrenGrown
    <3>4. Cardinality(ChildrenIn(t, o, n, Names)) \in Nat
      BY ChildrenFinite
    <3>5. joins => /\ Cardinality(ChildrenIn(t, o, n, Names)) + 1 <= MaxObjectMembers
                   /\ \A p \in ChildrenIn(t, o, n, Names) : t[p] # token
      BY <2>2, <3>1
    <3>6. \A p \in ChildrenIn(t, o, n, Names) : u[p] = t[p]
      BY <1>1 DEF ChildrenIn, PositionsIn
    <3>7. DistinctIn(u, o, n + 1)
      BY <1>2, <3>2, <3>3, <3>5, <3>6 DEF DistinctIn
    <3> QED
      BY <3>2, <3>3, <3>4, <3>5, <3>7
  <2> QED
    BY <2>1, <2>2
<1> QED
  BY <1>3, <1>4, <1>5 DEF WithinLimits, PositionsIn

\* What becomes of the innermost frame when its next value begins.
LEMMA TopValue ==
  ASSUME TypeOK, Depth > 0
  PROVE  /\ WithValue(Top).opener = Top.opener
         /\ Top.opener = "array" => WithValue(Top).count = Top.count + 1
         /\ Top.opener = "object" => /\ WithValue(Top).count = Top.count
                                     /\ WithValue(Top).seen = Top.seen
<1>1. Top \in Frames
  BY DEF TypeOK, Depth, Top
<1>2. CASE Top.opener = "array"
  BY <1>1, <1>2 DEF WithValue, Frames
<1>3. CASE Top.opener # "array"
  BY <1>1, <1>3 DEF WithValue, Frames
<1> QED
  BY <1>2, <1>3

\* What is open stays open, unless the token closes it.
LEMMA StaysOpen ==
  ASSUME NEW t, NEW n \in Nat, NEW token, NEW u, Extends(u, t, n, token),
         NEW o \in 1..n, NEW d \in Nat, OpensAt(t, n, o, d), OpenIn(u, n + 1) >= d
  PROVE  OpensAt(u, n + 1, o, d)
<1>1. u[o] = t[o] /\ o \in 0..n /\ n \in 0..n
  BY DEF Extends
<1>2. OpenIn(u, o) = OpenIn(t, o)
  BY <1>1, OpenPrefixed
<1>3. ASSUME NEW q \in o..(n + 1) PROVE OpenIn(u, q) >= d
  <2>1. CASE q = n + 1
    BY <2>1
  <2>2. CASE q # n + 1
    <3>1. q \in 0..n /\ q \in o..n
      BY <2>2
    <3>2. OpenIn(u, q) = OpenIn(t, q)
      BY <3>1, OpenPrefixed
    <3> QED
      BY <3>1, <3>2 DEF OpensAt
  <2> QED
    BY <2>1, <2>2
<1> QED
  BY <1>1, <1>2, <1>3 DEF OpensAt

\* A frame still describes what a token does not belong to.
LEMMA StaysDescribed ==
  ASSUME NEW t, NEW n \in Nat, NEW token, NEW u, Extends(u, t, n, token),
         NEW o \in 1..n, NEW frame, Describes(frame, t, n, o),
         ~BelongsIn(t, n + 1, o) \/ token \notin Names \cup Begins
  PROVE  Describes(frame, u, n + 1, o)
<1>1. u[o] = t[o]
  BY DEF Extends
<1>3. /\ ChildrenIn(u, o, n + 1, Names) = ChildrenIn(t, o, n, Names)
      /\ ChildrenIn(u, o, n + 1, Begins) = ChildrenIn(t, o, n, Begins)
  BY SameChildren
<1>4. {u[p] : p \in ChildrenIn(t, o, n, Names)} = {t[p] : p \in ChildrenIn(t, o, n, Names)}
  BY DEF ChildrenIn, PositionsIn, Extends
<1> QED
  BY <1>1, <1>3, <1>4 DEF Describes

-----------------------------------------------------------------------------
(* The steps, against the text *)

LEMMA TokenExtends ==
  ASSUME TypeOK, NEW token, Reads(token)
  PROVE  /\ verdict = "scanning"
         /\ Len(text) \in Nat /\ Len(text') = Len(text) + 1
         /\ Extends(text', text, Len(text), token)
<1>1. text \in Seq(Tokens) /\ text' = Append(text, token) /\ verdict = "scanning"
  BY DEF TypeOK, Reads
<1> QED
  BY <1>1 DEF Extends

\* The innermost frame describes what the next token belongs to.
LEMMA TopInText ==
  ASSUME IInv, Matched, Depth > 0
  PROVE  \E o \in 1..Len(text) :
           /\ OpensAt(text, Len(text), o, Depth) /\ Describes(Top, text, Len(text), o)
           /\ BelongsIn(text, Len(text) + 1, o)
           /\ \A other \in 1..Len(text) :
                text[other] \in Openers /\ BelongsIn(text, Len(text) + 1, other) => other = o
<1>1. Depth \in 1..Depth /\ Top = stack[Depth] /\ Len(text) \in Nat
  BY DEF IInv, TypeOK, Depth, Top
<1>2. OpenIn(text, Len(text)) = Depth
  BY DEF Matched
<1>3. PICK o \in 1..Len(text) :
        OpensAt(text, Len(text), o, Depth) /\ Describes(Top, text, Len(text), o)
  BY <1>1 DEF Matched
<1>4. OpensAt(text, Len(text), o, OpenIn(text, Len(text)))
  BY <1>2, <1>3
<1> QED
  BY <1>1, <1>3, <1>4, BelongsToTop

\* Where nothing is open, nothing has been read.
LEMMA NothingRead ==
  ASSUME IInv, ExpectsValue, Depth = 0
  PROVE  Len(text) = 0
BY DEF ExpectsValue, InArray, InObject

LEMMA AdvancedIs ==
  ASSUME IInv
  PROVE  /\ Len(Advanced) = Depth /\ Depth \in Nat
         /\ Depth > 0 => Advanced[Depth] = WithValue(Top)
         /\ \A d \in 1..(Depth - 1) : Advanced[d] = stack[d]
<1>1. stack \in Seq(Frames) /\ Depth = Len(stack)
  BY DEF IInv, TypeOK, Depth
<1>2. CASE Depth = 0
  <2>1. Advanced = stack
    BY <1>2 DEF Advanced
  <2>2. Len(Advanced) = Depth
    BY <1>1, <2>1
  <2>3. Depth \in Nat /\ ~(Depth > 0)
    BY <1>2
  <2>4. \A d \in 1..(Depth - 1) : Advanced[d] = stack[d]
    BY <2>1
  <2> QED
    BY <2>2, <2>3, <2>4
<1>3. CASE Depth # 0
  BY <1>1, <1>3 DEF Advanced
<1> QED
  BY <1>2, <1>3

\* A token that names the rule it breaks.
LEMMA RefusedExact ==
  ASSUME TypeOK, Exact, NEW token, Reads(token), verdict' \notin {"scanning", "accepted"}, Broken'
  PROVE  Exact'
<1>1. WithinLimits(text, Len(text))
  BY TokenExtends DEF Exact
<1>2. WithinLimits(text', Len(text))
  BY <1>1, TokenExtends, StaysWithin
<1>3. Len(text') - 1 = Len(text)
  BY TokenExtends
<1> QED
  BY <1>2, <1>3 DEF Exact

\* A token that breaks none.
LEMMA AcceptedExact ==
  ASSUME TypeOK, Exact, NEW token, Reads(token), verdict' \in {"scanning", "accepted"},
         WithinLimits(text', Len(text')), verdict' = "scanning" => Matched'
  PROVE  Exact'
<1>1. WithinLimits(text, Len(text))
  BY TokenExtends DEF Exact
<1>2. WithinLimits(text', Len(text))
  BY <1>1, TokenExtends, StaysWithin
<1>3. Len(text') - 1 = Len(text)
  BY TokenExtends
<1>4. Broken'
  BY DEF Broken
<1> QED
  BY <1>2, <1>3, <1>4 DEF Exact

LEMMA ScanValueExact ==
  ASSUME IInv, Exact, NEW token \in Openers \cup {"scalar"}, ScanValue(token)
  PROVE  Exact'
<1> DEFINE n == Len(text)
           composite == token \in Openers
           broken == IF InArray /\ Top.count >= MaxArrayItems THEN "items"
                     ELSE IF values + 1 > MaxTotalValues THEN "values"
                     ELSE IF composite /\ Depth + 1 > MaxNestingDepth THEN "depth"
                     ELSE "none"
<1>1. /\ Reads(token) /\ ExpectsValue
      /\ values' = IF broken = "items" THEN values ELSE values + 1
      /\ stack' = IF broken # "none" THEN stack
                  ELSE IF composite THEN Append(Advanced, Frame(token)) ELSE Advanced
      /\ verdict' = IF broken # "none" THEN broken
                    ELSE IF Depth = 0 /\ ~composite THEN "accepted" ELSE "scanning"
  BY DEF ScanValue
<1>2. TypeOK /\ values \in Nat /\ Depth \in Nat /\ Depth <= MaxNestingDepth
  <2>1. TypeOK /\ Depth <= MaxNestingDepth
    BY DEF IInv
  <2> QED
    BY <2>1, TopTyped, LimitsArePositive DEF TypeOK
<1>3. /\ verdict = "scanning" /\ n \in Nat /\ Len(text') = n + 1
      /\ Extends(text', text, n, token)
  BY <1>1, <1>2, TokenExtends
<1>4. Matched /\ WithinLimits(text, n)
  BY <1>3 DEF Exact
<1>5. token \in Begins /\ token \notin Names /\ token # "end"
  BY NamesAreNames DEF Begins, Openers
<1> HIDE DEF n
<1>6. OpenIn(text', n + 1) = Depth + (IF composite THEN 1 ELSE 0)
  <2>1. OpenIn(text, n) = Depth
    BY <1>4 DEF Matched, n
  <2>2. OpenIn(text', n + 1) = OpenIn(text, n) + (IF token \in Openers THEN 1 ELSE 0)
                                               - (IF token = "end" THEN 1 ELSE 0)
    BY <1>3, OpenGrown
  <2> QED
    BY <1>2, <1>5, <2>1, <2>2
<1>7. Cardinality(PositionsIn(text', n + 1, Begins)) = values + 1
  <2>1. values = Cardinality(PositionsIn(text, n, Begins))
    BY <1>4 DEF Matched, n
  <2>2. Cardinality(PositionsIn(text', n + 1, Begins)) =
          Cardinality(PositionsIn(text, n, Begins)) + (IF token \in Begins THEN 1 ELSE 0)
    BY <1>3, PositionsGrown
  <2> QED
    BY <1>5, <2>1, <2>2
<1>8. ASSUME Depth > 0
      PROVE  \E o \in 1..n :
               /\ OpensAt(text, n, o, Depth) /\ Describes(Top, text, n, o)
               /\ BelongsIn(text, n + 1, o)
               /\ \A other \in 1..n :
                    text[other] \in Openers /\ BelongsIn(text, n + 1, other) => other = o
  BY <1>4, <1>8, TopInText DEF n
<1>9. Depth = 0 => n = 0
  BY <1>1, NothingRead DEF n
<1>10. CASE broken = "items"
  <2>1. Depth > 0 /\ Top.opener = "array" /\ Top.count >= MaxArrayItems
    BY <1>10 DEF InArray
  <2>2. PICK o \in 1..n : Describes(Top, text, n, o) /\ BelongsIn(text, n + 1, o)
    BY <1>8, <2>1
  <2>3. text[o] = "array" /\ Top.count = Cardinality(ChildrenIn(text, o, n, Begins))
    BY <2>1, <2>2 DEF Describes
  <2>4. /\ ChildrenIn(text', o, n + 1, Begins) = ChildrenIn(text, o, n, Begins) \cup {n + 1}
        /\ Cardinality(ChildrenIn(text', o, n + 1, Begins)) =
             Cardinality(ChildrenIn(text, o, n, Begins)) + 1
    BY <1>3, <1>5, <2>2, OneChildMore
  <2>5. Cardinality(ChildrenIn(text', o, n + 1, Begins)) > MaxArrayItems
    <3>1. Cardinality(ChildrenIn(text, o, n, Begins)) \in Nat
      BY <1>3, ChildrenFinite
    <3> QED
      BY <1>5, <2>1, <2>2, <2>3, <2>4, <3>1, LimitsArePositive
  <2>6. o \in PositionsIn(text', n + 1, {"array"})
    BY <1>3, <2>3 DEF Extends, PositionsIn
  <2>7. verdict' = "items"
    BY <1>1, <1>10
  <2>8. Broken'
    BY <1>3, <2>5, <2>6, <2>7 DEF Broken
  <2> QED
    BY <1>1, <1>2, <2>7, <2>8, RefusedExact
<1>11. CASE broken = "values"
  <2>1. verdict' = "values" /\ values + 1 > MaxTotalValues
    BY <1>1, <1>11
  <2>2. Broken'
    BY <1>3, <1>7, <2>1 DEF Broken
  <2> QED
    BY <1>1, <1>2, <2>1, <2>2, RefusedExact
<1>12. CASE broken = "depth"
  <2>1. verdict' = "depth" /\ composite /\ Depth + 1 > MaxNestingDepth
    BY <1>1, <1>12
  <2>2. OpenIn(text', n + 1) > MaxNestingDepth /\ n + 1 \in 1..(n + 1)
    BY <1>3, <1>6, <2>1
  <2>3. Broken'
    BY <1>3, <2>1, <2>2 DEF Broken
  <2> QED
    BY <1>1, <1>2, <2>1, <2>3, RefusedExact
<1>13. CASE broken = "none"
  <2>1. /\ ~(InArray /\ Top.count >= MaxArrayItems)
        /\ ~(values + 1 > MaxTotalValues)
        /\ ~(composite /\ Depth + 1 > MaxNestingDepth)
        /\ values' = values + 1
        /\ stack' = IF composite THEN Append(Advanced, Frame(token)) ELSE Advanced
        /\ verdict' \in {"scanning", "accepted"}
    BY <1>1, <1>13
  <2>2. WithinLimits(text', n + 1)
    <3>1. Cardinality(PositionsIn(text', n + 1, Begins)) <= MaxTotalValues
      BY <1>2, <1>7, <2>1, LimitsArePositive
    <3>2. OpenIn(text', n + 1) <= MaxNestingDepth
      BY <1>2, <1>6, <2>1, LimitsArePositive
    <3>3. ASSUME NEW o \in 1..n, text[o] = "array", BelongsIn(text, n + 1, o)
          PROVE  Cardinality(ChildrenIn(text, o, n, Begins)) + 1 <= MaxArrayItems
      <4>1. Depth > 0
        BY <1>2, <1>9, <3>3
      <4>2. PICK top \in 1..n :
              /\ Describes(Top, text, n, top)
              /\ \A other \in 1..n :
                   text[other] \in Openers /\ BelongsIn(text, n + 1, other) => other = top
        BY <1>8, <4>1
      <4>3. o = top
        BY <3>3, <4>2 DEF Openers
      <4>4. Top.opener = "array" /\ Top.count = Cardinality(ChildrenIn(text, o, n, Begins))
        BY <3>3, <4>2, <4>3 DEF Describes
      <4>5. ~(Top.count >= MaxArrayItems)
        BY <2>1, <4>1, <4>4 DEF InArray
      <4>6. Cardinality(ChildrenIn(text, o, n, Begins)) \in Nat
        BY <1>3, ChildrenFinite
      <4> QED
        BY <4>4, <4>5, <4>6, LimitsArePositive
    <3> QED
      BY <1>3, <1>4, <1>5, <3>1, <3>2, <3>3, StillWithin
  <2>3. ASSUME verdict' = "scanning" PROVE Matched'
    <3>1. Depth' = Depth + (IF composite THEN 1 ELSE 0)
      BY <2>1, AdvancedIs DEF Depth
    <3>2. /\ \A d \in 1..Depth : stack'[d] = Advanced[d]
          /\ composite => stack'[Depth + 1] = Frame(token)
      BY <2>1, AdvancedIs
    <3>3. ASSUME NEW d \in 1..Depth'
          PROVE  \E o \in 1..(n + 1) :
                   OpensAt(text', n + 1, o, d) /\ Describes(stack'[d], text', n + 1, o)
      <4>1. CASE d = Depth + 1
        <5>1. composite /\ stack'[d] = Frame(token)
          BY <1>2, <3>1, <3>2, <4>1
        <5>2. text'[n + 1] = token
          BY <1>3 DEF Extends
        <5>3. OpensAt(text', n + 1, n + 1, d)
          BY <1>2, <1>3, <1>6, <4>1, <5>1, <5>2 DEF OpensAt
        <5>4. Describes(stack'[d], text', n + 1, n + 1)
          <6>1. /\ ChildrenIn(text', n + 1, n + 1, Begins) = {}
                /\ ChildrenIn(text', n + 1, n + 1, Names) = {}
            BY <1>3, NoChildrenYet
          <6>2. {text'[p] : p \in {}} = {}
            OBVIOUS
          <6> QED
            BY <5>1, <5>2, <6>1, <6>2, FS_EmptySet DEF Describes, Frame
        <5> QED
          BY <1>3, <5>3, <5>4
      <4>2. CASE d \in 1..(Depth - 1)
        <5>1. stack'[d] = stack[d] /\ d \in 1..Depth
          BY <1>2, <3>2, <4>2, AdvancedIs
        <5>2. PICK o \in 1..n : OpensAt(text, n, o, d) /\ Describes(stack[d], text, n, o)
          BY <1>4, <5>1 DEF Matched, n
        <5>3. OpenIn(text', n + 1) >= d /\ d \in Nat
          BY <1>2, <1>6, <4>2
        <5>4. ~BelongsIn(text, n + 1, o)
          <6>1. OpenIn(text, o) = d /\ OpenIn(text, n) = Depth
            BY <1>4, <5>2 DEF OpensAt, Matched, n
          <6> QED
            BY <1>2, <1>3, <4>2, <6>1 DEF BelongsIn
        <5>5. OpensAt(text', n + 1, o, d)
          BY <1>3, <5>2, <5>3, StaysOpen
        <5>6. Describes(stack[d], text', n + 1, o)
          BY <1>3, <5>2, <5>4, StaysDescribed
        <5> QED
          BY <1>3, <5>1, <5>5, <5>6
      <4>3. CASE d = Depth
        <5>1. PICK o \in 1..n :
                /\ OpensAt(text, n, o, Depth) /\ Describes(Top, text, n, o)
                /\ BelongsIn(text, n + 1, o)
          BY <1>8, <4>3
        <5>2. stack'[d] = WithValue(Top)
          BY <1>2, <3>2, <4>3, AdvancedIs
        <5>3. OpensAt(text', n + 1, o, d)
          <6>1. OpenIn(text', n + 1) >= Depth
            BY <1>2, <1>6
          <6> QED
            BY <1>2, <1>3, <4>3, <5>1, <6>1, StaysOpen
        <5>4. Describes(WithValue(Top), text', n + 1, o)
          <6>1. text'[o] = text[o]
            BY <1>3 DEF Extends
          <6>2. /\ ChildrenIn(text', o, n + 1, Begins) = ChildrenIn(text, o, n, Begins) \cup {n + 1}
                /\ Cardinality(ChildrenIn(text', o, n + 1, Begins)) =
                     Cardinality(ChildrenIn(text, o, n, Begins)) + 1
            BY <1>3, <1>5, <5>1, OneChildMore
          <6>3. ChildrenIn(text', o, n + 1, Names) = ChildrenIn(text, o, n, Names)
            BY <1>3, <1>5, SameChildren
          <6>4. {text'[p] : p \in ChildrenIn(text, o, n, Names)} =
                  {text[p] : p \in ChildrenIn(text, o, n, Names)}
            BY <1>3 DEF ChildrenIn, PositionsIn, Extends
          <6>5. /\ WithValue(Top).opener = Top.opener
                /\ Top.opener = "array" => WithValue(Top).count = Top.count + 1
                /\ Top.opener = "object" => /\ WithValue(Top).count = Top.count
                                            /\ WithValue(Top).seen = Top.seen
            BY <1>2, <4>3, TopValue
          <6> QED
            BY <5>1, <6>1, <6>2, <6>3, <6>4, <6>5 DEF Describes
        <5> QED
          BY <1>3, <5>2, <5>3, <5>4
      <4> QED
        BY <1>2, <3>1, <4>1, <4>2, <4>3
    <3> QED
      BY <1>2, <1>3, <1>6, <1>7, <2>1, <3>1, <3>3 DEF Matched
  <2> QED
    BY <1>1, <1>2, <1>3, <2>1, <2>2, <2>3, AcceptedExact
<1> QED
  BY <1>10, <1>11, <1>12, <1>13

LEMMA ScanNameExact ==
  ASSUME IInv, Exact, NEW name \in Names, ScanName(name)
  PROVE  Exact'
<1> DEFINE n == Len(text)
           broken == IF Top.count + 1 > MaxObjectMembers THEN "members"
                     ELSE IF name \in Top.seen THEN "duplicate"
                     ELSE "none"
<1>1. /\ Reads(name) /\ Depth > 0 /\ Top.opener = "object" /\ values' = values
      /\ stack' = IF broken # "none" THEN stack
                  ELSE [stack EXCEPT ![Depth] = WithName(Top, name)]
      /\ verdict' = IF broken # "none" THEN broken ELSE "scanning"
  BY DEF ScanName, ExpectsName, InObject
<1>2. TypeOK /\ Depth \in Nat /\ Depth <= MaxNestingDepth /\ values <= MaxTotalValues
  <2>1. TypeOK /\ Depth <= MaxNestingDepth
    BY DEF IInv
  <2>2. values <= MaxTotalValues
    BY <1>1 DEF IInv, TokensPaid, Reads
  <2> QED
    BY <2>1, <2>2, TopTyped
<1>3. /\ n \in Nat /\ Len(text') = n + 1
      /\ Extends(text', text, n, name)
  BY <1>1, <1>2, TokenExtends
<1>4. Matched /\ WithinLimits(text, n)
  BY <1>1, <1>2, TokenExtends DEF Exact
<1>5. name \notin Begins /\ name \notin Openers /\ name # "end"
  BY NamesAreNames DEF Begins
<1>6. PICK o \in 1..n :
        /\ OpensAt(text, n, o, Depth) /\ Describes(Top, text, n, o)
        /\ BelongsIn(text, n + 1, o)
        /\ \A other \in 1..n :
             text[other] \in Openers /\ BelongsIn(text, n + 1, other) => other = o
  BY <1>1, <1>4, TopInText
<1> HIDE DEF n
<1>7. /\ text[o] = "object" /\ Top.count = Cardinality(ChildrenIn(text, o, n, Names))
      /\ Top.seen = {text[p] : p \in ChildrenIn(text, o, n, Names)}
  BY <1>1, <1>6 DEF Describes
<1>8. /\ ChildrenIn(text', o, n + 1, Names) = ChildrenIn(text, o, n, Names) \cup {n + 1}
      /\ Cardinality(ChildrenIn(text', o, n + 1, Names)) =
           Cardinality(ChildrenIn(text, o, n, Names)) + 1
  BY <1>3, <1>6, OneChildMore
<1>9. o \in PositionsIn(text', n + 1, {"object"})
  BY <1>3, <1>7 DEF Extends, PositionsIn
<1>10. /\ text'[n + 1] = name
       /\ \A p \in ChildrenIn(text, o, n, Names) : text'[p] = text[p] /\ p # n + 1
  BY <1>3 DEF Extends, ChildrenIn, PositionsIn
<1>11. CASE broken = "members"
  <2>1. verdict' = "members" /\ Top.count + 1 > MaxObjectMembers
    BY <1>1, <1>11
  <2>2. Broken'
    BY <1>3, <1>7, <1>8, <1>9, <2>1 DEF Broken
  <2> QED
    BY <1>1, <1>2, <2>1, <2>2, RefusedExact
<1>12. CASE broken = "duplicate"
  <2>1. verdict' = "duplicate" /\ name \in Top.seen
    BY <1>1, <1>12
  <2>2. PICK p \in ChildrenIn(text, o, n, Names) : text[p] = name
    BY <1>7, <2>1
  <2>3. ~DistinctIn(text', o, n + 1)
    BY <1>8, <1>10, <2>2 DEF DistinctIn
  <2>4. Broken'
    BY <1>3, <1>9, <2>1, <2>3 DEF Broken
  <2> QED
    BY <1>1, <1>2, <2>1, <2>4, RefusedExact
<1>13. CASE broken = "none"
  <2>1. /\ ~(Top.count + 1 > MaxObjectMembers) /\ name \notin Top.seen
        /\ stack' = [stack EXCEPT ![Depth] = WithName(Top, name)]
        /\ verdict' = "scanning"
    BY <1>1, <1>13
  <2>2. OpenIn(text', n + 1) = Depth
    <3>1. OpenIn(text, n) = Depth
      BY <1>4 DEF Matched, n
    <3>2. OpenIn(text', n + 1) = OpenIn(text, n) + (IF name \in Openers THEN 1 ELSE 0)
                                                 - (IF name = "end" THEN 1 ELSE 0)
      BY <1>3, OpenGrown
    <3> QED
      BY <1>2, <1>5, <3>1, <3>2
  <2>3. Cardinality(PositionsIn(text', n + 1, Begins)) = values
    <3>1. values = Cardinality(PositionsIn(text, n, Begins))
      BY <1>4 DEF Matched, n
    <3>2. PositionsIn(text', n + 1, Begins) =
            PositionsIn(text, n, Begins) \cup (IF name \in Begins THEN {n + 1} ELSE {})
      BY <1>3, PositionsGrown
    <3>3. PositionsIn(text', n + 1, Begins) = PositionsIn(text, n, Begins)
      BY <1>5, <3>2
    <3> QED
      BY <3>1, <3>3
  <2>4. WithinLimits(text', n + 1)
    <3>1. ASSUME NEW other \in 1..n, text[other] = "object", BelongsIn(text, n + 1, other)
          PROVE  /\ Cardinality(ChildrenIn(text, other, n, Names)) + 1 <= MaxObjectMembers
                 /\ \A p \in ChildrenIn(text, other, n, Names) : text[p] # name
      <4>1. other = o
        BY <1>6, <3>1 DEF Openers
      <4>2. Cardinality(ChildrenIn(text, o, n, Names)) \in Nat
        BY <1>3, ChildrenFinite
      <4>3. Cardinality(ChildrenIn(text, o, n, Names)) + 1 <= MaxObjectMembers
        BY <1>7, <2>1, <4>2, LimitsArePositive
      <4>4. \A p \in ChildrenIn(text, o, n, Names) : text[p] # name
        BY <1>7, <2>1
      <4> QED
        BY <4>1, <4>3, <4>4
    <3>2. /\ Cardinality(PositionsIn(text', n + 1, Begins)) <= MaxTotalValues
          /\ OpenIn(text', n + 1) <= MaxNestingDepth
      BY <1>2, <2>2, <2>3
    <3> QED
      BY <1>3, <1>4, <1>5, <3>1, <3>2, StillWithin
  <2>5. Matched'
    <3>1. /\ Depth' = Depth
          /\ stack'[Depth] = WithName(Top, name)
          /\ \A d \in 1..(Depth - 1) : stack'[d] = stack[d]
      <4>1. stack \in Seq(Frames) /\ Depth = Len(stack)
        BY <1>2 DEF TypeOK, Depth
      <4> QED
        BY <1>1, <2>1, <4>1 DEF Depth
    <3>2. ASSUME NEW d \in 1..Depth
          PROVE  \E place \in 1..(n + 1) :
                   OpensAt(text', n + 1, place, d) /\ Describes(stack'[d], text', n + 1, place)
      <4>1. CASE d \in 1..(Depth - 1)
        <5>1. stack'[d] = stack[d]
          BY <3>1, <4>1
        <5>2. PICK place \in 1..n : OpensAt(text, n, place, d) /\ Describes(stack[d], text, n, place)
          BY <1>4 DEF Matched, n
        <5>3. OpenIn(text', n + 1) >= d /\ d \in Nat
          BY <1>2, <2>2
        <5>4. ~BelongsIn(text, n + 1, place)
          <6>1. OpenIn(text, place) = d /\ OpenIn(text, n) = Depth
            BY <1>4, <5>2 DEF OpensAt, Matched, n
          <6> QED
            BY <1>2, <1>3, <4>1, <6>1 DEF BelongsIn
        <5>5. OpensAt(text', n + 1, place, d)
          BY <1>3, <5>2, <5>3, StaysOpen
        <5>6. Describes(stack[d], text', n + 1, place)
          BY <1>3, <5>2, <5>4, StaysDescribed
        <5> QED
          BY <1>3, <5>1, <5>5, <5>6
      <4>2. CASE d = Depth
        <5>1. OpensAt(text', n + 1, o, d)
          <6>1. OpenIn(text', n + 1) >= Depth
            BY <1>2, <2>2
          <6> QED
            BY <1>2, <1>3, <1>6, <4>2, <6>1, StaysOpen
        <5>2. Describes(WithName(Top, name), text', n + 1, o)
          <6>1. text'[o] = "object"
            BY <1>3, <1>7 DEF Extends
          <6>2. {text'[p] : p \in ChildrenIn(text', o, n + 1, Names)} = Top.seen \cup {name}
            BY <1>7, <1>8, <1>10
          <6> QED
            BY <1>1, <1>7, <1>8, <6>1, <6>2 DEF Describes, WithName
        <5> QED
          BY <1>3, <3>1, <4>2, <5>1, <5>2
      <4> QED
        BY <1>2, <4>1, <4>2
    <3> QED
      BY <1>1, <1>3, <2>2, <2>3, <3>1, <3>2 DEF Matched
  <2> QED
    BY <1>1, <1>2, <1>3, <2>1, <2>4, <2>5, AcceptedExact
<1> QED
  BY <1>11, <1>12, <1>13

LEMMA ScanCloseExact == ASSUME IInv, Exact, ScanClose PROVE Exact'
<1> DEFINE n == Len(text)
<1>1. /\ Reads("end") /\ Depth > 0 /\ values' = values
      /\ stack' = Front(stack) /\ verdict' \in {"scanning", "accepted"}
  BY DEF ScanClose, ExpectsName, InObject, InArray
<1>2. TypeOK /\ Depth \in Nat /\ Depth <= MaxNestingDepth /\ values <= MaxTotalValues
  <2>1. TypeOK /\ Depth <= MaxNestingDepth
    BY DEF IInv
  <2>2. values <= MaxTotalValues
    BY <1>1 DEF IInv, TokensPaid, Reads
  <2> QED
    BY <2>1, <2>2, TopTyped
<1>3. /\ n \in Nat /\ Len(text') = n + 1
      /\ Extends(text', text, n, "end")
  BY <1>1, <1>2, TokenExtends
<1>4. Matched /\ WithinLimits(text, n)
  BY <1>1, <1>2, TokenExtends DEF Exact
<1>5. "end" \notin Names \cup Begins /\ "end" \notin Openers
  BY NamesAreNames DEF Begins, Openers
<1> HIDE DEF n
<1>6. OpenIn(text', n + 1) = Depth - 1
  <2>1. OpenIn(text, n) = Depth
    BY <1>4 DEF Matched, n
  <2>2. OpenIn(text', n + 1) = OpenIn(text, n) + (IF "end" \in Openers THEN 1 ELSE 0)
                                               - (IF "end" = "end" THEN 1 ELSE 0)
    BY <1>3, OpenGrown
  <2> QED
    BY <1>2, <1>5, <2>1, <2>2
<1>7. Cardinality(PositionsIn(text', n + 1, Begins)) = values
  <2>1. values = Cardinality(PositionsIn(text, n, Begins))
    BY <1>4 DEF Matched, n
  <2>2. PositionsIn(text', n + 1, Begins) =
          PositionsIn(text, n, Begins) \cup (IF "end" \in Begins THEN {n + 1} ELSE {})
    BY <1>3, PositionsGrown
  <2>3. PositionsIn(text', n + 1, Begins) = PositionsIn(text, n, Begins)
    BY <1>5, <2>2
  <2> QED
    BY <2>1, <2>3
<1>8. WithinLimits(text', n + 1)
  <2>1. /\ Cardinality(PositionsIn(text', n + 1, Begins)) <= MaxTotalValues
        /\ OpenIn(text', n + 1) <= MaxNestingDepth
    BY <1>2, <1>6, <1>7, LimitsArePositive
  <2> QED
    BY <1>3, <1>4, <1>5, <2>1, StillWithin
<1>9. /\ Depth' = Depth - 1
      /\ \A d \in 1..(Depth - 1) : stack'[d] = stack[d]
  <2>1. stack' = [d \in 1..(Len(stack) - 1) |-> stack[d]] /\ Depth = Len(stack)
    BY <1>1 DEF Depth, Front
  <2> QED
    BY <1>1, <1>2, <2>1 DEF Depth
<1>10. Matched'
  <2>1. ASSUME NEW d \in 1..(Depth - 1)
        PROVE  \E place \in 1..(n + 1) :
                 OpensAt(text', n + 1, place, d) /\ Describes(stack'[d], text', n + 1, place)
    <3>1. stack'[d] = stack[d] /\ d \in 1..Depth /\ d \in Nat
      BY <1>2, <1>9
    <3>2. PICK place \in 1..n : OpensAt(text, n, place, d) /\ Describes(stack[d], text, n, place)
      BY <1>4, <3>1 DEF Matched, n
    <3>3. OpenIn(text', n + 1) >= d
      BY <1>2, <1>6
    <3>4. OpensAt(text', n + 1, place, d)
      BY <1>3, <3>1, <3>2, <3>3, StaysOpen
    <3>5. Describes(stack[d], text', n + 1, place)
      BY <1>3, <1>5, <3>2, StaysDescribed
    <3> QED
      BY <1>3, <3>1, <3>4, <3>5
  <2> QED
    BY <1>1, <1>3, <1>6, <1>7, <1>9, <2>1 DEF Matched
<1> QED
  BY <1>1, <1>2, <1>3, <1>8, <1>10, AcceptedExact

LEMMA InitExact == Init => Exact
<1> SUFFICES ASSUME Init PROVE Exact
  OBVIOUS
<1>1. text = <<>> /\ stack = <<>> /\ values = 0 /\ verdict = "scanning" /\ Len(text) = 0 /\ Depth = 0
  BY DEF Init, Depth
<1>2. \A kinds : PositionsIn(text, 0, kinds) = {}
  BY DEF PositionsIn
<1>3. OpenIn(text, 0) = 0
  BY <1>2, FS_EmptySet DEF OpenIn
<1>4. WithinLimits(text, 0)
  BY <1>2, FS_EmptySet, LimitsArePositive DEF WithinLimits
<1>5. Matched
  BY <1>1, <1>2, <1>3, FS_EmptySet DEF Matched
<1> QED
  BY <1>1, <1>4, <1>5 DEF Exact, Broken

LEMMA NextExact == IInv /\ Exact /\ [Next]_vars => Exact'
<1>1. ASSUME Exact, UNCHANGED vars PROVE Exact'
  BY <1>1 DEF vars, Exact, Broken, Matched, Depth
<1> QED
  BY <1>1, ScanValueExact, ScanNameExact, ScanCloseExact DEF Next

LEMMA AlwaysExact == Spec => []Exact
BY InitExact, NextExact, Inductive, PTL DEF Spec

\* The rules as ScanExact states them are those of the text as a value.
LEMMA SameText ==
  /\ \A n, kinds : Positions(n, kinds) = PositionsIn(text, n, kinds)
  /\ \A n : OpenAfter(n) = OpenIn(text, n)
  /\ \A o, n : MembersOf(o, n) = ChildrenIn(text, o, n, Names)
  /\ \A o, n : ItemsWithin(o, n) = ChildrenIn(text, o, n, Begins)
<1>1. \A n, kinds : Positions(n, kinds) = PositionsIn(text, n, kinds)
  BY DEF Positions, PositionsIn
<1>2. \A n : OpenAfter(n) = OpenIn(text, n)
  BY <1>1 DEF OpenAfter, OpenIn
<1>3. \A p, o : Belongs(p, o) <=> BelongsIn(text, p, o)
  BY <1>2 DEF Belongs, BelongsIn
<1> QED
  BY <1>1, <1>2, <1>3 DEF MembersOf, ItemsWithin, ChildrenIn, Begins

\* Each rule by itself.
LEMMA SameRules ==
  ASSUME NEW n \in Nat
  PROVE  /\ TooMany(n) <=> Cardinality(PositionsIn(text, n, Begins)) > MaxTotalValues
         /\ TooDeep(n) <=> \E p \in 1..n : OpenIn(text, p) > MaxNestingDepth
         /\ TooLong(n) <=> \E o \in PositionsIn(text, n, {"array"}) :
                             Cardinality(ChildrenIn(text, o, n, Begins)) > MaxArrayItems
         /\ TooWide(n) <=> \E o \in PositionsIn(text, n, {"object"}) :
                             Cardinality(ChildrenIn(text, o, n, Names)) > MaxObjectMembers
         /\ Duplicate(n) <=> \E o \in PositionsIn(text, n, {"object"}) : ~DistinctIn(text, o, n)
<1>1. TooMany(n) <=> Cardinality(PositionsIn(text, n, Begins)) > MaxTotalValues
  BY SameText DEF TooMany, Begins
<1>2. TooDeep(n) <=> \E p \in 1..n : OpenIn(text, p) > MaxNestingDepth
  BY SameText DEF TooDeep
<1>3. TooLong(n) <=> \E o \in PositionsIn(text, n, {"array"}) :
                      Cardinality(ChildrenIn(text, o, n, Begins)) > MaxArrayItems
  BY SameText DEF TooLong
<1>4. TooWide(n) <=> \E o \in PositionsIn(text, n, {"object"}) :
                      Cardinality(ChildrenIn(text, o, n, Names)) > MaxObjectMembers
  BY SameText DEF TooWide
<1>5. Duplicate(n) <=> \E o \in PositionsIn(text, n, {"object"}) : ~DistinctIn(text, o, n)
  BY SameText DEF Duplicate, DistinctIn
<1> QED
  BY <1>1, <1>2, <1>3, <1>4, <1>5

LEMMA RefusableIs == ASSUME NEW n \in Nat PROVE ~Refusable(n) <=> WithinLimits(text, n)
<1>1. ~TooMany(n) <=> Cardinality(PositionsIn(text, n, Begins)) <= MaxTotalValues
  <2>1. Cardinality(PositionsIn(text, n, Begins)) \in Nat
    BY PositionsFinite
  <2> QED
    BY <2>1, SameRules, LimitsArePositive
<1>2. ~TooDeep(n) <=> \A p \in 1..n : OpenIn(text, p) <= MaxNestingDepth
  <2>1. \A p \in 1..n : OpenIn(text, p) \in Int
    BY OpenIsInt
  <2>2. \A p \in 1..n : OpenIn(text, p) <= MaxNestingDepth <=> ~(OpenIn(text, p) > MaxNestingDepth)
    BY <2>1, LimitsArePositive
  <2>3. TooDeep(n) <=> \E p \in 1..n : OpenIn(text, p) > MaxNestingDepth
    BY SameRules
  <2> QED
    BY <2>2, <2>3
<1>3. ASSUME NEW o, NEW kinds
      PROVE  /\ Cardinality(ChildrenIn(text, o, n, kinds)) <= MaxArrayItems <=>
                  ~(Cardinality(ChildrenIn(text, o, n, kinds)) > MaxArrayItems)
             /\ Cardinality(ChildrenIn(text, o, n, kinds)) <= MaxObjectMembers <=>
                  ~(Cardinality(ChildrenIn(text, o, n, kinds)) > MaxObjectMembers)
  <2>1. Cardinality(ChildrenIn(text, o, n, kinds)) \in Nat
    BY ChildrenFinite
  <2> QED
    BY <2>1, LimitsArePositive
<1>4. ~TooLong(n) <=> \A o \in PositionsIn(text, n, {"array"}) :
                       Cardinality(ChildrenIn(text, o, n, Begins)) <= MaxArrayItems
  BY <1>3, SameRules
<1>5. ~TooWide(n) <=> \A o \in PositionsIn(text, n, {"object"}) :
                       Cardinality(ChildrenIn(text, o, n, Names)) <= MaxObjectMembers
  BY <1>3, SameRules
<1>6. ~Duplicate(n) <=> \A o \in PositionsIn(text, n, {"object"}) : DistinctIn(text, o, n)
  BY SameRules
<1> QED
  BY <1>1, <1>2, <1>4, <1>5, <1>6 DEF Refusable, WithinLimits

-----------------------------------------------------------------------------
(* The theorems *)

\* Type correctness of the scan: its budget is never overdrawn by more than the
\* value that is refused.
THEOREM TypeCorrect == Spec => []TypeOK
<1>1. IInv => TypeOK
  BY DEF IInv
<1> QED
  BY <1>1, Inductive, PTL

\* The work and the memory of rejectDuplicateMembersWithLimits are bounded by its
\* limits, for every text and every choice of the limits.
THEOREM ScanIsBounded == Spec => []ScanBounded
<1>1. IInv => ScanBounded
  <2> SUFFICES ASSUME IInv PROVE ScanBounded
    OBVIOUS
  <2>1. /\ Depth \in Nat /\ Pending \in {0, 1} /\ (Pending = 1 => Depth > 0)
        /\ values \in Nat /\ Len(text) \in Nat
    BY LimitsArePositive DEF IInv, TypeOK, Depth, Pending
  <2>2. Len(text) <= 3 * MaxTotalValues + 1
    BY <2>1, LimitsArePositive DEF IInv, TokensPaid
  <2>3. \A d \in 1..Depth : stack[d].opener \in Openers
    <3>1. stack \in Seq(Frames)
      BY DEF IInv, TypeOK
    <3>2. \A d \in 1..Depth : stack[d] \in Frames
      BY <3>1 DEF Depth
    <3> QED
      BY <3>2 DEF Frames
  <2>4. \A d \in 1..Depth : Cardinality(stack[d].seen) <= MaxObjectMembers
    BY <2>3, FS_EmptySet, LimitsArePositive DEF IInv, FramesBounded, Openers
  <2> QED
    BY <2>2, <2>4 DEF IInv, FramesBounded, ScanBounded
<1> QED
  BY <1>1, Inductive, PTL

\* rejectDuplicateMembersWithLimits refuses a text at the first token that breaks a rule, for
\* that rule, and accepts every other, for every text and every choice of the limits.
THEOREM ScanIsExact == Spec => []ScanExact
<1>1. TypeOK /\ Exact => ScanExact
  <2> SUFFICES ASSUME TypeOK, Exact PROVE ScanExact
    OBVIOUS
  <2>1. /\ Len(text) \in Nat /\ verdict \in Verdicts
        /\ Len(text) > 0 => Len(text) - 1 \in Nat
    BY DEF TypeOK
  <2>2. Len(text) > 0 => ~Refusable(Len(text) - 1)
    BY <2>1, RefusableIs DEF Exact
  <2>3. verdict \in {"scanning", "accepted"} => ~Refusable(Len(text))
    BY <2>1, RefusableIs DEF Exact
  <2>4. /\ verdict = "values" => TooMany(Len(text))
        /\ verdict = "depth" => TooDeep(Len(text))
        /\ verdict = "items" => TooLong(Len(text))
        /\ verdict = "members" => TooWide(Len(text))
        /\ verdict = "duplicate" => Duplicate(Len(text))
    BY <2>1, SameRules DEF Exact, Broken
  <2>5. verdict \notin {"scanning", "accepted"} => Refusable(Len(text))
    BY <2>1, <2>4 DEF Verdicts, Refusable
  <2> QED
    BY <2>2, <2>3, <2>4, <2>5 DEF ScanExact
<1> QED
  BY <1>1, AlwaysExact, TypeCorrect, PTL

-----------------------------------------------------------------------------
(* Chains of links: the inductive invariant *)

Refusals == {"limit", "cycle"}

\* What the member walker reports of the link l.
StrayAt(l) ==
  \/ l \in entry.stray
  \/ l = Root /\ entry.form[Root] = "extension" /\ ~entry.registered /\ ~entry.atMember

\* A walker stands at the end of a path from the root.
Walks ==
  pc \in {"members", "rules"} => \E p \in [0..depth -> Links] : IsPath(p, depth) /\ p[depth] = at

\* A walk that refused nothing came to the end of the chain.
CameToTheEnd ==
  /\ call = "Marshal" /\ pc \in {"rules", "encode"} => Ends
  /\ pc \in {"encode", "done"} /\ Checked /\ violations \cap Refusals = {} => Ends

\* Of a chain that ends, a walker stands at the link it has counted to, with the
\* pointers above it as ancestors, and it has refused nothing.
OnTheChain(q, n) ==
  /\ violations \cap Refusals = {}
  /\ pc \in {"members", "rules"} =>
       depth <= n /\ q[depth] = at /\ ancestors = {q[k] : k \in 1..depth}

\* What has been reported of the links above.
ReportsStrays(q, n) ==
  /\ pc = "members" =>
       ("stray" \in violations <=> \E k \in 0..(depth - 1) : StrayAt(q[k]))
  /\ pc # "members" =>
       ("stray" \in violations <=> call = "Marshal" /\ \E k \in 0..n : StrayAt(q[k]))

ReportsFaults(q, n) ==
  /\ pc = "members" => "fault" \notin violations
  /\ pc = "rules" =>
       /\ "stray" \notin violations
       /\ "fault" \in violations <=> ~entry.atMember /\ \E k \in 0..(depth - 1) : q[k] \in entry.faulty
  /\ pc \in {"encode", "done"} =>
       ("fault" \in violations <=>
          /\ ~entry.atMember /\ "stray" \notin violations
          /\ \E k \in 0..n : q[k] \in entry.faulty)

OfChains ==
  \A n \in 0..MaxDepth : \A q \in [0..n -> Links] : EndsWith(q, n) =>
    OnTheChain(q, n) /\ ReportsStrays(q, n) /\ ReportsFaults(q, n)

\* Only Marshal begins with the members, and the encoder begins without violations.
ChainBegins ==
  /\ pc = "members" => call = "Marshal"
  /\ pc = "encode" => violations = {}

ChainIInv == ChainTypeOK /\ ChainBegins /\ Walks /\ CameToTheEnd /\ OfChains

-----------------------------------------------------------------------------
(* Chains of links *)

\* The pointers and faults of an entry are those of links.
LEMMA EntryShape ==
  ASSUME entry \in Entries
  PROVE  /\ entry.describedBy \in [Links -> Cells \cup {NoLink}]
         /\ \A l \in Links : entry.describedBy[l] # NoLink =>
              entry.describedBy[l] \in Cells /\ entry.form[l] = "object"
         /\ \A l \in entry.faulty : entry.form[l] \notin {"extension", "null"}
         /\ \A l \in entry.stray : entry.form[l] = "object"
<1>1. IsEntry(entry)
  BY EntriesWellFormed
<1>2. QED
  BY <1>1 DEF IsEntry

\* A set of naturals has a least member.
LEMMA LeastNatural ==
  ASSUME NEW S, S \subseteq Nat, S # {}
  PROVE  \E m \in S : \A d \in S : ~(d < m)
<1>1. PICK m \in S : \A d \in S : <<d, m>> \notin OpToRel(<, Nat)
  BY WFMin, NatLessThanWellFounded, Zenon
<1>2. ASSUME NEW d \in S, d < m PROVE FALSE
  <2>1. d \in Nat /\ m \in Nat
    BY <1>1
  <2>2. <<d, m>> \in OpToRel(<, Nat)
    BY <1>2, <2>1, Zenon DEF OpToRel
  <2>3. QED
    BY <1>1, <2>2, Zenon
<1>3. QED
  BY <1>1, <1>2

\* No link occurs twice on a chain that ends: the two links after it would be
\* the same as well, and so on to the end, which has none after it.
LEMMA EndingChainRepeatsNothing ==
  ASSUME entry \in Entries, NEW n \in Nat, NEW q \in [0..n -> Links], EndsWith(q, n),
         NEW i \in 0..n, NEW j \in 0..n, i < j
  PROVE  q[i] # q[j]
<1> SUFFICES ASSUME q[i] = q[j] PROVE FALSE
  OBVIOUS
<1> DEFINE S == {d \in 0..n : \E k \in 0..n : k < n - d /\ q[k] = q[n - d]}
<1>1. n - j \in S
  OBVIOUS
<1>3. PICK m \in S : \A d \in S : ~(d < m)
  <2>1. S \subseteq Nat
    OBVIOUS
  <2> HIDE DEF S
  <2>2. S # {}
    BY <1>1
  <2>3. QED
    BY <2>1, <2>2, LeastNatural, Zenon
<1>4. PICK k \in 0..n : k < n - m /\ q[k] = q[n - m]
  OBVIOUS
<1>5. /\ m \in 0..n /\ k + 1 \in 0..n
      /\ entry.describedBy[q[k]] = q[k + 1] /\ q[k + 1] \in Links
  BY <1>4 DEF EndsWith, IsPath
<1>6. CASE m = 0
  BY <1>4, <1>5, <1>6, CellsAreNoRoot DEF EndsWith
<1>7. CASE m > 0
  <2>1. entry.describedBy[q[n - m]] = q[n - (m - 1)]
    <3>1. n - m \in 0..(n - 1) /\ (n - m) + 1 = n - (m - 1)
      BY <1>5, <1>7
    <3>2. QED
      BY <3>1 DEF EndsWith, IsPath
  <2>2. m - 1 \in S
    <3>1. m - 1 \in 0..n /\ k + 1 < n - (m - 1)
      BY <1>4, <1>5, <1>7
    <3>2. q[k + 1] = q[n - (m - 1)]
      BY <1>4, <1>5, <2>1
    <3>3. QED
      BY <1>5, <3>1, <3>2
  <2>3. m - 1 < m
    BY <1>5
  <2>4. QED
    BY <1>3, <2>2, <2>3
<1>8. QED
  BY <1>5, <1>6, <1>7

\* What is below the walker on a chain that ends.
LEMMA BelowOnTheChain ==
  ASSUME ChainTypeOK, pc \in {"members", "rules"},
         NEW n \in 0..MaxDepth, NEW q \in [0..n -> Links], EndsWith(q, n), OnTheChain(q, n)
  PROVE  /\ Below = NoLink <=> depth = n
         /\ Below # NoLink => /\ depth < n /\ depth < MaxDepth
                            /\ Below = q[depth + 1] /\ Below \notin ancestors
<1>1. depth \in 0..n /\ q[depth] = at /\ ancestors = {q[k] : k \in 1..depth} /\ n \in Nat
  BY DepthIsNatural DEF ChainTypeOK, OnTheChain
<1>2. CASE depth = n
  BY <1>1, <1>2 DEF EndsWith, Below
<1>3. CASE depth < n
  <2>1. Below = q[depth + 1] /\ depth + 1 \in 0..n /\ q[depth + 1] \in Links
    BY <1>1, <1>3 DEF EndsWith, IsPath, Below
  <2>2. \A k \in 1..depth : q[k] # q[depth + 1]
    <3> SUFFICES ASSUME NEW k \in 1..depth PROVE q[k] # q[depth + 1]
      OBVIOUS
    <3>1. k \in 0..n /\ k < depth + 1
      BY <1>1
    <3>2. entry \in Entries
      BY DEF ChainTypeOK
    <3>3. QED
      BY <1>1, <2>1, <3>1, <3>2, EndingChainRepeatsNothing
  <2>3. QED
    BY <1>1, <1>3, <2>1, <2>2, CellsAreNoRoot, DepthIsNatural
<1>4. QED
  BY <1>1, <1>2, <1>3

\* A walker with nothing below it has come to the end of the chain.
LEMMA Arrival ==
  ASSUME ChainTypeOK, Walks, pc \in {"members", "rules"}, Below = NoLink
  PROVE  Ends
<1>1. PICK p \in [0..depth -> Links] : IsPath(p, depth) /\ p[depth] = at
  BY DEF Walks
<1>2. depth \in 0..MaxDepth /\ EndsWith(p, depth)
  BY <1>1 DEF ChainTypeOK, EndsWith, Below
<1>3. QED
  BY <1>1, <1>2 DEF Ends

\* The path of a walker that follows the pointer below.
LEMMA Descent ==
  ASSUME ChainTypeOK, Walks, pc \in {"members", "rules"}, Below # NoLink
  PROVE  \E p \in [0..(depth + 1) -> Links] : IsPath(p, depth + 1) /\ p[depth + 1] = Below
<1>1. PICK p \in [0..depth -> Links] : IsPath(p, depth) /\ p[depth] = at
  BY DEF Walks
<1>2. depth \in Nat /\ Below \in Cells /\ at \in Links
  BY EntryShape, DepthIsNatural DEF ChainTypeOK, Below
<1> DEFINE r == [k \in 0..(depth + 1) |-> IF k = depth + 1 THEN Below ELSE p[k]]
<1>3. r \in [0..(depth + 1) -> Links]
  BY <1>1, <1>2 DEF Links
<1>4. r[depth + 1] = Below /\ r[0] = Root
  BY <1>1, <1>2 DEF IsPath
<1>5. ASSUME NEW k \in 0..((depth + 1) - 1) PROVE r[k + 1] = entry.describedBy[r[k]]
  <2>1. CASE k = depth
    BY <1>1, <1>2, <2>1 DEF Below
  <2>2. CASE k < depth
    BY <1>1, <1>2, <2>2 DEF IsPath
  <2>3. QED
    BY <1>2, <2>1, <2>2
<1>6. IsPath(r, depth + 1)
  BY <1>4, <1>5 DEF IsPath
<1>7. QED
  BY <1>3, <1>4, <1>6

-----------------------------------------------------------------------------
(* ChainInvariance *)

\* A walker that starts at the root stands on the path of the root.
LEMMA RootPath ==
  ASSUME at = Root, depth = 0
  PROVE  Walks
<1>1. [k \in 0..0 |-> Root] \in [0..depth -> Links] /\ IsPath([k \in 0..0 |-> Root], depth)
  BY DEF Links, IsPath
<1>2. QED
  BY <1>1 DEF Walks

LEMMA InitChainIInv == ChainInit => ChainIInv
<1> SUFFICES ASSUME ChainInit PROVE ChainIInv
  OBVIOUS
<1>1. ChainTypeOK /\ ChainBegins
  BY DepthIsNatural DEF ChainInit, ChainTypeOK, ChainBegins, Links, Calls
<1>2. Walks
  BY RootPath DEF ChainInit
<1>3. CameToTheEnd
  BY DEF ChainInit, CameToTheEnd, Calls
<1>4. OfChains
  <2> SUFFICES ASSUME NEW n \in 0..MaxDepth, NEW q \in [0..n -> Links], EndsWith(q, n)
               PROVE  OnTheChain(q, n) /\ ReportsStrays(q, n) /\ ReportsFaults(q, n)
    BY DEF OfChains
  <2>1. q[0] = Root /\ n \in Nat
    BY DepthIsNatural DEF EndsWith, IsPath
  <2>2. OnTheChain(q, n)
    BY <2>1 DEF ChainInit, OnTheChain
  <2>3. ReportsStrays(q, n) /\ ReportsFaults(q, n)
    BY DEF ChainInit, ReportsStrays, ReportsFaults, Calls
  <2>4. QED
    BY <2>2, <2>3
<1>5. QED
  BY <1>1, <1>2, <1>3, <1>4 DEF ChainIInv

\* A step down the chain, with what it reports of the link it leaves.
LEMMA DescendKeepsWalk ==
  ASSUME ChainIInv, pc \in {"members", "rules"}, Below # NoLink, Descend,
         pc' = pc, UNCHANGED <<call, entry, written>>,
         depth < MaxDepth, violations' \subseteq violations \cup {"stray", "fault"}
  PROVE  ChainTypeOK' /\ ChainBegins' /\ Walks' /\ CameToTheEnd'
<1>1. ChainTypeOK'
  <2>1. Below \in Cells
    BY EntryShape DEF ChainIInv, ChainTypeOK, Below
  <2>2. depth + 1 \in 0..MaxDepth
    BY DepthIsNatural DEF ChainIInv, ChainTypeOK
  <2>3. QED
    BY <2>1, <2>2 DEF ChainIInv, ChainTypeOK, Descend, Links
<1>2. ChainBegins'
  BY DEF ChainIInv, ChainBegins
<1>3. Walks'
  <2>1. PICK p \in [0..(depth + 1) -> Links] : IsPath(p, depth + 1) /\ p[depth + 1] = Below
    BY Descent DEF ChainIInv
  <2>2. depth' = depth + 1 /\ at' = Below /\ entry' = entry
    BY DEF Descend
  <2>3. IsPath(p, depth)'
    BY <2>1, <2>2 DEF IsPath
  <2>4. QED
    BY <2>1, <2>2, <2>3 DEF Walks
<1>4. CameToTheEnd'
  BY DEF ChainIInv, CameToTheEnd, Ends, EndsWith, IsPath, Checked
<1>5. QED
  BY <1>1, <1>2, <1>3, <1>4

\* An ending chain is one after a step that leaves the entry.
LEMMA SameChains ==
  ASSUME entry' = entry
  PROVE  /\ Ends' <=> Ends
         /\ \A n, q : EndsWith(q, n)' <=> EndsWith(q, n)
         /\ \A l : StrayAt(l)' <=> StrayAt(l)
BY DEF Ends, EndsWith, IsPath, StrayAt

LEMMA MembersStep == ChainIInv /\ VisitMembers => ChainIInv'
<1> SUFFICES ASSUME ChainIInv, VisitMembers PROVE ChainIInv'
  OBVIOUS
<1>1. /\ pc = "members" /\ call = "Marshal" /\ UNCHANGED <<call, entry, written>>
      /\ violations' = violations \cup Strays \cup MembersRefusal
      /\ "fault" \notin Strays \cup MembersRefusal
  BY DEF VisitMembers, ChainIInv, ChainBegins, Strays, MembersRefusal
<1>2. Strays \cap Refusals = {} /\ ("stray" \in Strays <=> StrayAt(at)) /\ Strays \subseteq {"stray"}
  BY EntryShape DEF Strays, StrayAt, Refusals, ChainIInv, ChainTypeOK
<1>3. MembersRefusal \subseteq Refusals /\ (Below = NoLink => MembersRefusal = {})
  BY DEF MembersRefusal, Refusals
<1>4. \A n \in 0..MaxDepth : \A q \in [0..n -> Links] : EndsWith(q, n) =>
        MembersRefusal = {}
  <2> SUFFICES ASSUME NEW n \in 0..MaxDepth, NEW q \in [0..n -> Links], EndsWith(q, n)
               PROVE  MembersRefusal = {}
    OBVIOUS
  <2>1. OnTheChain(q, n)
    BY DEF ChainIInv, OfChains
  <2>2. Below # NoLink => depth < MaxDepth /\ Below \notin ancestors
    BY <1>1, <2>1, BelowOnTheChain DEF ChainIInv
  <2>3. QED
    BY <2>2, DepthIsNatural DEF MembersRefusal, ChainIInv, ChainTypeOK
<1>5. CASE Below # NoLink /\ MembersRefusal = {}
  <2>1. Descend /\ pc' = pc
    BY <1>5 DEF VisitMembers
  <2>2. depth < MaxDepth
    BY <1>5, DepthIsNatural DEF MembersRefusal, ChainIInv, ChainTypeOK
  <2>3. ChainTypeOK' /\ ChainBegins' /\ Walks' /\ CameToTheEnd'
    BY <1>1, <1>2, <1>5, <2>1, <2>2, DescendKeepsWalk
  <2>4. OfChains'
    <3> SUFFICES ASSUME NEW n \in 0..MaxDepth, NEW q \in [0..n -> Links], EndsWith(q, n)
                 PROVE  (OnTheChain(q, n) /\ ReportsStrays(q, n) /\ ReportsFaults(q, n))'
      BY <1>1, SameChains DEF OfChains
    <3>1. OnTheChain(q, n) /\ ReportsStrays(q, n) /\ ReportsFaults(q, n)
      BY DEF ChainIInv, OfChains
    <3>2. depth \in Nat /\ n \in Nat /\ depth < n /\ q[depth + 1] = Below /\ q[depth] = at
          /\ ancestors = {q[k] : k \in 1..depth} /\ violations \cap Refusals = {}
      BY <1>1, <1>5, <3>1, BelowOnTheChain, DepthIsNatural DEF ChainIInv, ChainTypeOK, OnTheChain
    <3>3. OnTheChain(q, n)'
      BY <1>1, <1>2, <1>5, <2>1, <3>2 DEF OnTheChain, Descend
    <3>4. ReportsStrays(q, n)'
      <4>1. "stray" \in violations' <=> "stray" \in violations \/ StrayAt(q[depth])
        BY <1>1, <1>2, <1>5, <3>2
      <4>2. "stray" \in violations <=> \E k \in 0..(depth - 1) : StrayAt(q[k])
        BY <1>1, <3>1 DEF ReportsStrays
      <4>3. depth' = depth + 1 /\ pc' = "members" /\ \A k : StrayAt(q[k])' <=> StrayAt(q[k])
        BY <1>1, <2>1, SameChains DEF Descend
      <4>4. "stray" \in violations' <=> \E k \in 0..depth : StrayAt(q[k])
        BY <4>1, <4>2, <3>2
      <4>5. (depth + 1) - 1 = depth
        BY <3>2
      <4>6. QED
        BY <4>3, <4>4, <4>5 DEF ReportsStrays
    <3>5. ReportsFaults(q, n)'
      BY <1>1, <2>1, <3>1 DEF ReportsFaults
    <3>6. QED
      BY <3>3, <3>4, <3>5
  <2>5. QED
    BY <2>3, <2>4 DEF ChainIInv
<1>6. CASE ~(Below # NoLink /\ MembersRefusal = {})
  <2>1. Restart /\ pc' = IF violations' = {} THEN "rules" ELSE "done"
    BY <1>6 DEF VisitMembers
  <2>2. violations' \cap Refusals = {} => Ends
    <3> SUFFICES ASSUME violations' \cap Refusals = {} PROVE Ends
      OBVIOUS
    <3>1. Below = NoLink
      BY <1>1, <1>3, <1>6
    <3>2. QED
      BY <1>1, <3>1, Arrival DEF ChainIInv
  <2>3. ChainTypeOK' /\ ChainBegins' /\ CameToTheEnd' /\ Walks'
    <3>1. ChainTypeOK'
      BY <1>1, <1>2, <1>3, <2>1, DepthIsNatural DEF ChainIInv, ChainTypeOK, Restart, Links, Refusals
    <3>2. ChainBegins' /\ CameToTheEnd'
      BY <1>1, <2>1, <2>2, SameChains DEF ChainBegins, CameToTheEnd
    <3>3. Walks'
      <4>1. /\ [k \in 0..0 |-> Root] \in [0..depth' -> Links]
            /\ IsPath([k \in 0..0 |-> Root], depth)' /\ at' = Root /\ depth' = 0
        BY <2>1 DEF Links, IsPath, Restart
      <4>2. QED
        BY <4>1 DEF Walks
    <3>4. QED
      BY <3>1, <3>2, <3>3
  <2>4. OfChains'
    <3> SUFFICES ASSUME NEW n \in 0..MaxDepth, NEW q \in [0..n -> Links], EndsWith(q, n)
                 PROVE  (OnTheChain(q, n) /\ ReportsStrays(q, n) /\ ReportsFaults(q, n))'
      BY <1>1, SameChains DEF OfChains
    <3>1. OnTheChain(q, n) /\ ReportsStrays(q, n) /\ ReportsFaults(q, n) /\ MembersRefusal = {}
      BY <1>4 DEF ChainIInv, OfChains
    <3>2. depth = n /\ n \in Nat /\ q[depth] = at /\ violations \cap Refusals = {} /\ q[0] = Root
      BY <1>1, <1>6, <3>1, BelowOnTheChain, DepthIsNatural DEF ChainIInv, ChainTypeOK, OnTheChain, EndsWith, IsPath
    <3>3. OnTheChain(q, n)'
      BY <1>1, <1>2, <2>1, <3>1, <3>2 DEF OnTheChain, Restart
    <3>4. "stray" \in violations' <=> \E k \in 0..n : StrayAt(q[k])
      <4>1. "stray" \in violations' <=> "stray" \in violations \/ StrayAt(q[n])
        BY <1>1, <1>2, <3>1, <3>2
      <4>2. "stray" \in violations <=> \E k \in 0..(n - 1) : StrayAt(q[k])
        BY <1>1, <3>1, <3>2 DEF ReportsStrays
      <4>3. QED
        BY <4>1, <4>2, <3>2
    <3>5. ReportsStrays(q, n)'
      BY <1>1, <2>1, <3>4, SameChains DEF ReportsStrays
    <3>6. violations' \subseteq {"stray"}
      BY <1>1, <1>2, <3>1, <3>2 DEF ChainIInv, ChainTypeOK, Refusals, ReportsFaults
    <3>7. ReportsFaults(q, n)'
      <4>1. CASE violations' = {}
        BY <2>1, <4>1, <3>2 DEF ReportsFaults, Restart
      <4>2. CASE violations' # {}
        BY <2>1, <4>2, <3>6 DEF ReportsFaults
      <4>3. QED
        BY <4>1, <4>2
    <3>8. QED
      BY <3>3, <3>5, <3>7
  <2>5. QED
    BY <2>3, <2>4 DEF ChainIInv
<1>7. QED
  BY <1>5, <1>6

LEMMA RulesStep == ChainIInv /\ VisitRules => ChainIInv'
<1> SUFFICES ASSUME ChainIInv, VisitRules PROVE ChainIInv'
  OBVIOUS
<1>1. pc = "rules" /\ UNCHANGED <<call, entry, written>> /\ (Checked <=> Checked')
  BY DEF VisitRules, Checked
<1>2. /\ Faults \subseteq {"fault"}
      /\ "fault" \in Faults <=> at \in entry.faulty
  BY EntryShape DEF Faults, ChainIInv, ChainTypeOK
<1>3. RulesRefusal \subseteq Refusals /\ (Below = NoLink => RulesRefusal = {})
  BY DEF RulesRefusal, Refusals
<1>4. \A n \in 0..MaxDepth : \A q \in [0..n -> Links] : EndsWith(q, n) => RulesRefusal = {}
  <2> SUFFICES ASSUME NEW n \in 0..MaxDepth, NEW q \in [0..n -> Links], EndsWith(q, n)
               PROVE  RulesRefusal = {}
    OBVIOUS
  <2>1. OnTheChain(q, n)
    BY DEF ChainIInv, OfChains
  <2>2. Below # NoLink => depth < MaxDepth /\ Below \notin ancestors
    BY <1>1, <2>1, BelowOnTheChain DEF ChainIInv
  <2>3. QED
    BY <2>2, DepthIsNatural DEF RulesRefusal, ChainIInv, ChainTypeOK
<1>5. CASE ~SkipsRules /\ Below # NoLink /\ RulesRefusal = {}
  <2>1. Descend /\ pc' = pc /\ violations' = violations \cup Faults /\ ~entry.atMember
    BY <1>5 DEF VisitRules, SkipsRules
  <2>2. depth < MaxDepth
    BY <1>5, DepthIsNatural DEF RulesRefusal, ChainIInv, ChainTypeOK
  <2>3. ChainTypeOK' /\ ChainBegins' /\ Walks' /\ CameToTheEnd'
    BY <1>1, <1>2, <1>5, <2>1, <2>2, DescendKeepsWalk
  <2>4. OfChains'
    <3> SUFFICES ASSUME NEW n \in 0..MaxDepth, NEW q \in [0..n -> Links], EndsWith(q, n)
                 PROVE  (OnTheChain(q, n) /\ ReportsStrays(q, n) /\ ReportsFaults(q, n))'
      BY <1>1, SameChains DEF OfChains
    <3>1. OnTheChain(q, n) /\ ReportsStrays(q, n) /\ ReportsFaults(q, n)
      BY DEF ChainIInv, OfChains
    <3>2. depth \in Nat /\ n \in Nat /\ depth < n /\ q[depth + 1] = Below /\ q[depth] = at
          /\ ancestors = {q[k] : k \in 1..depth} /\ violations \cap Refusals = {}
      BY <1>1, <1>5, <3>1, BelowOnTheChain, DepthIsNatural DEF ChainIInv, ChainTypeOK, OnTheChain
    <3>3. OnTheChain(q, n)'
      BY <1>1, <1>2, <2>1, <3>2 DEF OnTheChain, Descend, Refusals
    <3>4. ReportsStrays(q, n)'
      BY <1>1, <1>2, <2>1, <3>1, SameChains DEF ReportsStrays
    <3>5. ReportsFaults(q, n)'
      <4>1. "fault" \in violations' <=> "fault" \in violations \/ q[depth] \in entry.faulty
        BY <1>2, <2>1, <3>2
      <4>2. "fault" \in violations <=> \E k \in 0..(depth - 1) : q[k] \in entry.faulty
        BY <1>1, <2>1, <3>1 DEF ReportsFaults
      <4>3. "fault" \in violations' <=> \E k \in 0..depth : q[k] \in entry.faulty
        BY <4>1, <4>2, <3>2
      <4>4. depth' - 1 = depth /\ pc' = "rules" /\ "stray" \notin violations'
        BY <1>1, <1>2, <2>1, <3>1, <3>2 DEF Descend, ReportsFaults
      <4>5. QED
        BY <1>1, <2>1, <4>3, <4>4 DEF ReportsFaults
    <3>6. QED
      BY <3>3, <3>4, <3>5
  <2>5. QED
    BY <2>3, <2>4 DEF ChainIInv
<1>6. CASE ~(~SkipsRules /\ Below # NoLink /\ RulesRefusal = {})
  <2>1. /\ Restart
        /\ pc' = IF violations' = {} /\ call # "Validate" THEN "encode" ELSE "done"
    BY <1>6 DEF VisitRules
  <2>2. /\ violations' = IF SkipsRules THEN violations ELSE violations \cup Faults \cup RulesRefusal
        /\ pc' \in {"encode", "done"}
    BY <1>6, <2>1 DEF VisitRules
  <2>3. Checked /\ violations' \cap Refusals = {} => Ends
    <3>1. CASE call = "Marshal"
      BY <1>1, <3>1 DEF ChainIInv, CameToTheEnd
    <3>2. CASE call # "Marshal" /\ ~entry.atMember /\ violations' \cap Refusals = {}
      <4>1. Below = NoLink
        BY <1>3, <1>6, <2>2, <3>2 DEF SkipsRules
      <4>2. QED
        BY <1>1, <4>1, Arrival DEF ChainIInv
    <3>3. QED
      BY <3>1, <3>2 DEF Checked
  <2>4. ChainTypeOK' /\ ChainBegins' /\ Walks'
    BY <1>1, <1>2, <1>3, <2>1, <2>2, DepthIsNatural
       DEF ChainIInv, ChainTypeOK, Restart, Links, Refusals, ChainBegins, Walks
  <2>5. CameToTheEnd'
    <3>1. call' = "Marshal" => Ends'
      BY <1>1, SameChains DEF ChainIInv, CameToTheEnd
    <3>2. Checked' /\ violations' \cap Refusals = {} => Ends'
      BY <1>1, <2>3, SameChains
    <3>3. QED
      BY <3>1, <3>2 DEF CameToTheEnd
  <2>6. OfChains'
    <3> SUFFICES ASSUME NEW n \in 0..MaxDepth, NEW q \in [0..n -> Links], EndsWith(q, n)
                 PROVE  (OnTheChain(q, n) /\ ReportsStrays(q, n) /\ ReportsFaults(q, n))'
      BY <1>1, SameChains DEF OfChains
    <3>1. OnTheChain(q, n) /\ ReportsStrays(q, n) /\ ReportsFaults(q, n) /\ RulesRefusal = {}
      BY <1>4 DEF ChainIInv, OfChains
    <3>2. ~SkipsRules => depth = n /\ q[n] = at
      BY <1>1, <1>6, <3>1, BelowOnTheChain, DepthIsNatural DEF ChainIInv, ChainTypeOK, OnTheChain
    <3>3. n \in Nat /\ violations \cap Refusals = {} /\ "stray" \notin violations
      BY <1>1, <3>1, DepthIsNatural DEF OnTheChain, ReportsFaults
    <3>4. OnTheChain(q, n)'
      BY <1>2, <2>2, <3>1, <3>3 DEF OnTheChain, Refusals
    <3>5. "stray" \notin violations'
      BY <1>2, <2>2, <3>1, <3>3
    <3>6. ReportsStrays(q, n)'
      BY <1>1, <2>2, <3>1, <3>3, <3>5, SameChains DEF ReportsStrays
    <3>7. ReportsFaults(q, n)'
      <4>1. "fault" \in violations
              <=> ~entry.atMember /\ \E k \in 0..(depth - 1) : q[k] \in entry.faulty
        BY <1>1, <3>1 DEF ReportsFaults
      <4>2. CASE SkipsRules
        BY <1>1, <2>2, <3>5, <4>1, <4>2 DEF ReportsFaults, SkipsRules
      <4>3. CASE ~SkipsRules
        <5>1. "fault" \in violations' <=> "fault" \in violations \/ q[n] \in entry.faulty
          BY <1>2, <2>2, <3>1, <3>2, <4>3
        <5>2. "fault" \in violations' <=> \E k \in 0..n : q[k] \in entry.faulty
          BY <3>2, <3>3, <4>1, <4>3, <5>1 DEF SkipsRules
        <5>3. QED
          BY <1>1, <2>2, <3>5, <4>3, <5>2 DEF ReportsFaults, SkipsRules
      <4>4. QED
        BY <4>2, <4>3
    <3>8. QED
      BY <3>4, <3>6, <3>7
  <2>7. QED
    BY <2>4, <2>5, <2>6 DEF ChainIInv
<1>7. QED
  BY <1>5, <1>6

LEMMA EncodeStep == ChainIInv /\ VisitEncode => ChainIInv'
<1> SUFFICES ASSUME ChainIInv, VisitEncode PROVE ChainIInv'
  OBVIOUS
<1>1. /\ pc = "encode" /\ pc' \in {"encode", "done"}
      /\ UNCHANGED <<call, entry, depth, ancestors, violations>> /\ (Checked <=> Checked')
  BY DEF VisitEncode, Checked
<1>2. ChainTypeOK'
  <2>1. at' \in Links
    BY EntryShape DEF ChainIInv, ChainTypeOK, VisitEncode, Below, Links
  <2>2. written' \subseteq Forms
    BY EntriesWellFormed DEF ChainIInv, ChainTypeOK, VisitEncode, IsEntry
  <2>3. QED
    BY <1>1, <2>1, <2>2 DEF ChainIInv, ChainTypeOK
<1>3. ChainBegins' /\ Walks'
  BY <1>1 DEF ChainIInv, ChainBegins, Walks
<1>4. CameToTheEnd'
  BY <1>1, SameChains DEF ChainIInv, CameToTheEnd
<1>5. OfChains'
  <2> SUFFICES ASSUME NEW n \in 0..MaxDepth, NEW q \in [0..n -> Links], EndsWith(q, n)
               PROVE  (OnTheChain(q, n) /\ ReportsStrays(q, n) /\ ReportsFaults(q, n))'
    BY <1>1, SameChains DEF OfChains
  <2>1. OnTheChain(q, n) /\ ReportsStrays(q, n) /\ ReportsFaults(q, n)
    BY DEF ChainIInv, OfChains
  <2>2. OnTheChain(q, n)'
    BY <1>1, <2>1 DEF OnTheChain
  <2>3. ReportsStrays(q, n)'
    BY <1>1, <2>1, SameChains DEF ReportsStrays
  <2>4. ReportsFaults(q, n)'
    BY <1>1, <2>1 DEF ReportsFaults
  <2>5. QED
    BY <2>2, <2>3, <2>4
<1>6. QED
  BY <1>2, <1>3, <1>4, <1>5 DEF ChainIInv

LEMMA NextChainIInv == ChainIInv /\ [ChainNext]_chainVars => ChainIInv'
<1> SUFFICES ASSUME ChainIInv, [ChainNext]_chainVars PROVE ChainIInv'
  OBVIOUS
<1>1. CASE UNCHANGED chainVars
  <2>1. (ChainTypeOK /\ ChainBegins /\ Walks)'
    BY <1>1 DEF chainVars, ChainIInv, ChainTypeOK, ChainBegins, Walks, IsPath
  <2>2. CameToTheEnd'
    BY <1>1, SameChains DEF chainVars, ChainIInv, CameToTheEnd, Checked
  <2>3. OfChains'
    BY <1>1 DEF chainVars, ChainIInv, OfChains, OnTheChain, ReportsStrays, ReportsFaults, StrayAt,
                EndsWith, IsPath
  <2>4. QED
    BY <2>1, <2>2, <2>3 DEF ChainIInv
<1>2. QED
  BY <1>1, MembersStep, RulesStep, EncodeStep DEF ChainNext, Visit

LEMMA ChainInvariance == ChainSpec => []ChainIInv
<1> QED
  BY InitChainIInv, NextChainIInv, PTL DEF ChainSpec

-----------------------------------------------------------------------------

\* The walkers stay within the limit and on links of the entry, whatever the
\* application has built.
THEOREM ChainTypeCorrect == ChainSpec => []ChainTypeOK
<1>1. ChainIInv => ChainTypeOK
  BY DEF ChainIInv
<1>2. QED
  BY <1>1, ChainInvariance, PTL

\* Marshal, and MarshalAtomic for entries without "@", start to write only chains
\* that they come to the end of, for every graph of pointers.
THEOREM EncodesOnlyBounded == ChainSpec => []EncodesBounded
<1>1. ChainIInv => EncodesBounded
  <2> SUFFICES ASSUME ChainIInv, pc = "encode", Checked PROVE Ends
    BY DEF EncodesBounded
  <2>1. violations \cap Refusals = {}
    BY DEF ChainIInv, ChainBegins
  <2>2. QED
    BY <2>1 DEF ChainIInv, CameToTheEnd
<1>2. QED
  BY <1>1, ChainInvariance, PTL

\* The verdict on an entry is that on its chain, for every graph of pointers.
THEOREM VerdictIsExact == ChainSpec => []VerdictExact
<1>1. ChainIInv => VerdictExact
  <2> SUFFICES ASSUME ChainIInv, pc \in {"encode", "done"}, Checked
               PROVE  /\ Ends <=> violations \cap {"limit", "cycle"} = {}
                      /\ \A n \in 0..MaxDepth : \A q \in [0..n -> Links] : EndsWith(q, n) =>
                           /\ "stray" \in violations <=>
                                call = "Marshal"
                                  /\ (\/ entry.stray \cap ChainOf(q, n) # {}
                                      \/ entry.form[Root] = "extension" /\ ~entry.registered
                                           /\ ~entry.atMember)
                           /\ "fault" \in violations <=>
                                /\ ~entry.atMember /\ "stray" \notin violations
                                /\ entry.faulty \cap ChainOf(q, n) # {}
    BY DEF VerdictExact
  <2>1. Ends => violations \cap Refusals = {}
    BY DEF ChainIInv, OfChains, OnTheChain, Ends
  <2>2. violations \cap Refusals = {} => Ends
    BY DEF ChainIInv, CameToTheEnd
  <2>3. ASSUME NEW n \in 0..MaxDepth, NEW q \in [0..n -> Links], EndsWith(q, n)
        PROVE  /\ "stray" \in violations <=>
                    call = "Marshal"
                      /\ (\/ entry.stray \cap ChainOf(q, n) # {}
                          \/ entry.form[Root] = "extension" /\ ~entry.registered /\ ~entry.atMember)
               /\ "fault" \in violations <=>
                    /\ ~entry.atMember /\ "stray" \notin violations
                    /\ entry.faulty \cap ChainOf(q, n) # {}
    <3>1. ReportsStrays(q, n) /\ ReportsFaults(q, n)
      BY <2>3 DEF ChainIInv, OfChains
    <3>2. q[0] = Root /\ 0 \in 0..n
      BY <2>3, DepthIsNatural DEF EndsWith, IsPath
    <3>3. (\E k \in 0..n : StrayAt(q[k])) <=>
            \/ entry.stray \cap ChainOf(q, n) # {}
            \/ entry.form[Root] = "extension" /\ ~entry.registered /\ ~entry.atMember
      BY <3>2 DEF StrayAt, ChainOf
    <3>4. (\E k \in 0..n : q[k] \in entry.faulty) <=> entry.faulty \cap ChainOf(q, n) # {}
      BY DEF ChainOf
    <3>5. QED
      BY <3>1, <3>3, <3>4 DEF ReportsStrays, ReportsFaults
  <2>4. QED
    BY <2>1, <2>2, <2>3 DEF Refusals
<1>2. QED
  BY <1>1, ChainInvariance, PTL
=============================================================================
