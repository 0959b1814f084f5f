------------------------------- MODULE CursorPaging -------------------------------
(***************************************************************************)
(* Cursor pagination between a client and an endpoint that uses the        *)
(* library: CursorPagination.ParseQuery (cursor.go) turns a page family    *)
(* into a request, the endpoint fetches a page, and CursorPage.ValidateAt  *)
(* (cursor_page.go) judges it before it is delivered.                      *)
(*                                                                         *)
(* The collection is the results 1..Results in their unique order, and the *)
(* cursor of a result is its number.  A page family is a function from     *)
(* "size", "after", "before" and "other" (any other parameter) to the      *)
(* sequence of its values; -1 is a text that is no number or too large for *)
(* an int, and a cursor outside 1..Results one that the endpoint never     *)
(* issued: ValidateCursor, where it is configured, accepts none of them,   *)
(* and the endpoint answers none.  That the input is within the limits is  *)
(* QueryAdmission's.                                                       *)
(*                                                                         *)
(* The endpoint is external: it may return any number of results and       *)
(* present them with any links and metadata, but the evidence it gives of  *)
(* the collection (HasMore, HasPrevious, HasNext) is true, and the results *)
(* are adjacent to the cursors of the request.                             *)
(***************************************************************************)
EXTENDS Integers, Sequences

CONSTANTS
  Results,               \* the size of the collection
  Families,              \* the page families of requests that follow no link
  DefaultSize, MaxSize,  \* CursorPaginationConfig
  RangePolicies          \* the values of AllowRange

ASSUME ConfigIsValid ==
  /\ RangePolicies \subseteq BOOLEAN
  /\ Results \in Nat /\ DefaultSize \in Nat /\ MaxSize \in Nat
  /\ 1 <= DefaultSize /\ DefaultSize <= MaxSize

ASSUME FamiliesTyped ==
  \A parameters \in Families :
    /\ DOMAIN parameters \subseteq {"size", "after", "before", "other"}
    /\ parameters \in [DOMAIN parameters -> Seq(Int)]

VARIABLES
  allowRange,  \* pagination.allowRange
  validators,  \* which of validateCursor and validateSort are not nil: "cursor", "sort"
  pc,       \* "idle", the next step of ParseQuery, "requested", "fetched", "delivered", "gone"
  family,   \* the page family of the request
  request,  \* CursorPageRequest; a cursor that is absent is 0
  called,   \* the outcomes of the callbacks of this request, by phase
  page,     \* the page and the evidence of it
  walked    \* the results that a client following next links has been given

vars == <<allowRange, validators, pc, family, request, called, page, walked>>

NoRequest ==
  [size |-> DefaultSize, sizePresent |-> FALSE, after |-> 0, afterPresent |-> FALSE,
   before |-> 0, beforePresent |-> FALSE, range |-> FALSE]

\* A page that is not fetched yet: from the result after it to the one before it.
NoPage == [from |-> 1, to |-> 0, prev |-> "absent", next |-> "absent", truncated |-> "absent",
           itemMeta |-> TRUE, follows |-> "nothing"]

NotCalled == [phase \in {"after", "before", "sort"} |-> "no"]

Init ==
  /\ allowRange \in RangePolicies
  /\ validators \in SUBSET {"cursor", "sort"}
  /\ pc = "idle"
  /\ family = <<>>
  /\ request = NoRequest
  /\ called = NotCalled
  /\ page = NoPage
  /\ walked = <<>>

Refuse ==
  /\ pc' = "idle" /\ page' = NoPage /\ walked' = <<>>
  /\ UNCHANGED <<family, request>>

-----------------------------------------------------------------------------
(* The client *)

Asked(how, parameters) ==
  /\ pc' = "names" /\ family' = parameters /\ request' = NoRequest /\ called' = NotCalled
  /\ page' = [page EXCEPT !.follows = how]

Ask == pc \in {"idle", "delivered"} /\ \E parameters \in Families : Asked("nothing", parameters) /\ walked' = <<>>

\* A link repeats the size of the request; it asks for what is after the last result
\* or before the first.
Follow ==
  /\ pc = "delivered"
  /\ \/ /\ page.next = "link" /\ page.from <= page.to
        /\ Asked("next", [p \in {"size", "after"} |->
                            IF p = "size" THEN <<request.size>> ELSE <<page.to>>])
        /\ UNCHANGED walked
     \/ /\ page.prev = "link" /\ page.from <= page.to
        /\ Asked("prev", [p \in {"size", "before"} |->
                            IF p = "size" THEN <<request.size>> ELSE <<page.from>>])
        /\ walked' = <<>>

-----------------------------------------------------------------------------
(* CursorPagination.Parse and ParseQuery *)

CheckNames ==
  /\ pc = "names"
  /\ \/ "other" \in DOMAIN family /\ Refuse
     \/ "other" \notin DOMAIN family /\ pc' = "size" /\ UNCHANGED <<family, request, page, walked>>
  /\ UNCHANGED called

\* Bug: any positive size is taken.
IsSizeUnbounded(sizes) == Len(sizes) = 1 /\ sizes[1] >= 1

\* positiveDecimal, and the bound of the endpoint.
IsSize(sizes) == Len(sizes) = 1 /\ sizes[1] \in 1..MaxSize

ParseSize ==
  /\ pc = "size"
  /\ \/ "size" \notin DOMAIN family /\ pc' = "after" /\ UNCHANGED <<family, request, page, walked>>
     \/ "size" \in DOMAIN family /\ ~IsSize(family["size"]) /\ Refuse
     \/ /\ "size" \in DOMAIN family /\ IsSize(family["size"])
        /\ pc' = "after"
        /\ request' = [request EXCEPT !.size = family["size"][1], !.sizePresent = TRUE]
        /\ UNCHANGED <<family, page, walked>>
  /\ UNCHANGED called

\* Bug: the recovered panic of a callback is not turned into an error.
CallLosingPanic(phase, honest, succeed) ==
  \E outcome \in {"ok", "error", "panic", "exit"} :
    /\ outcome = "ok" => honest
    /\ called' = [called EXCEPT ![phase] = outcome]
    /\ \/ outcome \in {"ok", "panic"} /\ succeed
       \/ outcome = "error" /\ Refuse
       \/ outcome = "exit" /\ pc' = "gone" /\ UNCHANGED <<family, request, page, walked>>

\* callApplicationCallback: a panic becomes an error, and only a callback that ends its
\* goroutine is never answered for.
Call(phase, honest, succeed) ==
  \E outcome \in {"ok", "error", "panic", "exit"} :
    /\ outcome = "ok" => honest
    /\ called' = [called EXCEPT ![phase] = outcome]
    /\ \/ outcome = "ok" /\ succeed
       \/ outcome \in {"error", "panic"} /\ Refuse
       \/ outcome = "exit" /\ pc' = "gone" /\ UNCHANGED <<family, request, page, walked>>

\* A validator that is not configured is not called.
CallValidator(validator, phase, honest, succeed) ==
  \/ validator \notin validators /\ succeed /\ UNCHANGED called
  \/ validator \in validators /\ Call(phase, honest, succeed)

\* ValidateCursor accepts no cursor that was not issued.
ParseCursor(phase, next, parsed) ==
  /\ pc = phase
  /\ \/ /\ phase \notin DOMAIN family
        /\ pc' = next /\ UNCHANGED <<family, request, called, page, walked>>
     \/ phase \in DOMAIN family /\ Len(family[phase]) # 1 /\ Refuse /\ UNCHANGED called
     \/ /\ phase \in DOMAIN family /\ Len(family[phase]) = 1
        /\ CallValidator("cursor", phase, family[phase][1] \in 1..Results,
                         pc' = next /\ request' = parsed /\ UNCHANGED <<family, page, walked>>)

ParseAfter ==
  ParseCursor("after", "before",
    [request EXCEPT !.after = family["after"][1], !.afterPresent = TRUE])

ParseBefore ==
  ParseCursor("before", "range",
    [request EXCEPT !.before = family["before"][1], !.beforePresent = TRUE])

\* Bug: a range without a size keeps the default.
ParseRangeDefault ==
  /\ pc = "range"
  /\ LET both == request.afterPresent /\ request.beforePresent IN
     \/ both /\ ~allowRange /\ Refuse
     \/ /\ both => allowRange
        /\ pc' = "sort"
        /\ request' = [request EXCEPT !.range = both]
        /\ UNCHANGED <<family, page, walked>>
  /\ UNCHANGED called

ParseRange ==
  /\ pc = "range"
  /\ LET both == request.afterPresent /\ request.beforePresent IN
     \/ both /\ ~allowRange /\ Refuse
     \/ /\ both => allowRange
        /\ pc' = "sort"
        /\ request' = [request EXCEPT !.range = both,
                         !.size = IF both /\ ~request.sizePresent THEN MaxSize ELSE @]
        /\ UNCHANGED <<family, page, walked>>
  /\ UNCHANGED called

CheckSort ==
  /\ pc = "sort"
  /\ CallValidator("sort", "sort", TRUE,
                   pc' = "requested" /\ UNCHANGED <<family, request, page, walked>>)

-----------------------------------------------------------------------------
(* The endpoint *)

Issued ==
  /\ request.afterPresent => request.after \in 1..Results
  /\ request.beforePresent => request.before \in 1..Results

\* It cannot decode a cursor that it never issued and that nothing has validated.
RejectCursor == pc = "requested" /\ ~Issued /\ Refuse /\ UNCHANGED called

Lowest == IF request.afterPresent THEN request.after + 1 ELSE 1
Highest == IF request.beforePresent THEN request.before - 1 ELSE Results
Matching == IF Lowest <= Highest THEN Highest - Lowest + 1 ELSE 0

\* The results next to the cursor: the last ones where only an upper bound is given.
Fetch ==
  /\ pc = "requested" /\ Issued
  /\ \E count \in 0..Matching, prev, next \in {"absent", "null", "link"},
        truncated \in {"absent", "false", "true", "malformed"}, itemMeta \in BOOLEAN :
       /\ itemMeta \/ count > 0
       /\ LET backwards == request.beforePresent /\ ~request.afterPresent IN
          page' = [from |-> IF backwards THEN Highest - count + 1 ELSE Lowest,
                   to   |-> IF backwards THEN Highest ELSE Lowest + count - 1,
                   prev |-> prev, next |-> next, truncated |-> truncated, itemMeta |-> itemMeta,
                   follows |-> page.follows]
  /\ pc' = "fetched"
  /\ UNCHANGED <<family, request, called, walked>>

Items == page.to - page.from + 1
HasMore == Items < Matching
HasPrevious == page.from > 1
HasNext == page.to < Results

-----------------------------------------------------------------------------
(* CursorPage.ValidateAt *)

\* validateCursorLinkState
LinkState(link, hasPage) == link = (IF hasPage THEN "link" ELSE "null")

\* Bug: the link state is checked only where a cursor was given on that side.
LinksValidAtCursor ==
  /\ page.prev # "absent" /\ page.next # "absent"
  /\ request.beforePresent => LinkState(page.next, HasNext)
  /\ request.afterPresent => LinkState(page.prev, HasPrevious)

LinksValid ==
  /\ page.prev # "absent" /\ page.next # "absent"
  /\ ~request.beforePresent => LinkState(page.next, HasNext)
  /\ ~request.afterPresent => LinkState(page.prev, HasPrevious)

SizeValid ==
  /\ request.size >= 1
  /\ Items <= request.size
  /\ HasMore => Items = request.size
  /\ ~request.afterPresent /\ ~request.beforePresent => ~HasPrevious

MetaValid ==
  /\ page.truncated # "malformed" /\ page.itemMeta
  /\ request.range /\ HasMore => page.truncated = "true"
  /\ request.range /\ ~HasMore => page.truncated # "true"
  /\ ~request.range => page.truncated # "true"

\* A page that is not valid is an error of the endpoint.
Validate ==
  /\ pc = "fetched"
  /\ \/ /\ LinksValid /\ SizeValid /\ MetaValid
        /\ pc' = "delivered"
        /\ walked' = walked \o [k \in 1..Items |-> page.from + k - 1]
        /\ UNCHANGED <<family, request, page>>
     \/ ~(LinksValid /\ SizeValid /\ MetaValid) /\ Refuse
  /\ UNCHANGED called

Next ==
  /\ \/ Ask \/ Follow
     \/ CheckNames \/ ParseSize \/ ParseAfter \/ ParseBefore \/ ParseRange \/ CheckSort
     \/ RejectCursor \/ Fetch \/ Validate
  /\ UNCHANGED <<allowRange, validators>>

Spec == Init /\ [][Next]_vars

-----------------------------------------------------------------------------

\* With the bounds of a request: performance.md:58, accepted size remains within configured
\* bounds; and no cursor reaches a page unless the endpoint has issued it.
TypeOK ==
  /\ validators \subseteq {"cursor", "sort"}
  /\ pc \in {"idle", "names", "size", "after", "before", "range", "sort", "requested", "fetched",
             "delivered", "gone"}
  /\ request.size \in 1..MaxSize /\ request.sizePresent \in BOOLEAN
  /\ request.after \in Int /\ request.afterPresent \in BOOLEAN
  /\ request.before \in Int /\ request.beforePresent \in BOOLEAN
  /\ request.range \in BOOLEAN
  /\ "cursor" \in validators \/ pc \in {"fetched", "delivered"} => Issued
  /\ called \in [{"after", "before", "sort"} -> {"no", "ok", "error", "panic", "exit"}]
  /\ page.from \in 1..Results + 1 /\ page.to \in 0..Results
  /\ walked \in Seq(1..Results)

\* Nothing is fetched for a request unless its cursors and its sorting were each found
\* valid by the validator configured for them, and after a callback has failed no other is
\* called.
CallbacksObeyed ==
  /\ pc \in {"requested", "fetched", "delivered"} =>
       /\ called["after"] = IF request.afterPresent /\ "cursor" \in validators THEN "ok" ELSE "no"
       /\ called["before"] = IF request.beforePresent /\ "cursor" \in validators THEN "ok" ELSE "no"
       /\ called["sort"] = IF "sort" \in validators THEN "ok" ELSE "no"
  /\ called["after"] \notin {"no", "ok"} => called["before"] = "no"
  /\ called["after"] \notin {"no", "ok"} \/ called["before"] \notin {"no", "ok"} =>
       called["sort"] = "no"

\* What a page family asks for: the results between its cursors, and at most how many, the
\* default without a size and the maximum for a range without one.
IsRange == "after" \in DOMAIN family /\ "before" \in DOMAIN family

Between ==
  {k \in 1..Results : /\ "after" \in DOMAIN family => k > family["after"][1]
                      /\ "before" \in DOMAIN family => k < family["before"][1]}

Wanted ==
  IF "size" \in DOMAIN family THEN family["size"][1] ELSE IF IsRange THEN MaxSize ELSE DefaultSize

\* A delivered page holds what its page family asks for: results between the cursors, as
\* many as it wants unless there are no more, and a range says that it is truncated just
\* when there are.
DeliveredIsFull ==
  pc = "delivered" =>
    /\ page.from..page.to \subseteq Between
    /\ Items <= Wanted
    /\ Items = Wanted \/ page.from..page.to = Between
    /\ page.truncated = "true" <=> IsRange /\ page.from..page.to # Between

\* The links of delivered pages lead through the whole collection: a client that follows
\* next is given each result in turn, every page it reaches has a result, and only the
\* ends of the collection have no link.
LinksLeadThrough ==
  /\ \A k \in 1..(Len(walked) - 1) : walked[k + 1] = walked[k] + 1
  /\ pc = "delivered" =>
       /\ page.follows # "nothing" => Items > 0
       /\ ~request.beforePresent => (page.next = "null" <=> page.to = Results)
       /\ ~request.afterPresent => (page.prev = "null" <=> page.from = 1)
=============================================================================
