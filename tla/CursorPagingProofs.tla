--------------------------- MODULE CursorPagingProofs ---------------------------
(***************************************************************************)
(* For collections, page sizes and page families of any size: no page is   *)
(* fetched for a request whose callbacks have not accepted it, delivered   *)
(* pages are full, and their links lead through the whole collection.      *)
(***************************************************************************)
EXTENDS CursorPaging, SequenceTheorems, TLAPS

RequestType ==
  [size : 1..MaxSize, sizePresent : BOOLEAN, after : Int, afterPresent : BOOLEAN,
   before : Int, beforePresent : BOOLEAN, range : BOOLEAN]

PageType ==
  [from : 1..Results + 1, to : 0..Results, prev : {"absent", "null", "link"},
   next : {"absent", "null", "link"}, truncated : {"absent", "false", "true", "malformed"},
   itemMeta : BOOLEAN, follows : {"nothing", "next", "prev"}]

\* TypeOK, and what it leaves out.
Typed ==
  /\ TypeOK
  /\ request \in RequestType /\ page \in PageType
  /\ page.from <= page.to + 1
  /\ \A p \in DOMAIN family : family[p] \in Seq(Int)

\* The steps of a request: up to its answer, those that follow the parsing of each
\* cursor, and those with a page.
Asking == {"names", "size", "after", "before", "range", "sort", "requested", "fetched"}
PastAfter == {"before", "range", "sort", "requested", "fetched", "delivered"}
PastBefore == {"range", "sort", "requested", "fetched", "delivered"}

\* The request is what its family asks for, in each part once that part has been parsed.
RequestParsed ==
  /\ pc \in Asking \ PastAfter => ~request.afterPresent
  /\ pc \in Asking \ PastBefore => ~request.beforePresent
  /\ pc \in PastAfter =>
       /\ request.afterPresent <=> "after" \in DOMAIN family
       /\ request.afterPresent => request.after = family["after"][1]
  /\ pc \in PastBefore =>
       /\ request.beforePresent <=> "before" \in DOMAIN family
       /\ request.beforePresent => request.before = family["before"][1]
  /\ pc \in {"names", "size"} => ~request.sizePresent
  /\ pc \in PastAfter \cup {"after"} =>
       /\ request.sizePresent <=> "size" \in DOMAIN family
       /\ request.sizePresent => request.size = family["size"][1]
  /\ pc \in PastBefore \ {"range"} => (request.range <=> request.afterPresent /\ request.beforePresent)
  /\ pc \in Asking \cup {"delivered"} /\ ~request.sizePresent =>
       request.size = IF pc \in PastBefore \ {"range"} /\ request.range THEN MaxSize ELSE DefaultSize

\* Which callbacks have accepted at each step; the range is judged after both cursors.
CallsInOrder ==
  /\ pc \in Asking \ PastAfter => called["after"] = "no"
  /\ pc \in Asking \ PastBefore => called["before"] = "no"
  /\ pc \in Asking \ {"requested", "fetched"} => called["sort"] = "no"
  /\ pc \in PastAfter =>
       called["after"] = IF request.afterPresent /\ "cursor" \in validators THEN "ok" ELSE "no"
  /\ pc \in PastBefore =>
       called["before"] = IF request.beforePresent /\ "cursor" \in validators THEN "ok" ELSE "no"

\* A request that follows a link has the one cursor of that link, with results beyond
\* it, and a client walks on from its last result.
FollowsLink ==
  pc \in Asking =>
    /\ page.follows = "next" =>
         /\ "after" \in DOMAIN family /\ "before" \notin DOMAIN family
         /\ family["after"][1] < Results
         /\ walked # <<>> => walked[Len(walked)] = family["after"][1]
    /\ page.follows = "prev" =>
         /\ "before" \in DOMAIN family /\ "after" \notin DOMAIN family
         /\ family["before"][1] > 1
    /\ walked # <<>> => page.follows = "next"

\* A page holds the results next to the cursors of its request.
Adjacent ==
  pc \in {"fetched", "delivered"} =>
    /\ Items \in 0..Matching
    /\ IF request.beforePresent /\ ~request.afterPresent THEN page.to = Highest
                                                         ELSE page.from = Lowest

\* What is delivered has been validated and is where the walk has come to.
Delivered ==
  pc = "delivered" =>
    /\ LinksValid /\ SizeValid /\ MetaValid
    /\ page.follows # "nothing" => Items > 0
    /\ Items > 0 => walked # <<>> /\ walked[Len(walked)] = page.to

InOrder == \A k \in 1..(Len(walked) - 1) : walked[k + 1] = walked[k] + 1

IInv ==
  /\ Typed /\ CallbacksObeyed /\ RequestParsed /\ CallsInOrder /\ FollowsLink /\ Adjacent
  /\ Delivered /\ InOrder

-----------------------------------------------------------------------------

LEMMA InitIInv == Init => IInv
BY ConfigIsValid DEF Init, IInv, Typed, TypeOK, Issued, RequestType, PageType, NoRequest, NoPage, NotCalled,
   CallbacksObeyed, RequestParsed, CallsInOrder, FollowsLink, Adjacent, Delivered, InOrder, Asking,
   PastAfter, PastBefore

\* A refusal ends the walk; which callbacks were called is known from the call.
LEMMA RefuseKeeps ==
  ASSUME Typed, Refuse, UNCHANGED <<allowRange, validators>>,
         called' \in [{"after", "before", "sort"} -> {"no", "ok", "error", "panic", "exit"}],
         CallbacksObeyed'
  PROVE  IInv'
BY ConfigIsValid DEF Refuse, IInv, Typed, TypeOK, Issued, PageType, NoPage,
   RequestParsed, CallsInOrder, FollowsLink, Adjacent, Delivered, InOrder, Asking,
   PastAfter, PastBefore

\* A request begins with nothing but its family.
LEMMA AskedKeeps ==
  ASSUME Typed, NEW how \in {"nothing", "next", "prev"}, NEW parameters,
         \A p \in DOMAIN parameters : parameters[p] \in Seq(Int),
         validators' = validators, Asked(how, parameters), walked' \in Seq(1..Results), FollowsLink', InOrder'
  PROVE  IInv'
<1>1. Typed'
  <2>1. request' \in RequestType /\ request' = NoRequest
    BY ConfigIsValid DEF Asked, RequestType, NoRequest
  <2>2. page' \in PageType /\ page'.from = page.from /\ page'.to = page.to
    BY DEF Asked, Typed, PageType
  <2>3. called' \in [{"after", "before", "sort"} -> {"no", "ok", "error", "panic", "exit"}]
    BY DEF Asked, NotCalled
  <2>4. TypeOK'
    BY <2>1, <2>2, <2>3 DEF Asked, Typed, TypeOK, Issued, RequestType, PageType, NoRequest
  <2>5. \A p \in DOMAIN family' : family'[p] \in Seq(Int)
    BY DEF Asked
  <2>6. QED
    BY <2>1, <2>2, <2>4, <2>5 DEF Typed
<1>2. CallbacksObeyed' /\ RequestParsed' /\ CallsInOrder' /\ Adjacent' /\ Delivered'
  BY DEF Asked, NoRequest, NotCalled, CallbacksObeyed, RequestParsed, CallsInOrder, Adjacent,
     Delivered, Asking, PastAfter, PastBefore
<1>3. QED
  BY <1>1, <1>2 DEF IInv

LEMMA AskKeeps == IInv /\ Ask /\ UNCHANGED <<allowRange, validators>> => IInv'
<1> SUFFICES ASSUME IInv, Ask, UNCHANGED <<allowRange, validators>> PROVE IInv'
  OBVIOUS
<1>1. PICK parameters \in Families : Asked("nothing", parameters) /\ walked' = <<>>
  BY DEF Ask
<1>2. Typed /\ walked' \in Seq(1..Results) /\ InOrder'
  BY <1>1 DEF IInv, InOrder
<1>3. FollowsLink'
  BY <1>1 DEF Asked, FollowsLink, IInv, Typed, PageType
<1>4. \A p \in DOMAIN parameters : parameters[p] \in Seq(Int)
  BY FamiliesTyped
<1>5. QED
  BY <1>1, <1>2, <1>3, <1>4, AskedKeeps

LEMMA FollowKeeps == IInv /\ Follow /\ UNCHANGED <<allowRange, validators>> => IInv'
<1> SUFFICES ASSUME IInv, Follow, UNCHANGED <<allowRange, validators>> PROVE IInv'
  OBVIOUS
<1> USE DEF IInv
<1>1. Typed /\ pc = "delivered" /\ page.from <= page.to
  BY DEF Follow
<1>2. CASE /\ page.next = "link"
           /\ Asked("next", [p \in {"size", "after"} |->
                               IF p = "size" THEN <<request.size>> ELSE <<page.to>>])
           /\ UNCHANGED walked
  <2>1. page.to < Results
    <3>1. request.beforePresent => Highest < Results
      BY <1>1, ConfigIsValid DEF Typed, TypeOK, Issued, Highest
    <3>2. Lowest \in Int /\ Highest \in Int
      BY ConfigIsValid DEF Typed, TypeOK, Issued, Highest, Lowest
    <3>3. page.to <= Highest
      BY <1>1, <3>2 DEF Adjacent, Items, Matching, Typed, PageType
    <3>4. ~request.beforePresent => HasNext
      BY <1>1, <1>2 DEF Delivered, LinksValid, LinkState
    <3>5. QED
      BY <3>1, <3>2, <3>3, <3>4, ConfigIsValid DEF HasNext, Typed, PageType
  <2>2. Items > 0
    BY <1>1 DEF Typed, PageType, Items
  <2>3. walked' \in Seq(1..Results) /\ InOrder'
    BY <1>2 DEF Typed, TypeOK, Issued, InOrder
  <2>4. FollowsLink'
    BY <1>1, <1>2, <2>1, <2>2 DEF Asked, FollowsLink, Delivered, Typed, PageType
  <2>5. <<request.size>> \in Seq(Int) /\ <<page.to>> \in Seq(Int)
    BY <1>1 DEF Typed, RequestType, PageType
  <2>6. QED
    BY <1>1, <1>2, <2>3, <2>4, <2>5, AskedKeeps
<1>3. CASE /\ page.prev = "link"
           /\ Asked("prev", [p \in {"size", "before"} |->
                               IF p = "size" THEN <<request.size>> ELSE <<page.from>>])
           /\ walked' = <<>>
  <2>1. page.from > 1
    BY <1>1, <1>3, ConfigIsValid DEF Typed, TypeOK, Issued, RequestType, PageType, Adjacent, Delivered,
       LinksValid, LinkState, HasPrevious, Highest, Lowest, Matching, Items
  <2>2. walked' \in Seq(1..Results) /\ InOrder'
    BY <1>3 DEF InOrder
  <2>3. FollowsLink'
    BY <1>1, <1>3, <2>1 DEF Asked, FollowsLink, Typed, PageType
  <2>4. <<request.size>> \in Seq(Int) /\ <<page.from>> \in Seq(Int)
    BY <1>1 DEF Typed, RequestType, PageType
  <2>5. QED
    BY <1>1, <1>3, <2>2, <2>3, <2>4, AskedKeeps
<1>4. QED
  BY <1>2, <1>3 DEF Follow

\* A step of the parser that goes on from pc leaves the family, the page and the walk.
LEMMA GoesOn ==
  ASSUME IInv, pc \in Asking \ {"fetched"}, pc' \in Asking \ {"fetched"},
         request' \in RequestType,
         "cursor" \in validators => Issued',
         called' \in [{"after", "before", "sort"} -> {"no", "ok", "error", "panic", "exit"}],
         UNCHANGED <<validators, family, page, walked>>,
         CallbacksObeyed', RequestParsed', CallsInOrder'
  PROVE  IInv'
<1>1. Typed'
  BY DEF IInv, Typed, TypeOK, Issued, RequestType, Asking
<1>2. FollowsLink' /\ InOrder'
  BY DEF IInv, FollowsLink, InOrder, Asking
<1>3. Adjacent' /\ Delivered'
  BY DEF Adjacent, Delivered, Asking
<1>4. QED
  BY <1>1, <1>2, <1>3 DEF IInv

\* The outcomes of a callback; one that ends its goroutine leaves only its call behind.
LEMMA CallKeeps ==
  ASSUME IInv, pc \in {"after", "before", "sort"},
         NEW outcome \in {"ok", "error", "panic", "exit"},
         called' = [called EXCEPT ![pc] = outcome], UNCHANGED <<allowRange, validators>>,
         \/ outcome \in {"error", "panic"} /\ Refuse
         \/ outcome = "exit" /\ pc' = "gone" /\ UNCHANGED <<family, request, page, walked>>
  PROVE  IInv'
<1>1. /\ called \in [{"after", "before", "sort"} -> {"no", "ok", "error", "panic", "exit"}]
      /\ called' \in [{"after", "before", "sort"} -> {"no", "ok", "error", "panic", "exit"}]
  BY DEF IInv, Typed, TypeOK, Issued
<1>2. CallbacksObeyed'
  <2>1. pc' \in {"idle", "gone"}
    BY DEF Refuse
  <2>2. /\ pc = "after" => called["before"] = "no" /\ called["sort"] = "no"
        /\ pc = "before" => called["after"] \in {"no", "ok"} /\ called["sort"] = "no"
        /\ pc = "sort" => called["after"] \in {"no", "ok"} /\ called["before"] \in {"no", "ok"}
    BY DEF IInv, CallsInOrder, Asking, PastAfter, PastBefore
  <2>3. \A phase \in {"after", "before", "sort"} :
          called'[phase] = IF phase = pc THEN outcome ELSE called[phase]
    BY <1>1
  <2>4. QED
    BY <2>1, <2>2, <2>3 DEF CallbacksObeyed
<1>3. CASE Refuse
  BY <1>1, <1>2, <1>3, RefuseKeeps DEF IInv
<1>4. CASE pc' = "gone" /\ UNCHANGED <<family, request, page, walked>>
  BY <1>1, <1>2, <1>4 DEF IInv, Typed, TypeOK, Issued, RequestParsed, CallsInOrder, FollowsLink, Adjacent,
     Delivered, InOrder, Asking, PastAfter, PastBefore
<1>5. QED
  BY <1>3, <1>4

LEMMA CheckNamesKeeps == IInv /\ CheckNames /\ UNCHANGED <<allowRange, validators>> => IInv'
<1> SUFFICES ASSUME IInv, CheckNames, UNCHANGED <<allowRange, validators>> PROVE IInv'
  OBVIOUS
<1>1. Typed /\ pc = "names" /\ called' = called
  BY DEF CheckNames, IInv
<1>2. called \in [{"after", "before", "sort"} -> {"no", "ok", "error", "panic", "exit"}]
  BY <1>1 DEF Typed, TypeOK, Issued
<1>3. CASE Refuse
  <2>1. CallbacksObeyed'
    BY <1>1, <1>3 DEF IInv, CallbacksObeyed, Refuse
  <2>2. QED
    BY <1>1, <1>2, <1>3, <2>1, RefuseKeeps
<1>4. CASE pc' = "size" /\ UNCHANGED <<family, request, page, walked>>
  <2>1. CallbacksObeyed' /\ RequestParsed' /\ CallsInOrder'
    BY <1>1, <1>4 DEF IInv, CallbacksObeyed, RequestParsed, CallsInOrder, Asking, PastAfter, PastBefore
  <2>2. QED
    BY <1>1, <1>2, <1>4, <2>1, GoesOn DEF Asking, Typed, TypeOK, Issued
<1>5. QED
  BY <1>3, <1>4 DEF CheckNames

LEMMA ParseSizeKeeps == IInv /\ ParseSize /\ UNCHANGED <<allowRange, validators>> => IInv'
<1> SUFFICES ASSUME IInv, ParseSize, UNCHANGED <<allowRange, validators>> PROVE IInv'
  OBVIOUS
<1>1. Typed /\ pc = "size" /\ called' = called
  BY DEF ParseSize, IInv
<1>2. called \in [{"after", "before", "sort"} -> {"no", "ok", "error", "panic", "exit"}]
  BY <1>1 DEF Typed, TypeOK, Issued
<1>3. CASE Refuse
  <2>1. CallbacksObeyed'
    BY <1>1, <1>3 DEF IInv, CallbacksObeyed, Refuse
  <2>2. QED
    BY <1>1, <1>2, <1>3, <2>1, RefuseKeeps
<1>4. ASSUME pc' = "after", UNCHANGED <<family, page, walked>>,
             \/ "size" \notin DOMAIN family /\ request' = request
             \/ /\ "size" \in DOMAIN family /\ IsSize(family["size"])
                /\ request' = [request EXCEPT !.size = family["size"][1], !.sizePresent = TRUE]
      PROVE  IInv'
  <2>1. /\ request' \in RequestType
        /\ request'.after = request.after /\ request'.afterPresent = request.afterPresent
        /\ request'.before = request.before /\ request'.beforePresent = request.beforePresent
        /\ request'.sizePresent <=> request.sizePresent \/ "size" \in DOMAIN family
        /\ request'.size = IF "size" \in DOMAIN family THEN family["size"][1] ELSE request.size
    BY <1>1, <1>4 DEF Typed, RequestType, IsSize
  <2>2. CallbacksObeyed' /\ RequestParsed' /\ CallsInOrder'
    BY <1>1, <1>4, <2>1 DEF IInv, CallbacksObeyed, RequestParsed, CallsInOrder, Asking, PastAfter,
       PastBefore
  <2>3. QED
    BY <1>1, <1>2, <1>4, <2>1, <2>2, GoesOn DEF Asking, Typed, TypeOK, Issued
<1>5. QED
  BY <1>3, <1>4 DEF ParseSize

LEMMA ParseAfterKeeps == IInv /\ ParseAfter /\ UNCHANGED <<allowRange, validators>> => IInv'
<1> SUFFICES ASSUME IInv, ParseAfter, UNCHANGED <<allowRange, validators>> PROVE IInv'
  OBVIOUS
<1>1. Typed /\ pc = "after"
  BY DEF ParseAfter, ParseCursor, IInv
<1>2. called \in [{"after", "before", "sort"} -> {"no", "ok", "error", "panic", "exit"}]
  BY <1>1 DEF Typed, TypeOK, Issued
<1>3. CASE Refuse /\ UNCHANGED called
  <2>1. CallbacksObeyed'
    BY <1>1, <1>3 DEF IInv, CallbacksObeyed, Refuse
  <2>2. QED
    BY <1>1, <1>2, <1>3, <2>1, RefuseKeeps
<1>4. ASSUME "after" \notin DOMAIN family, pc' = "before",
             UNCHANGED <<family, request, called, page, walked>>
      PROVE  IInv'
  <2>1. CallbacksObeyed' /\ RequestParsed' /\ CallsInOrder'
    BY <1>1, <1>4 DEF IInv, CallbacksObeyed, RequestParsed, CallsInOrder, Asking, PastAfter, PastBefore
  <2>2. QED
    BY <1>1, <1>2, <1>4, <2>1, GoesOn DEF Asking, Typed, TypeOK, Issued
<1>5. ASSUME "after" \in DOMAIN family, Len(family["after"]) = 1, pc' = "before",
             \/ "cursor" \notin validators /\ called' = called
             \/ /\ "cursor" \in validators /\ called' = [called EXCEPT !["after"] = "ok"]
                /\ family["after"][1] \in 1..Results,
             request' = [request EXCEPT !.after = family["after"][1], !.afterPresent = TRUE],
             UNCHANGED <<family, page, walked>>
      PROVE  IInv'
  <2>1. /\ request' \in RequestType
        /\ request'.size = request.size /\ request'.sizePresent = request.sizePresent
        /\ request'.after = family["after"][1] /\ request'.afterPresent
        /\ request'.before = request.before /\ request'.beforePresent = request.beforePresent
    <3> DEFINE cursor == family["after"][1]
    <3>1. cursor \in Int
      BY <1>1, <1>5 DEF Typed
    <3>2. request' = [request EXCEPT !.after = cursor, !.afterPresent = TRUE]
      BY <1>5
    <3> HIDE DEF cursor
    <3>3. /\ request' \in RequestType
          /\ request'.size = request.size /\ request'.sizePresent = request.sizePresent
          /\ request'.after = cursor /\ request'.afterPresent
          /\ request'.before = request.before /\ request'.beforePresent = request.beforePresent
      BY <1>1, <3>1, <3>2 DEF Typed, RequestType
    <3>4. QED
      BY <3>3 DEF cursor
  <2>2. RequestParsed'
    BY <1>1, <1>5, <2>1 DEF IInv, RequestParsed, Asking, PastAfter, PastBefore
  <2>3. CallbacksObeyed' /\ CallsInOrder'
    BY <1>1, <1>2, <1>5, <2>1 DEF IInv, CallbacksObeyed, CallsInOrder, Asking, PastAfter, PastBefore
  <2>4. "cursor" \in validators => Issued'
    BY <1>1, <1>5, <2>1 DEF Typed, TypeOK, Issued
  <2>5. called' \in [{"after", "before", "sort"} -> {"no", "ok", "error", "panic", "exit"}]
    BY <1>2, <1>5
  <2>6. QED
    BY <1>1, <1>5, <2>1, <2>2, <2>3, <2>4, <2>5, GoesOn DEF Asking
<1>6. ASSUME NEW outcome \in {"error", "panic", "exit"}, called' = [called EXCEPT !["after"] = outcome],
             \/ outcome \in {"error", "panic"} /\ Refuse
             \/ outcome = "exit" /\ pc' = "gone" /\ UNCHANGED <<family, request, page, walked>>
      PROVE  IInv'
  BY <1>1, <1>6, CallKeeps
<1>7. QED
  BY <1>3, <1>4, <1>5, <1>6 DEF ParseAfter, ParseCursor, CallValidator, Call

LEMMA ParseBeforeKeeps == IInv /\ ParseBefore /\ UNCHANGED <<allowRange, validators>> => IInv'
<1> SUFFICES ASSUME IInv, ParseBefore, UNCHANGED <<allowRange, validators>> PROVE IInv'
  OBVIOUS
<1>1. Typed /\ pc = "before"
  BY DEF ParseBefore, ParseCursor, IInv
<1>2. called \in [{"after", "before", "sort"} -> {"no", "ok", "error", "panic", "exit"}]
  BY <1>1 DEF Typed, TypeOK, Issued
<1>3. CASE Refuse /\ UNCHANGED called
  <2>1. CallbacksObeyed'
    BY <1>1, <1>3 DEF IInv, CallbacksObeyed, Refuse
  <2>2. QED
    BY <1>1, <1>2, <1>3, <2>1, RefuseKeeps
<1>4. ASSUME "before" \notin DOMAIN family, pc' = "range",
             UNCHANGED <<family, request, called, page, walked>>
      PROVE  IInv'
  <2>1. CallbacksObeyed' /\ RequestParsed' /\ CallsInOrder'
    BY <1>1, <1>4 DEF IInv, CallbacksObeyed, RequestParsed, CallsInOrder, Asking, PastAfter, PastBefore
  <2>2. QED
    BY <1>1, <1>2, <1>4, <2>1, GoesOn DEF Asking, Typed, TypeOK, Issued
<1>5. ASSUME "before" \in DOMAIN family, Len(family["before"]) = 1, pc' = "range",
             \/ "cursor" \notin validators /\ called' = called
             \/ /\ "cursor" \in validators /\ called' = [called EXCEPT !["before"] = "ok"]
                /\ family["before"][1] \in 1..Results,
             request' = [request EXCEPT !.before = family["before"][1], !.beforePresent = TRUE],
             UNCHANGED <<family, page, walked>>
      PROVE  IInv'
  <2>1. /\ request' \in RequestType
        /\ request'.size = request.size /\ request'.sizePresent = request.sizePresent
        /\ request'.before = family["before"][1] /\ request'.beforePresent
        /\ request'.after = request.after /\ request'.afterPresent = request.afterPresent
    <3> DEFINE cursor == family["before"][1]
    <3>1. cursor \in Int
      BY <1>1, <1>5 DEF Typed
    <3>2. request' = [request EXCEPT !.before = cursor, !.beforePresent = TRUE]
      BY <1>5
    <3> HIDE DEF cursor
    <3>3. /\ request' \in RequestType
          /\ request'.size = request.size /\ request'.sizePresent = request.sizePresent
          /\ request'.before = cursor /\ request'.beforePresent
          /\ request'.after = request.after /\ request'.afterPresent = request.afterPresent
      BY <1>1, <3>1, <3>2 DEF Typed, RequestType
    <3>4. QED
      BY <3>3 DEF cursor
  <2>2. RequestParsed'
    BY <1>1, <1>5, <2>1 DEF IInv, RequestParsed, Asking, PastAfter, PastBefore
  <2>3. CallbacksObeyed' /\ CallsInOrder'
    BY <1>1, <1>2, <1>5, <2>1 DEF IInv, CallbacksObeyed, CallsInOrder, Asking, PastAfter, PastBefore
  <2>4. "cursor" \in validators => Issued'
    BY <1>1, <1>5, <2>1 DEF Typed, TypeOK, Issued
  <2>5. called' \in [{"after", "before", "sort"} -> {"no", "ok", "error", "panic", "exit"}]
    BY <1>2, <1>5
  <2>6. QED
    BY <1>1, <1>5, <2>1, <2>2, <2>3, <2>4, <2>5, GoesOn DEF Asking
<1>6. ASSUME NEW outcome \in {"error", "panic", "exit"}, called' = [called EXCEPT !["before"] = outcome],
             \/ outcome \in {"error", "panic"} /\ Refuse
             \/ outcome = "exit" /\ pc' = "gone" /\ UNCHANGED <<family, request, page, walked>>
      PROVE  IInv'
  BY <1>1, <1>6, CallKeeps
<1>7. QED
  BY <1>3, <1>4, <1>5, <1>6 DEF ParseBefore, ParseCursor, CallValidator, Call

LEMMA ParseRangeKeeps == IInv /\ ParseRange /\ UNCHANGED <<allowRange, validators>> => IInv'
<1> SUFFICES ASSUME IInv, ParseRange, UNCHANGED <<allowRange, validators>> PROVE IInv'
  OBVIOUS
<1>1. Typed /\ pc = "range" /\ called' = called
  BY DEF ParseRange, IInv
<1>2. called \in [{"after", "before", "sort"} -> {"no", "ok", "error", "panic", "exit"}]
  BY <1>1 DEF Typed, TypeOK, Issued
<1>3. CASE Refuse
  <2>1. CallbacksObeyed'
    BY <1>1, <1>3 DEF IInv, CallbacksObeyed, Refuse
  <2>2. QED
    BY <1>1, <1>2, <1>3, <2>1, RefuseKeeps
<1> DEFINE both == request.afterPresent /\ request.beforePresent
<1>4. ASSUME pc' = "sort", UNCHANGED <<family, page, walked>>,
             request' = [request EXCEPT !.range = both,
                           !.size = IF both /\ ~request.sizePresent THEN MaxSize ELSE @]
      PROVE  IInv'
  <2>1. both \in BOOLEAN /\ request.size \in 1..MaxSize /\ MaxSize \in 1..MaxSize
    BY <1>1, ConfigIsValid DEF Typed, RequestType
  <2> HIDE DEF both
  <2>2. /\ request' \in RequestType
        /\ request'.after = request.after /\ request'.afterPresent = request.afterPresent
        /\ request'.before = request.before /\ request'.beforePresent = request.beforePresent
        /\ request'.sizePresent = request.sizePresent /\ request'.range = both
        /\ request'.size = IF both /\ ~request.sizePresent THEN MaxSize ELSE request.size
    BY <1>1, <1>4, <2>1 DEF Typed, RequestType
  <2>3. CallbacksObeyed' /\ CallsInOrder'
    BY <1>1, <1>4, <2>2 DEF IInv, CallbacksObeyed, CallsInOrder, Asking, PastAfter, PastBefore
  <2>4. RequestParsed'
    BY <1>1, <1>4, <2>2 DEF IInv, RequestParsed, Asking, PastAfter, PastBefore, both
  <2>5. QED
    BY <1>1, <1>2, <1>4, <2>2, <2>3, <2>4, GoesOn DEF Asking, Typed, TypeOK, Issued
<1>5. QED
  BY <1>3, <1>4 DEF ParseRange

LEMMA CheckSortKeeps == IInv /\ CheckSort /\ UNCHANGED <<allowRange, validators>> => IInv'
<1> SUFFICES ASSUME IInv, CheckSort, UNCHANGED <<allowRange, validators>> PROVE IInv'
  OBVIOUS
<1>1. Typed /\ pc = "sort"
  BY DEF CheckSort, IInv
<1>2. called \in [{"after", "before", "sort"} -> {"no", "ok", "error", "panic", "exit"}]
  BY <1>1 DEF Typed, TypeOK, Issued
<1>3. ASSUME pc' = "requested",
             called' = IF "sort" \in validators THEN [called EXCEPT !["sort"] = "ok"] ELSE called,
             UNCHANGED <<family, request, page, walked>>
      PROVE  IInv'
  <2>1. CallbacksObeyed' /\ RequestParsed' /\ CallsInOrder'
    BY <1>1, <1>2, <1>3 DEF IInv, CallbacksObeyed, RequestParsed, CallsInOrder, Asking, PastAfter, PastBefore
  <2>2. QED
    BY <1>1, <1>2, <1>3, <2>1, GoesOn DEF Asking, Typed, TypeOK, Issued
<1>4. ASSUME NEW outcome \in {"error", "panic", "exit"}, called' = [called EXCEPT !["sort"] = outcome],
             \/ outcome \in {"error", "panic"} /\ Refuse
             \/ outcome = "exit" /\ pc' = "gone" /\ UNCHANGED <<family, request, page, walked>>
      PROVE  IInv'
  BY <1>1, <1>4, CallKeeps
<1>5. QED
  BY <1>3, <1>4 DEF CheckSort, CallValidator, Call

LEMMA RejectCursorKeeps == IInv /\ RejectCursor /\ UNCHANGED <<allowRange, validators>> => IInv'
<1> SUFFICES ASSUME IInv, RejectCursor, UNCHANGED <<allowRange, validators>> PROVE IInv'
  OBVIOUS
<1>1. Typed /\ Refuse /\ called' = called
  BY DEF RejectCursor, IInv
<1>2. called \in [{"after", "before", "sort"} -> {"no", "ok", "error", "panic", "exit"}]
  BY <1>1 DEF Typed, TypeOK
<1>3. CallbacksObeyed'
  BY <1>1 DEF IInv, CallbacksObeyed, Refuse
<1>4. QED
  BY <1>1, <1>2, <1>3, RefuseKeeps

\* Where the results next to the cursors of a request are, if the endpoint has issued them.
LEMMA Bounds ==
  ASSUME Typed, Issued
  PROVE  /\ Lowest \in 1..Results + 1 /\ Highest \in 0..Results /\ Matching \in Nat
         /\ Matching = IF Lowest <= Highest THEN Highest - Lowest + 1 ELSE 0
<1>1. Lowest \in 1..Results + 1 /\ Highest \in 0..Results
  <2>1. /\ request.afterPresent => request.after \in 1..Results
        /\ request.beforePresent => request.before \in 1..Results
    BY DEF Issued
  <2>2. QED
    BY <2>1, ConfigIsValid DEF Lowest, Highest
<1>2. Matching = IF Lowest <= Highest THEN Highest - Lowest + 1 ELSE 0
  BY DEF Matching
<1>3. QED
  BY <1>1, <1>2, ConfigIsValid

LEMMA FetchKeeps == IInv /\ Fetch /\ UNCHANGED <<allowRange, validators>> => IInv'
<1> SUFFICES ASSUME IInv, Fetch, UNCHANGED <<allowRange, validators>> PROVE IInv'
  OBVIOUS
<1> DEFINE backwards == request.beforePresent /\ ~request.afterPresent
<1>1. PICK count \in 0..Matching, prev \in {"absent", "null", "link"}, next \in {"absent", "null", "link"},
           truncated \in {"absent", "false", "true", "malformed"}, itemMeta \in BOOLEAN :
        /\ itemMeta \/ count > 0
        /\ page' = [from |-> IF backwards THEN Highest - count + 1 ELSE Lowest,
                    to   |-> IF backwards THEN Highest ELSE Lowest + count - 1,
                    prev |-> prev, next |-> next, truncated |-> truncated, itemMeta |-> itemMeta,
                    follows |-> page.follows]
  BY Zenon DEF Fetch
<1>2. /\ Typed /\ Issued /\ pc = "requested" /\ pc' = "fetched"
      /\ UNCHANGED <<family, request, called, walked>>
  BY DEF Fetch, IInv
<1>3. /\ Lowest \in 1..Results + 1 /\ Highest \in 0..Results /\ Matching \in Nat
      /\ Matching = IF Lowest <= Highest THEN Highest - Lowest + 1 ELSE 0
      /\ backwards => Lowest = 1
  BY <1>2, Bounds DEF Lowest
<1>4. /\ page'.from \in 1..Results + 1 /\ page'.to \in 0..Results
      /\ page'.to - page'.from + 1 = count
      /\ IF backwards THEN page'.to = Highest ELSE page'.from = Lowest
  <2>1. CASE backwards
    BY <1>1, <1>3, <2>1, ConfigIsValid
  <2>2. CASE ~backwards
    BY <1>1, <1>3, <2>2, ConfigIsValid
  <2>3. QED
    BY <2>1, <2>2
<1>5. page' \in PageType /\ page'.follows = page.follows
  BY <1>1, <1>2, <1>4 DEF Typed, PageType
<1>6. Typed'
  BY <1>2, <1>3, <1>4, <1>5, ConfigIsValid DEF Typed, TypeOK, Issued
<1>7. CallbacksObeyed' /\ RequestParsed' /\ CallsInOrder'
  BY <1>2 DEF IInv, CallbacksObeyed, RequestParsed, CallsInOrder, Asking, PastAfter, PastBefore
<1>8. FollowsLink' /\ InOrder' /\ Delivered'
  BY <1>2, <1>5 DEF IInv, FollowsLink, InOrder, Delivered, Asking
<1>9. Adjacent'
  BY <1>2, <1>3, <1>4 DEF Adjacent, Items, Matching, Highest, Lowest
<1>10. QED
  BY <1>6, <1>7, <1>8, <1>9 DEF IInv

\* A page that is reached by a link has a result: there is one beyond the cursor of the
\* link, and a valid page is as full as its request can be.
LEMMA LinkedPageHasItems ==
  ASSUME IInv, pc = "fetched", SizeValid, page.follows # "nothing"
  PROVE  Items > 0
<1>1. /\ Typed /\ Items \in 0..Matching /\ Lowest \in 1..Results + 1 /\ Highest \in 0..Results
      /\ Matching = IF Lowest <= Highest THEN Highest - Lowest + 1 ELSE 0
      /\ Matching \in Nat
  BY Bounds DEF IInv, Adjacent, Typed, TypeOK
<1>2. Matching > 0
  <2>1. CASE page.follows = "next"
    <3>1. request.afterPresent /\ ~request.beforePresent /\ request.after < Results
      BY <2>1 DEF IInv, FollowsLink, RequestParsed, Asking, PastAfter, PastBefore
    <3>2. Lowest <= Highest
      BY <1>1, <3>1, ConfigIsValid DEF Lowest, Highest, Typed, TypeOK, Issued
    <3>3. QED
      BY <1>1, <3>2
  <2>2. CASE page.follows = "prev"
    <3>1. request.beforePresent /\ ~request.afterPresent /\ request.before > 1
      BY <2>2 DEF IInv, FollowsLink, RequestParsed, Asking, PastAfter, PastBefore
    <3>2. Lowest <= Highest
      BY <1>1, <3>1, ConfigIsValid DEF Lowest, Highest, Typed, TypeOK, Issued
    <3>3. QED
      BY <1>1, <3>2
  <2>3. QED
    BY <1>1, <2>1, <2>2 DEF Typed, PageType
<1>3. QED
  BY <1>1, <1>2 DEF SizeValid, HasMore, Typed, TypeOK, Issued

\* The walk goes on with the first result of the page.
LEMMA WalkGoesOn ==
  ASSUME IInv, pc = "fetched", walked # <<>>, Items > 0
  PROVE  page.from = walked[Len(walked)] + 1
<1>1. request.afterPresent /\ ~request.beforePresent /\ request.after = walked[Len(walked)]
  BY DEF IInv, FollowsLink, RequestParsed, Asking, PastAfter, PastBefore
<1>2. page.from = Lowest
  BY <1>1 DEF IInv, Adjacent
<1>3. QED
  BY <1>1, <1>2 DEF Lowest

LEMMA ValidateKeeps == IInv /\ Validate /\ UNCHANGED <<allowRange, validators>> => IInv'
<1> SUFFICES ASSUME IInv, Validate, UNCHANGED <<allowRange, validators>> PROVE IInv'
  OBVIOUS
<1>1. Typed /\ pc = "fetched" /\ called' = called
  BY DEF Validate, IInv
<1>2. called \in [{"after", "before", "sort"} -> {"no", "ok", "error", "panic", "exit"}]
  BY <1>1 DEF Typed, TypeOK, Issued
<1>3. CASE Refuse
  <2>1. CallbacksObeyed'
    BY <1>1, <1>3 DEF IInv, CallbacksObeyed, Refuse
  <2>2. QED
    BY <1>1, <1>2, <1>3, <2>1, RefuseKeeps
<1> DEFINE new == [k \in 1..Items |-> page.from + k - 1]
<1>4. ASSUME LinksValid, SizeValid, MetaValid, pc' = "delivered", walked' = walked \o new,
             UNCHANGED <<family, request, page>>
      PROVE  IInv'
  <2>1. /\ Items \in Nat /\ page.from \in 1..Results + 1 /\ page.to \in 0..Results
        /\ page.to = page.from + Items - 1
    <3>1. Items \in 0..Matching /\ Matching \in Nat
      BY <1>1, Bounds DEF IInv, Adjacent, Typed, TypeOK
    <3>2. QED
      BY <1>1, <3>1, ConfigIsValid DEF Typed, PageType, Items
  <2>2. new \in Seq(1..Results) /\ Len(new) = Items /\ \A k \in 1..Items : new[k] = page.from + k - 1
    <3>1. \A k \in 1..Items : page.from + k - 1 \in 1..Results
      BY <2>1, ConfigIsValid
    <3>2. new \in [1..Items -> 1..Results]
      BY <3>1
    <3>3. QED
      BY <2>1, <3>2
  <2> HIDE DEF new
  <2>3. walked \in Seq(1..Results)
    BY <1>1 DEF Typed, TypeOK, Issued
  <2>4. /\ walked' \in Seq(1..Results) /\ Len(walked') = Len(walked) + Items
        /\ \A k \in 1..Len(walked) : walked'[k] = walked[k]
        /\ \A k \in 1..Items : walked'[Len(walked) + k] = page.from + k - 1
    <3>1. walked' = walked \o new
      BY <1>4
    <3>2. walked' \in Seq(1..Results)
      BY <2>2, <2>3, <3>1
    <3>3. Len(walked') = Len(walked) + Items
      BY <2>2, <2>3, <3>1, ConcatProperties
    <3>4. ASSUME NEW k \in 1..Len(walked) PROVE walked'[k] = walked[k]
      BY <2>2, <2>3, <3>1, <3>4
    <3>5. ASSUME NEW k \in 1..Items PROVE walked'[Len(walked) + k] = page.from + k - 1
      <4>1. walked'[Len(walked) + k] = new[k]
        BY <2>1, <2>2, <2>3, <3>1, <3>5
      <4>2. QED
        BY <2>2, <4>1
    <3>6. QED
      BY <3>2, <3>3, <3>4, <3>5
  <2>5. Typed' /\ CallbacksObeyed' /\ RequestParsed' /\ CallsInOrder' /\ FollowsLink' /\ Adjacent'
    BY <1>1, <1>4, <2>4 DEF IInv, Typed, TypeOK, Issued, CallbacksObeyed, RequestParsed, CallsInOrder,
       FollowsLink, Adjacent, Asking, PastAfter, PastBefore, Items, Matching, Highest, Lowest
  <2>6. Delivered'
    <3>1. page.follows # "nothing" => Items > 0
      BY <1>1, <1>4, LinkedPageHasItems
    <3>2. Items > 0 => walked' # <<>> /\ walked'[Len(walked')] = page.to
      BY <2>1, <2>3, <2>4
    <3>3. LinksValid' /\ SizeValid' /\ MetaValid' /\ Items' = Items
      BY <1>4 DEF LinksValid, SizeValid, MetaValid, LinkState, HasNext, HasPrevious, HasMore, Items,
         Matching, Highest, Lowest
    <3>4. QED
      BY <1>4, <3>1, <3>2, <3>3 DEF Delivered
  <2>7. InOrder'
    <3> SUFFICES ASSUME NEW k \in 1..(Len(walked') - 1) PROVE walked'[k + 1] = walked'[k] + 1
      BY DEF InOrder
    <3>1. CASE k < Len(walked)
      <4>1. k \in 1..(Len(walked) - 1) /\ k \in 1..Len(walked) /\ k + 1 \in 1..Len(walked)
        BY <2>3, <3>1
      <4>2. walked'[k] = walked[k] /\ walked'[k + 1] = walked[k + 1]
        BY <2>4, <4>1
      <4>3. walked[k + 1] = walked[k] + 1
        BY <4>1 DEF IInv, InOrder
      <4>4. QED
        BY <4>2, <4>3
    <3>2. CASE k = Len(walked)
      <4>1. walked # <<>> /\ Items > 0
        BY <2>1, <2>3, <2>4, <3>2
      <4>2. walked'[k + 1] = page.from /\ walked'[k] = walked[Len(walked)]
        BY <2>1, <2>3, <2>4, <3>2, <4>1
      <4>3. QED
        BY <1>1, <4>1, <4>2, WalkGoesOn
    <3>3. CASE k > Len(walked)
      <4> DEFINE j == k - Len(walked)
      <4>1. /\ j \in 1..Items /\ j + 1 \in 1..Items
            /\ k = Len(walked) + j /\ k + 1 = Len(walked) + (j + 1)
        BY <2>1, <2>3, <2>4, <3>3
      <4> HIDE DEF j
      <4>2. walked'[k] = page.from + j - 1 /\ walked'[k + 1] = page.from + (j + 1) - 1
        BY <2>4, <4>1
      <4>3. QED
        BY <2>1, <4>1, <4>2
    <3>4. QED
      BY <2>1, <2>3, <2>4, <3>1, <3>2, <3>3
  <2>8. QED
    BY <2>5, <2>6, <2>7 DEF IInv
<1>5. QED
  BY <1>3, <1>4 DEF Validate

-----------------------------------------------------------------------------

LEMMA Invariance == Spec => []IInv
<1>1. IInv /\ [Next]_vars => IInv'
  <2> SUFFICES ASSUME IInv, [Next]_vars PROVE IInv'
    OBVIOUS
  <2>1. CASE Next
    BY <2>1, AskKeeps, FollowKeeps, CheckNamesKeeps, ParseSizeKeeps, ParseAfterKeeps,
       ParseBeforeKeeps, ParseRangeKeeps, CheckSortKeeps, RejectCursorKeeps, FetchKeeps,
       ValidateKeeps DEF Next
  <2>2. CASE UNCHANGED vars
    BY <2>2 DEF vars, IInv, Typed, TypeOK, Issued, CallbacksObeyed, RequestParsed, CallsInOrder, FollowsLink,
       Adjacent, Delivered, InOrder, LinksValid, SizeValid, MetaValid, LinkState, HasNext,
       HasPrevious, HasMore, Items, Matching, Highest, Lowest
  <2>3. QED
    BY <2>1, <2>2
<1>2. QED
  BY <1>1, InitIInv, PTL DEF Spec

\* Types and bounds: an accepted size is within the bounds of the endpoint, and a validated
\* cursor, or one that a page is fetched for, is one it has issued.
THEOREM TypeCorrect == Spec => []TypeOK
BY Invariance, PTL DEF IInv, Typed

\* ParseQuery fetches nothing that its callbacks have not accepted, and calls none after
\* one has failed.
THEOREM CallbacksAreObeyed == Spec => []CallbacksObeyed
BY Invariance, PTL DEF IInv

\* What ValidateAt lets through is what the page family asks for: results between its
\* cursors, as many as its size, its default or its maximum lets it have, and truncated just
\* when a range holds more.
THEOREM DeliveredAreFull == Spec => []DeliveredIsFull
<1>1. IInv => DeliveredIsFull
  <2> SUFFICES ASSUME IInv, pc = "delivered"
               PROVE  /\ page.from..page.to \subseteq Between
                      /\ Items <= Wanted
                      /\ Items = Wanted \/ page.from..page.to = Between
                      /\ page.truncated = "true" <=> IsRange /\ page.from..page.to # Between
    BY DEF DeliveredIsFull
  <2>1. /\ Items \in 0..Matching /\ Matching \in Nat /\ SizeValid /\ MetaValid
        /\ Lowest \in 1..Results + 1 /\ Highest \in 0..Results
        /\ Matching = IF Lowest <= Highest THEN Highest - Lowest + 1 ELSE 0
        /\ request.size \in Nat /\ request.range \in BOOLEAN
        /\ page.from \in Int /\ page.to \in Int
    BY Bounds, ConfigIsValid DEF IInv, Adjacent, Delivered, Typed, TypeOK
  <2>2. /\ request.range <=> IsRange
        /\ request.size = Wanted
    <3>1. RequestParsed
      BY DEF IInv
    <3>2. /\ pc \in PastAfter /\ pc \in PastBefore \ {"range"}
          /\ pc \in PastAfter \cup {"after"} /\ pc \in Asking \cup {"delivered"}
      BY DEF PastAfter, PastBefore
    <3>3. request.range <=> IsRange
      BY <3>1, <3>2 DEF RequestParsed, IsRange
    <3>4. request.size = Wanted
      BY <3>1, <3>2, <3>3 DEF RequestParsed, Wanted
    <3>5. QED
      BY <3>3, <3>4
  <2>3. Between = Lowest..Highest
    <3>1. /\ request.afterPresent <=> "after" \in DOMAIN family
          /\ request.afterPresent => request.after = family["after"][1] /\ request.after \in 1..Results
          /\ request.beforePresent <=> "before" \in DOMAIN family
          /\ request.beforePresent => request.before = family["before"][1] /\ request.before \in 1..Results
      BY DEF IInv, RequestParsed, PastAfter, PastBefore, Typed, TypeOK, Issued
    <3>2. ASSUME NEW k PROVE k \in Between <=> k \in Lowest..Highest
      BY <3>1, ConfigIsValid DEF Between, Lowest, Highest
    <3>3. QED
      BY <3>2
  <2>4. page.to = page.from + Items - 1 /\ (page.from = Lowest \/ page.to = Highest)
    BY <2>1 DEF IInv, Adjacent, Items
  <2>5. page.from..page.to \subseteq Lowest..Highest
    BY <2>1, <2>4
  <2>6. page.from..page.to = Lowest..Highest <=> Items = Matching
    <3>1. CASE Items = Matching
      BY <2>1, <2>4, <2>5, <3>1
    <3>2. CASE Items < Matching
      <4>1. Lowest \in Lowest..Highest /\ Highest \in Lowest..Highest
        BY <2>1, <3>2
      <4>2. ~(Lowest \in page.from..page.to /\ Highest \in page.from..page.to)
        BY <2>1, <2>4, <3>2
      <4>3. QED
        BY <3>2, <4>1, <4>2, <2>1
    <3>3. QED
      BY <2>1, <3>1, <3>2
  <2>7. /\ Items <= request.size /\ (Items = request.size \/ Items = Matching)
        /\ HasMore <=> Items # Matching
    BY <2>1 DEF SizeValid, HasMore
  <2>8. page.truncated = "true" <=> request.range /\ HasMore
    BY <2>1 DEF MetaValid
  <2>9. QED
    BY <2>2, <2>3, <2>5, <2>6, <2>7, <2>8
<1>2. QED
  BY <1>1, Invariance, PTL

\* The links of delivered pages lead a client through every result of the collection, in
\* order and without an empty page, and end where it ends.
THEOREM LinksAlwaysLeadThrough == Spec => []LinksLeadThrough
<1>1. IInv => LinksLeadThrough
  <2> SUFFICES ASSUME IInv PROVE LinksLeadThrough
    OBVIOUS
  <2>1. pc = "delivered" =>
          /\ ~request.beforePresent => (page.next = "null" <=> page.to = Results)
          /\ ~request.afterPresent => (page.prev = "null" <=> page.from = 1)
    BY ConfigIsValid DEF IInv, Delivered, Typed, PageType, LinksValid, LinkState, HasNext, HasPrevious
  <2>2. QED
    BY <2>1 DEF IInv, InOrder, Delivered, LinksLeadThrough
<1>2. QED
  BY <1>1, Invariance, PTL
=============================================================================
