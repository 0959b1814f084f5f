# A TLA+ model of go-jsonapi

This directory specifies and verifies the control logic of `go-jsonapi` v2, a
Go library that reads, validates and writes JSON:API 1.1 documents, negotiates
their media type, parses their query parameters and executes requests of the
Atomic Operations extension. The sources are at the root of the repository
(`*.go`); file names below are theirs.

- [The system](#the-system): components, their state, operations and interactions
- [The modules](#the-modules): what models what, and how
- [The runs](#the-runs): what TLC checks, on which bounds, and what that shows
- [The proofs](#the-proofs): what TLAPS proves, from what, and how
- [Where code and documentation disagree](#where-code-and-documentation-disagree)
- [What is not modelled](#what-is-not-modelled)
- [The plan](#the-plan)

`PROJECT.json` lists the components, the runs, the lines of source behind every
definition (`map`), the hazards of the code with the properties that cover them,
and for every property a plausible bug in the code that it finds (`mutants`; the
mutated definitions are the ones under a comment "Bug:" in the modules).

## The system

The library is synchronous. It starts no goroutine, keeps no state between calls
other than configuration that is read-only after construction, and does no I/O.
What makes it hard to test is elsewhere:

- it hands control to **application callbacks** in the middle of what it does (the
  transaction of an atomic request, cursor and sort validators, extension members,
  profiles). A callback may fail, panic, end its goroutine (`runtime.Goexit`, which
  nothing isolates), or change what it has borrowed;
- the caller's **context may be cancelled** between any two steps of an atomic
  execution, while a transaction is open;
- **Go maps** are walked in an order that differs from call to call, and several
  verdicts are computed while walking them;
- documents are **graphs**: identifiers link resources in cycles, a resource has a
  server identity, a local identity or both, and any object may contradict another;
- several **limits** are charged twice, by different code, and must agree at the
  boundary;
- what one call returns is **the input of another**, of the peer's or of the
  application's next one: encode and decode, select a content type and accept it,
  offer a page link and parse the request that follows it.

| Component | State | Operations | Interacts with | Correct when |
|---|---|---|---|---|
| Atomic execution (`atomic_execute.go`) | the transaction, results so far, the failure | `ExecuteAtomic`: validate, begin, apply each, check results, commit or roll back | Atomic rules before and after; four callbacks; the context | operations take effect together and in order or not at all; each handled failure rolls back once; the error says how far it got |
| Atomic rules (`atomic.go`) | local identities assigned so far, violations | `validateAtomicOperations`, `validateAtomicResult` | Resource identity for keys and identities | one pass decides the rules; what is applied has its local identities assigned |
| Resource identity (`validation.go` 747-960) | maps from keys to resources, and between both kinds of name | `validateDocumentIdentity`, `validateLocalIdentities` | feeds compound documents | duplicates and contradictions are found, exactly |
| Compound documents (`validation.go` 877-930) | reached resources, queue | `validateIncluded` | uses identity keys | reports the unlinked resources, exactly, and ends |
| Document rules (`validation.go`) | violations | `validateDocument` by context, links, mutations; the walk down a chain of `describedby` | called by both codecs and by Atomic | a document breaks no rule of its context, and the contexts differ in nothing but their demands; the walk ends |
| Decoding (`codec.go`) | stack of open objects, budget of values | scan under limits, strict decoders | before every decoding | refuses what exceeds a limit, costs no more than the limits |
| Codec extensions (`member_codec.go`) | the registry; extracted members; violations | `NewCodec`, `Codec.Unmarshal`, `Codec.Marshal` | decoding, document rules, callbacks | registered members round-trip, in their own scope; what is returned is what was validated |
| Query parameters (`query.go`) | budgets | `QueryParser.Parse` | limits; feeds cursor pagination | refuses exactly what exceeds its limits |
| Cursor pagination (`cursor.go`, `cursor_page.go`) | the request; the page and its evidence | `ParseQuery`, `CursorPage.ValidateAt` | query parser, three callbacks, the client through links | links lead through the collection; callbacks are obeyed |
| Content negotiation (`negotiation.go`) | admitted ranges, best quality per type | `NegotiateAccept`, `CheckContentType` | HTTP headers | selects what the header prefers; can read what it selects |
| Limits (`limits.go`), callback isolation (`callback.go`) | - | defaults, panic conversion | all of the above | - |
| Wire model (`document.go`, decoders of `codec.go`) | values and whether they are present | constructors, encoders, strict decoders | document rules between building and encoding, decoding and use | what is built arrives; null, empty and absent stay apart; what is read can be written |
| Atomic wire model (`atomic_codec.go`, `atomic.go`) | the same, of operations, references and results | `MarshalAtomicWith`, `UnmarshalAtomicWith` | Atomic rules | as above; results that a server may send are answers to the client |
| Cursor metadata (`cursor_meta.go`), interoperability runner | - | page metadata and errors; replay of fixtures | - | data conversion; I/O |

How they call each other:

```
 payload --> scan --> Codec.Unmarshal --> ValidateWith --> document --> Codec.Marshal --> payload
                        |  member callbacks    |- document rules          |
                        |  profile callbacks   |- identity passes         (same callbacks)
                        |                      '- full linkage
 Accept / Content-Type --> Negotiator
 query --> QueryParser --> CursorPagination --> endpoint --> CursorPage.ValidateAt --> links --> query
 atomic document --> atomic rules --> ExecuteAtomic <--> AtomicTransaction (application)
```

## The modules

A module models one component or composes some; `MC...` instantiates it for TLC,
`...Proofs` holds its theorems. One action is one iteration of a loop, one stage of a
pipeline, one token, one link or one callback with each of its outcomes. Resource types,
names and texts are abstract values; a sequence is indexed from one, where the code
counts from zero (an index of 0 is the code's -1).

| Module | Models | State and actions |
|---|---|---|
| `Identities` | the keys of `validation.go`: type with id, type with lid | operators only |
| `AtomicRules` | `validateAtomicOperation(s)`, `validateAtomicResult` and their helpers | operators: `OperationValid`, `RefUses`, `DataUses`, `Assigns`, `ResultsValid` |
| `AtomicRequests` | the requests that a call may be given | the constant they share |
| `AtomicRequestPass` | the loop of `validateAtomicOperations` | `cursor`, `assigned`, `violations`; an action per iteration |
| `AtomicExecution` | `ExecuteAtomic` and the `*Safely` wrappers, the request judged in one step | `pc` is the next statement; `store`, `applied`, `commits`, `rollbacks` are the application's transaction; `late` counts callbacks started after cancellation; `Cancel` interleaves anywhere |
| `AtomicCall` | a whole call: the execution above, its request judged by the pass | `Scan` is an iteration of the pass, `Admit` acts on its verdict, `Run` is the rest of the execution, `Interrupt` a cancellation |
| `AtomicPromise` | nothing in the code: the abstract promise, *all together in order or not at all, and the answer claims no more* | `request`, `durable`, `answer` |
| `ResourceGraph` | resources, linkage and reachability as the validators see them | operators, with the declarative `Linked` |
| `ValidatedDocument` | the document that the passes below share | `document` |
| `IncludedLinkage` | `validateIncluded` | `queue`, `reachable`, `followed`; identifiers found in one step join the queue in any order, for the map they come from |
| `DocumentIdentity` | `validateDocumentIdentity` and `validateLocalIdentities` | `canonical`, `byID`, `byLID`; an action per iteration of either loop |
| `DocumentPasses` | the calls of `validateDocument`: linkage, then identity, on one document | the state and the actions of both |
| `LinkChain` | `validateLinkAt`, `validateLinkStateMembersAt` and `Link.MarshalJSON` on links built with pointers | `at`, `depth` and `ancestors` are those of the walker at work; an action per link |
| `DocumentCodec` | the encoders and strict decoders of all types of documents and Atomic documents | operators `Encode...`, `Decode...` between JSON values and Go values, in tiers: plain members, flat structs, links, relationships and errors, resources, whole documents |
| `DocumentValues` | the types and constructors of `document.go` and `atomic.go`: what an application may build | operators only |
| `DocumentMeaning` | nothing in the code: what a payload says and how a document is read, member by member | operators `EssenceOf...` on payloads, `...AsRead` on documents |
| `DocumentRules` | `validateDocument` by context | operators on Go values; linkage and identity are the declarative rules of `ResourceGraph` that the passes decide |
| `AtomicDocumentRules` | `AtomicDocument.ValidateWith` | operators; a view of each Go value is what `AtomicRules` sees of it |
| `DocumentExchange` | `MarshalWith`, `UnmarshalWith` and their Atomic counterparts between a sender and a receiver | `sent`, `wire`, `held`; an action per call |
| `DecodeScan` | `rejectDuplicateMembersWithLimits` | `stack` is the recursion, a frame per open object or array; an action per token, so the text is chosen as it is read |
| `Negotiation` | `NegotiateAccept` over parsed media ranges, `CheckContentType` | `ranges`, `representations`, `best`, `selected`; an action per candidate, per match and per ranking |
| `QueryAdmission` | `Parse` and `validateLimits`, `CursorPagination.admit` | `pending` is what is left of a map, taken in any order; `bytes`, `counted` are the budgets |
| `CursorPaging` | `ParseQuery` with the callbacks that are configured, the endpoint (external), `ValidateAt`, a client that follows links (external) | `validators` are the callbacks that are not nil; `request`, `page`, `walked` |
| `CodecPipeline` | `NewCodec`, `Codec.Unmarshal`, `Codec.Marshal` | `document` is a tree of JSON objects, `visited` the ones entered by the sanitizers, depth first and with the entries of maps in any order; `members` those extracted; the product of a call is the input of the next |

How they build on each other:

```
 Identities --> AtomicRules --> AtomicRequests --> AtomicRequestPass --\
     |              |                 '----------> AtomicExecution ------> AtomicCall ..> AtomicPromise
     |              '--> AtomicDocumentRules <---\
     '--> ResourceGraph --> DocumentRules -------'--> DocumentExchange <-- DocumentMeaning, DocumentValues
                 |               '--- DocumentCodec --------------------------^
                 '--> ValidatedDocument --> IncludedLinkage, DocumentIdentity --> DocumentPasses
```

Three compositions carry weight. `AtomicCall` replaces the one step in which
`AtomicExecution` judges the request by the code's loop: that this is a
refinement is checked (`ImplementsExecution`) and proved. `DocumentPasses` relates
what the two passes find on one document: the lookups of one are only sound if the
other has accepted (`LeadsToEachIncluded`). `DocumentExchange` uses the declarative
rules that the other modules show the loops to decide, so that a whole exchange is
three steps. Its codec is written in tiers, as the types contain each other, and free values
are bounded by `MaxNestingDepth`, which the scan before it enforces (four in the run).
`QueryAdmission` hands an accepted query to `CursorPaging`, which
assumes input within the limits.

## The runs

| Run | Properties | Bounds |
|---|---|---|
| `atomic_call` | `PassDecidesOperationsValid`, `RollbackExactlyOnce`, `CommitOnlyWhole`, `FailureNamesProgress`, `LocalIdentitiesResolve`, `OpenOnlyIfReported`, `AtMostOneLateCall`, `ImplementsExecution`, `KeepsPromise`, `Settles` | requests of up to three operations out of five kinds, every two operations that take part in resolving local identities, every shape of a single operation; all outcomes of all callbacks; a cancellation at any step |
| `document_passes` | `ReportsUnlinkedExactly`, `FollowsOnce`, `DuplicatesExactly`, `ConflictsExactly`, `LookupsUnambiguous`, `LeadsToEachIncluded`, `PassesEnd` | up to three included resources with every linkage between them; every three resources over two ids and two lids; pairs whose relationships repeat or contradict their names |
| `link_chain` | `VerdictExact`, `EncodesBounded`, `Returns` | chains of up to five links with every way back, around a limit of three; a fault or a stray member at any link |
| `document_exchange` | `DeliversWhatIsSent`, `RelaysWhatItReads`, `AcceptsWhatContextDemands` | documents and Atomic documents of every form, each with every single place changed, mutations and Atomic requests with two; strings marked as present or not; every validation context, with expected types, ids, counts and operations |
| `decode_scan` | `ScanExact`, `ScanBounded` | every text over three names, with limits of 6 values, depth 3, 2 members, 2 items: each limit is reached before and after each other |
| `negotiation` | `SelectsPreferred`, `SelectedIsReadable` | every header of up to three ranges, each with one of three qualities; a supported and an unsupported extension and profile |
| `query_admission` | `LimitsExact`, `AdmitExact`, `AdmitsParsed` | up to four parameters whose sizes lie around limits of two to nine |
| `cursor_paging` | `TypeOK`, `CallbacksObeyed`, `DeliveredIsFull`, `LinksLeadThrough` | five results, pages of one or two, each parameter absent, valid, too large, repeated or unknown; with and without ranges and each validator; an unbounded number of requests |
| `codec_pipeline` | `TypeOK`, `CarriesRegistered`, `ReportsEveryFault`, `AcceptsItsOwn`, `RoundTrip`, `ReturnsWhatWasValidated` | three documents that have objects of all nine scopes, with up to two additional members anywhere; 49 configurations; two calls in a row |
| `document_aliases`, `link_chain_at_links`, `codec_at_members` | one each, violated | see [below](#where-code-and-documentation-disagree) |

What they show:

- **Atomic execution** keeps the promise that a client is given whatever the
  transaction's callbacks do and whenever the context is cancelled, also while the
  request is still being validated: the refinement `KeepsPromise` is checked against
  `AtomicPromise`, with `durable` the operations of a committed store and `answer` what
  the error's phase claims. A commit that fails is *uncertain*, for a failed commit may
  have taken effect. The promise knows nothing of results: that none are committed which
  do not correspond to their operations is `CommitOnlyWhole`. `PassDecidesOperationsValid` says that the pass is the rules
  stated without a loop, `LocalIdentitiesResolve` ties it to the run-time order.
- **Full linkage** is reachability in every order that Go's maps allow, also in
  cycles, and each identifier is followed once. **The identity passes** miss no
  duplicate or contradiction among the objects' names and report none that is not
  there. Together they mean that each included resource of an accepted document is led
  to by an identifier that finds no other one. `PassesEnd` is the place where an
  implementation mistake (requeueing what was followed) would hang a server.
- **Link chains**: the two walkers agree with the chain and with each other, at the limit
  and one beyond it, although neither has the root, of which it was given a copy, among
  its ancestors; nothing they enter reaches the encoder without an end.
- **Exchange**: a receiver that demands no more accepts what a sender writes and
  reads what was built, present empty members included; what a receiver accepts it
  can write, and writes what it read but for the members it ignores. The contexts differ
  in their demands and in nothing else: the declarative `Demands` and
  `AtomicDemands` are stated on the payload, the code judges the Go values. For Atomic
  documents it joins the two sides of a commit: the results that a server may answer
  the operations it has *read* with are those a client accepts for the operations it
  has *built*. `DeliversWhatIsSent` leaves out sent documents with unregistered
  members, which `MarshalAtomic` writes without looking, and those with a relationship
  that has no member but one a receiver ignores (both [below](#where-code-and-documentation-disagree)).
- **The scan** refuses at the first token that breaks a rule, names that rule, and
  reads at most `3 * MaxTotalValues + 1` tokens of any text.
- **Negotiation**: the most specific range decides the quality, the highest
  quality wins, ties go to the lexical order, and the negotiator accepts in a
  request each type that it selects for a response.
- **Queries**: map order cannot change a verdict, and two implementations of the
  same limits agree at each boundary. `AdmitsParsed` is the case a user would
  meet: a page request that the parser accepted and pagination then refuses.
- **Paging**: an endpoint may present any page, but what `ValidateAt` lets through is
  what the page family asks for (a range without a size is full at the maximum, not at
  the default), and its links lead a client through every result, in order, without an
  empty page, also when it turns around. Five results are a range that holds more than
  the maximum. Where no `ValidateCursor` is configured a cursor that was never issued
  passes the parser, and the endpoint, which cannot decode it, refuses it.
- **The codec** returns in each object the members registered for that object, each
  accepted by its own validator, and no others; it reports every faulty member;
  it accepts what it has produced itself; it never returns a document that a
  profile has changed. `AcceptsItsOwn` has a condition that is itself of interest:
  a validator sees the @-Members inside a value when the document is marshalled and
  not when it is received, so one that looks at them makes `Unmarshal` refuse what
  `Marshal` wrote.

Why the bounds are enough: each loop has at most one accumulator that a later
iteration consults, so a case needs an iteration that sets it, one that meets it
and one in between; three operations, resources, ranges and parameters give that. A
decoder, an encoder or a rule looks at one place of a document and, for the rules that
relate two members, at a second one. The limits are small enough for every one of them
to be exceeded alone, together with another, and met exactly. For the properties that
are also proved the bounds do not matter. The walkers' chain is bounded by the number of
cells, which exceeds the limit by one.

`CHECK_DEADLOCK FALSE` is set for `cursor_paging`, `codec_pipeline`,
`codec_at_members` and `document_exchange`: a callback that ends its goroutine ends the
behaviour, a codec call has no successor after `MaxCalls`, and an exchange ends when
its document has been relayed or refused. The other modules have an explicit final
step.

**Fairness.** The library schedules nothing; what is assumed is that sequential code
goes on. `AtomicCall!FairCallSpec` assumes `WF(Work)`: the call does not wait by
itself, and its callbacks return or end their goroutine, which the documentation of
`ExecuteAtomic` leaves to the application ("Blocking and goroutine termination are not
isolated"). Cancellation is not fair: `Settles` holds with and without it.
`DocumentPasses!PassesSpec` assumes `WF(Passes)` and `LinkChain!ChainFairSpec` `WF(Visit)`: a
loop without calls to others goes on.

## The proofs

TLAPS proves, for every value of the constants:

| Module | Theorems |
|---|---|
| `AtomicCallProofs` | of the execution: `TypeCorrect`, `RollsBackExactlyOnce`, `CommitsOnlyWhole`, `FailuresNameProgress`, `LocalIdentitiesAlwaysResolve`, `NeverOpenInSilence`, `CancellationStopsWork`, `FailureEndsWork` (an action property), `ImplementsPromise` (refinement); of the pass: `PassTypeCorrect`, `PassDecides`; of the whole call: `CallPassDecides`, `CallImplements` (refinement), `CallKeepsPromise` (refinement), `CallResolvesLocalIdentities` |
| `DocumentProofs` | of full linkage: `LinkageTypeCorrect`, `LinkageExact`, `NothingFollowedTwice`; of identity: `IdentityTypeCorrect`, `DuplicatesAreExact`, `ConflictsAreExact`, `LookupsAreUnambiguous`; of both: `PassesTraverse` and `PassesIdentify` (refinements), `LeadsUnambiguously`; of the exchange: `RelaysFaithfully`, `DeliversFaithfully` |
| `AcceptanceProofs` | of the exchange: `AcceptsExactly` |
| `NestingProofs` | of the scan: `TypeCorrect`, `ScanIsBounded`, `ScanIsExact`; of link chains: `ChainTypeCorrect`, `EncodesOnlyBounded`, `VerdictIsExact` |
| `NegotiationProofs` | `TypeCorrect`, `PreferenceHolds`, `SelectionIsReadable` |
| `QueryAdmissionProofs` | `TypeCorrect`, `LimitsAreExact`, `AdmissionIsExact`, `AdmitsWhatIsParsed` |
| `CursorPagingProofs` | `TypeCorrect`, `CallbacksAreObeyed`, `DeliveredAreFull`, `LinksAlwaysLeadThrough` |
| `CodecPipelineProofs` | `TypeCorrect`, `CarriesWhatIsRegistered`, `ReportsAllFaults`, `AcceptsItsOwnProducts`, `MembersRoundTrip`, `ReturnsTheValidated` |

Each has an inductive invariant, a lemma that the initial states satisfy it, one
per action (or a step per action) that it is preserved, and the theorems as
consequences. What the invariants add to the properties:

- *Atomic execution*: while work is under way the store is open and as many
  operations are applied, and results collected, as the index says; after the commit
  call everything is applied and the results correspond; after a failure its phase
  fixes the store and the count. Without these a state in which a commit follows half
  a request would be a counterexample to induction. The refinement needs them to
  show that `durable` jumps from nothing to the whole request.
- *Request pass*: `assigned` is what the operations before the cursor assign. The rules
  about references then agree index by index.
- *Call*: no invariant of its own. A step of the pass stutters in the execution; the step
  that ends it is the execution's step of validation, because the pass has decided the
  same rules and its request is still the caller's. Every theorem about the execution
  then holds of the call, cancellation during the pass included.
- *Full linkage*: what was followed or is queued is exactly the linkage of primary
  data and of the resources reached (`Frontier`), what followed identifiers lead to is
  reached, and no set closed under linkage leaves out something reached. When the
  queue is empty the reached set is itself closed, hence the least such set: this is
  how reachability is proved without induction over paths.
- *Identity*: each map holds the first occurrence of its key among the items passed,
  so comparing with the first finds a disagreement whenever any two disagree.
- *Exchange*: what a receiver holds is what it has read, and accepted, of the payload that
  reached it (`RelayInv`). The rest are lemmas about the codec, one per tier, in the order
  the types contain each other (`FlatKept`, `LinkKept`, `ResourceKept`, `DocumentKept`,
  `AtomicKept`): what has been decoded and is *sound* is encoded as its essence. Sound is
  what the codec cannot do alone and the rules must have seen to: a string that is always
  written (`type`, `href`, `op`) had a text, and no list that may hold no empty string
  (`ext`, `profile`, `hreflang`) had a null, which reads as one. So each rule's part in the
  round trip has its lemma (`ResourceIsSound`, `DataIsSound`, `OperationIsSound`, ...). No
  induction over data is needed: the types of JSON:API contain each other to a fixed depth,
  a chain of `describedby` is a sequence, and free values are encoded as they are held.
- *Exchange of what was built* (`DeliversFaithfully`): the invariant (`DeliverInv`) says that
  what is on the wire is the sender's document encoded, and what is held is that decoded and
  accepted. What remains is a statement about operators, `SentIsRead`, in four parts.
  First, tier by tier, what is encoded is decoded to what `...AsRead` says
  (`ResourceDelivered`, `WholeDelivered`, `AtomicDelivered`), if it is *deliverable*, which the
  sender's validation has seen to (`DocumentIsDeliverable`, `AtomicIsDeliverable`): only what has
  been validated may be relied upon, a valid link that is always written had an href, and so on.
  Second, a document that is valid is valid as it is read (`DocumentAsReadHolds`), although
  @-Members are gone and empty texts that were marked have other marks; for the identity rules,
  because the graph of what is read is the graph that was built (`GraphAsRead`). Third, a
  context that demands no more accepts it too (`DataIsWeaker`, `IncludedIsWeaker`). Fourth, for
  Atomic results: the server has judged them against the operations that it has *received*, the
  client judges them against those it has built, and both agree (`AnswersReceived`), whether or
  not those operations are valid.
- *Acceptance* (`AcceptsExactly`): the invariant (`AcceptInv`) only says that a payload which
  was refused or kept is one of those others may send, judged under the receiver's options.
  The rest compares two judgements, of the decoded value in a context and of the payload in
  none. The rules split into those that every context shares and two that depend on it
  (`DocumentParts`), so each context has a lemma that the latter are what it demands of the
  *value* (`CreateHeld`, `UpdateHeld`, `MutationHeld`, ...), and each demand on the value is one
  on the payload because what has been decoded is present exactly where the payload has it
  (`PlainIsHeld`, `PartIsHeld`, `MutatedData`). A resource to be created may have no name: then the
  same document with a new id (`Named`) is the one to judge, whose graph is that of the first
  but for one resource, which no identifier can mean (`GraphNamed`, `NameIsNew`). For Atomic
  results, an operation as it travels leaves the same room for an answer as the one that was
  asked (`OperationAnswered`, `ResultsAnswer`); that is so of valid operations only, which the
  property therefore presupposes: what is asked has been marshalled or has been accepted.
- *Link chain*: a walker stands at the end of a path as long as its depth, and the
  pointers on it are its ancestors. On a chain that ends no link repeats: of the
  repetitions take the one that ends first; the links below it repeat too, up to the end,
  which has no successor. So a walker that meets an ancestor is on a chain with no end.
- *Scan*: for its cost, a value pays for its own token, for its name and for its closing
  delimiter; `Len(text) <= 3 * values - Depth + Pending` is the account that is kept. For its
  verdict, the stack and the text tell the same story (`Matched`): the frame at depth `d` is
  that of the one token which opened at that depth and is not closed (`OpensAt`), and its
  count and its names are those of that token's children (`Describes`). A further token then
  belongs to what opens innermost and to nothing else (`BelongsToTop`), so it changes one
  count of the declarative parse and one frame. What a further token changes is proved of
  any text, before the steps of the scan are looked at.
- *Negotiation*: the best match so far among the ranges passed, and the best selection
  among the types ranked; both are maxima of a lexicographic order.
- *Both passes*: a step of the composition is a step of one pass and a stutter of the
  other, on a document that neither changes, so all that is proved of a pass holds of
  it. In addition, whatever is reached was found by an identifier that has been followed
  (`FoundByFollowed`). The traversal has reached every included resource of an accepted
  document, and the identity passes, which have accepted it too, leave no second
  resource that the same identifier finds.
- *Queries*: each total and each budget is the sum, over the names that the loop has
  passed, of what a name charges, so it does not depend on the order. A sum is a fold over
  a function, which is recursive; what is proved of it, that it is a natural, that one more
  term adds its value and that no part exceeds the whole, is proved by induction on the
  cardinality of subsets of the domain, a property of a set and not of an operator.
  `AdmissionIsExact` needs in addition that a loop which subtracts from what is left refuses
  at the same term as one which adds up to a limit.
- *Paging*: the reading position. What the client has walked is a run of consecutive
  results (`InOrder`) that ends where the page at hand does (`Delivered`); the request that
  follows a link has the cursor of that end and no other parameter that could move it
  (`FollowsLink`), and the page given to it adjoins the cursor (`Adjacent`). A page
  that `ValidateAt` lets through holds as much as its size or the collection allows; that
  this is what the page family asked for, size, cursors and all, needs the request to be the
  family's in each part that has been parsed (`RequestParsed`).
- *Codec*: what a registry must be (`Registry`), what has been extracted so far is what is
  registered for each object visited (`Extracting`), what has been reported are the faults
  of exactly the objects visited (`Reporting`), and what each step of a call leaves behind:
  `Gates` says which checks a document at that step has passed, and `Sources` that the
  input of a call which is the product of another has passed all of that call's. The last one
  is what `AcceptsItsOwn` and `RoundTrip` rest on: a document without faults and within the
  core rules is read back without a refusal, because validators and rules answer alike.

`RelaysFaithfully`, `DeliversFaithfully` and `AcceptsExactly` have a hypothesis, `NoneIsNoView`: that `None` is not a record, which no
formula that TLC can evaluate says and which a model value satisfies.

Assumptions on constants, all checked by TLC in the runs: requests are sequences
(`RequestsAreSequences`), `None` is no failure, documents are well formed
(`DocumentsWellFormed`), entries of links and their cells are (`EntriesWellFormed`,
`CellsAreNoRoot`, `DepthIsNatural`), limits are positive (`LimitsArePositive`, which
`normalizeDecodeLimits` and `normalizeQueryLimits` establish), names are no tokens
(`NamesAreNames`), the text of a content type ranks it alone (`RanksDiffer`), headers are well
formed and the bare type is a content type; a query is a finite map of parameters
(`QueriesTyped`) in which the texts of lists are those of their items (`QueriesWellFormed`); an
endpoint's sizes are in order (`ConfigIsValid`, which `NewCursorPagination` checks) and page
families map parameters to lists (`FamiliesTyped`); documents
and options of the codec have their types, and a Go document has an object where its type has
one (`DocumentsTyped`, `OptionsTyped`); valid namespaces are neither empty nor `@`
(`NamespacesAreNamed`, see `validExtensionNamespace`); an empty text is no member name, no
absolute URI and no language tag (`EmptyIsNoName`); the options of an exchange have their
types (`OptionsWellFormed`), the documents that are built are Go values of their type, made with
the package's constructors (`BuiltAreValues`, with `DocumentValues`), the lists of a payload
are sequences (`PayloadsAreJSON`), and no name of JSON:API begins with `@` (`AtNamesBegin`). An
id that is missing is no text (`NoneIsNoText`), and `Fresh`, which only
`AcceptsWhatContextDemands` uses, is an id that no resource or identifier of a payload has
(`FreshIsNew`); there is one because payloads are finite. A chain of links nests no deeper than the receiver's scan
allows, which `BuiltAreValues` has from `IsLink`. They say what the Go types and those
functions say.

Only model-checked are the liveness properties `Settles`, `PassesEnd` and `Returns`: the
prover has no rule for fairness and ENABLED here. Every other property that a passing run
checks is also a theorem.

## Where code and documentation disagree

Three runs expect a violation, each of a sentence of the repository:

1. `document_aliases`: "A resource cannot appear twice through alternate id and lid
   aliases" (`docs/specification-decisions.md:163`); but if object one is known by id
   `1`, object two by lid `a`, and only an identifier `{id 1, lid a}` says that they are
   the same, the document is accepted.
2. `link_chain_at_links`: "Constructed recursive `describedby` chains use the package
   nesting limit and reject pointer cycles before encoding" (`docs/api.md:81`); but the
   rules do not enter a link whose name begins with `@` (`validation.go:557`), and an
   Atomic document has no walker of additional members, so `MarshalAtomic` hands such a
   link to `Link.MarshalJSON`, which follows its pointers without a limit.
3. `codec_at_members`: "Decoding ignores @-Members" (`docs/api.md:60-61`, and decision
   DEC-001 for `Codec.Unmarshal`); but the sanitizers enter the links and relationships
   whose names begin with `@`, refuse the payload if such a relationship is not an
   object, and call validators of registered members inside.

Observations that have no run of their own:

- "local references may depend only on assignments introduced by prior operations"
  (`atomic.go:331`, and the message at `atomic.go:429`); but an `add` operation may link
  to the local identity that it assigns itself (`atomic.go:348`), as
  `docs/conformance.md` says. `AtomicRules` has what the code does.
- `Parse` says that names are processed deterministically (`query.go:143`), but the
  limits are charged in map order, and where several parameters exceed theirs the
  refusal names whichever came first. The verdict is the same; `LimitsExact` checks
  that in every order.
- Additional members must be registered to be encoded, according to
  `docs/architecture.md:67` and `docs/troubleshooting.md:11`; `MarshalAtomic` checks
  none, so it writes unregistered extension members and extension links, some of which
  `UnmarshalAtomic` refuses. `DeliversWhatIsSent` fails without its condition.
- "They never satisfy required structural content" (`docs/api.md:61`, of @-Members; also
  `docs/specification-decisions.md:126`); but `hasRelationshipLink` counts an extension
  link under any name (`validation.go:410`), so a relationship that has such a link under
  `@m` and nothing else is valid and is marshalled, and whoever reads it ignores the link
  and refuses the relationship. The documents of the run contain one;
  `DeliversWhatIsSent` leaves it out (`HasContent`) and fails if it does not.
- A link in string form that was given a relation (`WithRel`) or another target
  attribute is written as its bare href, without it (`document.go:548` calls the relation
  present). In the model a link in string form has an href only.
- A `LinkHreflang` that was never given a language is written as an empty string, which a
  receiver refuses. The model's applications build none.

## What is not modelled

- *Text*: the syntax of member names, URIs, media types, qualities, language tags and
  page cursors, and the wording of errors. Where a property needs the verdict it is an
  attribute of the value ("malformed", "valid") or membership in the set `Valid` has for
  that kind of text. Texts are not compared byte by byte: that names which are not valid
  UTF-8 collapse to the same replacement character is outside the model.
- *Violations as a list*: `DocumentRules` and `AtomicDocumentRules` give a verdict. Codes,
  paths and the order of violations are left out, but where a module's loop records them
  (`AtomicRequestPass`, `DocumentIdentity`, `IncludedLinkage`, `LinkChain`, `CodecPipeline`).
- *Document rules inside other modules*: one verdict of the whole document in
  `AtomicCall` (`envelope`) and `CodecPipeline` (`core`), whose contents
  `AtomicDocumentRules` and `DocumentRules` are.
- *Decoding in `CodecPipeline`*: what types it demands of known members is one attribute of
  an object (`isDecodable`); `DocumentCodec` has them all.
- *Strings in arrays*: a null element of an array of strings becomes an empty string
  (`encoding/json`); the rules refuse it afterwards in `ext`, `profile` and `hreflang`.
- *Mutation by member validators or by an Atomic transaction*: the documentation forbids
  the first and nothing detects it; operations handed to `ApplyAtomic` share their data
  with the request, which is documented as borrowed. The model's callbacks do not mutate.
  Profiles do, and one that mutates in a way JSON does not show counts as not mutating.
- *Marshal's order*: an object's own members are judged before those of the objects in
  it, where the code sometimes does the reverse. Every one is judged in any case.
- *Encoding limits*: limits bound decoding only, so an encoded document may exceed the
  limits of the decoder that receives it (a chain of links that may be built 64 deep, for
  one); `RoundTrip` and `DeliversWhatIsSent` speak of documents that do not.
- *Data races* between a caller and a borrowed document: the library documents that
  inputs must be stable.
- *Limits* (`limits.go`): defaults and normalisation, sequential and without state; the
  modules take effective limits as constants. *Cursor metadata* (`cursor_meta.go`):
  conversion of values. *Interoperability runner*: fixtures and I/O.

## The plan

Done, in this order: atomic rules, pass, execution and its promise; resource graph, full
linkage, identity passes; decode scan; negotiation; query admission; cursor paging; codec
pipeline; the compositions of pass with execution and of linkage with identity; link
chains; the wire model, the document rules and the exchange of documents, Atomic ones
too; the theorems of each of these, of the exchange that what is read is relayed, what is
built is delivered, and what is accepted is what the context demands. Next: limits and
cursor metadata, if they come to carry a property worth a run.
