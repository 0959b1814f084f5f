--------------------------- MODULE DocumentExchange ---------------------------
(***************************************************************************)
(* A document between two parties.  An application marshals a document it  *)
(* has built (MarshalWith), or someone else sends a payload; a receiver    *)
(* reads it (UnmarshalWith) and writes what it read (MarshalWith).  The    *)
(* parties need not agree on the validation context.  An Atomic document   *)
(* takes the same way (MarshalAtomicWith, UnmarshalAtomicWith); a server   *)
(* checks its results against the operations it has read, the client       *)
(* against those it has built.  The scan under limits that precedes        *)
(* decoding is DecodeScan; here it accepts.                                *)
(***************************************************************************)
EXTENDS AtomicDocumentRules, DocumentMeaning, DocumentValues

Roots == {"document", "atomic"}

CONSTANTS
  Built,      \* the documents an application may build, by root
  Payloads,   \* the payloads others may send, by root
  Options,    \* the options of validation, by root
  Fresh       \* an id that no resource of a payload has

ASSUME OptionsWellFormed ==
  /\ DOMAIN Options = Roots
  /\ \A o \in Options["document"] :
       /\ DOMAIN o = {"context", "type", "id", "sparse"}
       /\ o.context \in Contexts /\ o.sparse \in BOOLEAN /\ DOMAIN o.id = {"text", "present"}
  /\ \A o \in Options["atomic"] :
       /\ DOMAIN o = {"context", "count", "asked"}
       /\ o.context \in AtomicContexts /\ o.count \in Int
       /\ o.asked # Nil =>
            /\ DOMAIN o.asked = {"items"} /\ IsListOf("operation", o.asked)
            /\ \A operation \in ItemsOf(o.asked.items) : DataRegistered(operation.core.data)

ASSUME BuiltAreValues ==
  /\ \A d \in Built["document"] : IsWhole("document", d)
  /\ \A d \in Built["atomic"] : IsAtomic(d)
  /\ \A root \in Roots : Nil \notin Built[root]

\* Fresh serves AcceptsWhatContextDemands alone: no payload has a name like it.
ASSUME FreshIsNew ==
  /\ Fresh # None
  /\ \A payload \in Payloads["document"] :
       DecodeDocument(payload) # Refused =>
         \A r \in ItemsOf(GraphOf(DecodeDocument(payload)).resources) :
           r.id # Fresh /\ \A i \in ItemsOf(r.linkage) : i.id # Fresh

\* The lists of a payload are sequences.
ASSUME PayloadsAreJSON ==
  \A root \in Roots : \A payload \in Payloads[root] :
    payload.json = "object" =>
      \A n \in DOMAIN payload.members :
        payload.members[n].json = "array" => IsSequence(payload.members[n].items)

ASSUME NoneIsNoText == None \notin STRING

VARIABLES
  options,   \* the options of the parties: [sender, receiver]
  sent,      \* the document built, or Nil
  wire,      \* the payload on its way, or Nil
  first,     \* the payload that reached the receiver, or Nil
  held,      \* the document the receiver has read, or Nil
  pc         \* "write", "unsent", "read", "refused", "relay", "stuck" or "relayed"

exchangeVars == <<options, sent, wire, first, held, pc>>

\* The root of the documents an option is for.
Root(o) == IF o.context \in AtomicContexts THEN "atomic" ELSE "document"

\* Operations as the other party has read them.
Received(asked) ==
  IF asked = Nil THEN Nil ELSE DecodeAtomicOperations(EncodeAtomicOperations(asked))

\* What a receiver with options b accepts once a sender with options a has: the
\* same or fewer demands.
AdmitsAtomic(a, b) ==
  /\ a.context = b.context \/ b.context = "atomicGeneric"
  /\ a.count = b.count
  /\ a.asked = Received(b.asked)

AdmitsDocument(a, b) ==
  /\ a.type = b.type /\ a.id = b.id /\ a.sparse = b.sparse
  /\ \/ a.context = b.context
     \/ a.context # "create" /\ b.context = "generic"
     \/ a.context = "update" /\ b.context = "create"
     \/ a.context \in {"toOne", "toMany"} /\ b.context = "response" /\ ~a.sparse

Admits(a, b) == IF Root(a) = "atomic" THEN AdmitsAtomic(a, b) ELSE AdmitsDocument(a, b)

Parties(choices) == [sender : choices, receiver : choices]

ExchangeInit ==
  /\ \E root \in Roots :
       /\ options \in Parties(Options[root])
       /\ \/ /\ Admits(options.sender, options.receiver)
             /\ sent \in Built[root] /\ wire = Nil /\ pc = "write"
          \/ /\ options.sender = options.receiver
             /\ sent = Nil /\ wire \in Payloads[root] /\ pc = "read"
  /\ first = Nil
  /\ held = Nil

Decode(payload, opts) ==
  IF Root(opts) = "atomic" THEN DecodeAtomic(payload) ELSE DecodeDocument(payload)

Encode(document, opts) ==
  IF Root(opts) = "atomic" THEN EncodeAtomic(document) ELSE EncodeDocument(document)

Checked(document, opts) ==
  IF Root(opts) = "atomic" THEN AtomicDocumentValid(document, opts) ELSE DocumentValid(document, opts)

\* The checks of MarshalWith and of MarshalAtomicWith, which does not look at
\* additional members.
Marshals(document, opts) ==
  /\ Root(opts) = "document" => MembersRegistered(document)
  /\ Checked(document, opts)

Write ==
  /\ pc = "write"
  /\ IF Marshals(sent, options.sender)
     THEN pc' = "read" /\ wire' = Encode(sent, options.sender)
     ELSE pc' = "unsent" /\ UNCHANGED wire
  /\ UNCHANGED <<options, sent, first, held>>

\* The document UnmarshalWith or UnmarshalAtomicWith returns, or Refused.
Judged(document, opts) ==
  IF document # Refused /\ Checked(document, opts) THEN document ELSE Refused

Unmarshal(payload, opts) == Judged(Decode(payload, opts), opts)

Read ==
  /\ pc = "read"
  /\ \E document \in {Unmarshal(wire, options.receiver)} :
       IF document # Refused
       THEN pc' = "relay" /\ held' = document
       ELSE pc' = "refused" /\ UNCHANGED held
  /\ first' = wire
  /\ UNCHANGED <<options, sent, wire>>

Relay ==
  /\ pc = "relay"
  /\ IF Marshals(held, options.receiver)
     THEN pc' = "relayed" /\ wire' = Encode(held, options.receiver)
     ELSE pc' = "stuck" /\ UNCHANGED wire
  /\ UNCHANGED <<options, sent, first, held>>

ExchangeNext == Write \/ Read \/ Relay

ExchangeSpec == ExchangeInit /\ [][ExchangeNext]_exchangeVars

-----------------------------------------------------------------------------

\* The objects of a payload that is accepted.
ItemsAt(j) ==
  CASE j.json = "object" -> {j.members}
    [] j.json = "array"  -> {item.members : item \in ItemsOf(j.items)}
    [] OTHER             -> {}

DataOf(payload) == IF "data" \in DOMAIN payload.members THEN ItemsAt(payload.members.data) ELSE {}

IncludedIn(payload) ==
  IF "included" \in DOMAIN payload.members THEN ItemsAt(payload.members.included) ELSE {}

RelationshipsOf(resource) ==
  IF "relationships" \notin DOMAIN resource THEN {}
  ELSE LET members == resource.relationships.members
       IN {members[n].members : n \in DOMAIN members \ AtNames}

IdentifiersOf(resource) ==
  UNION {ItemsAt(r.data) : r \in {r \in RelationshipsOf(resource) : "data" \in DOMAIN r}}

\* What a context demands of a payload beyond the rules of every document.
Demands(payload, o) ==
  LET Shape(kinds) == /\ "data" \in DOMAIN payload.members
                      /\ "errors" \notin DOMAIN payload.members
                      /\ payload.members.data.json \in kinds
      Linkage1(kinds) == /\ Shape(kinds)
                         /\ \A r \in DataOf(payload) :
                              /\ "id" \in DOMAIN r
                              /\ DOMAIN r \cap {"attributes", "relationships", "links"} = {}
      AtEndpoint(r) == /\ o.type # "" => r.type.text = o.type
                       /\ HasText(o.id) /\ "id" \in DOMAIN r => r.id.text = o.id.text
      Mutation == /\ Shape({"object"})
                  /\ \A r \in DataOf(payload) :
                       /\ AtEndpoint(r)
                       /\ \A relationship \in RelationshipsOf(r) : "data" \in DOMAIN relationship
  IN CASE o.context = "generic" -> TRUE
       [] o.context = "response" ->
            \A r \in DataOf(payload) \cup IncludedIn(payload) :
              "id" \in DOMAIN r /\ \A i \in IdentifiersOf(r) : "id" \in DOMAIN i
       [] o.context = "create" -> Mutation
       [] o.context = "update" -> Mutation /\ \A r \in DataOf(payload) : "id" \in DOMAIN r
       [] o.context = "toOne"  -> Linkage1({"null", "object"})
       [] o.context = "toMany" -> Linkage1({"array"})

\* A resource to be created may be without a name: it is given one that no other has.
Named(payload) ==
  LET data == payload.members.data.members
  IN IF {"id", "lid"} \cap DOMAIN data # {} THEN payload
     ELSE Object([payload.members EXCEPT !.data =
            Object([n \in DOMAIN data \cup {"id"} |-> IF n = "id" THEN String(Fresh) ELSE data[n]])])

IsADocument(payload, o) == Unmarshal(payload, [o EXCEPT !.context = "generic"]) # Refused

AcceptsDocument(payload, o) ==
  /\ \/ IsADocument(payload, o)
     \/ /\ o.context = "create" /\ DecodeDocument(payload) # Refused
        /\ "data" \in DOMAIN payload.members /\ payload.members.data.json = "object"
        /\ IsADocument(Named(payload), o)
  /\ Demands(payload, o)

\* Of the operations as they travel: one on a resource may be answered with it,
\* and one that leaves the id of a new resource to the server must be.
OnResource(operation) ==
  /\ "data" \in DOMAIN operation /\ operation.data.json = "object"
  /\ "ref" \in DOMAIN operation => "relationship" \notin DOMAIN operation.ref.members

LeavesIdToServer(operation) ==
  /\ operation.op = String("add") /\ OnResource(operation)
  /\ "id" \notin DOMAIN operation.data.members

Answers(result, operation) ==
  IF "data" \in DOMAIN result
  THEN operation.op # String("remove") /\ OnResource(operation)
  ELSE ~LeavesIdToServer(operation)

AtomicDemands(payload, o) ==
  LET members == payload.members
      asked   == IF o.asked = Nil THEN <<>> ELSE EncodeAtomicOperations(o.asked).items
      count   == IF o.asked = Nil THEN o.count ELSE Len(asked)
      results == IF "results" \in DOMAIN members THEN members.results.items ELSE <<>>
  IN /\ o.count = 0 \/ (o.count > 0 /\ (o.asked = Nil \/ o.count = Len(asked)))
     /\ o.context = "atomicRequest" => "operations" \in DOMAIN members
     /\ o.context = "atomicResponse" =>
          /\ "operations" \notin DOMAIN members
          /\ o.asked # Nil \/ o.count > 0 =>
               "errors" \in DOMAIN members \/ Len(results) = count
     /\ \A k \in DOMAIN results \cap DOMAIN asked : Answers(results[k].members, asked[k].members)

AcceptsAtomic(payload, o) ==
  /\ Unmarshal(payload, [context |-> "atomicGeneric", count |-> 0, asked |-> Nil]) # Refused
  /\ AtomicDemands(payload, o)

\* What a receiver writes of a payload, and how it holds a document.
Essence(payload, opts) ==
  IF Root(opts) = "atomic" THEN EssenceOfAtomic(payload) ELSE EssenceOfWhole("document", payload)

AsRead(document, opts) ==
  IF Root(opts) = "atomic" THEN AtomicAsRead(document) ELSE WholeAsRead("document", document)

\* Whether a receiver without a registry knows or ignores each member, and whether
\* each relationship is left with a member when the ignored ones are gone.
HasKnownMembers(document, opts) ==
  IF Root(opts) = "atomic" THEN AtomicMembersRegistered(document) ELSE MembersRegistered(document)

HasContent(relationship) ==
  LET core == relationship.core
  IN \/ core.data # Nil \/ core.meta # Nil
     \/ core.links # Nil /\ {"self", "related"} \cap DOMAIN core.links.entries # {}

DataHasContent(data) ==
  data = Nil \/
    \A resource \in ItemsOf(data.items) :
      LET relationships == resource.core.relationships
      IN relationships = Nil \/
           \A n \in DOMAIN relationships.entries \ AtNames : HasContent(relationships.entries[n])

Understood(document, opts) ==
  LET core == document.core
  IN /\ HasKnownMembers(document, opts)
     /\ IF Root(opts) = "atomic"
        THEN \A member \in {"operations", "results"} :
               core[member] = Nil \/
                 \A item \in ItemsOf(core[member].items) : DataHasContent(item.core.data)
        ELSE DataHasContent(core.data) /\ DataHasContent(core.included)

\* What a sender in one context has written, a receiver whose context demands no
\* more accepts, and it reads the document that was built: with every member that
\* was present, empty strings and empty containers included.  Results that a server
\* may answer the operations it has read with, the client accepts for those it has
\* built.  MarshalAtomic writes members that nothing has registered, and a receiver
\* need not understand these; nor need it accept a relationship whose only member it
\* ignores, which validation counts as content (hasRelationshipLink).
DeliversWhatIsSent ==
  sent # Nil /\ Understood(sent, options.sender) =>
    /\ pc # "refused"
    /\ held # Nil => held = AsRead(sent, options.sender)

\* Whatever a receiver accepts it can write in the same context, and it writes
\* what it has received but for the members it ignores: null and absent, null and
\* empty, one and many stay apart.
RelaysWhatItReads ==
  /\ pc # "stuck"
  /\ pc = "relayed" => wire = Essence(first, options.receiver)

\* The contexts differ in what they demand of data, identities and linkage and in
\* nothing else: a payload is accepted in a context exactly when it is a document,
\* a resource to be created having been given a name, and meets the demands; an
\* Atomic one when it has what its context is for, and each of its results is an
\* answer to its operation, if those are operations that a server accepts.
AcceptsWhatContextDemands ==
  pc \in {"refused", "relay"} /\ sent = Nil =>
    LET o == options.receiver
    IN IF Root(o) = "atomic"
       THEN AtomicOperationsValid(o.asked) => (pc = "relay" <=> AcceptsAtomic(first, o))
       ELSE pc = "relay" <=> AcceptsDocument(first, o)
=============================================================================
