------------------------------- MODULE CodecPipeline -------------------------------
(***************************************************************************)
(* The checked codec of member_codec.go: NewCodec registers extension      *)
(* members and profiles, Codec.Unmarshal takes the registered members out  *)
(* of a payload, decodes the rest and puts them back, Codec.Marshal judges *)
(* the members of a document, and both end with the core rules, the        *)
(* declarations and the validators of the profiles.                        *)
(*                                                                         *)
(* A document, or the payload that encodes it, is a sequence of the JSON   *)
(* objects that the codec enters: what each is (its kind), the object it   *)
(* is in and the member or map key that holds it; parents come first, and  *)
(* the items of an array in their order.  Its additional members are a     *)
(* function from names to values.  A name is a pair: its namespace, "@" or *)
(* "" for none, and what follows.  Of a value it matters whether it has    *)
(* @-Members inside and whether encoding/json can encode it.               *)
(*                                                                         *)
(* What the core decoder thinks of the rest of an object, and the scan and *)
(* ValidateWith of the whole document, is given with it; the callbacks     *)
(* always answer alike.                                                    *)
(***************************************************************************)
EXTENDS Naturals, Sequences, FiniteSets

CONSTANTS
  Options,        \* CodecOptions that an application gives to NewCodec
  Documents,      \* the documents that it marshals
  Payloads,       \* the payloads that it receives
  AbsoluteURIs, Namespaces, Suffixes,  \* the valid ones
  NameRank,       \* the order of names: sort.Strings
  MaxCalls        \* how many calls follow each other

Kinds == {"document", "jsonapi", "links", "link", "resource", "relationships", "relationship",
          "identifier", "error", "source"}
Values == {"plain", "at", "unencodable"}

ObjectRecords ==
  [kind : Kinds, parent : Nat, key : STRING \X STRING,
   members : UNION {[names -> Values] : names \in SUBSET DOMAIN NameRank},
   isObject : BOOLEAN, isDecodable : BOOLEAN]

DocumentRecords ==
  [objects : Seq(ObjectRecords), present : SUBSET Nat, core : {"ok", "scan", "rules"},
   ext : SUBSET STRING, profile : SUBSET STRING]

Profiles == [uri : STRING, validate : {"none", "ok", "error", "panic", "exit", "mutate"}]

\* A document in memory has an object where its type has one; a payload may not.
ASSUME DocumentsTyped ==
  /\ Documents \cup Payloads \subseteq DocumentRecords
  /\ \A given \in Documents \cup Payloads : given.present = DOMAIN given.objects
  /\ \A given \in Documents :
       /\ given.core # "scan"
       /\ \A n \in given.present : given.objects[n].isObject /\ given.objects[n].isDecodable

ASSUME OptionsTyped == MaxCalls \in Nat /\ \A given \in Options : given.profiles \in Seq(Profiles)

\* The valid namespaces are alphanumeric and not empty.
ASSUME NamespacesAreNamed == {"", "@"} \cap Namespaces = {}

VARIABLES
  options,    \* the options given to NewCodec
  codec,      \* what it made of them
  pc,         \* the step of the call, or what became of it
  call,       \* "Marshal" or "Unmarshal"
  calls,      \* the calls made so far
  origin,     \* whose product the input of this call is
  document,   \* the input: its objects, declarations and the verdicts of the core
  members,    \* the members extracted from each object, then those of the document returned
  visited,    \* the objects that extraction or validation has entered
  faults,     \* the violations found among members: <<object, name>>
  profile,    \* the profiles validated so far
  changed     \* whether a profile has changed what encodes the document

vars == <<options, codec, pc, call, calls, origin, document, members, visited, faults, profile,
          changed>>

-----------------------------------------------------------------------------
(* NewCodec *)

MemberScopes == {"TopLevel", "Resource", "Relationship", "Identifier", "JSONAPI", "Error",
                 "ErrorSource", "LinksObject", "LinkObject"}

NoCodec == [members |-> {}, extensions |-> {}, profiles |-> <<>>]

Distinct(list, Key(_)) == \A i, j \in DOMAIN list : Key(list[i]) = Key(list[j]) => i = j

\* Bug: a name may be in another extension's namespace.
IsExtensionAnyName(extension) ==
  /\ extension.uri \in AbsoluteURIs
  /\ extension.namespace \in Namespaces
  /\ \A k \in DOMAIN extension.members :
       /\ extension.members[k].scope \in MemberScopes
       /\ extension.members[k].name[2] \in Suffixes
  /\ Distinct(extension.members, LAMBDA member : <<member.scope, member.name>>)

IsExtension(extension) ==
  /\ extension.uri \in AbsoluteURIs
  /\ extension.namespace \in Namespaces
  /\ \A k \in DOMAIN extension.members :
       /\ extension.members[k].scope \in MemberScopes
       /\ extension.members[k].name[1] = extension.namespace
       /\ extension.members[k].name[2] \in Suffixes
  /\ Distinct(extension.members, LAMBDA member : <<member.scope, member.name>>)

AreOptions(given) ==
  /\ \A k \in DOMAIN given.extensions : IsExtension(given.extensions[k])
  /\ Distinct(given.extensions, LAMBDA extension : extension.uri)
  /\ Distinct(given.extensions, LAMBDA extension : extension.namespace)
  /\ \A k \in DOMAIN given.profiles : given.profiles[k].uri \in AbsoluteURIs
  /\ Distinct(given.profiles, LAMBDA each : each.uri)

CodecOf(given) ==
  [members    |-> UNION {{given.extensions[k].members[i] : i \in DOMAIN given.extensions[k].members} :
                           k \in DOMAIN given.extensions},
   extensions |-> {given.extensions[k].uri : k \in DOMAIN given.extensions},
   profiles   |-> given.profiles]

NoDocument == [objects |-> <<>>, present |-> {}, core |-> "ok", ext |-> {}, profile |-> {}]

Init ==
  /\ options \in Options
  /\ codec = NoCodec
  /\ pc = "new" /\ call = "none" /\ calls = 0 /\ origin = "application"
  /\ document = NoDocument
  /\ members = <<>> /\ visited = {} /\ faults = {} /\ profile = 0 /\ changed = FALSE

NewCodec ==
  /\ pc = "new"
  /\ \/ AreOptions(options) /\ codec' = CodecOf(options) /\ pc' = "given"
     \/ ~AreOptions(options) /\ pc' = "no codec" /\ UNCHANGED codec
  /\ UNCHANGED <<options, call, calls, origin, document, members, visited, faults, profile, changed>>

-----------------------------------------------------------------------------
(* The objects of a document *)

Objects == document.present

Kind(n) == document.objects[n].kind
Parent(n) == document.objects[n].parent

\* The scope that the codec gives to each object it enters; a relationships object has none.
ScopeOf(n) ==
  [document |-> "TopLevel", jsonapi |-> "JSONAPI", links |-> "LinksObject", link |-> "LinkObject",
   resource |-> "Resource", relationships |-> "None", relationship |-> "Relationship",
   identifier |-> "Identifier", error |-> "Error", source |-> "ErrorSource"][Kind(n)]

Definitions(n) == {member \in codec.members : member.scope = ScopeOf(n)}
RegisteredNames(n) == {member.name : member \in Definitions(n)}
Validate(n, name, value) ==
  (CHOOSE member \in Definitions(n) : member.name = name).validate[value]

\* n and the objects it is in.
Within(n) ==
  LET up[m \in 0..Len(document.objects)] == IF m = 0 THEN {} ELSE {m} \cup up[Parent(m)]
  IN  up[n]

IsAt(name) == name[1] = "@"
UnderAt(n) == \E m \in Within(n) : document.objects[m].key[1] = "@"

-----------------------------------------------------------------------------
(* The order in which objects are entered *)

UnmarshalOrder == [jsonapi |-> 1, links |-> 2, relationships |-> 3, data |-> 4, included |-> 5,
                   errors |-> 6, source |-> 7, describedby |-> 8]
MarshalOrder == [UnmarshalOrder EXCEPT !.errors = 3]

\* The entries of links and relationships are in a map: any order.
ComesBefore(m, n) ==
  /\ Parent(m) = Parent(n) /\ m # n
  /\ n # 1 /\ Kind(Parent(n)) \notin {"links", "relationships"}
  /\ LET order == IF call = "Marshal" THEN MarshalOrder ELSE UnmarshalOrder
         at(k) == order[document.objects[k].key[2]] IN
     at(m) < at(n) \/ (at(m) = at(n) /\ m < n)

\* Depth first: nothing else is entered while an object has one that is not.
CanEnter(n) ==
  /\ n \notin visited
  /\ n = 1 \/ Parent(n) \in visited
  /\ \A m \in Objects : ComesBefore(m, n) => m \in visited
  /\ \A m \in Objects \ visited, v \in visited : v \in Within(m) => v \in Within(n)

-----------------------------------------------------------------------------
(* Codec.Unmarshal: the scan, and what is extracted before decoding *)

Start(which, given, from) ==
  /\ calls < MaxCalls
  /\ calls' = calls + 1
  /\ call' = which /\ origin' = from /\ document' = given
  /\ pc' = IF which = "Marshal" THEN "members" ELSE "scan"
  /\ members' = [n \in given.present |-> <<>>]
  /\ visited' = {} /\ faults' = {} /\ profile' = 0
  /\ UNCHANGED <<options, codec, changed>>

CallMarshal == pc = "given" /\ \E given \in Documents : Start("Marshal", given, "application")
CallUnmarshal == pc = "given" /\ \E given \in Payloads : Start("Unmarshal", given, "application")

Refuse == pc' = "refused" /\ UNCHANGED <<options, codec, call, calls, origin, document, profile>>

Continue(step) ==
  pc' = step /\ UNCHANGED <<options, codec, call, calls, origin, document>>

\* validateJSONPayload and rejectDuplicateMembersWithLimits, of DecodeScan.
Scan ==
  /\ pc = "scan"
  /\ \/ document.core = "scan" /\ Refuse
     \/ document.core # "scan" /\ Continue("extract") /\ UNCHANGED profile
  /\ UNCHANGED <<members, visited, faults, changed>>

\* Bug: a value reaches the validator, and the document, with the @-Members inside it.
StripKeeping(value) == value

\* stripAtMembers
Strip(value) == "plain"

Present(n) == RegisteredNames(n) \cap DOMAIN document.objects[n].members
Given(n, name) == document.objects[n].members[name]

\* callApplicationCallback makes an error of a panic; "none" is a member with no validator.
Passes(outcome) == outcome \in {"none", "ok"}

\* Of the members that are not accepted, the one whose validator is called first.
FirstOf(names) == CHOOSE name \in names : \A other \in names : NameRank[name] <= NameRank[other]

\* The sanitizers and extractMembers: an object that is none, or the first member that is
\* not accepted, ends the call; a validator may end the goroutine.
Extract(n) ==
  LET outcome(name) == Validate(n, name, Strip(Given(n, name)))
      failing == {name \in Present(n) : ~Passes(outcome(name))} IN
  /\ pc = "extract" /\ CanEnter(n)
  /\ visited' = visited \cup {n}
  /\ \/ /\ ~document.objects[n].isObject
        /\ Refuse /\ faults' = {<<n, <<"", "type">>>>} /\ UNCHANGED members
     \/ /\ document.objects[n].isObject /\ failing = {}
        /\ members' = [members EXCEPT ![n] = [name \in Present(n) |-> Strip(Given(n, name))]]
        /\ Continue("extract") /\ UNCHANGED <<profile, faults>>
     \/ /\ document.objects[n].isObject /\ failing # {}
        /\ IF outcome(FirstOf(failing)) = "exit"
           THEN Continue("gone") /\ UNCHANGED <<profile, faults>>
           ELSE Refuse /\ faults' = {<<n, FirstOf(failing)>>}
        /\ UNCHANGED members
  /\ UNCHANGED changed

\* decodeDocument judges the members it knows, and drops what is under an @-Member.
Decodable == \A n \in Objects : UnderAt(n) \/ document.objects[n].isDecodable

\* The members extracted from an object are attached to it where it was decoded.
Attached == [n \in {k \in Objects : ~UnderAt(k)} |-> members[n]]

DecodeAndAttach ==
  /\ pc = "extract" /\ visited = Objects
  /\ \/ ~Decodable /\ Refuse /\ UNCHANGED members
     \/ Decodable /\ members' = Attached /\ Continue("rules") /\ UNCHANGED profile
  /\ UNCHANGED <<visited, faults, changed>>

-----------------------------------------------------------------------------
(* Codec.Marshal: validateDocumentMembers *)

\* Bug: validators are only for what is received.
FaultyUnvalidated(n, name) ==
  \/ IsAt(name) /\ name[2] \notin Suffixes
  \/ ~IsAt(name) /\ name \notin RegisteredNames(n)

\* Bug: what is not registered is not looked at.
FaultyUnregistered(n, name) ==
  \/ IsAt(name) /\ name[2] \notin Suffixes
  \/ name \in RegisteredNames(n) /\ ~Passes(Validate(n, name, Given(n, name)))

\* validateScopedMembers
Faulty(n, name) ==
  \/ IsAt(name) /\ name[2] \notin Suffixes
  \/ ~IsAt(name) /\ (name \notin RegisteredNames(n) \/ ~Passes(Validate(n, name, Given(n, name))))

Ends(n, name) == name \in RegisteredNames(n) /\ Validate(n, name, Given(n, name)) = "exit"

\* Bug: an object with a violation hides those of the objects after it.
ValidateMembersOfFirst(n) ==
  LET names == DOMAIN document.objects[n].members IN
  /\ pc = "members" /\ CanEnter(n)
  /\ visited' = visited \cup {n}
  /\ \/ (\E name \in names : Ends(n, name)) /\ Continue("gone") /\ UNCHANGED faults
     \/ /\ \A name \in names : ~Ends(n, name)
        /\ faults' = IF faults = {} THEN {<<n, name>> : name \in {k \in names : Faulty(n, k)}}
                     ELSE faults
        /\ Continue("members")
  /\ UNCHANGED <<members, profile, changed>>

\* Every member of every object is judged, whatever was found before.  The code comes to
\* the links of a resource, a relationship or an error before its own members, which here
\* come first: all of them are judged in any case.
ValidateMembers(n) ==
  LET names == DOMAIN document.objects[n].members IN
  /\ pc = "members" /\ CanEnter(n)
  /\ visited' = visited \cup {n}
  /\ \/ (\E name \in names : Ends(n, name)) /\ Continue("gone") /\ UNCHANGED faults
     \/ /\ \A name \in names : ~Ends(n, name)
        /\ faults' = faults \cup {<<n, name>> : name \in {k \in names : Faulty(n, k)}}
        /\ Continue("members")
  /\ UNCHANGED <<members, profile, changed>>

MembersValid ==
  /\ pc = "members" /\ visited = Objects
  /\ \/ faults # {} /\ Refuse /\ UNCHANGED members
     \/ /\ faults = {} /\ Continue("rules") /\ UNCHANGED profile
        /\ members' = [n \in Objects |-> document.objects[n].members]
  /\ UNCHANGED <<visited, faults, changed>>

-----------------------------------------------------------------------------
(* What both calls end with *)

\* Document.ValidateWith
ValidateWith ==
  /\ pc = "rules"
  /\ \/ document.core = "rules" /\ Refuse
     \/ document.core # "rules" /\ Continue("declared") /\ UNCHANGED profile
  /\ UNCHANGED <<members, visited, faults, changed>>

ProfileURIs == {codec.profiles[k].uri : k \in DOMAIN codec.profiles}

HasJSONAPI == \E n \in Objects : Kind(n) = "jsonapi"

\* validateAppliedURIs: an absent declaration, {"absent"}, is not judged.
DeclaresApplied(declared, applied, allowUnknown) ==
  declared # {"absent"} =>
    /\ allowUnknown \/ declared \subseteq applied
    /\ applied \subseteq declared

DeclarationsValid ==
  HasJSONAPI =>
    /\ DeclaresApplied(document.ext, codec.extensions, FALSE)
    /\ DeclaresApplied(document.profile, ProfileURIs, TRUE)

ValidateDeclarations ==
  /\ pc = "declared"
  /\ \/ ~DeclarationsValid /\ Refuse
     \/ DeclarationsValid /\ Continue("profiles") /\ UNCHANGED profile
  /\ UNCHANGED <<members, visited, faults, changed>>

Encodable == \A n \in DOMAIN members : \A name \in DOMAIN members[n] : members[n][name] # "unencodable"

\* Bug: what a profile has changed is not compared.
ValidateProfileOnly ==
  LET outcome == codec.profiles[profile + 1].validate IN
  /\ pc = "profiles" /\ profile < Len(codec.profiles)
  /\ profile' = profile + 1
  /\ \/ outcome = "none" /\ Continue("profiles") /\ UNCHANGED changed
     \/ /\ outcome \in {"ok", "mutate"} /\ Encodable /\ Continue("profiles")
        /\ changed' = (changed \/ outcome = "mutate")
     \/ /\ outcome \in {"error", "panic"} \/ (outcome # "none" /\ ~Encodable)
        /\ pc' = "refused" /\ UNCHANGED <<options, codec, call, calls, origin, document, changed>>
     \/ outcome = "exit" /\ Encodable /\ Continue("gone") /\ UNCHANGED changed
  /\ UNCHANGED <<members, visited, faults>>

\* validateProfiles: encode, call, encode again and compare.  A profile that changes the
\* document is refused, and the change stays.
ValidateProfile ==
  LET outcome == codec.profiles[profile + 1].validate IN
  /\ pc = "profiles" /\ profile < Len(codec.profiles)
  /\ profile' = profile + 1
  /\ changed' = (changed \/ (outcome = "mutate" /\ Encodable))
  /\ \/ outcome = "none" /\ Continue("profiles")
     \/ outcome = "ok" /\ Encodable /\ Continue("profiles")
     \/ /\ outcome \in {"error", "panic", "mutate"} \/ (outcome # "none" /\ ~Encodable)
        /\ pc' = "refused" /\ UNCHANGED <<options, codec, call, calls, origin, document>>
     \/ outcome = "exit" /\ Encodable /\ Continue("gone")
  /\ UNCHANGED <<members, visited, faults>>

Return ==
  /\ pc = "profiles" /\ profile = Len(codec.profiles)
  /\ \/ call = "Marshal" /\ ~Encodable /\ Refuse
     \/ call = "Marshal" /\ Encodable /\ Continue("encoded") /\ UNCHANGED profile
     \/ call = "Unmarshal" /\ Continue("decoded") /\ UNCHANGED profile
  /\ UNCHANGED <<members, visited, faults, changed>>

-----------------------------------------------------------------------------
(* The product of one call is the input of the next *)

Decoded ==
  [document EXCEPT !.present = DOMAIN members,
     !.objects = [n \in DOMAIN @ |-> [@[n] EXCEPT !.members =
                    IF n \in DOMAIN members THEN members[n] ELSE <<>>]]]

SendBack == pc = "encoded" /\ Start("Unmarshal", document, "Marshal")
Reencode == pc = "decoded" /\ Start("Marshal", Decoded, "Unmarshal")

Next ==
  \/ NewCodec \/ CallMarshal \/ CallUnmarshal
  \/ Scan \/ DecodeAndAttach \/ MembersValid
  \/ \E n \in Objects : Extract(n) \/ ValidateMembers(n)
  \/ ValidateWith \/ ValidateDeclarations \/ ValidateProfile \/ Return
  \/ SendBack \/ Reencode

Spec == Init /\ [][Next]_vars

-----------------------------------------------------------------------------

\* With what makes the registry of a codec a function: one definition for a name in a scope.
TypeOK ==
  /\ pc \in {"new", "no codec", "given", "scan", "extract", "members", "rules", "declared",
             "profiles", "encoded", "decoded", "refused", "gone"}
  /\ \A one, other \in codec.members :
       one.scope = other.scope /\ one.name = other.name => one = other
  /\ call \in {"none", "Marshal", "Unmarshal"} /\ calls \in 0..MaxCalls
  /\ origin \in {"application", "Marshal", "Unmarshal"}
  /\ visited \subseteq Objects
  /\ \A n \in DOMAIN members : DOMAIN members[n] \subseteq DOMAIN document.objects[n].members
  /\ \A fault \in faults : fault[1] \in visited
  /\ profile \in 0..Len(codec.profiles)
  /\ changed \in BOOLEAN

\* A decoded document has in each of its objects the members that are registered for
\* that object's scope, without the @-Members inside them and each accepted by its own
\* validator, and no other member.
CarriesRegistered ==
  pc = "decoded" =>
    /\ DOMAIN members = {n \in Objects : ~UnderAt(n)}
    /\ \A n \in DOMAIN members :
         /\ DOMAIN members[n] = RegisteredNames(n) \cap DOMAIN document.objects[n].members
         /\ \A name \in DOMAIN members[n] :
              /\ members[n][name] = "plain"
              /\ Validate(n, name, "plain") \in {"none", "ok"}

\* Marshal reports every member that is neither a valid @-Member nor registered for its
\* object and accepted by its validator, in whatever order the maps are walked.
ReportsEveryFault ==
  call = "Marshal" /\ pc \notin {"members", "gone"} =>
    faults = {fault \in Objects \X DOMAIN NameRank :
                LET n == fault[1]
                    name == fault[2]
                IN /\ name \in DOMAIN document.objects[n].members
                   /\ ~(IsAt(name) /\ name[2] \in Suffixes)
                   /\ ~\E member \in codec.members :
                         /\ member.scope = ScopeOf(n) /\ member.name = name
                         /\ member.validate[Given(n, name)] \in {"none", "ok"}}

\* What Unmarshal returns Marshal accepts, and what Marshal returns Unmarshal accepts as
\* long as no registered value has @-Members, which a validator sees when the document is
\* marshalled and does not see when it is received.
AcceptsItsOwn ==
  /\ origin = "Unmarshal" => pc # "refused"
  /\ origin = "Marshal" /\ pc = "refused" =>
       \E n \in Objects : \E name \in DOMAIN document.objects[n].members :
         ~IsAt(name) /\ Given(n, name) # "plain"

\* Registered members round-trip at their object, docs/specification-decisions.md:67, and
\* @-Members are what is lost.
RoundTrip ==
  origin = "Marshal" /\ pc = "decoded" =>
    \A n \in Objects : UnderAt(n) \/
      members[n] = [name \in {k \in DOMAIN document.objects[n].members : ~IsAt(k)} |-> "plain"]

\* No call returns a document, or its encoding, that a profile has changed after the core
\* rules judged it.
ReturnsWhatWasValidated == pc \in {"encoded", "decoded"} => ~changed

\* DEC-001 of docs/specification-decisions.md: decoders, Codec.Unmarshal among them, ignore
\* @-Members; docs/api.md:61, decoding ignores @-Members.
IgnoresAtMembers ==
  call = "Unmarshal" => \A fault \in faults : ~UnderAt(fault[1])
=============================================================================
