---------------------------- MODULE CodecPipelineProofs ----------------------------
(***************************************************************************)
(* For registries, documents and payloads of any size, and any number of   *)
(* calls that follow each other: what the codec registers, extracts,       *)
(* reports and refuses, and that it accepts its own products.              *)
(***************************************************************************)
EXTENDS CodecPipeline, SequenceTheorems, TLAPS

-----------------------------------------------------------------------------
(* The inductive invariant *)

\* A scope has one definition of a name, and the name is in a namespace.
Registry ==
  /\ \A one, other \in codec.members :
       one.scope = other.scope /\ one.name = other.name => one = other
  /\ \A member \in codec.members : member.name[1] \in Namespaces
  /\ codec.profiles \in Seq(Profiles)

\* Registered for the scope of n, with a validator that accepts the value.
Legal(n, name, value) ==
  \E member \in codec.members :
    /\ member.scope = ScopeOf(n) /\ member.name = name
    /\ member.validate[value] \in {"none", "ok"}

IsFault(n, name) ==
  /\ name \in DOMAIN document.objects[n].members
  /\ ~(IsAt(name) /\ name[2] \in Suffixes)
  /\ ~Legal(n, name, Given(n, name))

FaultsOf(S) == {fault \in S \X DOMAIN NameRank : IsFault(fault[1], fault[2])}

Extracted(n) ==
  /\ members[n] = [name \in Present(n) |-> "plain"]
  /\ \A name \in Present(n) : Legal(n, name, "plain")

Intact(n) == document.objects[n].isObject /\ document.objects[n].isDecodable

Typed ==
  /\ TypeOK /\ options \in Options /\ Registry
  /\ document \in DocumentRecords /\ Objects \subseteq DOMAIN document.objects

\* Which call does what.
Phases ==
  /\ pc \in {"new", "no codec", "given"} => call = "none" /\ origin = "application"
  /\ pc \in {"scan", "extract", "decoded"} => call = "Unmarshal"
  /\ pc \in {"members", "encoded"} => call = "Marshal"
  /\ pc \in {"rules", "declared", "profiles", "refused", "gone"} => call # "none"
  /\ pc \notin {"profiles", "encoded", "decoded", "refused", "gone"} => profile = 0
  /\ changed => pc = "refused"

\* What has been taken out of a payload, and where it is put back.
Extracting ==
  /\ pc \in {"scan", "extract"} => DOMAIN members = Objects
  /\ pc = "scan" => visited = {}
  /\ pc = "extract" => \A n \in visited : Extracted(n) /\ document.objects[n].isObject
  /\ call = "Unmarshal" /\ pc \in {"rules", "declared", "profiles", "decoded"} =>
       /\ DOMAIN members = {n \in Objects : ~UnderAt(n)}
       /\ \A n \in DOMAIN members : Extracted(n) /\ Intact(n)

\* What has been found in the objects of a document.
Reporting ==
  /\ pc = "members" => faults = FaultsOf(visited)
  /\ call = "Marshal" /\ pc \notin {"members", "gone"} => faults = FaultsOf(Objects)
  /\ call = "Marshal" /\ pc \in {"rules", "declared", "profiles", "encoded"} =>
       faults = {} /\ members = [n \in Objects |-> document.objects[n].members]

\* What every later step may rely on.
Gates ==
  /\ pc \in {"extract", "members", "rules", "declared", "profiles", "encoded", "decoded"} =>
       document.core # "scan"
  /\ pc \in {"declared", "profiles", "encoded", "decoded"} => document.core # "rules"
  /\ pc \in {"profiles", "encoded", "decoded"} =>
       DeclarationsValid /\ \A k \in 1..profile : codec.profiles[k].validate \in {"none", "ok"}
  /\ pc \in {"encoded", "decoded"} => profile = Len(codec.profiles)

\* The verdicts on a document that a call has returned, which no later call changes.
Vetted ==
  /\ document.core = "ok" /\ DeclarationsValid
  /\ \A k \in DOMAIN codec.profiles : codec.profiles[k].validate \in {"none", "ok"}

\* What is known of the input of a call.
Sources ==
  /\ call = "Marshal" \/ origin = "Marshal" => \A n \in Objects : Intact(n)
  /\ origin = "Unmarshal" =>
       /\ call = "Marshal" /\ Vetted
       /\ \A n \in Objects : \A name \in DOMAIN document.objects[n].members :
            Given(n, name) = "plain" /\ Legal(n, name, "plain")
  /\ origin = "Marshal" => call = "Unmarshal" /\ Vetted /\ FaultsOf(Objects) = {}

IInv == Typed /\ Phases /\ Extracting /\ Reporting /\ Gates /\ Sources /\ AcceptsItsOwn

-----------------------------------------------------------------------------
(* The registry *)

\* What NewCodec accepts makes a registry: two definitions of a name in a scope would be in
\* one extension, since the name tells the namespace and the namespace the extension.
LEMMA RegistryOfOptions ==
  ASSUME NEW given \in Options, AreOptions(given)
  PROVE  /\ \A one, other \in CodecOf(given).members :
              one.scope = other.scope /\ one.name = other.name => one = other
         /\ \A member \in CodecOf(given).members : member.name[1] \in Namespaces
         /\ CodecOf(given).profiles \in Seq(Profiles)
<1> DEFINE extension(k) == given.extensions[k]
<1>1. \A k \in DOMAIN given.extensions : IsExtension(extension(k))
  BY DEF AreOptions
<1>2. \A k, l \in DOMAIN given.extensions :
        extension(k).namespace = extension(l).namespace => k = l
  BY DEF AreOptions, Distinct
<1>3. \A k \in DOMAIN given.extensions : \A i, j \in DOMAIN extension(k).members :
        <<extension(k).members[i].scope, extension(k).members[i].name>>
          = <<extension(k).members[j].scope, extension(k).members[j].name>> => i = j
  BY <1>1 DEF IsExtension, Distinct
<1>4. \A k \in DOMAIN given.extensions : \A i \in DOMAIN extension(k).members :
        /\ extension(k).members[i].name[1] = extension(k).namespace
        /\ extension(k).namespace \in Namespaces
  BY <1>1 DEF IsExtension
<1> HIDE DEF extension
<1>5. ASSUME NEW member \in CodecOf(given).members
      PROVE  \E k \in DOMAIN given.extensions : \E i \in DOMAIN extension(k).members :
               member = extension(k).members[i]
  BY DEF CodecOf, extension
<1>6. ASSUME NEW one \in CodecOf(given).members, NEW other \in CodecOf(given).members,
             one.scope = other.scope, one.name = other.name
      PROVE  one = other
  <2>1. PICK k \in DOMAIN given.extensions : \E i \in DOMAIN extension(k).members :
          one = extension(k).members[i]
    BY <1>5
  <2>2. PICK i \in DOMAIN extension(k).members : one = extension(k).members[i]
    BY <2>1
  <2>3. PICK l \in DOMAIN given.extensions : \E j \in DOMAIN extension(l).members :
          other = extension(l).members[j]
    BY <1>5
  <2>4. PICK j \in DOMAIN extension(l).members : other = extension(l).members[j]
    BY <2>3
  <2>5. one.name[1] = extension(k).namespace /\ other.name[1] = extension(l).namespace
    BY <1>4, <2>2, <2>4
  <2>6. k = l
    BY <1>2, <1>6, <2>5
  <2>7. QED
    BY <1>3, <1>6, <2>2, <2>4, <2>6
<1>7. \A member \in CodecOf(given).members : member.name[1] \in Namespaces
  BY <1>4, <1>5
<1>8. CodecOf(given).profiles \in Seq(Profiles)
  BY OptionsTyped DEF CodecOf
<1>9. QED
  BY <1>6, <1>7, <1>8

\* Of a name that is registered for n the definition is known, and the name is no @-Member.
LEMMA Judged ==
  ASSUME Registry, NEW n, NEW name \in RegisteredNames(n)
  PROVE  /\ \A value : Validate(n, name, value) \in {"none", "ok"} <=> Legal(n, name, value)
         /\ ~IsAt(name)
<1>1. PICK member \in Definitions(n) : member.name = name
  BY DEF RegisteredNames
<1>2. member \in codec.members /\ member.scope = ScopeOf(n)
  BY DEF Definitions
<1> DEFINE chosen == CHOOSE each \in Definitions(n) : each.name = name
<1>3. chosen \in Definitions(n) /\ chosen.name = name
  BY <1>1
<1>4. chosen = member
  BY <1>1, <1>2, <1>3 DEF Registry, Definitions
<1>5. \A value : Validate(n, name, value) = member.validate[value]
  BY <1>4 DEF Validate
<1>6. \A other \in codec.members : other.scope = ScopeOf(n) /\ other.name = name => other = member
  BY <1>1, <1>2 DEF Registry
<1>7. ~IsAt(name)
  BY <1>1, <1>2, NamespacesAreNamed DEF Registry, IsAt
<1>8. QED
  BY <1>1, <1>2, <1>5, <1>6, <1>7 DEF Legal

LEMMA LegalIsRegistered ==
  ASSUME NEW n, NEW name, NEW value, Legal(n, name, value)
  PROVE  name \in RegisteredNames(n)
BY DEF Legal, RegisteredNames, Definitions

LEMMA FaultyIs ==
  ASSUME Registry, NEW n, NEW name
  PROVE  Faulty(n, name) <=> ~(IsAt(name) /\ name[2] \in Suffixes) /\ ~Legal(n, name, Given(n, name))
<1>1. CASE name \in RegisteredNames(n)
  <2>1. ~IsAt(name) /\ (Passes(Validate(n, name, Given(n, name))) <=> Legal(n, name, Given(n, name)))
    BY <1>1, Judged DEF Passes
  <2>2. QED
    BY <1>1, <2>1 DEF Faulty
<1>2. CASE name \notin RegisteredNames(n)
  <2>1. ~Legal(n, name, Given(n, name))
    BY <1>2, LegalIsRegistered
  <2>2. QED
    BY <1>2, <2>1 DEF Faulty
<1>3. QED
  BY <1>1, <1>2

-----------------------------------------------------------------------------
(* What stays when the input does *)

LEMMA Stays ==
  ASSUME UNCHANGED <<codec, document>>
  PROVE  /\ Objects' = Objects /\ (Registry <=> Registry') /\ (Vetted <=> Vetted')
         /\ (DeclarationsValid <=> DeclarationsValid')
         /\ \A n : RegisteredNames(n)' = RegisteredNames(n) /\ (UnderAt(n) <=> UnderAt(n)')
         /\ \A n : Present(n)' = Present(n) /\ (Intact(n) <=> Intact(n)')
         /\ \A n, name : Given(n, name)' = Given(n, name)
         /\ \A n, name, value : Legal(n, name, value) <=> Legal(n, name, value)'
         /\ \A n, name : IsFault(n, name) <=> IsFault(n, name)'
         /\ \A S : FaultsOf(S)' = FaultsOf(S)
<1>1. codec' = codec /\ document' = document
  OBVIOUS
<1>2. Objects' = Objects /\ (Registry <=> Registry')
  BY <1>1 DEF Objects, Registry
<1>3. \A n : ScopeOf(n)' = ScopeOf(n)
  BY <1>1 DEF ScopeOf, Kind
<1>4. \A n : Definitions(n)' = Definitions(n)
  BY <1>1, <1>3 DEF Definitions
<1>5. \A n : RegisteredNames(n)' = RegisteredNames(n)
  BY <1>4 DEF RegisteredNames
<1>6. \A n : Within(n)' = Within(n)
  BY <1>1 DEF Within, Parent
<1>7. \A n : UnderAt(n) <=> UnderAt(n)'
  BY <1>1, <1>6 DEF UnderAt
<1>8. /\ \A n : Present(n)' = Present(n) /\ (Intact(n) <=> Intact(n)')
      /\ \A n, name : Given(n, name)' = Given(n, name)
  BY <1>1, <1>5 DEF Present, Given, Intact
<1>9. \A n, name, value : Legal(n, name, value) <=> Legal(n, name, value)'
  BY <1>1, <1>3 DEF Legal
<1>10. /\ \A n, name : IsFault(n, name) <=> IsFault(n, name)'
       /\ \A S : FaultsOf(S)' = FaultsOf(S)
  <2>1. \A n, name : IsFault(n, name) <=> IsFault(n, name)'
    BY <1>1, <1>8, <1>9 DEF IsFault
  <2>2. QED
    BY <2>1 DEF FaultsOf
<1>11. DeclarationsValid <=> DeclarationsValid'
  BY <1>1, <1>2 DEF DeclarationsValid, HasJSONAPI, Kind, ProfileURIs, DeclaresApplied
<1>12. Vetted <=> Vetted'
  BY <1>1, <1>11 DEF Vetted
<1>13. QED
  BY <1>2, <1>5, <1>7, <1>8, <1>9, <1>10, <1>11, <1>12

\* What a step of a call leaves alone.
Same == UNCHANGED <<options, codec, document, calls, call, origin>>

Bounds ==
  /\ visited \subseteq Objects
  /\ \A n \in DOMAIN members : DOMAIN members[n] \subseteq DOMAIN document.objects[n].members
  /\ \A fault \in faults : fault[1] \in visited
  /\ profile \in 0..Len(codec.profiles) /\ changed \in BOOLEAN

Steps == {"extract", "members", "rules", "declared", "profiles", "encoded", "decoded", "gone"}

LEMMA TypedStays ==
  ASSUME IInv, Same, pc' \in Steps \cup {"refused"}, Bounds'
  PROVE  Typed'
<1>1. Typed
  BY DEF IInv
<1>2. UNCHANGED <<codec, document>> /\ Registry'
  BY <1>1, Stays DEF Same, Typed
<1>3. /\ options' = options /\ codec' = codec /\ document' = document
      /\ calls' = calls /\ call' = call /\ origin' = origin
  BY DEF Same
<1>4. TypeOK'
  BY <1>1, <1>3 DEF Typed, TypeOK, Bounds, Steps
<1>5. document' \in DocumentRecords /\ options' \in Options /\ Objects' \subseteq DOMAIN document'.objects
  BY <1>1, <1>3 DEF Typed, Objects
<1>6. QED
  BY <1>2, <1>4, <1>5 DEF Typed

LEMMA SourcesStay ==
  ASSUME IInv, Same
  PROVE  Sources'
<1>1. UNCHANGED <<codec, document>> /\ call' = call /\ origin' = origin /\ document' = document
  BY DEF Same
<1>2. QED
  BY <1>1, Stays DEF IInv, Sources

\* A call goes on.
LEMMA GoesOn ==
  ASSUME IInv, Same, pc' \in Steps, Bounds', Phases', Extracting', Reporting', Gates'
  PROVE  IInv'
<1>1. AcceptsItsOwn'
  BY DEF AcceptsItsOwn, Steps
<1>2. QED
  BY <1>1, TypedStays, SourcesStay DEF IInv

\* A call is refused.
LEMMA IsRefused ==
  ASSUME IInv, Same, call # "none", pc' = "refused", Bounds',
         call = "Marshal" => faults' = FaultsOf(Objects),
         origin # "Unmarshal",
         origin = "Marshal" =>
           \E n \in Objects : \E name \in DOMAIN document.objects[n].members :
             ~IsAt(name) /\ Given(n, name) # "plain"
  PROVE  IInv'
<1>1. /\ UNCHANGED <<codec, document>> /\ call' = call /\ origin' = origin /\ document' = document
      /\ Objects' = Objects /\ FaultsOf(Objects)' = FaultsOf(Objects)
  BY Stays DEF Same
<1>2. AcceptsItsOwn'
  BY <1>1 DEF AcceptsItsOwn, Given, Objects
<1>3. Phases' /\ Extracting' /\ Gates'
  BY <1>1 DEF Phases, Extracting, Gates
<1>4. Reporting'
  BY <1>1 DEF Reporting
<1>5. QED
  BY <1>2, <1>3, <1>4, TypedStays, SourcesStay DEF IInv

-----------------------------------------------------------------------------
(* NewCodec, and the calls *)

LEMMA InitIInv == Init => IInv
<1> SUFFICES ASSUME Init PROVE IInv
  OBVIOUS
<1>1. /\ options \in Options /\ codec = NoCodec /\ pc = "new" /\ call = "none" /\ calls = 0
      /\ origin = "application" /\ document = NoDocument /\ members = <<>> /\ visited = {}
      /\ faults = {} /\ profile = 0 /\ changed = FALSE
  BY DEF Init
<1>2. NoDocument \in DocumentRecords /\ NoDocument.present = {}
  BY DEF DocumentRecords, NoDocument
<1>3. Registry
  BY <1>1 DEF Registry, NoCodec
<1>4. TypeOK
  <2>1. Len(codec.profiles) = 0 /\ DOMAIN members = {}
    BY <1>1 DEF NoCodec
  <2>2. profile \in 0..Len(codec.profiles) /\ calls \in 0..MaxCalls
    BY <1>1, <2>1, OptionsTyped
  <2>3. QED
    BY <1>1, <1>3, <2>1, <2>2 DEF TypeOK, Registry
<1>5. Typed
  BY <1>1, <1>2, <1>3, <1>4 DEF Typed, Objects
<1>6. Phases /\ Extracting /\ Reporting /\ Gates /\ Sources /\ AcceptsItsOwn
  BY <1>1 DEF Phases, Extracting, Reporting, Gates, Sources, AcceptsItsOwn
<1>7. QED
  BY <1>5, <1>6 DEF IInv

LEMMA NewCodecKeeps == ASSUME IInv, NewCodec PROVE IInv'
<1>1. /\ pc = "new" /\ pc' \in {"given", "no codec"}
      /\ UNCHANGED <<options, call, calls, origin, document, members, visited, faults, profile, changed>>
      /\ (AreOptions(options) /\ codec' = CodecOf(options)) \/ codec' = codec
  BY DEF NewCodec
<1>2. call = "none" /\ origin = "application" /\ ~changed /\ Typed
  BY <1>1 DEF IInv, Phases
<1>3. Registry'
  BY <1>1, <1>2, RegistryOfOptions DEF Typed, Registry
<1>4. profile' \in 0..Len(codec'.profiles)
  <2>1. CASE codec' = codec
    BY <1>1, <1>2, <2>1 DEF Typed, TypeOK
  <2>2. CASE codec' # codec
    <3>1. profile = 0
      BY <1>1 DEF IInv, Phases
    <3>2. Len(codec'.profiles) \in Nat
      BY <1>3 DEF Registry
    <3>3. profile' = 0
      BY <1>1, <3>1
    <3>4. QED
      BY <3>2, <3>3
  <2>3. QED
    BY <2>1, <2>2
<1>5. TypeOK'
  BY <1>1, <1>2, <1>3, <1>4 DEF Typed, TypeOK, Registry, Objects
<1>6. Typed'
  BY <1>1, <1>2, <1>3, <1>5 DEF Typed, Objects
<1>7. call' = "none" /\ origin' = "application" /\ ~changed' /\ profile' = 0
  BY <1>1, <1>2 DEF IInv, Phases
<1>8. Phases' /\ Extracting' /\ Reporting'
  BY <1>1, <1>7 DEF Phases, Extracting, Reporting
<1>9. Gates' /\ Sources' /\ AcceptsItsOwn'
  BY <1>1, <1>7 DEF Gates, Sources, AcceptsItsOwn
<1>10. QED
  BY <1>6, <1>8, <1>9 DEF IInv

\* A call starts, on an input that is known to be what its source makes of it.
LEMMA StartKeeps ==
  ASSUME IInv, NEW which \in {"Marshal", "Unmarshal"}, NEW given \in DocumentRecords,
         given.present \subseteq DOMAIN given.objects,
         NEW from \in {"application", "Marshal", "Unmarshal"}, Start(which, given, from),
         pc \in {"given", "encoded", "decoded"},
         which = "Marshal" => given.core # "scan",
         Sources'
  PROVE  IInv'
<1>1. /\ calls < MaxCalls /\ calls' = calls + 1 /\ call' = which /\ origin' = from
      /\ document' = given /\ pc' = IF which = "Marshal" THEN "members" ELSE "scan"
      /\ members' = [n \in given.present |-> <<>>]
      /\ visited' = {} /\ faults' = {} /\ profile' = 0
      /\ options' = options /\ codec' = codec /\ changed' = changed
  BY DEF Start
<1>2. changed' = FALSE /\ Typed
  BY <1>1 DEF IInv, Phases, Typed, TypeOK
<1>3. /\ Objects' = given.present /\ DOMAIN members' = Objects'
      /\ pc' \in {"members", "scan"} /\ (pc' = "members" <=> call' = "Marshal")
      /\ (pc' = "scan" <=> call' = "Unmarshal")
  BY <1>1 DEF Objects
<1>4. Registry'
  BY <1>1, <1>2 DEF Typed, Registry
<1>5. \A n \in DOMAIN members' : DOMAIN members'[n] = {}
  BY <1>1
<1>6. calls' \in 0..MaxCalls /\ profile' \in 0..Len(codec'.profiles)
  <2>1. calls \in 0..MaxCalls /\ MaxCalls \in Nat
    BY <1>2, OptionsTyped DEF Typed, TypeOK
  <2>2. Len(codec'.profiles) \in Nat
    BY <1>4 DEF Registry
  <2>3. QED
    BY <1>1, <2>1, <2>2
<1>7. TypeOK'
  BY <1>1, <1>2, <1>3, <1>4, <1>5, <1>6 DEF TypeOK, Registry
<1>8. Typed'
  BY <1>1, <1>2, <1>3, <1>4, <1>7 DEF Typed
<1>9. Phases' /\ Extracting' /\ Gates' /\ AcceptsItsOwn'
  BY <1>1, <1>2, <1>3 DEF Phases, Extracting, Gates, AcceptsItsOwn
<1>10. Reporting'
  <2>1. FaultsOf({})' = {}
    BY DEF FaultsOf
  <2>2. QED
    BY <1>1, <1>3, <2>1 DEF Reporting
<1>11. QED
  BY <1>8, <1>9, <1>10 DEF IInv

LEMMA CallMarshalKeeps == ASSUME IInv, CallMarshal PROVE IInv'
<1>1. PICK given \in Documents : pc = "given" /\ Start("Marshal", given, "application")
  BY DEF CallMarshal
<1>2. /\ given \in DocumentRecords /\ given.present = DOMAIN given.objects
      /\ given.core # "scan"
      /\ \A n \in given.present : given.objects[n].isObject /\ given.objects[n].isDecodable
  BY DocumentsTyped
<1>3. document' = given /\ origin' = "application"
  BY <1>1 DEF Start
<1>4. Sources'
  BY <1>2, <1>3 DEF Sources, Intact, Objects
<1>5. QED
  BY <1>1, <1>2, <1>4, StartKeeps

LEMMA CallUnmarshalKeeps == ASSUME IInv, CallUnmarshal PROVE IInv'
<1>1. PICK given \in Payloads : pc = "given" /\ Start("Unmarshal", given, "application")
  BY DEF CallUnmarshal
<1>2. given \in DocumentRecords /\ given.present = DOMAIN given.objects
  BY DocumentsTyped
<1>3. call' = "Unmarshal" /\ origin' = "application"
  BY <1>1 DEF Start
<1>4. Sources'
  BY <1>3 DEF Sources
<1>5. QED
  BY <1>1, <1>2, <1>4, StartKeeps

\* Where a call ends, the document is vetted.
LEMMA ReturnsVetted ==
  ASSUME IInv, pc \in {"encoded", "decoded"}
  PROVE  Vetted
<1>1. document.core \in {"ok", "scan", "rules"} /\ codec.profiles \in Seq(Profiles)
  BY DEF IInv, Typed, Registry, DocumentRecords
<1>2. DOMAIN codec.profiles = 1..profile
  BY <1>1 DEF IInv, Gates
<1>3. QED
  BY <1>1, <1>2 DEF IInv, Gates, Vetted

LEMMA SendBackKeeps == ASSUME IInv, SendBack PROVE IInv'
<1>1. pc = "encoded" /\ Start("Unmarshal", document, "Marshal")
  BY DEF SendBack
<1>2. call = "Marshal" /\ Vetted /\ (\A n \in Objects : Intact(n)) /\ FaultsOf(Objects) = {}
  BY <1>1, ReturnsVetted DEF IInv, Phases, Sources, Reporting
<1>3. document' = document /\ codec' = codec /\ call' = "Unmarshal" /\ origin' = "Marshal"
  BY <1>1 DEF Start
<1>4. Sources'
  BY <1>2, <1>3, Stays DEF Sources
<1>5. document \in DocumentRecords /\ document.present \subseteq DOMAIN document.objects
  BY DEF IInv, Typed, Objects
<1>6. QED
  BY <1>1, <1>4, <1>5, StartKeeps

\* What Unmarshal returns is a document: the objects that are not under an @-Member, with
\* the members extracted.
LEMMA DecodedIs ==
  ASSUME IInv, pc = "decoded"
  PROVE  /\ Decoded \in DocumentRecords /\ Decoded.present \subseteq DOMAIN Decoded.objects
         /\ Decoded.present = DOMAIN members /\ DOMAIN members \subseteq Objects
         /\ Decoded.core = document.core /\ Decoded.ext = document.ext
         /\ Decoded.profile = document.profile
         /\ \A n \in DOMAIN members :
              /\ Decoded.objects[n].kind = document.objects[n].kind
              /\ Decoded.objects[n].members = members[n]
              /\ Decoded.objects[n].isObject /\ Decoded.objects[n].isDecodable
              /\ \A name \in DOMAIN members[n] : members[n][name] = "plain" /\ Legal(n, name, "plain")
<1>1. /\ document \in DocumentRecords /\ Objects \subseteq DOMAIN document.objects
      /\ Objects = document.present
  BY DEF IInv, Typed, Objects
<1>2. /\ DOMAIN members \subseteq Objects
      /\ \A n \in DOMAIN members : Extracted(n) /\ Intact(n)
  BY DEF IInv, Phases, Extracting
<1> DEFINE kept(n) == IF n \in DOMAIN members THEN members[n] ELSE <<>>
           objects == [n \in DOMAIN document.objects |-> [document.objects[n] EXCEPT !.members = kept(n)]]
<1>3. Decoded = [document EXCEPT !.present = DOMAIN members, !.objects = objects]
  BY DEF Decoded
<1>4. /\ document.objects \in Seq(ObjectRecords)
      /\ \A n \in DOMAIN document.objects : document.objects[n] \in ObjectRecords
  BY <1>1 DEF DocumentRecords
<1> DEFINE someMembers == UNION {[names -> Values] : names \in SUBSET DOMAIN NameRank}
<1>5. \A n \in DOMAIN document.objects : kept(n) \in someMembers
  <2>1. <<>> \in someMembers
    <3>1. <<>> \in [{} -> Values] /\ {} \in SUBSET DOMAIN NameRank
      OBVIOUS
    <3>2. QED
      BY <3>1
  <2>2. ASSUME NEW n \in DOMAIN members PROVE members[n] \in someMembers
    <3>1. members[n] = [name \in Present(n) |-> "plain"]
      BY <1>2 DEF Extracted
    <3>2. Present(n) \in SUBSET DOMAIN NameRank
      <4>1. document.objects[n] \in ObjectRecords
        BY <1>1, <1>2, <1>4
      <4>2. DOMAIN document.objects[n].members \subseteq DOMAIN NameRank
        BY <4>1 DEF ObjectRecords
      <4>3. QED
        BY <4>2 DEF Present
    <3>3. [name \in Present(n) |-> "plain"] \in [Present(n) -> Values]
      BY DEF Values
    <3>4. QED
      BY <3>1, <3>2, <3>3
  <2>3. QED
    BY <2>1, <2>2
<1>6. \A n \in DOMAIN document.objects :
        /\ objects[n] \in ObjectRecords /\ objects[n].members = kept(n)
        /\ objects[n].kind = document.objects[n].kind
        /\ objects[n].isObject = document.objects[n].isObject
        /\ objects[n].isDecodable = document.objects[n].isDecodable
  <2> HIDE DEF kept
  <2>1. QED
    BY <1>4, <1>5 DEF ObjectRecords
<1>7. objects \in Seq(ObjectRecords) /\ DOMAIN objects = DOMAIN document.objects
  <2>1. DOMAIN document.objects = 1..Len(document.objects) /\ Len(document.objects) \in Nat
    BY <1>4, LenProperties
  <2>2. objects \in [1..Len(document.objects) -> ObjectRecords]
    BY <1>6, <2>1
  <2>3. objects \in Seq(ObjectRecords)
    BY <2>1, <2>2, SeqDef
  <2>4. QED
    BY <2>3
<1> HIDE DEF objects
<1>8. /\ Decoded \in DocumentRecords /\ Decoded.present = DOMAIN members
      /\ Decoded.objects = objects
      /\ Decoded.core = document.core /\ Decoded.ext = document.ext
      /\ Decoded.profile = document.profile
  BY <1>1, <1>2, <1>3, <1>7 DEF DocumentRecords
<1>9. ASSUME NEW n \in DOMAIN members
      PROVE  /\ objects[n].kind = document.objects[n].kind
             /\ objects[n].members = members[n]
             /\ objects[n].isObject /\ objects[n].isDecodable
             /\ \A name \in DOMAIN members[n] : members[n][name] = "plain" /\ Legal(n, name, "plain")
  BY <1>1, <1>2, <1>6 DEF Extracted, Intact
<1>10. QED
  BY <1>1, <1>2, <1>7, <1>8, <1>9

LEMMA ReencodeKeeps == ASSUME IInv, Reencode PROVE IInv'
<1>1. pc = "decoded" /\ Start("Marshal", Decoded, "Unmarshal")
  BY DEF Reencode
<1>2. document' = Decoded /\ codec' = codec /\ call' = "Marshal" /\ origin' = "Unmarshal"
  BY <1>1 DEF Start
<1>3. Vetted
  BY <1>1, ReturnsVetted
<1>4. /\ Objects' = DOMAIN members /\ Objects' \subseteq Objects
      /\ document'.core = document.core /\ document'.ext = document.ext
      /\ document'.profile = document.profile
      /\ \A n \in Objects' :
           /\ document'.objects[n].kind = document.objects[n].kind
           /\ document'.objects[n].members = members[n]
           /\ document'.objects[n].isObject /\ document'.objects[n].isDecodable
           /\ \A name \in DOMAIN members[n] : members[n][name] = "plain" /\ Legal(n, name, "plain")
  BY <1>1, <1>2, DecodedIs DEF Objects
<1>5. ASSUME NEW n \in Objects', NEW name, Legal(n, name, "plain") PROVE Legal(n, name, "plain")'
  BY <1>2, <1>4, <1>5 DEF Legal, ScopeOf, Kind
<1>6. HasJSONAPI' => HasJSONAPI
  BY <1>4 DEF HasJSONAPI, Kind
<1>7. DeclarationsValid'
  BY <1>2, <1>3, <1>4, <1>6 DEF Vetted, DeclarationsValid, DeclaresApplied, ProfileURIs
<1>8. Vetted'
  BY <1>2, <1>3, <1>4, <1>7 DEF Vetted
<1>9. \A n \in Objects' : \A name \in DOMAIN document'.objects[n].members :
        Given(n, name)' = "plain" /\ Legal(n, name, "plain")'
  BY <1>4, <1>5 DEF Given
<1>10. Sources'
  BY <1>2, <1>4, <1>8, <1>9 DEF Sources, Intact
<1>11. Decoded \in DocumentRecords /\ Decoded.present \subseteq DOMAIN Decoded.objects
  BY <1>1, DecodedIs
<1>12. Decoded.core # "scan"
  BY <1>2, <1>3, <1>4 DEF Vetted
<1>13. QED
  BY <1>1, <1>10, <1>11, <1>12, StartKeeps

-----------------------------------------------------------------------------
(* Codec.Unmarshal *)

LEMMA InBounds ==
  ASSUME IInv
  PROVE  Bounds /\ Registry /\ Len(codec.profiles) \in Nat /\ (call = "Unmarshal" => origin # "Unmarshal")
<1>1. Bounds /\ Registry
  BY DEF IInv, Typed, TypeOK, Bounds
<1>2. Len(codec.profiles) \in Nat
  BY <1>1 DEF Registry
<1>3. call = "Unmarshal" => origin # "Unmarshal"
  BY DEF IInv, Sources
<1>4. QED
  BY <1>1, <1>2, <1>3

LEMMA ScanKeeps == ASSUME IInv, Scan PROVE IInv'
<1>1. /\ pc = "scan" /\ Same
      /\ UNCHANGED <<members, visited, faults, profile, changed>>
  BY DEF Scan, Refuse, Continue, Same
<1>2. call = "Unmarshal" /\ ~changed /\ profile = 0 /\ visited = {} /\ DOMAIN members = Objects
  BY <1>1 DEF IInv, Phases, Extracting
<1>3. call' = call /\ document' = document /\ Objects' = Objects /\ Bounds'
  BY <1>1, InBounds DEF Same, Bounds, Objects
<1>4. CASE document.core = "scan" /\ pc' = "refused"
  <2>1. origin # "Marshal"
    BY <1>4 DEF IInv, Sources, Vetted
  <2>2. QED
    BY <1>1, <1>2, <1>3, <1>4, <2>1, InBounds, IsRefused
<1>5. CASE document.core # "scan" /\ pc' = "extract"
  <2>1. Phases' /\ Extracting' /\ Reporting' /\ Gates'
    BY <1>1, <1>2, <1>3, <1>5 DEF Phases, Extracting, Reporting, Gates
  <2>2. QED
    BY <1>1, <1>3, <1>5, <2>1, GoesOn DEF Steps
<1>6. QED
  BY <1>4, <1>5 DEF Scan, Refuse, Continue

LEMMA ExtractKeeps == ASSUME IInv, NEW n \in Objects, Extract(n) PROVE IInv'
<1> DEFINE outcome(name) == Validate(n, name, Strip(Given(n, name)))
           failing == {name \in Present(n) : ~Passes(outcome(name))}
           entered == visited \cup {n}
<1>1. /\ pc = "extract" /\ Same /\ visited' = entered
      /\ UNCHANGED <<profile, changed>>
      /\ \/ /\ ~document.objects[n].isObject
            /\ pc' = "refused" /\ faults' = {<<n, <<"", "type">>>>} /\ members' = members
         \/ /\ document.objects[n].isObject /\ failing = {}
            /\ members' = [members EXCEPT ![n] = [name \in Present(n) |-> "plain"]]
            /\ pc' = "extract" /\ faults' = faults
         \/ /\ document.objects[n].isObject /\ failing # {} /\ members' = members
            /\ \/ pc' = "gone" /\ faults' = faults
               \/ pc' = "refused" /\ faults' = {<<n, FirstOf(failing)>>}
  BY DEF Extract, Refuse, Continue, Same, Strip
<1>2. /\ call = "Unmarshal" /\ ~changed /\ profile = 0 /\ DOMAIN members = Objects
      /\ document.core # "scan"
      /\ \A m \in visited : Extracted(m) /\ document.objects[m].isObject
  BY <1>1 DEF IInv, Phases, Extracting, Gates
<1>3. call' = call /\ document' = document /\ codec' = codec /\ Objects' = Objects
  BY <1>1 DEF Same, Objects
<1>4. entered \subseteq Objects /\ n \in entered
  BY InBounds DEF Bounds
<1>5. \A name \in Present(n) :
        /\ name \in RegisteredNames(n) /\ ~IsAt(name)
        /\ Passes(outcome(name)) <=> Legal(n, name, "plain")
  BY InBounds, Judged DEF Present, Passes, Strip
<1> HIDE DEF failing
<1>6. ASSUME origin = "Marshal", failing # {}
      PROVE  \E name \in DOMAIN document.objects[n].members : ~IsAt(name) /\ Given(n, name) # "plain"
  <2>1. PICK name \in Present(n) : ~Passes(outcome(name))
    BY <1>6 DEF failing
  <2>2. ~IsAt(name) /\ ~Legal(n, name, "plain") /\ name \in DOMAIN document.objects[n].members
    BY <1>5, <2>1 DEF Present
  <2>3. FaultsOf(Objects) = {}
    BY <1>6 DEF IInv, Sources
  <2>4. name \in DOMAIN NameRank
    <3>1. document.objects[n] \in ObjectRecords
      BY DEF IInv, Typed, DocumentRecords, Objects
    <3>2. DOMAIN document.objects[n].members \subseteq DOMAIN NameRank
      BY <3>1 DEF ObjectRecords
    <3>3. QED
      BY <2>2, <3>2
  <2>5. Legal(n, name, Given(n, name))
    <3>1. <<n, name>> \notin FaultsOf(Objects)
      BY <2>3
    <3>2. ~IsFault(n, name)
      BY <2>4, <3>1 DEF FaultsOf
    <3>3. QED
      BY <2>2, <3>2 DEF IsFault
  <2>6. QED
    BY <2>2, <2>5
<1>7. CASE pc' = "refused"
  <2>1. members' = members /\ \A fault \in faults' : fault[1] = n
    <3>1. members' = members
      BY <1>1, <1>7
    <3>2. faults' = {<<n, <<"", "type">>>>} \/ faults' = {<<n, FirstOf(failing)>>}
      BY <1>1, <1>7
    <3>3. \A name : <<n, name>>[1] = n
      OBVIOUS
    <3>4. QED
      BY <3>1, <3>2, <3>3
  <2>2. Bounds'
    BY <1>1, <1>3, <1>4, <2>1, InBounds DEF Bounds
  <2>3. origin = "Marshal" => document.objects[n].isObject
    BY DEF IInv, Sources, Intact
  <2>4. origin = "Marshal" => failing # {}
    BY <1>1, <1>7, <2>3
  <2>5. QED
    BY <1>1, <1>2, <1>6, <1>7, <2>2, <2>4, InBounds, IsRefused
<1>8. CASE pc' = "gone"
  <2>1. members' = members /\ faults' = faults
    BY <1>1, <1>8
  <2>2. Bounds'
    BY <1>1, <1>3, <1>4, <2>1, InBounds DEF Bounds
  <2>3. Phases' /\ Extracting' /\ Reporting' /\ Gates'
    BY <1>1, <1>2, <1>3, <1>8 DEF Phases, Extracting, Reporting, Gates
  <2>4. QED
    BY <1>1, <1>8, <2>2, <2>3, GoesOn DEF Steps
<1>9. CASE pc' = "extract"
  <2>1. /\ document.objects[n].isObject /\ failing = {} /\ faults' = faults
        /\ members' = [members EXCEPT ![n] = [name \in Present(n) |-> "plain"]]
    BY <1>1, <1>9
  <2>2. /\ DOMAIN members' = Objects /\ members'[n] = [name \in Present(n) |-> "plain"]
        /\ \A m \in Objects \ {n} : members'[m] = members[m]
    BY <1>2, <2>1
  <2>3. Bounds'
    <3>1. ASSUME NEW m \in DOMAIN members'
          PROVE  DOMAIN members'[m] \subseteq DOMAIN document.objects[m].members
      BY <1>2, <2>2, InBounds DEF Bounds, Present
    <3>2. QED
      BY <1>1, <1>3, <1>4, <2>1, <3>1, InBounds DEF Bounds
  <2>4. ASSUME NEW m \in visited' PROVE Extracted(m)' /\ document'.objects[m].isObject
    <3>1. Present(m)' = Present(m) /\ \A name : Legal(m, name, "plain")' <=> Legal(m, name, "plain")
      BY <1>3, Stays
    <3>2. CASE m = n
      <4>1. \A name \in Present(n) : Legal(n, name, "plain")
        BY <1>5, <2>1 DEF failing
      <4>2. QED
        BY <1>3, <2>1, <2>2, <3>1, <3>2, <4>1 DEF Extracted
    <3>3. CASE m # n
      <4>1. m \in visited /\ m \in Objects
        BY <1>1, <1>4, <3>3
      <4>2. QED
        BY <1>2, <1>3, <2>2, <3>1, <3>3, <4>1 DEF Extracted
    <3>4. QED
      BY <3>2, <3>3
  <2>5. Phases' /\ Extracting' /\ Reporting' /\ Gates'
    BY <1>1, <1>2, <1>3, <1>9, <2>2, <2>4 DEF Phases, Extracting, Reporting, Gates
  <2>6. QED
    BY <1>1, <1>9, <2>3, <2>5, GoesOn DEF Steps
<1>10. QED
  BY <1>1, <1>7, <1>8, <1>9

LEMMA DecodeAndAttachKeeps == ASSUME IInv, DecodeAndAttach PROVE IInv'
<1>1. /\ pc = "extract" /\ visited = Objects /\ Same
      /\ UNCHANGED <<visited, faults, profile, changed>>
      /\ \/ ~Decodable /\ pc' = "refused" /\ members' = members
         \/ Decodable /\ pc' = "rules" /\ members' = Attached
  BY DEF DecodeAndAttach, Refuse, Continue, Same
<1>2. /\ call = "Unmarshal" /\ ~changed /\ profile = 0 /\ DOMAIN members = Objects
      /\ document.core # "scan"
      /\ \A m \in Objects : Extracted(m) /\ document.objects[m].isObject
  BY <1>1 DEF IInv, Phases, Extracting, Gates
<1>3. call' = call /\ document' = document /\ codec' = codec /\ Objects' = Objects
  BY <1>1 DEF Same, Objects
<1>4. CASE ~Decodable /\ pc' = "refused" /\ members' = members
  <2>1. origin # "Marshal"
    BY <1>4 DEF Decodable, IInv, Sources, Intact
  <2>2. Bounds'
    BY <1>1, <1>3, <1>4, InBounds DEF Bounds
  <2>3. QED
    BY <1>1, <1>2, <1>4, <2>1, <2>2, InBounds, IsRefused
<1>5. CASE Decodable /\ pc' = "rules" /\ members' = Attached
  <2> DEFINE above == {n \in Objects : ~UnderAt(n)}
  <2>1. DOMAIN members' = above /\ \A n \in above : members'[n] = members[n]
    BY <1>5 DEF Attached
  <2>2. above' = above
    BY <1>3, Stays
  <2>3. ASSUME NEW n \in above PROVE Extracted(n)' /\ Intact(n)'
    <3>1. Extracted(n) /\ Intact(n)
      BY <1>2, <1>5 DEF Decodable, Intact
    <3>2. /\ Present(n)' = Present(n) /\ (Intact(n)' <=> Intact(n))
          /\ \A name : Legal(n, name, "plain")' <=> Legal(n, name, "plain")
      BY <1>3, Stays
    <3>3. QED
      BY <2>1, <3>1, <3>2 DEF Extracted
  <2>4. Bounds'
    <3>1. \A n \in DOMAIN members' : DOMAIN members'[n] \subseteq DOMAIN document.objects[n].members
      BY <1>2, <2>1, InBounds DEF Bounds
    <3>2. QED
      BY <1>1, <1>3, <3>1, InBounds DEF Bounds
  <2> HIDE DEF above
  <2>5. Extracting'
    BY <1>5, <2>1, <2>2, <2>3 DEF Extracting, above
  <2>6. Phases' /\ Reporting' /\ Gates'
    BY <1>1, <1>2, <1>3, <1>5 DEF Phases, Reporting, Gates
  <2>7. QED
    BY <1>1, <1>5, <2>4, <2>5, <2>6, GoesOn DEF Steps
<1>6. QED
  BY <1>1, <1>4, <1>5

-----------------------------------------------------------------------------
(* Codec.Marshal *)

LEMMA ValidateMembersKeeps == ASSUME IInv, NEW n \in Objects, ValidateMembers(n) PROVE IInv'
<1> DEFINE names == DOMAIN document.objects[n].members
           found == {<<n, name>> : name \in {k \in names : Faulty(n, k)}}
<1>1. /\ pc = "members" /\ Same /\ visited' = visited \cup {n}
      /\ UNCHANGED <<members, profile, changed>>
      /\ \/ pc' = "gone" /\ faults' = faults
         \/ pc' = "members" /\ faults' = faults \cup found
  BY DEF ValidateMembers, Continue, Same
<1>2. call = "Marshal" /\ ~changed /\ profile = 0 /\ document.core # "scan" /\ faults = FaultsOf(visited)
  BY <1>1 DEF IInv, Phases, Reporting, Gates
<1>3. call' = call /\ document' = document /\ codec' = codec /\ Objects' = Objects
  BY <1>1 DEF Same, Objects
<1>4. visited' \subseteq Objects
  BY <1>1, InBounds DEF Bounds
<1>5. Bounds'
  <2>1. \A fault \in faults' : fault[1] \in visited'
    <3>1. \A fault \in faults : fault[1] \in visited
      BY InBounds DEF Bounds
    <3>2. \A fault \in found : fault[1] = n
      OBVIOUS
    <3> HIDE DEF found
    <3>3. QED
      BY <1>1, <3>1, <3>2
  <2>2. QED
    BY <1>1, <1>3, <1>4, <2>1, InBounds DEF Bounds
<1>6. CASE pc' = "gone"
  <2>1. Phases' /\ Extracting' /\ Reporting' /\ Gates'
    BY <1>1, <1>2, <1>3, <1>6 DEF Phases, Extracting, Reporting, Gates
  <2>2. QED
    BY <1>1, <1>5, <1>6, <2>1, GoesOn DEF Steps
<1>7. CASE pc' = "members" /\ faults' = faults \cup found
  <2>1. \A m \in Objects : DOMAIN document.objects[m].members \subseteq DOMAIN NameRank
    <3>1. \A m \in Objects : document.objects[m] \in ObjectRecords
      BY DEF IInv, Typed, DocumentRecords, Objects
    <3>2. QED
      BY <3>1 DEF ObjectRecords
  <2>2. \A name \in names : Faulty(n, name) <=> IsFault(n, name)
    BY InBounds, FaultyIs DEF IsFault
  <2>3. found = FaultsOf({n})
    <3>1. ASSUME NEW fault \in found PROVE fault \in FaultsOf({n})
      <4>1. PICK name \in names : Faulty(n, name) /\ fault = <<n, name>>
        OBVIOUS
      <4>2. name \in DOMAIN NameRank /\ IsFault(n, name)
        BY <2>1, <2>2, <4>1
      <4>3. QED
        BY <4>1, <4>2 DEF FaultsOf
    <3>2. ASSUME NEW fault \in FaultsOf({n}) PROVE fault \in found
      <4>1. PICK name \in DOMAIN NameRank : fault = <<n, name>> /\ IsFault(n, name)
        BY DEF FaultsOf
      <4>2. name \in names
        BY <4>1 DEF IsFault
      <4>3. QED
        BY <2>2, <4>1, <4>2
    <3>3. QED
      BY <3>1, <3>2
  <2> HIDE DEF found
  <2>4. FaultsOf(visited \cup {n}) = FaultsOf(visited) \cup FaultsOf({n})
    BY DEF FaultsOf
  <2>5. faults' = FaultsOf(visited)'
    <3>1. faults' = {fault \in visited' \X DOMAIN NameRank : IsFault(fault[1], fault[2])}
      BY <1>1, <1>2, <1>7, <2>3, <2>4 DEF FaultsOf
    <3>2. \A m, name : IsFault(m, name) <=> IsFault(m, name)'
      BY <1>3, Stays
    <3>3. QED
      BY <3>1, <3>2 DEF FaultsOf
  <2>6. Reporting'
    BY <1>7, <2>5 DEF Reporting
  <2>7. Phases' /\ Extracting' /\ Gates'
    BY <1>1, <1>2, <1>3, <1>7 DEF Phases, Extracting, Gates
  <2>8. QED
    BY <1>1, <1>5, <1>7, <2>6, <2>7, GoesOn DEF Steps
<1>8. QED
  BY <1>1, <1>6, <1>7

LEMMA MembersValidKeeps == ASSUME IInv, MembersValid PROVE IInv'
<1>1. /\ pc = "members" /\ visited = Objects /\ Same
      /\ UNCHANGED <<visited, faults, profile, changed>>
      /\ \/ faults # {} /\ pc' = "refused" /\ members' = members
         \/ /\ faults = {} /\ pc' = "rules"
            /\ members' = [n \in Objects |-> document.objects[n].members]
  BY DEF MembersValid, Refuse, Continue, Same
<1>2. call = "Marshal" /\ ~changed /\ profile = 0 /\ document.core # "scan" /\ faults = FaultsOf(Objects)
  BY <1>1 DEF IInv, Phases, Reporting, Gates
<1>3. /\ call' = call /\ document' = document /\ codec' = codec /\ Objects' = Objects
      /\ FaultsOf(Objects)' = FaultsOf(Objects)
  BY <1>1, Stays DEF Same, Objects
<1>4. CASE faults # {} /\ pc' = "refused" /\ members' = members
  <2>1. origin # "Marshal"
    BY <1>2 DEF IInv, Sources
  <2>2. origin # "Unmarshal"
    <3>1. ASSUME origin = "Unmarshal", NEW fault \in FaultsOf(Objects) PROVE FALSE
      <4>1. PICK n \in Objects, name \in DOMAIN NameRank : IsFault(n, name)
        BY <3>1 DEF FaultsOf
      <4>2. name \in DOMAIN document.objects[n].members /\ ~Legal(n, name, Given(n, name))
        BY <4>1 DEF IsFault
      <4>3. Given(n, name) = "plain" /\ Legal(n, name, "plain")
        BY <3>1, <4>2 DEF IInv, Sources
      <4>4. QED
        BY <4>2, <4>3
    <3>2. QED
      BY <1>2, <1>4, <3>1
  <2>3. Bounds'
    BY <1>1, <1>3, <1>4, InBounds DEF Bounds
  <2>4. QED
    BY <1>1, <1>2, <1>4, <2>1, <2>2, <2>3, IsRefused
<1>5. CASE /\ faults = {} /\ pc' = "rules"
           /\ members' = [n \in Objects |-> document.objects[n].members]
  <2>1. DOMAIN members' = Objects /\ \A n \in Objects : members'[n] = document.objects[n].members
    BY <1>5
  <2>2. Bounds'
    BY <1>1, <1>3, <2>1, InBounds DEF Bounds
  <2>3. Phases' /\ Extracting' /\ Reporting' /\ Gates'
    BY <1>1, <1>2, <1>3, <1>5 DEF Phases, Extracting, Reporting, Gates
  <2>4. QED
    BY <1>1, <1>5, <2>2, <2>3, GoesOn DEF Steps
<1>6. QED
  BY <1>1, <1>4, <1>5

-----------------------------------------------------------------------------
(* What both calls end with *)

Last == {"declared", "profiles", "encoded", "decoded", "gone", "refused"}

LEMMA EndsStay ==
  ASSUME IInv, Same, UNCHANGED <<members, visited, faults>>,
         pc \in {"rules", "declared", "profiles"}, pc' \in Last
  PROVE  /\ Extracting' /\ Reporting' /\ (call = "Marshal" => faults' = FaultsOf(Objects))
         /\ call # "none" /\ changed = FALSE
<1>1. call' = call /\ document' = document /\ codec' = codec /\ Objects' = Objects
  BY DEF Same, Objects
<1>2. Phases /\ Extracting /\ Reporting /\ Typed
  BY DEF IInv
<1>3. ASSUME call = "Unmarshal"
      PROVE  /\ DOMAIN members' = {n \in Objects' : ~UnderAt(n)'}
             /\ \A n \in DOMAIN members' : Extracted(n)' /\ Intact(n)'
  <2>1. /\ DOMAIN members = {n \in Objects : ~UnderAt(n)}
        /\ \A n \in DOMAIN members : Extracted(n) /\ Intact(n)
    BY <1>2, <1>3 DEF Extracting
  <2>2. /\ \A n : (UnderAt(n) <=> UnderAt(n)') /\ (Intact(n) <=> Intact(n)')
        /\ \A n : Present(n)' = Present(n)
        /\ \A n, name : Legal(n, name, "plain") <=> Legal(n, name, "plain")'
    BY <1>1, Stays
  <2>3. \A n \in DOMAIN members : Extracted(n)'
    BY <2>1, <2>2 DEF Extracted
  <2>4. QED
    BY <1>1, <2>1, <2>2, <2>3
<1>4. Extracting'
  BY <1>1, <1>3 DEF Extracting, Last
<1>5. call = "Marshal" => faults' = FaultsOf(Objects) /\ FaultsOf(Objects)' = FaultsOf(Objects)
  BY <1>1, <1>2, Stays DEF Reporting
<1>6. Reporting'
  BY <1>1, <1>2, <1>5 DEF Reporting, Last
<1>7. call # "none" /\ changed = FALSE
  BY <1>2 DEF Phases, Typed, TypeOK
<1>8. QED
  BY <1>4, <1>5, <1>6, <1>7

LEMMA ValidateWithKeeps == ASSUME IInv, ValidateWith PROVE IInv'
<1>1. /\ pc = "rules" /\ Same /\ UNCHANGED <<members, visited, faults, profile, changed>>
      /\ \/ document.core = "rules" /\ pc' = "refused"
         \/ document.core # "rules" /\ pc' = "declared"
  BY DEF ValidateWith, Refuse, Continue, Same
<1>2. /\ Extracting' /\ Reporting' /\ (call = "Marshal" => faults' = FaultsOf(Objects))
      /\ call # "none" /\ changed = FALSE
  BY <1>1, EndsStay DEF Last
<1>3. /\ call' = call /\ document' = document /\ codec' = codec /\ Objects' = Objects
      /\ document.core # "scan" /\ Bounds' /\ profile = 0
  BY <1>1, InBounds DEF Same, Objects, IInv, Gates, Phases, Bounds
<1>4. CASE document.core = "rules" /\ pc' = "refused"
  <2>1. origin # "Marshal" /\ origin # "Unmarshal"
    BY <1>4 DEF IInv, Sources, Vetted
  <2>2. QED
    BY <1>1, <1>2, <1>3, <1>4, <2>1, IsRefused
<1>5. CASE document.core # "rules" /\ pc' = "declared"
  <2>1. Phases' /\ Gates'
    BY <1>1, <1>2, <1>3, <1>5 DEF Phases, Gates
  <2>2. QED
    BY <1>1, <1>2, <1>3, <1>5, <2>1, GoesOn DEF Steps
<1>6. QED
  BY <1>1, <1>4, <1>5

LEMMA ValidateDeclarationsKeeps == ASSUME IInv, ValidateDeclarations PROVE IInv'
<1>1. /\ pc = "declared" /\ Same /\ UNCHANGED <<members, visited, faults, profile, changed>>
      /\ \/ ~DeclarationsValid /\ pc' = "refused"
         \/ DeclarationsValid /\ pc' = "profiles"
  BY DEF ValidateDeclarations, Refuse, Continue, Same
<1>2. /\ Extracting' /\ Reporting' /\ (call = "Marshal" => faults' = FaultsOf(Objects))
      /\ call # "none" /\ changed = FALSE
  BY <1>1, EndsStay DEF Last
<1>3. /\ call' = call /\ document' = document /\ codec' = codec /\ Objects' = Objects
      /\ document.core # "scan" /\ document.core # "rules" /\ Bounds'
  BY <1>1, InBounds DEF Same, Objects, IInv, Gates, Bounds
<1>4. CASE ~DeclarationsValid /\ pc' = "refused"
  <2>1. origin # "Marshal" /\ origin # "Unmarshal"
    BY <1>4 DEF IInv, Sources, Vetted
  <2>2. QED
    BY <1>1, <1>2, <1>3, <1>4, <2>1, IsRefused
<1>5. CASE DeclarationsValid /\ pc' = "profiles"
  <2>1. Phases'
    BY <1>1, <1>2, <1>3, <1>5 DEF Phases
  <2>2. profile = 0
    BY <1>1 DEF IInv, Phases
  <2>3. DeclarationsValid' /\ profile' = 0 /\ 1..0 = {}
    BY <1>1, <1>3, <1>5, <2>2, Stays
  <2>4. Gates'
    BY <1>3, <1>5, <2>3 DEF Gates
  <2>5. QED
    BY <1>1, <1>2, <1>3, <1>5, <2>1, <2>4, GoesOn DEF Steps
<1>6. QED
  BY <1>1, <1>4, <1>5

\* What a call has returned can be encoded, if none of its values has @-Members.
LEMMA Encodes ==
  ASSUME IInv, pc = "profiles", origin \in {"Marshal", "Unmarshal"}
  PROVE  Encodable
<1>1. ASSUME NEW n \in DOMAIN members, NEW name \in DOMAIN members[n]
      PROVE  members[n][name] = "plain"
  <2>1. CASE origin = "Unmarshal"
    <3>1. members = [m \in Objects |-> document.objects[m].members]
      BY <2>1 DEF IInv, Sources, Reporting
    <3>2. n \in Objects /\ members[n] = document.objects[n].members
      BY <3>1
    <3>3. Given(n, name) = "plain"
      BY <2>1, <3>2 DEF IInv, Sources
    <3>4. QED
      BY <3>2, <3>3 DEF Given
  <2>2. CASE origin = "Marshal"
    <3>1. Extracted(n)
      BY <2>2 DEF IInv, Sources, Extracting
    <3>2. QED
      BY <3>1 DEF Extracted
  <2>3. QED
    BY <2>1, <2>2
<1>2. QED
  BY <1>1 DEF Encodable

LEMMA ValidateProfileKeeps == ASSUME IInv, ValidateProfile PROVE IInv'
<1> DEFINE outcome == codec.profiles[profile + 1].validate
<1>1. /\ pc = "profiles" /\ profile < Len(codec.profiles) /\ profile' = profile + 1 /\ Same
      /\ changed' = (changed \/ (outcome = "mutate" /\ Encodable))
      /\ UNCHANGED <<members, visited, faults>>
      /\ \/ outcome = "none" /\ pc' = "profiles"
         \/ outcome = "ok" /\ pc' = "profiles"
         \/ /\ outcome \in {"error", "panic", "mutate"} \/ (outcome # "none" /\ ~Encodable)
            /\ pc' = "refused"
         \/ outcome = "exit" /\ pc' = "gone"
  BY DEF ValidateProfile, Continue, Same
<1>2. /\ Extracting' /\ Reporting' /\ (call = "Marshal" => faults' = FaultsOf(Objects))
      /\ call # "none" /\ changed = FALSE
  BY <1>1, EndsStay DEF Last
<1>3. /\ call' = call /\ document' = document /\ codec' = codec /\ Objects' = Objects
  BY <1>1 DEF Same, Objects
<1>4. profile \in Nat /\ Len(codec.profiles) \in Nat /\ DOMAIN codec.profiles = 1..Len(codec.profiles)
  <2>1. profile \in 0..Len(codec.profiles) /\ codec.profiles \in Seq(Profiles)
    BY InBounds DEF Bounds, Registry
  <2>2. QED
    BY <2>1
<1>5. profile + 1 \in DOMAIN codec.profiles /\ profile' \in 0..Len(codec.profiles)
  BY <1>1, <1>4
<1>6. Bounds'
  <2>1. changed' \in BOOLEAN
    BY <1>1
  <2>2. QED
    BY <1>1, <1>3, <1>5, <2>1, InBounds DEF Bounds
<1> HIDE DEF outcome
<1>7. CASE outcome \in {"none", "ok"} /\ pc' = "profiles"
  <2>1. changed' = FALSE
    BY <1>1, <1>2, <1>7
  <2>2. /\ document.core # "scan" /\ document.core # "rules" /\ DeclarationsValid
        /\ \A k \in 1..profile : codec.profiles[k].validate \in {"none", "ok"}
    BY <1>1 DEF IInv, Gates
  <2>3. \A k \in 1..profile' : k \in 1..profile \/ k = profile + 1
    BY <1>1, <1>4
  <2>4. \A k \in 1..profile' : codec.profiles[k].validate \in {"none", "ok"}
    BY <1>7, <2>2, <2>3 DEF outcome
  <2>5. DeclarationsValid'
    BY <1>3, <2>2, Stays
  <2>6. Phases' /\ Gates'
    <3>1. Phases'
      BY <1>1, <1>2, <1>3, <1>7, <2>1 DEF Phases
    <3>2. Gates'
      BY <1>3, <1>7, <2>2, <2>4, <2>5 DEF Gates
    <3>3. QED
      BY <3>1, <3>2
  <2>7. QED
    BY <1>1, <1>2, <1>6, <1>7, <2>6, GoesOn DEF Steps
<1>8. CASE /\ outcome \in {"error", "panic", "mutate"} \/ (outcome # "none" /\ ~Encodable)
           /\ pc' = "refused"
  <2>1. ASSUME origin \in {"Marshal", "Unmarshal"} PROVE FALSE
    <3>1. outcome \in {"none", "ok"}
      BY <1>5, <2>1 DEF IInv, Sources, Vetted, outcome
    <3>2. Encodable
      BY <1>1, <2>1, Encodes
    <3>3. QED
      BY <1>8, <3>1, <3>2
  <2>2. QED
    BY <1>1, <1>2, <1>6, <1>8, <2>1, IsRefused
<1>9. CASE outcome = "exit" /\ pc' = "gone"
  <2>1. changed' = FALSE
    BY <1>1, <1>2, <1>9
  <2>2. Phases' /\ Gates'
    BY <1>1, <1>2, <1>3, <1>9, <2>1 DEF Phases, Gates
  <2>3. QED
    BY <1>1, <1>2, <1>6, <1>9, <2>2, GoesOn DEF Steps
<1>10. QED
  BY <1>1, <1>7, <1>8, <1>9

LEMMA ReturnKeeps == ASSUME IInv, Return PROVE IInv'
<1>1. /\ pc = "profiles" /\ profile = Len(codec.profiles) /\ Same
      /\ UNCHANGED <<members, visited, faults, profile, changed>>
      /\ \/ call = "Marshal" /\ ~Encodable /\ pc' = "refused"
         \/ call = "Marshal" /\ pc' = "encoded"
         \/ call = "Unmarshal" /\ pc' = "decoded"
  BY DEF Return, Refuse, Continue, Same
<1>2. /\ Extracting' /\ Reporting' /\ (call = "Marshal" => faults' = FaultsOf(Objects))
      /\ call # "none" /\ changed = FALSE
  BY <1>1, EndsStay DEF Last
<1>3. /\ call' = call /\ document' = document /\ codec' = codec /\ Objects' = Objects /\ Bounds'
  BY <1>1, InBounds DEF Same, Objects, Bounds
<1>4. CASE call = "Marshal" /\ ~Encodable /\ pc' = "refused"
  <2>1. origin \notin {"Marshal", "Unmarshal"}
    BY <1>1, <1>4, Encodes
  <2>2. QED
    BY <1>1, <1>2, <1>3, <1>4, <2>1, IsRefused
<1>5. CASE \/ call = "Marshal" /\ pc' = "encoded"
           \/ call = "Unmarshal" /\ pc' = "decoded"
  <2>1. Phases'
    BY <1>1, <1>2, <1>3, <1>5 DEF Phases
  <2>2. /\ document.core # "scan" /\ document.core # "rules" /\ DeclarationsValid
        /\ \A k \in 1..profile : codec.profiles[k].validate \in {"none", "ok"}
    BY <1>1 DEF IInv, Gates
  <2>3. DeclarationsValid' /\ profile' = profile
    BY <1>1, <1>3, <2>2, Stays
  <2>4. Gates'
    BY <1>1, <1>3, <1>5, <2>2, <2>3 DEF Gates
  <2>5. QED
    BY <1>1, <1>2, <1>3, <1>5, <2>1, <2>4, GoesOn DEF Steps
<1>6. QED
  BY <1>1, <1>4, <1>5

LEMMA NextKeeps == IInv /\ [Next]_vars => IInv'
<1> SUFFICES ASSUME IInv, [Next]_vars PROVE IInv'
  OBVIOUS
<1>1. CASE NewCodec \/ CallMarshal \/ CallUnmarshal \/ SendBack \/ Reencode
  BY <1>1, NewCodecKeeps, CallMarshalKeeps, CallUnmarshalKeeps, SendBackKeeps, ReencodeKeeps
<1>2. CASE Scan \/ DecodeAndAttach \/ MembersValid
  BY <1>2, ScanKeeps, DecodeAndAttachKeeps, MembersValidKeeps
<1>3. CASE \E n \in Objects : Extract(n) \/ ValidateMembers(n)
  BY <1>3, ExtractKeeps, ValidateMembersKeeps
<1>4. CASE ValidateWith \/ ValidateDeclarations \/ ValidateProfile \/ Return
  BY <1>4, ValidateWithKeeps, ValidateDeclarationsKeeps, ValidateProfileKeeps, ReturnKeeps
<1>5. CASE UNCHANGED vars
  <2>1. /\ UNCHANGED <<codec, document>> /\ options' = options /\ pc' = pc /\ call' = call
        /\ calls' = calls /\ origin' = origin /\ members' = members /\ visited' = visited
        /\ faults' = faults /\ profile' = profile /\ changed' = changed /\ document' = document
        /\ codec' = codec
    BY <1>5 DEF vars
  <2>2. Objects' = Objects /\ TypeOK' /\ Registry'
    BY <2>1, Stays DEF IInv, Typed, TypeOK
  <2>3. Typed' /\ Phases'
    BY <2>1, <2>2 DEF IInv, Typed, Phases
  <2>4. \A n : (Extracted(n) => Extracted(n)') /\ (Intact(n) <=> Intact(n)')
    BY <2>1, Stays DEF Extracted
  <2>5. Extracting'
    <3>1. {n \in Objects : ~UnderAt(n)}' = {n \in Objects : ~UnderAt(n)}
      BY <2>1, <2>2, Stays
    <3>2. QED
      BY <2>1, <2>2, <2>4, <3>1 DEF IInv, Extracting
  <2>6. Reporting'
    BY <2>1, <2>2, Stays DEF IInv, Reporting, FaultsOf
  <2>7. Gates' /\ AcceptsItsOwn'
    BY <2>1, <2>2, Stays DEF IInv, Gates, AcceptsItsOwn
  <2>8. Sources'
    BY <2>1, <2>2, Stays DEF IInv, Sources
  <2>9. QED
    BY <2>3, <2>5, <2>6, <2>7, <2>8 DEF IInv
<1>6. QED
  BY <1>1, <1>2, <1>3, <1>4, <1>5 DEF Next

-----------------------------------------------------------------------------
(* What follows *)

THEOREM Invariance == Spec => []IInv
<1>1. Init => IInv
  BY InitIInv
<1>2. IInv /\ [Next]_vars => IInv'
  BY NextKeeps
<1>3. QED
  BY <1>1, <1>2, PTL DEF Spec

\* A registry that NewCodec accepts has one definition of a name in a scope, whatever the
\* extensions, and a call stays among the objects and profiles of its input.
THEOREM TypeCorrect == Spec => []TypeOK
<1>1. IInv => TypeOK
  BY DEF IInv, Typed
<1>2. QED
  BY <1>1, Invariance, PTL

\* What Unmarshal returns carries what is registered for its objects, each member judged by
\* its own validator and without @-Members inside, and nothing else.
THEOREM CarriesWhatIsRegistered == Spec => []CarriesRegistered
<1>1. IInv => CarriesRegistered
  <2> SUFFICES ASSUME IInv, pc = "decoded"
               PROVE  /\ DOMAIN members = {n \in Objects : ~UnderAt(n)}
                      /\ \A n \in DOMAIN members :
                           /\ DOMAIN members[n] = RegisteredNames(n) \cap DOMAIN document.objects[n].members
                           /\ \A name \in DOMAIN members[n] :
                                /\ members[n][name] = "plain"
                                /\ Validate(n, name, "plain") \in {"none", "ok"}
    BY DEF CarriesRegistered
  <2>1. /\ DOMAIN members = {n \in Objects : ~UnderAt(n)}
        /\ \A n \in DOMAIN members : Extracted(n)
    BY DEF IInv, Phases, Extracting
  <2>2. ASSUME NEW n \in DOMAIN members
        PROVE  /\ DOMAIN members[n] = RegisteredNames(n) \cap DOMAIN document.objects[n].members
               /\ \A name \in DOMAIN members[n] :
                    /\ members[n][name] = "plain"
                    /\ Validate(n, name, "plain") \in {"none", "ok"}
    <3>1. DOMAIN members[n] = Present(n)
      BY <2>1 DEF Extracted
    <3>2. ASSUME NEW name \in Present(n)
          PROVE  members[n][name] = "plain" /\ Validate(n, name, "plain") \in {"none", "ok"}
      <4>1. members[n][name] = "plain" /\ Legal(n, name, "plain") /\ name \in RegisteredNames(n)
        BY <2>1 DEF Extracted, Present
      <4>2. QED
        BY <4>1, InBounds, Judged
    <3>3. QED
      BY <3>1, <3>2 DEF Present
  <2>3. QED
    BY <2>1, <2>2
<1>2. QED
  BY <1>1, Invariance, PTL

\* Marshal reports every member that it must not write, in every object and in one call,
\* whatever the order in which maps are walked.
THEOREM ReportsAllFaults == Spec => []ReportsEveryFault
<1>1. IInv => ReportsEveryFault
  BY DEF IInv, Reporting, ReportsEveryFault, FaultsOf, IsFault, Legal
<1>2. QED
  BY <1>1, Invariance, PTL

\* What one call has returned the other accepts, however often they follow each other.
THEOREM AcceptsItsOwnProducts == Spec => []AcceptsItsOwn
<1>1. IInv => AcceptsItsOwn
  BY DEF IInv
<1>2. QED
  BY <1>1, Invariance, PTL

\* A document that is marshalled and received again has its registered members where they
\* were, and has lost its @-Members.
THEOREM MembersRoundTrip == Spec => []RoundTrip
<1>1. IInv => RoundTrip
  <2> SUFFICES ASSUME IInv, origin = "Marshal", pc = "decoded", NEW n \in Objects, ~UnderAt(n)
               PROVE  members[n] = [name \in {k \in DOMAIN document.objects[n].members : ~IsAt(k)} |-> "plain"]
    BY DEF RoundTrip
  <2>1. members[n] = [name \in Present(n) |-> "plain"]
    BY DEF IInv, Phases, Extracting, Extracted
  <2>2. ASSUME NEW k \in DOMAIN document.objects[n].members, ~IsAt(k)
        PROVE  k \in Present(n)
    <3>1. k \in DOMAIN NameRank
      <4>1. document.objects[n] \in ObjectRecords
        BY DEF IInv, Typed, DocumentRecords, Objects
      <4>2. DOMAIN document.objects[n].members \subseteq DOMAIN NameRank
        BY <4>1 DEF ObjectRecords
      <4>3. QED
        BY <2>2, <4>2
    <3>2. FaultsOf(Objects) = {}
      BY DEF IInv, Sources
    <3>3. <<n, k>> \notin FaultsOf(Objects)
      BY <3>2
    <3>4. ~IsFault(n, k)
      BY <3>1, <3>3 DEF FaultsOf
    <3>5. Legal(n, k, Given(n, k))
      BY <2>2, <3>4 DEF IsFault
    <3>6. QED
      BY <2>2, <3>5, LegalIsRegistered DEF Present
  <2>3. \A k \in Present(n) : k \in DOMAIN document.objects[n].members /\ ~IsAt(k)
    BY InBounds, Judged DEF Present
  <2>4. Present(n) = {k \in DOMAIN document.objects[n].members : ~IsAt(k)}
    BY <2>2, <2>3
  <2>5. QED
    BY <2>1, <2>4
<1>2. QED
  BY <1>1, Invariance, PTL

\* No document and no encoding is returned that a profile has changed.
THEOREM ReturnsTheValidated == Spec => []ReturnsWhatWasValidated
<1>1. IInv => ReturnsWhatWasValidated
  BY DEF IInv, Phases, ReturnsWhatWasValidated
<1>2. QED
  BY <1>1, Invariance, PTL
=====================================================================================
