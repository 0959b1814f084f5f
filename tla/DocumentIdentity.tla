---------------------------- MODULE DocumentIdentity ----------------------------
(***************************************************************************)
(* validateDocumentIdentity (validation.go): no resource may appear twice  *)
(* in a document, under either of its names, and the two names may not     *)
(* contradict each other anywhere.  The first loop passes over the         *)
(* resources, the second (validateLocalIdentities) over every              *)
(* representation that the first one collected: the resources and the      *)
(* identifiers in their relationships.  One action is one iteration.       *)
(***************************************************************************)
EXTENDS ValidatedDocument

VARIABLES
  resource,      \* index of the resource of the next iteration
  canonical,     \* name -> the first resource that carries it
  observations,  \* the representations collected: [type, id, lid]
  duplicates,    \* the resources reported as duplicates, as <<index, of>>
  observation,   \* index of the observation of the next iteration
  byID,          \* <<type, "id", id>> -> the lid it goes with
  byLID,         \* <<type, "lid", lid>> -> the id it goes with
  conflicts      \* the contradictions reported, as <<observation, name>>

pass == <<document, resource, canonical, observations, duplicates>>
identityVars == <<document, resource, canonical, observations, duplicates,
          observation, byID, byLID, conflicts>>

Empty == [key \in {} |-> None]

\* Bug: the last one seen replaces the first.
LastSeen(names, keys, value) ==
  [key \in DOMAIN names \cup keys |-> IF key \in keys THEN value ELSE names[key]]

\* The map names once keys have been seen with value: what was first seen stays.
FirstSeen(names, keys, value) ==
  [key \in DOMAIN names \cup keys |-> IF key \in DOMAIN names THEN names[key] ELSE value]

IdentityStart ==
  /\ resource = 1
  /\ canonical = Empty
  /\ observations = <<>>
  /\ duplicates = {}
  /\ observation = 1
  /\ byID = Empty
  /\ byLID = Empty
  /\ conflicts = {}

IdentityInit == document \in Documents /\ IdentityStart

Identity(x) == [type |-> x.type, id |-> x.id, lid |-> x.lid]

\* The name by which r is found among those seen before: its id comes first.
KnownName(r, known) == IF Present(r.id) /\ IdKey(r) \in known THEN IdKey(r) ELSE LidKey(r)

\* Bug: a resource is known by one name, as an identifier is.
CheckResourceOneName ==
  /\ resource <= Len(document.resources)
  /\ LET r     == document.resources[resource]
         keys  == ResourceKeys(r) \cap {IdentifierKey(r)}
         known == keys \cap DOMAIN canonical
     IN /\ duplicates' = duplicates \cup {<<resource, canonical[key]>> : key \in known}
        /\ canonical' = FirstSeen(canonical, keys, resource)
        /\ observations' = Append(observations, Identity(r)) \o r.linkage
  /\ resource' = resource + 1
  /\ UNCHANGED <<document, observation, byID, byLID, conflicts>>

CheckResource ==
  /\ resource <= Len(document.resources)
  /\ LET r     == document.resources[resource]
         known == ResourceKeys(r) \cap DOMAIN canonical
     IN /\ duplicates' = IF known = {} THEN duplicates
                         ELSE duplicates \cup {<<resource, canonical[KnownName(r, known)]>>}
        /\ canonical' = FirstSeen(canonical, ResourceKeys(r), resource)
        /\ observations' = Append(observations, Identity(r)) \o r.linkage
  /\ resource' = resource + 1
  /\ UNCHANGED <<document, observation, byID, byLID, conflicts>>

\* Only a representation with both names says which id goes with which lid.
NamesBoth(o) == Present(o.type) /\ Present(o.id) /\ Present(o.lid)

Contradicts(names, key, name) == key \in DOMAIN names /\ names[key] # name

\* Bug: only the lid of a known id is compared, not the id of a known lid.
CheckObservationOneWay ==
  /\ resource > Len(document.resources)
  /\ observation <= Len(observations)
  /\ LET o == observations[observation] IN
       /\ conflicts' = IF NamesBoth(o) /\ Contradicts(byID, IdKey(o), o.lid)
                       THEN conflicts \cup {<<observation, "id">>} ELSE conflicts
       /\ byID' = IF NamesBoth(o) THEN FirstSeen(byID, {IdKey(o)}, o.lid) ELSE byID
  /\ observation' = observation + 1
  /\ UNCHANGED <<pass, byLID>>

CheckObservation ==
  /\ resource > Len(document.resources)
  /\ observation <= Len(observations)
  /\ LET o == observations[observation] IN
       \/ /\ ~NamesBoth(o)
          /\ UNCHANGED <<byID, byLID, conflicts>>
       \/ /\ NamesBoth(o)
          /\ conflicts' = conflicts \cup
               {<<observation, name>> : name \in {n \in {"id", "lid"} :
                  \/ n = "id"  /\ Contradicts(byID, IdKey(o), o.lid)
                  \/ n = "lid" /\ Contradicts(byLID, LidKey(o), o.id)}}
          /\ byID' = FirstSeen(byID, {IdKey(o)}, o.lid)
          /\ byLID' = FirstSeen(byLID, {LidKey(o)}, o.id)
  /\ observation' = observation + 1
  /\ UNCHANGED pass

IdentityDone == resource > Len(document.resources) /\ observation > Len(observations)

IdentityNext == CheckResource \/ CheckObservation \/ (IdentityDone /\ UNCHANGED identityVars)

IdentitySpec == IdentityInit /\ [][IdentityNext]_identityVars

Accepted == IdentityDone /\ duplicates = {} /\ conflicts = {}

-----------------------------------------------------------------------------

Resources == DOMAIN document.resources

Keys(k) == ResourceKeys(document.resources[k])

\* Every representation of a resource in the document, in whatever order.
Representations ==
  {Identity(document.resources[k]) : k \in Resources}
  \cup UNION {ItemsOf(document.resources[k].linkage) : k \in Resources}

IdentityTypeOK ==
  /\ IsDocument(document)
  /\ resource \in 1..(Len(document.resources) + 1)
  /\ \A key \in DOMAIN canonical : canonical[key] \in 1..(resource - 1)
  /\ observations \in Seq(Representations)
  /\ duplicates \subseteq Resources \X Resources
  /\ observation \in 1..(Len(observations) + 1)
  /\ \A key \in DOMAIN byID : Present(byID[key])
  /\ \A key \in DOMAIN byLID : Present(byLID[key])
  /\ conflicts \subseteq Nat \X {"id", "lid"}

\* A resource is reported exactly when an earlier one carries one of its names,
\* and the report points at the first resource that carries that name.
DuplicatesExactly ==
  \A k \in 1..(resource - 1) :
    /\ (\E j \in Resources : <<k, j>> \in duplicates)
         <=> \E j \in 1..(k - 1) : Keys(j) \cap Keys(k) # {}
    /\ \A j \in Resources : <<k, j>> \in duplicates =>
         /\ j < k
         /\ \E key \in Keys(j) \cap Keys(k) : \A i \in 1..(j - 1) : key \notin Keys(i)

\* A contradiction is reported exactly when some two representations that name
\* both domains agree on one name and differ on the other: the verdict is that of
\* the document as a whole, though the loop compares only with the first one and
\* goes on after a contradiction.
ConflictsExactly ==
  IdentityDone =>
    (conflicts # {} <=>
       \E o, p \in Representations :
         /\ NamesBoth(o) /\ NamesBoth(p)
         /\ o.type = p.type
         /\ (o.id = p.id) # (o.lid = p.lid))

\* Full linkage looks resources up in an index that may hold several of them per
\* name; in a document whose identities are accepted an identifier finds one at most.
LookupsUnambiguous ==
  Accepted =>
    \A o \in Linkage(document, Resources) :
      \A j, k \in Targets(document, o) : j = k

\* specification-decisions.md:163: in a document that is accepted and fully
\* linked a resource cannot appear twice through alternate id and lid aliases:
\* no representation names both an object known by its id and another one known
\* by its lid.
NoResourceTwice ==
  Accepted /\ Included(document) \subseteq Linked(document) =>
    ~ \E o \in Representations :
        /\ NamesBoth(o)
        /\ \E j, k \in Resources : j # k /\ IdKey(o) \in Keys(j) /\ LidKey(o) \in Keys(k)
=============================================================================
