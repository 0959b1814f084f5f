---------------------------- MODULE IncludedLinkage ----------------------------
(***************************************************************************)
(* validateIncluded (validation.go): the breadth-first traversal that      *)
(* decides which included resources are linked from primary data.          *)
(*                                                                         *)
(* relationshipIdentifiers ranges over a Go map, so the identifiers of one *)
(* resource join the queue in an order that differs from run to run; the   *)
(* model takes every order of the identifiers that join in one step, which *)
(* includes the orders the code can produce.                               *)
(***************************************************************************)
EXTENDS ValidatedDocument, SequencesExt

VARIABLES
  sparse,      \* the option SparseFieldsetsOmittedLinkage
  reachable,   \* indexes of the included resources reached
  queue,       \* occurrences of identifiers still to be followed
  followed,    \* the occurrences followed
  unlinked,    \* indexes reported as full-linkage violations
  done         \* whether validateIncluded has returned

vars == <<document, sparse, reachable, queue, followed, unlinked, done>>

Init ==
  /\ document \in Documents
  /\ sparse \in BOOLEAN
  /\ reachable = {}
  /\ queue \in SetToSeqs(Linkage(document, Primary(document)))
  /\ followed = {}
  /\ unlinked = {}
  /\ done = FALSE

\* Bug: the index keeps one resource per name.
FollowLast ==
  /\ queue # <<>>
  /\ LET found == {k \in Targets(document, Head(queue)) \ reachable :
                     \A j \in Targets(document, Head(queue)) : j <= k}
     IN /\ reachable' = reachable \cup found
        /\ \E order \in SetToSeqs(Linkage(document, found)) : queue' = Tail(queue) \o order
  /\ followed' = followed \cup {Head(queue)}
  /\ UNCHANGED <<document, sparse, unlinked, done>>

\* Bug: a resource is expanded every time it is found.
FollowAgain ==
  /\ queue # <<>>
  /\ LET found == Targets(document, Head(queue))
     IN /\ reachable' = reachable \cup found
        /\ \E order \in SetToSeqs(Linkage(document, found)) : queue' = Tail(queue) \o order
  /\ followed' = followed \cup {Head(queue)}
  /\ UNCHANGED <<document, sparse, unlinked, done>>

\* Bug: an identifier that finds nothing yet is put back at the end.
FollowRetries ==
  /\ queue # <<>>
  /\ LET found == Targets(document, Head(queue)) \ reachable
     IN /\ reachable' = reachable \cup found
        /\ \E order \in SetToSeqs(Linkage(document, found)) :
             queue' = Tail(queue) \o IF found = {} THEN <<Head(queue)>> ELSE order
  /\ followed' = followed \cup {Head(queue)}
  /\ UNCHANGED <<document, sparse, unlinked, done>>

\* One iteration of the loop: every resource the identifier finds is reached,
\* and the linkage of those not reached before joins the queue.
Follow ==
  /\ queue # <<>>
  /\ LET found == Targets(document, Head(queue)) \ reachable
     IN /\ reachable' = reachable \cup found
        /\ \E order \in SetToSeqs(Linkage(document, found)) : queue' = Tail(queue) \o order
  /\ followed' = followed \cup {Head(queue)}
  /\ UNCHANGED <<document, sparse, unlinked, done>>

Report ==
  /\ queue = <<>> /\ ~done
  /\ unlinked' = IF sparse THEN {} ELSE Included(document) \ reachable
  /\ done' = TRUE
  /\ UNCHANGED <<document, sparse, reachable, queue, followed>>

Next == Follow \/ Report \/ (done /\ UNCHANGED vars)

Spec == Init /\ [][Next]_vars

-----------------------------------------------------------------------------

AllLinkage == Linkage(document, DOMAIN document.resources)

TypeOK ==
  /\ document \in Documents
  /\ sparse \in BOOLEAN
  /\ reachable \subseteq Included(document)
  /\ queue \in Seq(AllLinkage)
  /\ followed \subseteq AllLinkage
  /\ unlinked \subseteq Included(document)
  /\ done \in BOOLEAN

\* Whatever the order of the maps, the resources validateIncluded reports are
\* exactly those that no chain of identifiers links from primary data, with
\* cycles, duplicates and resources of two names; none under the sparse-fieldset
\* exception.
ReportsUnlinkedExactly ==
  done => unlinked = IF sparse THEN {} ELSE Included(document) \ Linked(document)

\* Each identifier of the document is followed at most once: the traversal costs
\* no more than the linkage the document contains, whatever cycles it has.
FollowsOnce ==
  /\ \A p \in DOMAIN queue : queue[p] \notin followed
  /\ \A p, q \in DOMAIN queue : p # q => queue[p] # queue[q]
=============================================================================
