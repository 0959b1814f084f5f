----------------------------- MODULE DocumentPasses -----------------------------
(***************************************************************************)
(* The passes of validateDocument (validation.go) over the resources of a  *)
(* document: full linkage (IncludedLinkage), then identities               *)
(* (DocumentIdentity), on the same document and whatever the first found.  *)
(***************************************************************************)
EXTENDS IncludedLinkage, DocumentIdentity

passesVars == <<vars, identityVars>>

PassesInit == Init /\ IdentityStart

LinkagePass == (Follow \/ Report) /\ UNCHANGED identityVars

IdentityPass == done /\ (CheckResource \/ CheckObservation) /\ UNCHANGED vars

Passes == LinkagePass \/ IdentityPass

AllDone == done /\ IdentityDone

PassesNext == Passes \/ (AllDone /\ UNCHANGED passesVars)

\* The passes are loops of one call and never wait.
PassesSpec == PassesInit /\ [][PassesNext]_passesVars /\ WF_passesVars(Passes)

\* The verdict of both passes.
Compound == AllDone /\ Accepted /\ unlinked = {}

-----------------------------------------------------------------------------

\* In a document that both passes accept, outside the sparse-fieldset exception,
\* the traversal has led to each included resource by an identifier that finds no
\* other resource of the document.
LeadsToEachIncluded ==
  Compound /\ ~sparse =>
    \A k \in Included(document) :
      \E o \in followed :
        {j \in Resources : IdentifierKey(IdentifierAt(document, o)) \in Keys(j)} = {k}

\* Both passes end, on cyclic linkage too.
PassesEnd == <>AllDone
=============================================================================
