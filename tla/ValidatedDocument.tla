--------------------------- MODULE ValidatedDocument ---------------------------
(***************************************************************************)
(* The document that the passes of validateDocument share.                 *)
(***************************************************************************)
EXTENDS ResourceGraph

CONSTANT Documents   \* the documents to validate

ASSUME DocumentsWellFormed == \A d \in Documents : IsDocument(d)

VARIABLE document    \* the document under validation
=============================================================================
