----------------------------- MODULE AtomicRequests -----------------------------
(***************************************************************************)
(* The requests of an Atomic call, by their operations.                    *)
(***************************************************************************)
EXTENDS AtomicRules

CONSTANT Requests   \* the operation sequences a caller may submit

ASSUME RequestsAreSequences == \A ops \in Requests : ops \in Seq(ItemsOf(ops))
=============================================================================
