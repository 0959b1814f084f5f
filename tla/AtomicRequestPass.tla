--------------------------- MODULE AtomicRequestPass ---------------------------
(***************************************************************************)
(* The loop of validateAtomicOperations (atomic.go): one pass over the     *)
(* operations in document order that carries the set of local identities   *)
(* assigned so far.  One action is one iteration of the loop.              *)
(***************************************************************************)
EXTENDS AtomicRequests

VARIABLES
  operations,   \* the request
  cursor,       \* the operation of the next iteration
  assigned,     \* local identities assigned by the add operations passed
  violations    \* the violations reported, as <<index of the operation, code>>

passVars == <<operations, cursor, assigned, violations>>

Codes == {"operation", "ref-lid", "data-lid"}

PassInit ==
  /\ operations \in Requests
  /\ cursor = 1
  /\ assigned = {}
  /\ violations = {}

\* Bug: the data is resolved before the operation's own assignment is recorded.
ProcessOperationAssignsLast ==
  /\ cursor <= Len(operations)
  /\ LET o == operations[cursor]
         broken ==
           {code \in Codes :
              \/ code = "operation" /\ ~OperationValid(o)
              \/ code = "ref-lid" /\ ~(RefUses(o) \subseteq assigned)
              \/ code = "data-lid" /\ ~(DataUses(o) \subseteq assigned)}
     IN /\ assigned' = assigned \cup Assigns(o)
        /\ violations' = violations \cup {<<cursor, code>> : code \in broken}
  /\ cursor' = cursor + 1
  /\ UNCHANGED operations

\* The order is the code's: the reference is resolved against the identities
\* of earlier operations, then the operation's own assignment is recorded
\* (even when the operation is invalid), then its data is resolved.
ProcessOperation ==
  /\ cursor <= Len(operations)
  /\ LET o   == operations[cursor]
         now == assigned \cup Assigns(o)
         broken ==
           {code \in Codes :
              \/ code = "operation" /\ ~OperationValid(o)
              \/ code = "ref-lid" /\ ~(RefUses(o) \subseteq assigned)
              \/ code = "data-lid" /\ ~(DataUses(o) \subseteq now)}
     IN /\ assigned' = now
        /\ violations' = violations \cup {<<cursor, code>> : code \in broken}
  /\ cursor' = cursor + 1
  /\ UNCHANGED operations

Passed == cursor > Len(operations)

PassNext == ProcessOperation \/ (Passed /\ UNCHANGED passVars)

PassSpec == PassInit /\ [][PassNext]_passVars

\* The verdict of the request once the pass is over (an empty request is
\* refused before the loop by the min-items rule).
Accepted == Passed /\ operations # <<>> /\ violations = {}

-----------------------------------------------------------------------------

PassTypeOK ==
  /\ operations \in Requests
  /\ cursor \in 1..(Len(operations) + 1)
  /\ violations \subseteq (1..Len(operations)) \X Codes

\* The single pass of validateAtomicOperations accepts exactly the requests in
\* which every reference and every linkage is resolved by document order: no
\* forward reference slips through and no resolvable one is refused.
PassDecidesOperationsValid == Passed => (Accepted <=> OperationsValid(operations))
=============================================================================
