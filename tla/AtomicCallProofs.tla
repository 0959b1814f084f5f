--------------------------- MODULE AtomicCallProofs ---------------------------
(***************************************************************************)
(* Machine-checked proofs about ExecuteAtomic, for every set of requests   *)
(* and results: the execution, the single pass that validates its request, *)
(* and the call that interleaves the pass with the cancellation of its     *)
(* context and implements the execution.                                   *)
(***************************************************************************)
EXTENDS AtomicCall, TLAPS

Early == {"validate", "check-beginner", "check-context", "begin"}
Working == {"loop", "apply", "check-commit", "check-results", "commit"}

-----------------------------------------------------------------------------
(* The inductive invariant *)

InOrder == \A p \in DOMAIN applied : applied[p] = p

\* Nothing has happened until BeginAtomic succeeds.
NothingBegun ==
  /\ pc \in Early =>
       /\ store = "none" /\ applied = <<>> /\ results = <<>> /\ index = 1
       /\ commits = 0 /\ rollbacks = 0 /\ failure = None /\ answer = "pending"
  /\ store = "none" => applied = <<>> /\ commits = 0 /\ rollbacks = 0
  /\ store = "none" => pc \in Early \cup {"returned", "gone"}
  /\ pc \in (Early \ {"validate"}) \/ store # "none" => RequestValid

\* While the transaction is open and no failure has occurred, the loop has
\* applied, and collected the results of, the operations before index.
Underway ==
  /\ pc \in Working =>
       /\ store = "open" /\ commits = 0 /\ rollbacks = 0 /\ failure = None
       /\ answer = "pending"
       /\ Len(applied) = index - 1 /\ Len(results) = index - 1
  /\ pc = "apply" => index <= Len(Operations)
  /\ pc \in {"check-commit", "check-results", "commit"} => index = Len(Operations) + 1
  /\ pc = "commit" => ResultsValid(results, Operations)

\* Once CommitAtomic has been called everything before it is settled.
AfterCommit ==
  /\ commits > 0 =>
       /\ commits = 1 /\ Len(applied) = Len(Operations)
       /\ ResultsValid(results, Operations)
       /\ pc \in {"respond", "rollback", "returned", "gone"}
  /\ store = "committed" => commits = 1
  /\ pc = "respond" =>
       /\ store = "committed" /\ rollbacks = 0 /\ failure = None /\ answer = "pending"

\* What a recorded failure says, before and after the rollback.
AfterFailure ==
  /\ failure # None =>
       /\ failure.phase \in {"validation", "begin"} <=> store = "none"
       /\ failure.phase = "apply" =>
            /\ failure.index \in DOMAIN Operations
            /\ Len(applied) = IF failure.cause = "cancelled" THEN failure.index - 1
                                                            ELSE failure.index
       /\ failure.phase \in {"result-validation", "commit"} =>
            failure.index = 0 /\ Len(applied) = Len(Operations)
       /\ store = "committed" => failure.phase = "commit" /\ failure.cause \in Errors
       /\ pc \in {"rollback", "returned", "gone"}
  /\ pc = "rollback" =>
       failure # None /\ store \in {"open", "committed"} /\ rollbacks = 0 /\ answer = "pending"

Answered ==
  /\ answer # "pending" <=> pc = "returned"
  /\ answer = "response" => store = "committed" /\ rollbacks = 0
  /\ answer = "error" =>
       /\ failure # None
       /\ rollbacks = IF store = "none" THEN 0 ELSE 1
       /\ store = "open" => cleanup \in Errors
  /\ rollbacks <= 1

\* A check that found the context live is followed by at most one late call.
Lateness ==
  /\ late <= 1
  /\ context # "cancelled" => late = 0
  /\ pc \in {"begin", "apply", "check-results", "commit"} => late = 0

IInv ==
  TypeOK /\ InOrder /\ NothingBegun /\ Underway /\ AfterCommit /\ AfterFailure
    /\ Answered /\ Lateness

-----------------------------------------------------------------------------
(* Facts about the request *)

LEMMA RequestShape ==
  ASSUME TypeOK
  PROVE  /\ Operations \in Seq(ItemsOf(Operations))
         /\ Len(Operations) \in Nat
         /\ DOMAIN Operations = 1..Len(Operations)
BY RequestsAreSequences DEF TypeOK, Operations

-----------------------------------------------------------------------------
(* The inductive invariant is inductive *)

LEMMA InitIInv == Init => IInv
<1> SUFFICES ASSUME Init PROVE IInv
  OBVIOUS
<1>1. TypeOK
  BY RequestsAreSequences, NoneIsNoFailure DEF Init, TypeOK, Operations, PC
<1>2. QED
  BY <1>1 DEF Init, IInv, InOrder, NothingBegun, Underway, AfterCommit, AfterFailure,
     Answered, Lateness, Early, Working

\* A callback that starts while no call was late leaves at most one late call.
LEMMA CalledIsBounded ==
  ASSUME IInv, pc \in {"begin", "apply", "commit"}, Called, UNCHANGED context
  PROVE  late' \in Nat /\ late' <= 1 /\ (context' # "cancelled" => late' = 0)
BY DEF IInv, TypeOK, Lateness, Called

\* Returning an error before a transaction exists.
LEMMA ReturnErrorIInv ==
  ASSUME IInv, pc \in Early,
         NEW phase \in {"validation", "begin"},
         NEW cause \in Errors \cup {"invalid", "missing", "cancelled"},
         ReturnError(phase, cause), UNCHANGED <<store, applied, commits, rollbacks>>,
         late' \in Nat, late' <= 1, context' # "cancelled" => late' = 0
  PROVE  IInv'
<1> USE DEF IInv, ReturnError
<1>0. UNCHANGED Operations /\ UNCHANGED RequestValid
  BY DEF Operations, RequestValid
<1>1. /\ store = "none" /\ applied = <<>> /\ commits = 0 /\ rollbacks = 0
      /\ answer = "pending" /\ store' = "none" /\ applied' = <<>>
  BY DEF NothingBegun
<1>2. /\ failure' \in Failures /\ failure'.phase = phase
      /\ failure' # None
  BY NoneIsNoFailure DEF Failures, Phases
<1>3. TypeOK'
  BY <1>0, <1>2 DEF TypeOK, PC
<1>4. InOrder' /\ NothingBegun'
  BY <1>0, <1>1 DEF InOrder, NothingBegun, Early
<1>5. Underway' /\ AfterCommit'
  BY <1>1 DEF Underway, AfterCommit, Working
<1>6. AfterFailure'
  BY <1>1, <1>2 DEF AfterFailure
<1>7. Answered'
  BY <1>1, <1>2 DEF Answered
<1>8. Lateness'
  BY DEF Lateness
<1>9. QED
  BY <1>3, <1>4, <1>5, <1>6, <1>7, <1>8

LEMMA NextIInv == IInv /\ [Next]_vars => IInv'
<1> SUFFICES ASSUME IInv, [Next]_vars PROVE IInv'
  OBVIOUS
<1> USE DEF IInv
<1>1. CASE ValidateRequest
  <2>1. CASE ReturnError("validation", "invalid")
    <3>1. /\ pc \in Early /\ UNCHANGED <<store, applied, commits, rollbacks>>
          /\ late' \in Nat /\ late' <= 1 /\ (context' # "cancelled" => late' = 0)
      BY <1>1, <2>1 DEF ValidateRequest, Decide, ReturnError, adapter, Early, TypeOK, Lateness
    <3>2. QED
      BY <2>1, <3>1, ReturnErrorIInv
  <2>2. CASE RequestValid /\ Goto("check-beginner") /\ UNCHANGED <<index, results>>
    BY <1>1, <2>2 DEF ValidateRequest, Decide, Goto, adapter, Operations, RequestValid, TypeOK, PC,
       InOrder, NothingBegun, Underway, AfterCommit, AfterFailure, Answered, Lateness, Early, Working
  <2>3. QED
    BY <1>1, <2>1, <2>2 DEF ValidateRequest, Decide
<1>2. CASE CheckBeginner
  <2>1. CASE ReturnError("begin", "missing")
    <3>1. /\ pc \in Early /\ UNCHANGED <<store, applied, commits, rollbacks>>
          /\ late' \in Nat /\ late' <= 1 /\ (context' # "cancelled" => late' = 0)
      BY <1>2, <2>1 DEF CheckBeginner, ReturnError, adapter, Early, TypeOK, Lateness
    <3>2. QED
      BY <2>1, <3>1, ReturnErrorIInv
  <2>2. CASE call.beginner /\ Goto("check-context") /\ UNCHANGED <<index, results>>
    BY <1>2, <2>2 DEF CheckBeginner, Goto, adapter, Operations, RequestValid, TypeOK, PC,
       InOrder, NothingBegun, Underway, AfterCommit, AfterFailure, Answered, Lateness, Early, Working
  <2>3. QED
    BY <1>2, <2>1, <2>2 DEF CheckBeginner
<1>3. CASE CheckContext
  <2>1. ASSUME NEW cause \in {"missing", "cancelled"}, ReturnError("begin", cause)
        PROVE  IInv'
    <3>1. /\ pc \in Early /\ UNCHANGED <<store, applied, commits, rollbacks>>
          /\ late' \in Nat /\ late' <= 1 /\ (context' # "cancelled" => late' = 0)
      BY <1>3, <2>1 DEF CheckContext, ReturnError, adapter, Early, TypeOK, Lateness
    <3>2. QED
      BY <2>1, <3>1, ReturnErrorIInv
  <2>2. CASE context = "live" /\ Goto("begin") /\ UNCHANGED <<index, results>>
    BY <1>3, <2>2 DEF CheckContext, Goto, adapter, Operations, RequestValid, TypeOK, PC,
       InOrder, NothingBegun, Underway, AfterCommit, AfterFailure, Answered, Lateness, Early, Working
  <2>3. QED
    BY <1>3, <2>1, <2>2 DEF CheckContext
<1>4. CASE BeginAtomic
  <2>0. UNCHANGED context => late' \in Nat /\ late' <= 1 /\ (context' # "cancelled" => late' = 0)
    BY <1>4, CalledIsBounded DEF BeginAtomic
  <2>1. ASSUME NEW cause \in Errors \cup {"missing"}, ReturnError("begin", cause), UNCHANGED store
        PROVE  IInv'
    <3>1. pc \in Early /\ UNCHANGED <<context, store, applied, commits, rollbacks>>
      BY <1>4, <2>1 DEF BeginAtomic, ReturnError, Early
    <3>2. QED
      BY <2>0, <2>1, <3>1, ReturnErrorIInv
  <2>2. CASE store' = "open" /\ Goto("loop") /\ UNCHANGED <<index, results>>
    BY <1>4, <2>0, <2>2 DEF BeginAtomic, Goto, Operations, RequestValid, TypeOK, PC,
       InOrder, NothingBegun, Underway, AfterCommit, AfterFailure, Answered, Lateness, Early, Working
  <2>3. CASE Vanish /\ UNCHANGED store
    BY <1>4, <2>0, <2>3 DEF BeginAtomic, Vanish, Operations, RequestValid, TypeOK, PC,
       InOrder, NothingBegun, Underway, AfterCommit, AfterFailure, Answered, Lateness, Early, Working
  <2>4. QED
    BY <1>4, <2>1, <2>2, <2>3 DEF BeginAtomic
<1>5. CASE CheckBeforeApply
  BY <1>5, RequestShape, NoneIsNoFailure
     DEF CheckBeforeApply, Goto, Fail, adapter, Operations, RequestValid, TypeOK, PC, Failures, Phases,
     InOrder, NothingBegun, Underway, AfterCommit, AfterFailure, Answered, Lateness, Early, Working
<1>6. CASE ApplyAtomic
  <2>0. /\ index \in Nat /\ index <= Len(Operations) /\ Len(Operations) \in Nat
        /\ DOMAIN Operations = 1..Len(Operations) /\ UNCHANGED Operations /\ UNCHANGED RequestValid
        /\ applied \in Seq(1..Len(Operations)) /\ results \in Seq(Results)
        /\ Len(applied) = index - 1 /\ Len(results) = index - 1
    BY <1>6, RequestShape
       DEF ApplyAtomic, Underway, Working, TypeOK, Goto, Fail, Vanish, Operations, RequestValid
  <2>1. /\ applied' \in Seq(1..Len(Operations))
        /\ Len(applied') = index
        /\ \A p \in DOMAIN applied' : applied'[p] = p
        /\ applied' # <<>>
    BY <1>6, <2>0 DEF ApplyAtomic, InOrder
  <2>2. UNCHANGED context /\ late' \in Nat /\ late' <= 1 /\ (context' # "cancelled" => late' = 0)
    BY <1>6, CalledIsBounded DEF ApplyAtomic, Goto, Fail, Vanish
  <2>3. ASSUME NEW result \in Results, results' = Append(results, result),
               index' = index + 1, Goto("loop")
        PROVE  IInv'
    <3>1. results' \in Seq(Results) /\ Len(results') = index
      BY <2>0, <2>3
    <3>2. TypeOK'
      BY <1>6, <2>0, <2>1, <2>2, <2>3, <3>1 DEF ApplyAtomic, TypeOK, PC, Goto
    <3>3. InOrder' /\ NothingBegun' /\ Underway'
      BY <1>6, <2>0, <2>1, <2>3, <3>1
         DEF ApplyAtomic, InOrder, NothingBegun, Underway, Goto, Early, Working
    <3>4. AfterCommit' /\ AfterFailure' /\ Answered' /\ Lateness'
      BY <1>6, <2>2, <2>3
         DEF ApplyAtomic, AfterCommit, AfterFailure, Answered, Lateness, Underway, Goto, Working
    <3>5. QED
      BY <3>2, <3>3, <3>4
  <2>4. ASSUME NEW cause \in Errors, Fail("apply", index, cause)
        PROVE  IInv'
    <3>1. /\ failure' \in Failures /\ failure' # None /\ failure'.phase = "apply"
          /\ failure'.index = index /\ failure'.cause = cause /\ cause # "cancelled"
      BY <2>0, <2>4, NoneIsNoFailure DEF Fail, Failures, Phases, Errors
    <3>2. TypeOK'
      BY <1>6, <2>0, <2>1, <2>2, <2>4, <3>1 DEF ApplyAtomic, TypeOK, PC, Fail
    <3>3. InOrder' /\ NothingBegun' /\ Underway'
      BY <1>6, <2>0, <2>1, <2>4
         DEF ApplyAtomic, InOrder, NothingBegun, Underway, Fail, Early, Working
    <3>4. AfterCommit' /\ AfterFailure'
      BY <1>6, <2>0, <2>1, <2>4, <3>1
         DEF ApplyAtomic, AfterCommit, AfterFailure, Underway, Answered, Fail, Working
    <3>5. Answered' /\ Lateness'
      BY <1>6, <2>2, <2>4 DEF ApplyAtomic, Answered, Lateness, Underway, Fail, Working
    <3>6. QED
      BY <3>2, <3>3, <3>4, <3>5
  <2>5. CASE Vanish
    <3>1. TypeOK' /\ InOrder'
      BY <1>6, <2>0, <2>1, <2>2, <2>5 DEF ApplyAtomic, TypeOK, InOrder, PC, Vanish
    <3>2. NothingBegun' /\ Underway' /\ AfterCommit' /\ AfterFailure' /\ Answered' /\ Lateness'
      BY <1>6, <2>0, <2>2, <2>5
         DEF ApplyAtomic, NothingBegun, Underway, AfterCommit, AfterFailure, Answered, Lateness,
         Vanish, Early, Working
    <3>3. QED
      BY <3>1, <3>2
  <2>6. QED
    BY <1>6, <2>3, <2>4, <2>5 DEF ApplyAtomic
<1>7. CASE CheckBeforeCommit
  BY <1>7, RequestShape, NoneIsNoFailure
     DEF CheckBeforeCommit, Goto, Fail, adapter, Operations, RequestValid, TypeOK, PC, Failures, Phases,
     InOrder, NothingBegun, Underway, AfterCommit, AfterFailure, Answered, Lateness, Early, Working
<1>8. CASE CheckResults
  BY <1>8, RequestShape, NoneIsNoFailure
     DEF CheckResults, Goto, Fail, adapter, Operations, RequestValid, TypeOK, PC, Failures, Phases,
     InOrder, NothingBegun, Underway, AfterCommit, AfterFailure, Answered, Lateness, Early, Working
<1>9. CASE CommitAtomic
  BY <1>9, RequestShape, NoneIsNoFailure
     DEF CommitAtomic, Called, Goto, Fail, Vanish, Operations, RequestValid, TypeOK, PC, Failures,
     Phases, Errors, InOrder, NothingBegun, Underway, AfterCommit, AfterFailure, Answered, Lateness,
     Early, Working
<1>10. CASE Respond
  BY <1>10 DEF Respond, adapter, Operations, RequestValid, TypeOK, PC, InOrder, NothingBegun,
     Underway, AfterCommit, AfterFailure, Answered, Lateness, Early, Working
<1>11. CASE RollbackAtomic
  BY <1>11 DEF RollbackAtomic, RollbackContext, Operations, RequestValid, TypeOK, PC, Errors,
     InOrder, NothingBegun, Underway, AfterCommit, AfterFailure, Answered, Lateness, Early, Working
<1>12. CASE Cancel
  BY <1>12 DEF Cancel, adapter, Operations, RequestValid, TypeOK, InOrder, NothingBegun,
     Underway, AfterCommit, AfterFailure, Answered, Lateness, Early, Working
<1>13. CASE UNCHANGED vars
  BY <1>13 DEF vars, Operations, RequestValid, TypeOK, InOrder, NothingBegun,
     Underway, AfterCommit, AfterFailure, Answered, Lateness
<1>14. QED
  BY <1>1, <1>2, <1>3, <1>4, <1>5, <1>6, <1>7, <1>8, <1>9, <1>10, <1>11, <1>12, <1>13
     DEF Next, Execute, Proceed

\* The strengthened invariant holds throughout an execution.
LEMMA Inductive == Spec => []IInv
<1>1. Init => IInv
  BY InitIInv
<1>2. IInv /\ [Next]_vars => IInv'
  BY NextIInv
<1>3. QED
  BY <1>1, <1>2, PTL DEF Spec

-----------------------------------------------------------------------------
(* The properties of ExecuteAtomic *)

\* Every variable of the execution keeps its type.
THEOREM TypeCorrect == Spec => []TypeOK
BY Inductive, PTL DEF IInv

\* Each handled failure after BeginAtomic succeeded calls RollbackAtomic
\* exactly once (atomicExecutionFailure), and nothing else ever does.
THEOREM RollsBackExactlyOnce == Spec => []RollbackExactlyOnce
<1>1. IInv => RollbackExactlyOnce
  BY DEF IInv, Answered, RollbackExactlyOnce
<1>2. QED
  BY <1>1, Inductive, PTL

\* CommitAtomic is called only for a valid request whose operations have all
\* been applied once, in document order, with corresponding results.
THEOREM CommitsOnlyWhole == Spec => []CommitOnlyWhole
<1>1. ASSUME IInv, commits > 0 PROVE CommitOnlyWhole
  <2>1. /\ applied \in Seq(1..Len(Operations)) /\ Len(applied) = Len(Operations)
        /\ Len(Operations) \in Nat
    BY <1>1, RequestShape DEF IInv, TypeOK, AfterCommit
  <2>2. applied = [k \in 1..Len(Operations) |-> k]
    BY <1>1, <2>1 DEF IInv, InOrder
  <2>3. store # "none"
    BY <1>1 DEF IInv, NothingBegun, TypeOK
  <2>4. QED
    BY <1>1, <2>2, <2>3 DEF IInv, AfterCommit, NothingBegun, CommitOnlyWhole
<1>2. IInv => CommitOnlyWhole
  BY <1>1 DEF CommitOnlyWhole
<1>3. QED
  BY <1>2, Inductive, PTL

\* The phase and index of a returned error tell how far the transaction got,
\* and only an error of CommitAtomic itself leaves durability open.
THEOREM FailuresNameProgress == Spec => []FailureNamesProgress
<1>1. IInv => FailureNamesProgress
  BY DEF IInv, Answered, AfterFailure, FailureNamesProgress
<1>2. QED
  BY <1>1, Inductive, PTL

\* An operation reaches ApplyAtomic only after the operations that assign the
\* local identities it refers to.
THEOREM LocalIdentitiesAlwaysResolve == Spec => []LocalIdentitiesResolve
<1>1. ASSUME IInv, NEW p \in DOMAIN applied
      PROVE  RefUses(Operations[applied[p]]) \cup DataUses(Operations[applied[p]])
               \subseteq UNION {Assigns(Operations[applied[q]]) : q \in 1..p}
  <2>1. /\ applied \in Seq(1..Len(Operations)) /\ p \in 1..Len(applied)
        /\ DOMAIN Operations = 1..Len(Operations) /\ Len(Operations) \in Nat
    BY <1>1, RequestShape DEF IInv, TypeOK
  <2>2. \A q \in 1..p : applied[q] = q
    BY <1>1, <2>1 DEF IInv, InOrder
  <2>3. p \in DOMAIN Operations
    BY <2>1, <2>2
  <2>4. LocalReferencesOrdered(Operations)
    <3>1. store # "none"
      BY <1>1, <2>1 DEF IInv, NothingBegun
    <3>2. QED
      BY <1>1, <3>1 DEF IInv, NothingBegun, RequestValid, OperationsValid
  <2>5. /\ RefUses(Operations[p]) \subseteq AssignedBy(Operations, p - 1)
        /\ DataUses(Operations[p]) \subseteq AssignedBy(Operations, p)
    BY <2>3, <2>4 DEF LocalReferencesOrdered
  <2>6. AssignedBy(Operations, p - 1) \subseteq AssignedBy(Operations, p)
    BY <2>1 DEF AssignedBy
  <2>7. AssignedBy(Operations, p) \subseteq UNION {Assigns(Operations[applied[q]]) : q \in 1..p}
    BY <2>2 DEF AssignedBy
  <2>8. applied[p] = p
    BY <2>1, <2>2
  <2>9. QED
    BY <2>5, <2>6, <2>7, <2>8
<1>2. IInv => LocalIdentitiesResolve
  BY <1>1 DEF LocalIdentitiesResolve
<1>3. QED
  BY <1>2, Inductive, PTL

\* A returned failure leaves the transaction open only if it reports that
\* RollbackAtomic failed, whatever happens to the caller's context.
THEOREM NeverOpenInSilence == Spec => []OpenOnlyIfReported
<1>1. IInv => OpenOnlyIfReported
  BY DEF IInv, Answered, OpenOnlyIfReported
<1>2. QED
  BY <1>1, Inductive, PTL

\* At most one callback other than the rollback starts after cancellation.
THEOREM CancellationStopsWork == Spec => []AtMostOneLateCall
<1>1. IInv => AtMostOneLateCall
  BY DEF IInv, Lateness, AtMostOneLateCall
<1>2. QED
  BY <1>1, Inductive, PTL

\* Nothing but the rollback happens after the first failure.
THEOREM FailureEndsWork == Spec => NoWorkAfterFailure
<1>1. IInv /\ [Next]_vars
        => [failure # None => UNCHANGED <<applied, commits, results, failure>>]_vars
  <2> SUFFICES ASSUME IInv, Next, failure # None
               PROVE  UNCHANGED <<applied, commits, results, failure>>
    BY DEF vars
  <2>1. pc \in {"rollback", "returned", "gone"}
    BY DEF IInv, AfterFailure
  <2>2. RollbackAtomic \/ Cancel \/ UNCHANGED vars
    BY <2>1 DEF Next, Execute, Proceed, ValidateRequest, Decide, CheckBeginner, CheckContext, BeginAtomic,
       CheckBeforeApply, ApplyAtomic, CheckBeforeCommit, CheckResults, CommitAtomic, Respond
  <2>3. QED
    BY <2>2 DEF RollbackAtomic, Cancel, adapter, vars
<1>2. QED
  BY <1>1, Inductive, PTL DEF Spec, NoWorkAfterFailure

-----------------------------------------------------------------------------
(* ExecuteAtomic implements AtomicPromise *)

\* A commit makes exactly the request durable.
LEMMA WholeRequestDurable ==
  ASSUME IInv, Len(applied) = Len(Operations)
  PROVE  [p \in DOMAIN applied |-> Operations[applied[p]]] = Operations
<1>1. /\ applied \in Seq(1..Len(Operations)) /\ DOMAIN applied = 1..Len(Operations)
      /\ Operations \in Seq(ItemsOf(Operations))
  BY RequestShape DEF IInv, TypeOK
<1>2. \A p \in 1..Len(Operations) : applied[p] = p
  BY <1>1 DEF IInv, InOrder
<1>3. QED
  BY <1>1, <1>2

\* Initial states map to initial states, and every step maps to a step of the
\* promise or leaves it unchanged.
THEOREM ImplementsPromise == Spec => KeepsPromise
<1>1. Init => Promise!Init
  BY DEF Init, Promise!Init, Durable, Told, Operations
<1>2. IInv /\ IInv' /\ [Next]_vars => [Promise!Next]_Promise!vars
  <2> SUFFICES ASSUME IInv, IInv', [Next]_vars
               PROVE  [Promise!Next]_Promise!vars
    OBVIOUS
  <2> USE DEF IInv, Promise!vars, Durable, Told
  <2>0. UNCHANGED Operations
    BY DEF Next, Execute, Proceed, ValidateRequest, Decide, CheckBeginner, CheckContext, BeginAtomic,
       CheckBeforeApply, ApplyAtomic, CheckBeforeCommit, CheckResults, CommitAtomic, Respond,
       RollbackAtomic, Cancel, vars, Operations, Goto, ReturnError, Fail, Vanish
  <2>1. ASSUME pc \in Early, pc' = "returned", answer' = "error", UNCHANGED store
        PROVE  Promise!Refuse
    BY <2>0, <2>1 DEF Promise!Refuse, NothingBegun, AfterFailure, Answered
  <2>2. CASE CommitAtomic
    <3>1. /\ store = "open" /\ answer = "pending" /\ answer' = "pending"
          /\ Len(applied) = Len(Operations) /\ UNCHANGED applied
          /\ store' \in {"open", "committed"}
      BY <2>2, RequestShape DEF CommitAtomic, Underway, Working, Goto, Fail, Vanish, TypeOK
    <3>2. [p \in DOMAIN applied |-> Operations[applied[p]]] = Operations
      BY <3>1, WholeRequestDurable
    <3>3. QED
      BY <2>0, <3>1, <3>2 DEF Promise!Next, Promise!Install
  <2>3. CASE Respond
    <3>1. /\ store = "committed" /\ store' = "committed" /\ answer = "pending"
          /\ answer' = "response" /\ UNCHANGED applied
          /\ Len(applied) = Len(Operations) /\ Operations # <<>>
      BY <2>3 DEF Respond, AfterCommit, NothingBegun, RequestValid, OperationsValid, adapter
    <3>2. [p \in DOMAIN applied |-> Operations[applied[p]]] = Operations
      BY <3>1, WholeRequestDurable
    <3>3. QED
      BY <2>0, <3>1, <3>2 DEF Promise!Next, Promise!Respond
  <2>4. CASE RollbackAtomic
    <3>1. /\ answer = "pending" /\ UNCHANGED <<applied, failure>>
          /\ store = "committed" <=> store' = "committed"
          /\ answer' \in {"pending", "error"}
          /\ store = "committed" => failure.phase = "commit"
      BY <2>4 DEF RollbackAtomic, AfterFailure
    <3>2. QED
      BY <2>0, <3>1 DEF Promise!Next, Promise!Refuse, Promise!LeaveUncertain
  <2>5. ASSUME UNCHANGED <<answer, store>>, store # "committed" \/ UNCHANGED applied,
               answer = "error" => UNCHANGED failure
        PROVE  UNCHANGED Promise!vars
    BY <2>0, <2>5
  <2>6. CASE ValidateRequest \/ CheckBeginner \/ CheckContext \/ BeginAtomic
    <3>1. CASE answer' = "error"
      <4>1. pc \in Early /\ pc' = "returned" /\ UNCHANGED store
        BY <2>6, <3>1 DEF ValidateRequest, Decide, CheckBeginner, CheckContext, BeginAtomic, Early,
           NothingBegun, adapter, Goto, ReturnError, Vanish
      <4>2. QED
        BY <2>1, <3>1, <4>1 DEF Promise!Next
    <3>2. CASE answer' # "error"
      <4>1. /\ UNCHANGED <<answer, applied>> /\ answer = "pending" /\ store = "none"
            /\ store' \in {"none", "open"}
        BY <2>6, <3>2 DEF ValidateRequest, Decide, CheckBeginner, CheckContext, BeginAtomic, Early,
           NothingBegun, adapter, Goto, ReturnError, Vanish
      <4>2. QED
        BY <2>0, <4>1
    <3>3. QED
      BY <3>1, <3>2
  <2>7. CASE CheckBeforeApply \/ ApplyAtomic \/ CheckBeforeCommit \/ CheckResults
    BY <2>5, <2>7 DEF CheckBeforeApply, ApplyAtomic, CheckBeforeCommit, CheckResults, Underway,
       Working, adapter, Goto, Fail, Vanish
  <2>8. CASE Cancel \/ UNCHANGED vars
    BY <2>5, <2>8 DEF Cancel, adapter, vars
  <2>9. QED
    BY <2>2, <2>3, <2>4, <2>6, <2>7, <2>8 DEF Next, Execute, Proceed
<1>3. QED
  BY <1>1, <1>2, Inductive, PTL DEF Spec, KeepsPromise, Promise!Spec

-----------------------------------------------------------------------------
(* The pass: validateAtomicOperations decides exactly the declarative rules *)

\* What the loop has established when it is about to check the next operation: assigned
\* holds exactly the identities of the operations passed, and an operation
\* passed is reported exactly when it breaks a rule as the declarative
\* definition states it.
PassInvariant ==
  /\ assigned = AssignedBy(operations, cursor - 1)
  /\ \A k \in 1..(cursor - 1) :
       /\ <<k, "operation">> \in violations <=> ~OperationValid(operations[k])
       /\ <<k, "ref-lid">> \in violations
            <=> ~(RefUses(operations[k]) \subseteq AssignedBy(operations, k - 1))
       /\ <<k, "data-lid">> \in violations
            <=> ~(DataUses(operations[k]) \subseteq AssignedBy(operations, k))
  /\ \A v \in violations : v[1] < cursor

PassIInv == PassTypeOK /\ PassInvariant

LEMMA OperationsShape ==
  ASSUME PassTypeOK
  PROVE  Len(operations) \in Nat /\ DOMAIN operations = 1..Len(operations)
BY RequestsAreSequences DEF PassTypeOK

\* The identities assigned by one more operation.
LEMMA AssignedByNext ==
  ASSUME NEW ops, NEW n \in Nat
  PROVE  AssignedBy(ops, n + 1) = AssignedBy(ops, n) \cup Assigns(ops[n + 1])
BY DEF AssignedBy

LEMMA PassInitIInv == PassInit => PassIInv
<1> SUFFICES ASSUME PassInit PROVE PassIInv
  OBVIOUS
<1>1. PassTypeOK
  <2>1. operations \in Seq(ItemsOf(operations))
    BY RequestsAreSequences DEF PassInit
  <2>2. QED
    BY <2>1 DEF PassInit, PassTypeOK
<1>2. PassInvariant
  BY DEF PassInit, PassInvariant, AssignedBy
<1>3. QED
  BY <1>1, <1>2 DEF PassIInv

LEMMA PassNextIInv == PassIInv /\ [PassNext]_passVars => PassIInv'
<1> SUFFICES ASSUME PassIInv, [PassNext]_passVars PROVE PassIInv'
  OBVIOUS
<1>1. CASE ProcessOperation
  <2> DEFINE o == operations[cursor]
             now == assigned \cup Assigns(o)
             Broken(code) ==
               \/ code = "operation" /\ ~OperationValid(o)
               \/ code = "ref-lid" /\ ~(RefUses(o) \subseteq assigned)
               \/ code = "data-lid" /\ ~(DataUses(o) \subseteq now)
  <2>1. /\ cursor \in 1..Len(operations) /\ cursor' = cursor + 1 /\ operations' = operations
        /\ Len(operations) \in Nat
        /\ violations \subseteq (1..Len(operations)) \X Codes
        /\ assigned' = now
        /\ violations' = violations \cup {<<cursor, code>> : code \in {c \in Codes : Broken(c)}}
    BY <1>1, OperationsShape DEF PassIInv, PassTypeOK, ProcessOperation
  <2>2. now = AssignedBy(operations, cursor)
    <3>1. assigned = AssignedBy(operations, cursor - 1)
      BY DEF PassIInv, PassInvariant
    <3>2. AssignedBy(operations, (cursor - 1) + 1)
            = AssignedBy(operations, cursor - 1) \cup Assigns(operations[(cursor - 1) + 1])
      BY <2>1, AssignedByNext
    <3>3. QED
      BY <2>1, <3>1, <3>2
  <2>3. ASSUME NEW k \in 1..cursor, NEW code \in Codes
        PROVE  <<k, code>> \in violations'
                 <=> IF k = cursor THEN Broken(code) ELSE <<k, code>> \in violations
    <3>1. \A v \in violations : v[1] < cursor
      BY DEF PassIInv, PassInvariant
    <3>2. <<cursor, code>> \notin violations
      BY <2>1, <3>1
    <3>3. QED
      BY <2>1, <3>2
  <2>4. PassTypeOK'
    BY <2>1 DEF PassIInv, PassTypeOK
  <2>5. assigned' = AssignedBy(operations', cursor' - 1)
    BY <2>1, <2>2
  <2>6. \A v \in violations' : v[1] < cursor'
    <3>1. \A v \in violations : v[1] \in Nat /\ v[1] < cursor
      BY <2>1 DEF PassIInv, PassInvariant
    <3>2. QED
      BY <2>1, <3>1
  <2>7. ASSUME NEW k \in 1..(cursor' - 1)
        PROVE  /\ <<k, "operation">> \in violations' <=> ~OperationValid(operations'[k])
               /\ <<k, "ref-lid">> \in violations'
                    <=> ~(RefUses(operations'[k]) \subseteq AssignedBy(operations', k - 1))
               /\ <<k, "data-lid">> \in violations'
                    <=> ~(DataUses(operations'[k]) \subseteq AssignedBy(operations', k))
    <3>1. k \in 1..cursor /\ operations' = operations
      BY <2>1
    <3>2. CASE k = cursor
      <4>1. assigned = AssignedBy(operations, cursor - 1)
        BY DEF PassIInv, PassInvariant
      <4>2. QED
        BY <2>2, <2>3, <3>1, <3>2, <4>1 DEF Codes
    <3>3. CASE k # cursor
      <4>1. k \in 1..(cursor - 1)
        BY <2>1, <3>1, <3>3
      <4>2. QED
        BY <2>3, <3>1, <3>3, <4>1 DEF Codes, PassIInv, PassInvariant
    <3>4. QED
      BY <3>2, <3>3
  <2>8. QED
    BY <2>4, <2>5, <2>6, <2>7 DEF PassIInv, PassInvariant
<1>2. CASE UNCHANGED passVars
  BY <1>2 DEF PassIInv, PassTypeOK, PassInvariant, passVars
<1>3. QED
  BY <1>1, <1>2 DEF PassNext

LEMMA PassInductive == PassSpec => []PassIInv
BY PassInitIInv, PassNextIInv, PTL DEF PassSpec

\* The pass of validateAtomicOperations keeps its types.
THEOREM PassTypeCorrect == PassSpec => []PassTypeOK
BY PassInductive, PTL DEF PassIInv

\* validateAtomicOperations accepts a request exactly when each operation is
\* valid and every local reference is resolved in document order.
THEOREM PassDecides == PassSpec => []PassDecidesOperationsValid
<1>1. ASSUME PassIInv, Passed
      PROVE  Accepted <=> OperationsValid(operations)
  <2>1. /\ Len(operations) \in Nat /\ DOMAIN operations = 1..Len(operations)
        /\ cursor = Len(operations) + 1
    BY <1>1, OperationsShape DEF PassIInv, PassTypeOK, Passed
  <2>2. violations \subseteq (1..Len(operations)) \X Codes
    BY <1>1 DEF PassIInv, PassTypeOK
  <2>3. violations = {} <=> \A k \in 1..Len(operations), code \in Codes : <<k, code>> \notin violations
    BY <2>2
  <2>4. violations = {} <=>
          \A k \in DOMAIN operations :
            /\ OperationValid(operations[k])
            /\ RefUses(operations[k]) \subseteq AssignedBy(operations, k - 1)
            /\ DataUses(operations[k]) \subseteq AssignedBy(operations, k)
    <3>1. ASSUME NEW k \in 1..Len(operations)
          PROVE  (\A code \in Codes : <<k, code>> \notin violations) <=>
                   /\ OperationValid(operations[k])
                   /\ RefUses(operations[k]) \subseteq AssignedBy(operations, k - 1)
                   /\ DataUses(operations[k]) \subseteq AssignedBy(operations, k)
      <4>1. k \in 1..(cursor - 1)
        BY <2>1, <3>1
      <4>2. QED
        BY <1>1, <4>1 DEF PassIInv, PassInvariant, Codes
    <3>2. QED
      BY <2>1, <2>3, <3>1
  <2>5. QED
    BY <1>1, <2>4 DEF Accepted, OperationsValid, LocalReferencesOrdered
<1>2. PassIInv => PassDecidesOperationsValid
  BY <1>1 DEF PassDecidesOperationsValid
<1>3. QED
  BY <1>2, PassInductive, PTL

-----------------------------------------------------------------------------
(* The call: it validates its request operation by operation *)

\* The request of the pass is that of the call.
SameRequest == operations = Operations

LEMMA RequestStays == CallSpec => []SameRequest
<1>1. CallInit => SameRequest
  BY DEF CallInit, SameRequest
<1>2. SameRequest /\ [CallNext]_callVars => SameRequest'
  BY DEF SameRequest, Operations, CallNext, Work, Scan, ProcessOperation, Admit, Decide, Run, Proceed,
     Interrupt, Cancel, callVars, vars, passVars, Goto, ReturnError, CheckBeginner, CheckContext,
     BeginAtomic, CheckBeforeApply, ApplyAtomic, CheckBeforeCommit, CheckResults, CommitAtomic,
     Respond, RollbackAtomic, Fail, Vanish
<1>3. QED
  BY <1>1, <1>2, PTL DEF CallSpec

\* A step of a call is an iteration of the pass or leaves the pass as it is, so
\* its verdict is that of the declarative rules.
THEOREM CallPassDecides == CallSpec => []PassDecidesOperationsValid
<1>1. CallInit => PassInit
  BY DEF CallInit
<1>2. [CallNext]_callVars => [PassNext]_passVars
  BY DEF CallNext, Work, Scan, Admit, Run, Interrupt, callVars, PassNext
<1>3. CallSpec => PassSpec
  BY <1>1, <1>2, PTL DEF CallSpec, PassSpec
<1>4. QED
  BY <1>3, PassDecides, PTL

\* Every step of a call is a step of the execution: the pass changes nothing of
\* it, and the verdict it ends with is that of the declarative rules.
THEOREM CallImplements == CallSpec => ImplementsExecution
<1>1. CallInit => Init
  BY DEF CallInit
<1>2. SameRequest /\ PassDecidesOperationsValid /\ [CallNext]_callVars => [Next]_vars
  <2> SUFFICES ASSUME SameRequest, PassDecidesOperationsValid, [CallNext]_callVars
               PROVE  [Next]_vars
    OBVIOUS
  <2>1. CASE Scan
    BY <2>1 DEF Scan
  <2>2. CASE Admit
    <3>1. (call.envelope /\ Accepted) <=> RequestValid
      BY <2>2 DEF Admit, SameRequest, PassDecidesOperationsValid, RequestValid
    <3>2. ValidateRequest
      BY <2>2, <3>1 DEF Admit, ValidateRequest, Decide
    <3>3. QED
      BY <3>2 DEF Next, Execute
  <2>3. CASE Run \/ Interrupt
    BY <2>3 DEF Run, Interrupt, Next, Execute
  <2>4. CASE UNCHANGED callVars
    BY <2>4 DEF callVars
  <2>5. QED
    BY <2>1, <2>2, <2>3, <2>4 DEF CallNext, Work
<1>3. QED
  BY <1>1, <1>2, RequestStays, CallPassDecides, PTL DEF CallSpec, ImplementsExecution, Spec

-----------------------------------------------------------------------------
(* So whatever is proved of the execution holds of the call. *)

\* A call keeps the promise of AtomicPromise: all or nothing, in document order.
THEOREM CallKeepsPromise == CallSpec => KeepsPromise
BY CallImplements, ImplementsPromise, PTL DEF ImplementsExecution

\* ApplyAtomic is never given an operation whose local identities the pass has
\* not seen assigned, by an earlier operation or by itself.
THEOREM CallResolvesLocalIdentities == CallSpec => []LocalIdentitiesResolve
BY CallImplements, LocalIdentitiesAlwaysResolve, PTL DEF ImplementsExecution
=================================================================================
