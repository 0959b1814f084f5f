---------------------------- MODULE AtomicExecution ----------------------------
(***************************************************************************)
(* ExecuteAtomic (atomic_execute.go) driving an application transaction.   *)
(*                                                                         *)
(* One action is one check of the function or one call of an application   *)
(* callback with every outcome the wrapper around it distinguishes: a      *)
(* callback returns normally, returns an error, panics (the *Safely        *)
(* wrappers turn that into an error), or ends its goroutine (which nothing *)
(* isolates).  The caller's context may be cancelled between any two       *)
(* steps.                                                                  *)
(*                                                                         *)
(* The application's transaction is modelled as AtomicTransaction asks of  *)
(* its implementations: ApplyAtomic never commits; a commit that fails may *)
(* nevertheless have taken effect; a rollback that fails may have left the *)
(* transaction open; a callback given a cancelled context may give up.     *)
(***************************************************************************)
EXTENDS AtomicRequests

CONSTANT Results   \* the data a transaction may return for an operation

\* The failures of ExecuteAtomic: AtomicExecutionError, and the ValidationError
\* of the request.  Indexes count from one here; 0 is the code's -1.
Errors == {"error", "panic"}
Phases == {"validation", "begin", "apply", "result-validation", "commit"}
Failures == [phase : Phases, index : Nat,
             cause : Errors \cup {"invalid", "missing", "cancelled"}]

ASSUME NoneIsNoFailure == None \notin Failures

VARIABLES
  call,       \* the arguments that never change: [operations, envelope, beginner]
  context,    \* the context argument: "nil", "live" or "cancelled"
  pc,         \* the next step of ExecuteAtomic
  index,      \* the operation the loop is at
  results,    \* the results collected
  failure,    \* None, or the failure being handled or returned
  cleanup,    \* None until RollbackAtomic ends, then how it ended
  answer,     \* "pending", "response" or "error"
  store,      \* the transaction: "none", "open", "committed" or "discarded"
  applied,    \* the indexes ApplyAtomic was called with, in order
  commits,    \* the number of calls of CommitAtomic
  rollbacks,  \* the number of calls of RollbackAtomic
  late        \* the number of begin, apply and commit calls made after cancellation

vars == <<call, context, pc, index, results, failure, cleanup, answer,
          store, applied, commits, rollbacks, late>>

adapter == <<store, applied, commits, rollbacks, late>>

Operations == call.operations

PC == {"validate", "check-beginner", "check-context", "begin", "loop", "apply",
       "check-commit", "check-results", "commit", "respond", "rollback", "returned", "gone"}

Init ==
  /\ call \in [operations : Requests, envelope : BOOLEAN, beginner : BOOLEAN]
  /\ context \in {"nil", "live", "cancelled"}
  /\ pc = "validate"
  /\ index = 1
  /\ results = <<>>
  /\ failure = None
  /\ cleanup = None
  /\ answer = "pending"
  /\ store = "none"
  /\ applied = <<>>
  /\ commits = 0
  /\ rollbacks = 0
  /\ late = 0

-----------------------------------------------------------------------------
(* Leaving the function *)

Goto(step) ==
  /\ pc' = step
  /\ UNCHANGED <<call, context, failure, cleanup, answer>>

\* Before a transaction exists an error is returned at once.
ReturnError(phase, cause) ==
  /\ pc' = "returned"
  /\ answer' = "error"
  /\ failure' = [phase |-> phase, index |-> 0, cause |-> cause]
  /\ UNCHANGED <<call, context, index, results, cleanup>>

\* Once it exists every error goes through atomicExecutionFailure.
Fail(phase, at, cause) ==
  /\ pc' = "rollback"
  /\ failure' = [phase |-> phase, index |-> at, cause |-> cause]
  /\ UNCHANGED <<call, context, index, results, cleanup, answer>>

\* The goroutine ends inside a callback: ExecuteAtomic never returns.
Vanish ==
  /\ pc' = "gone"
  /\ UNCHANGED <<call, context, index, results, failure, cleanup, answer>>

\* A callback other than RollbackAtomic starts.
Called == late' = IF context = "cancelled" THEN late + 1 ELSE late

-----------------------------------------------------------------------------
(* Before the transaction *)

RequestValid == call.envelope /\ OperationsValid(Operations)

Decide(valid) ==
  /\ pc = "validate"
  /\ \/ valid /\ Goto("check-beginner") /\ UNCHANGED <<index, results>>
     \/ ~valid /\ ReturnError("validation", "invalid")
  /\ UNCHANGED adapter

\* In one step; AtomicCall has the pass over the operations.
ValidateRequest == Decide(RequestValid)

CheckBeginner ==
  /\ pc = "check-beginner"
  /\ \/ call.beginner /\ Goto("check-context") /\ UNCHANGED <<index, results>>
     \/ ~call.beginner /\ ReturnError("begin", "missing")
  /\ UNCHANGED adapter

CheckContext ==
  /\ pc = "check-context"
  /\ \/ context = "live" /\ Goto("begin") /\ UNCHANGED <<index, results>>
     \/ context = "nil" /\ ReturnError("begin", "missing")
     \/ context = "cancelled" /\ ReturnError("begin", "cancelled")
  /\ UNCHANGED adapter

\* A failed BeginAtomic, or one that returns a nil transaction, leaves nothing
\* ExecuteAtomic could roll back.
BeginAtomic ==
  /\ pc = "begin"
  /\ Called
  /\ \/ store' = "open" /\ Goto("loop") /\ UNCHANGED <<index, results>>
     \/ \E cause \in Errors \cup {"missing"} : ReturnError("begin", cause) /\ UNCHANGED store
     \/ Vanish /\ UNCHANGED store
  /\ UNCHANGED <<applied, commits, rollbacks>>

-----------------------------------------------------------------------------
(* The operations, in document order *)

\* Bug: the context is not checked between operations.
CheckBeforeApplyBlind ==
  /\ pc = "loop"
  /\ Goto(IF index > Len(Operations) THEN "check-commit" ELSE "apply")
  /\ UNCHANGED <<index, results>> /\ UNCHANGED adapter

\* Bug: a cancellation is blamed on the last operation applied.
CheckBeforeApplyMisplaced ==
  /\ pc = "loop"
  /\ \/ /\ index > Len(Operations) \/ context # "cancelled"
        /\ Goto(IF index > Len(Operations) THEN "check-commit" ELSE "apply")
        /\ UNCHANGED <<index, results>>
     \/ /\ index <= Len(Operations) /\ context = "cancelled"
        /\ Fail("apply", index - 1, "cancelled")
  /\ UNCHANGED adapter

CheckBeforeApply ==
  /\ pc = "loop"
  /\ \/ /\ index > Len(Operations)
        /\ Goto("check-commit") /\ UNCHANGED <<index, results>>
     \/ /\ index <= Len(Operations) /\ context # "cancelled"
        /\ Goto("apply") /\ UNCHANGED <<index, results>>
     \/ /\ index <= Len(Operations) /\ context = "cancelled"
        /\ Fail("apply", index, "cancelled")
  /\ UNCHANGED adapter

\* Bug: an operation that fails is tried again in the same transaction.
ApplyAtomicRetries ==
  /\ pc = "apply"
  /\ Called
  /\ applied' = Append(applied, index)
  /\ \/ /\ \E result \in Results : results' = Append(results, result)
        /\ index' = index + 1
     \/ UNCHANGED <<index, results>>
  /\ Goto("loop")
  /\ UNCHANGED <<store, commits, rollbacks>>

ApplyAtomic ==
  /\ pc = "apply"
  /\ Called
  /\ applied' = Append(applied, index)
  /\ \/ /\ \E result \in Results : results' = Append(results, result)
        /\ index' = index + 1
        /\ Goto("loop")
     \/ \E cause \in Errors : Fail("apply", index, cause)
     \/ Vanish
  /\ UNCHANGED <<store, commits, rollbacks>>

-----------------------------------------------------------------------------
(* The end of the transaction *)

\* Bug: a cancellation before the commit is returned without rollback.
CheckBeforeCommitAbandons ==
  /\ pc = "check-commit"
  /\ \/ context # "cancelled" /\ Goto("check-results") /\ UNCHANGED <<index, results>>
     \/ context = "cancelled" /\ ReturnError("commit", "cancelled")
  /\ UNCHANGED adapter

CheckBeforeCommit ==
  /\ pc = "check-commit"
  /\ \/ context # "cancelled" /\ Goto("check-results") /\ UNCHANGED <<index, results>>
     \/ context = "cancelled" /\ Fail("commit", 0, "cancelled")
  /\ UNCHANGED adapter

\* Bug: invalid results are returned without rollback.
CheckResultsAbandons ==
  /\ pc = "check-results"
  /\ \/ ResultsValid(results, Operations) /\ Goto("commit") /\ UNCHANGED <<index, results>>
     \/ ~ResultsValid(results, Operations) /\ ReturnError("result-validation", "invalid")
  /\ UNCHANGED adapter

\* Bug: the results are committed unseen.
CheckResultsSkipped ==
  /\ pc = "check-results"
  /\ Goto("commit") /\ UNCHANGED <<index, results>>
  /\ UNCHANGED adapter

CheckResults ==
  /\ pc = "check-results"
  /\ \/ ResultsValid(results, Operations) /\ Goto("commit") /\ UNCHANGED <<index, results>>
     \/ ~ResultsValid(results, Operations) /\ Fail("result-validation", 0, "invalid")
  /\ UNCHANGED adapter

CommitAtomic ==
  /\ pc = "commit"
  /\ Called
  /\ commits' = commits + 1
  /\ \/ store' = "committed" /\ Goto("respond") /\ UNCHANGED <<index, results>>
     \/ /\ store' \in {"open", "committed"}
        /\ \E cause \in Errors : Fail("commit", 0, cause)
     \/ /\ store' \in {"open", "committed"}
        /\ Vanish
  /\ UNCHANGED <<applied, rollbacks>>

Respond ==
  /\ pc = "respond"
  /\ pc' = "returned" /\ answer' = "response"
  /\ UNCHANGED <<call, context, index, results, failure, cleanup>>
  /\ UNCHANGED adapter

\* Bug: it receives the context of the caller.
RollbackContextOfCaller == context

\* RollbackAtomic receives context.WithoutCancel(ctx).
RollbackContext == "live"

\* A transaction that has committed stays committed whatever a rollback does.
RollbackAtomic ==
  /\ pc = "rollback"
  /\ rollbacks' = rollbacks + 1
  /\ \/ /\ RollbackContext # "cancelled"
        /\ cleanup' = "done"
        /\ store' = IF store = "open" THEN "discarded" ELSE store
        /\ pc' = "returned" /\ answer' = "error"
     \/ /\ cleanup' \in Errors \cup (IF RollbackContext = "cancelled" THEN {"cancelled"} ELSE {})
        /\ store' \in IF store = "open" THEN {"open", "discarded"} ELSE {store}
        /\ pc' = "returned" /\ answer' = "error"
     \/ /\ pc' = "gone"
        /\ store' \in IF store = "open" THEN {"open", "discarded"} ELSE {store}
        /\ UNCHANGED <<cleanup, answer>>
  /\ UNCHANGED <<call, context, index, results, failure, applied, commits, late>>

-----------------------------------------------------------------------------

\* The caller, another goroutine, or a callback cancels the context.
Cancel ==
  /\ context = "live" /\ pc \notin {"returned", "gone"}
  /\ context' = "cancelled"
  /\ UNCHANGED <<call, pc, index, results, failure, cleanup, answer>>
  /\ UNCHANGED adapter

Proceed ==
  \/ CheckBeginner \/ CheckContext \/ BeginAtomic
  \/ CheckBeforeApply \/ ApplyAtomic
  \/ CheckBeforeCommit \/ CheckResults \/ CommitAtomic \/ Respond \/ RollbackAtomic

Execute == ValidateRequest \/ Proceed

Finished == pc \in {"returned", "gone"}

Next == Execute \/ Cancel \/ (Finished /\ UNCHANGED vars)

Spec == Init /\ [][Next]_vars

\* The function itself never waits; that its callbacks end is the application's
\* obligation ("Blocking and goroutine termination are not isolated"), and
\* under it every step of Execute is eventually taken.  Cancellation is not fair.
FairSpec == Spec /\ WF_vars(Execute)

-----------------------------------------------------------------------------
(* Invariants *)

TypeOK ==
  /\ call \in [operations : Requests, envelope : BOOLEAN, beginner : BOOLEAN]
  /\ context \in {"nil", "live", "cancelled"}
  /\ pc \in PC
  /\ index \in 1..(Len(Operations) + 1)
  /\ results \in Seq(Results)
  /\ failure \in Failures \cup {None}
  /\ cleanup \in {None, "done", "cancelled"} \cup Errors
  /\ answer \in {"pending", "response", "error"}
  /\ store \in {"none", "open", "committed", "discarded"}
  /\ applied \in Seq(1..Len(Operations))
  /\ commits \in Nat
  /\ rollbacks \in Nat
  /\ late \in Nat

\* Each handled failure after BeginAtomic succeeded attempts rollback exactly
\* once, commit errors included; a failure before that, and a response, never.
RollbackExactlyOnce ==
  /\ rollbacks <= 1
  /\ answer = "response" => rollbacks = 0
  /\ answer = "error" => rollbacks = IF store = "none" THEN 0 ELSE 1

\* CommitAtomic is called at most once, and only after every operation of a
\* valid request has been applied once, in document order, and every result
\* corresponds to its operation.
CommitOnlyWhole ==
  commits > 0 =>
    /\ commits = 1
    /\ RequestValid
    /\ applied = [k \in 1..Len(Operations) |-> k]
    /\ ResultsValid(results, Operations)

\* The phase and index of the error tell the application how far the
\* transaction got: which operations reached ApplyAtomic, and that nothing is
\* durable unless the commit callback itself failed.
FailureNamesProgress ==
  answer = "error" =>
    /\ failure.phase \in {"validation", "begin"} <=> store = "none"
    /\ failure.phase = "apply" =>
         /\ failure.index \in DOMAIN Operations
         /\ Len(applied) = IF failure.cause = "cancelled" THEN failure.index - 1
                                                         ELSE failure.index
    /\ failure.phase \in {"result-validation", "commit"} =>
         /\ failure.index = 0
         /\ Len(applied) = Len(Operations)
    /\ store = "committed" => failure.phase = "commit" /\ failure.cause \in Errors

\* When ApplyAtomic is given an operation, each local identity the operation
\* refers to was assigned by an operation the transaction has already been
\* given, or by the operation itself.
LocalIdentitiesResolve ==
  \A p \in DOMAIN applied :
    RefUses(Operations[applied[p]]) \cup DataUses(Operations[applied[p]])
      \subseteq UNION {Assigns(Operations[applied[q]]) : q \in 1..p}

\* A failure is never returned with the transaction left open in silence: it
\* stays open only when the rollback callback itself failed, which the error
\* carries, and never because the caller's context was cancelled.
OpenOnlyIfReported ==
  answer = "error" /\ store = "open" => cleanup \in Errors

\* Cancellation is checked before every operation and before the commit, so at
\* most the one callback whose check had already passed starts after it.
AtMostOneLateCall == late <= 1

-----------------------------------------------------------------------------
(* Action, liveness and refinement properties *)

\* After the first failure only the rollback happens: no operation is applied
\* and no commit is attempted.
NoWorkAfterFailure ==
  [][failure # None => UNCHANGED <<applied, commits, results, failure>>]_vars

\* A transaction that was begun is eventually committed or discarded, or its
\* failed rollback is reported, unless a callback ended the goroutine.
Settles ==
  store = "open" ~> (store # "open" \/ (answer = "error" /\ cleanup # None) \/ pc = "gone")

\* What the storage and the caller see of ExecuteAtomic.
Durable ==
  IF store = "committed" THEN [p \in DOMAIN applied |-> Operations[applied[p]]] ELSE <<>>

Told ==
  IF answer # "error" THEN answer
  ELSE IF failure.phase = "commit" THEN "uncertain" ELSE "refused"

Promise == INSTANCE AtomicPromise
             WITH request <- Operations, durable <- Durable, answer <- Told

\* ExecuteAtomic implements all-or-nothing execution in document order.
KeepsPromise == Promise!Spec
=============================================================================
