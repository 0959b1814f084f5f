------------------------------- MODULE AtomicCall -------------------------------
(***************************************************************************)
(* A call of ExecuteAtomic (atomic_execute.go) as a whole: the pass of     *)
(* validateAtomicOperations over the request (AtomicRequestPass), whose    *)
(* verdict the execution (AtomicExecution) acts on.  The caller may cancel *)
(* the context while the request is validated, too.                        *)
(***************************************************************************)
EXTENDS AtomicExecution, AtomicRequestPass

callVars == <<vars, passVars>>

CallInit == Init /\ PassInit /\ operations = Operations

Scan == pc = "validate" /\ ProcessOperation /\ UNCHANGED vars

\* Bug: the verdict is taken before the last operation has been checked.
AdmitEarly ==
  /\ cursor >= Len(operations)
  /\ Decide(call.envelope /\ operations # <<>> /\ violations = {})
  /\ UNCHANGED passVars

\* ValidateWith collects the violations of the document and of its operations.
Admit ==
  /\ Passed
  /\ Decide(call.envelope /\ Accepted)
  /\ UNCHANGED passVars

Run == Proceed /\ UNCHANGED passVars

Interrupt == Cancel /\ UNCHANGED passVars

Work == Scan \/ Admit \/ Run

CallNext == Work \/ Interrupt \/ (Finished /\ UNCHANGED callVars)

CallSpec == CallInit /\ [][CallNext]_callVars

\* As in AtomicExecution, with the pass, which never waits.
FairCallSpec == CallSpec /\ WF_callVars(Work)

\* The call implements the execution that validates its request in one step by
\* the declarative rules, whatever happens while the pass is under way.
ImplementsExecution == Spec
=============================================================================
