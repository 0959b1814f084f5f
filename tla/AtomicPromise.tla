----------------------------- MODULE AtomicPromise -----------------------------
(***************************************************************************)
(* What ExecuteAtomic promises its caller, with no mention of how: the     *)
(* operations of the request become durable all together and in document   *)
(* order or not at all, and the answer never claims more than what         *)
(* happened.  A response says they are durable; a failure before commit    *)
(* ("refused") says they are not; a failure of the commit phase            *)
(* ("uncertain") says nothing, because a failed commit cannot establish    *)
(* durability.                                                             *)
(***************************************************************************)
EXTENDS Sequences

CONSTANT Requests

VARIABLES
  request,   \* the operations submitted
  durable,   \* the operations in effect in the application's storage
  answer     \* what the caller has been told

vars == <<request, durable, answer>>

Init ==
  /\ request \in Requests
  /\ durable = <<>>
  /\ answer = "pending"

\* The request takes effect, whole.
Install ==
  /\ answer = "pending" /\ durable = <<>>
  /\ durable' = request
  /\ UNCHANGED <<request, answer>>

Respond ==
  /\ answer = "pending" /\ durable = request /\ request # <<>>
  /\ answer' = "response"
  /\ UNCHANGED <<request, durable>>

Refuse ==
  /\ answer = "pending" /\ durable = <<>>
  /\ answer' = "refused"
  /\ UNCHANGED <<request, durable>>

LeaveUncertain ==
  /\ answer = "pending"
  /\ answer' = "uncertain"
  /\ UNCHANGED <<request, durable>>

Next == Install \/ Respond \/ Refuse \/ LeaveUncertain

Spec == Init /\ [][Next]_vars
=============================================================================
