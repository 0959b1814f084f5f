------------------------------ MODULE MCLinkChain ------------------------------
(* Chains of up to four links below the entry under a limit of three: a chain  *)
(* at the limit, one link beyond it, and every cycle that four pointers close. *)
EXTENDS LinkChain

MCCells == 1..4
MCRoot == 0
MCNone == -1

\* The cells are numbered in the order in which the chain reaches them: it goes
\* down to the n-th and from there back or nowhere, as do the cells it does not reach.
MCPointers ==
  UNION {{[l \in 0..4 |-> IF l < n THEN l + 1 ELSE IF l = n THEN back ELSE MCNone] :
            back \in {MCNone} \cup 1..n} : n \in 0..4}

\* At most one link has a fault or a stray member, and all that end the chain
\* have the same form.
MCEntries ==
  {e \in [describedBy: MCPointers,
          form: {[l \in 0..4 |-> IF l < n THEN "object" ELSE f] : n \in 0..5, f \in Forms},
          faulty: {{}} \cup {{l} : l \in 0..4},
          stray: {{}} \cup {{l} : l \in 0..4},
          atMember: BOOLEAN, registered: BOOLEAN] :
     /\ e.faulty = {} \/ e.stray = {}
     /\ IsEntry(e)
     /\ \A l \in 0..4 : e.form[l] = "object" => l = 0 \/ \E k \in 0..(l - 1) : e.describedBy[k] = l}
=============================================================================
