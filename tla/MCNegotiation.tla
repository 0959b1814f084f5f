------------------------------ MODULE MCNegotiation ------------------------------
(***************************************************************************)
(* Accept headers of up to three media ranges: one extension and one       *)
(* profile are supported and one of each is not, and there are three       *)
(* qualities, zero among them.                                             *)
(***************************************************************************)
EXTENDS Negotiation

MCExtensions == {"e"}
MCProfiles == {"p"}

Candidate(name, q, ext, profile) ==
  [range |-> name, other |-> FALSE, qform |-> IF q = FullQuality THEN "absent" ELSE "valid",
   q |-> q, lists |-> "valid", ext |-> ext, profile |-> profile]

Plain == Candidate("jsonapi", FullQuality, {}, {})

Wildcards == {Candidate(name, q, {}, {}) : name \in {"all", "application"}, q \in 0..FullQuality}

Media ==
  {Candidate("jsonapi", q, ext, profile) :
     q \in 0..FullQuality, ext \in {{}, {"e"}}, profile \in {{}, {"p"}}}

Refused ==
  {[Plain EXCEPT !.range = "other"], [Plain EXCEPT !.qform = "invalid"],
   [Plain EXCEPT !.other = TRUE], [Plain EXCEPT !.lists = "malformed"],
   Candidate("jsonapi", FullQuality, {"e", "f"}, {}),
   Candidate("all", FullQuality, {"e"}, {}),
   Candidate("jsonapi", 0, {}, {"u"}), Candidate("jsonapi", FullQuality, {}, {"p", "u"})}

Universe == Wildcards \cup Media \cup Refused

Lists == UNION {[1..n -> Universe] : n \in 0..2}
         \cup [1..3 -> Wildcards \cup Media \cup {Candidate("jsonapi", 0, {}, {"u"}),
                                                 Candidate("jsonapi", 1, {"e", "f"}, {})}]
         \cup {<<Plain, Plain, Plain, Plain>>}

MCHeaders ==
  {[long |-> FALSE, blank |-> cs = <<>>, candidates |-> cs] : cs \in Lists}
  \cup {[long |-> TRUE, blank |-> FALSE, candidates |-> <<Plain>>]}

MCContentTypes ==
  {[ext |-> ext, profile |-> profile] : ext \in SUBSET {"e", "f"}, profile \in {{}, {"p"}}}

\* The bare type, then ;ext="e f", ;ext="e", ;ext="f", each before itself with ;profile,
\* and ;profile alone.
MCRankOf ==
  [t \in MCContentTypes |->
     (IF t.ext = {} THEN (IF t.profile = {} THEN 0 ELSE 6)
      ELSE IF t.ext = {"e", "f"} THEN 1 ELSE IF t.ext = {"e"} THEN 3 ELSE 5)
     + (IF t.profile = {} THEN 0 ELSE 1)]
=============================================================================
