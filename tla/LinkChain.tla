------------------------------- MODULE LinkChain -------------------------------
(***************************************************************************)
(* Links that an application builds.  The member describedby of a link is  *)
(* a pointer to another one, so a chain of links may be long or lead back  *)
(* into itself, and the encoder follows it without counting: a chain with  *)
(* a cycle is never written to its end.  Two walkers go down the chain     *)
(* before the encoder does, validateLinkStateMembersAt (member_codec.go)   *)
(* for additional members and validateLinkAt (validation.go) for the core  *)
(* rules, each with its own account of depth and of the pointers above.    *)
(*                                                                         *)
(* The link is one entry of a links object.  Root is the entry itself, a   *)
(* copy that no pointer leads to; the Cells are the links pointers lead    *)
(* to.  An action visits one link of the chain.                            *)
(***************************************************************************)
EXTENDS Integers, FiniteSets

CONSTANTS
  Cells,      \* the links that pointers lead to
  Root,       \* the entry of the links object
  NoLink,     \* no pointer
  MaxDepth,   \* DefaultMaxNestingDepth
  Entries     \* the entries to encode

Links == Cells \cup {Root}

Forms == {"string", "object", "null", "extension"}

\* An entry: the pointers and the form of each link, those that break a rule of
\* the core (href, rel, type, hreflang) and those with unregistered additional
\* members, and whether the name of the entry begins with "@" or is registered.
\* Only an object can have a describedby or additional members.
IsEntry(e) ==
  /\ DOMAIN e = {"describedBy", "form", "faulty", "stray", "atMember", "registered"}
  /\ e.describedBy \in [Links -> Cells \cup {NoLink}]
  /\ e.form \in [Links -> Forms]
  /\ e.faulty \subseteq {l \in Links : e.form[l] \in {"string", "object"}}
  /\ e.stray \subseteq {l \in Links : e.form[l] = "object"}
  /\ \A l \in Links : e.form[l] # "object" => e.describedBy[l] = NoLink
  /\ e.atMember \in BOOLEAN /\ e.registered \in BOOLEAN

ASSUME CellsAreNoRoot == Root \notin Cells /\ NoLink \notin Links
ASSUME DepthIsNatural == MaxDepth \in Nat
ASSUME EntriesWellFormed == \A e \in Entries : IsEntry(e)

\* Validate is Document.Validate, Marshal that of a codec or of the package,
\* MarshalAtomic that of an Atomic document, which has no member walker.
Calls == {"Validate", "Marshal", "MarshalAtomic"}

VARIABLES
  call,        \* the function called
  entry,       \* the entry of the document's links
  pc,          \* "members", "rules", "encode" or "done"
  at,          \* the link visited
  depth,       \* how many pointers the walker has followed
  ancestors,   \* the pointers followed from the root to here
  violations,  \* the kinds of violation recorded
  written      \* the forms of the links that were written

chainVars == <<call, entry, pc, at, depth, ancestors, violations, written>>

ChainInit ==
  /\ call \in Calls
  /\ entry \in Entries
  /\ pc = IF call = "Marshal" THEN "members" ELSE "rules"
  /\ at = Root
  /\ depth = 0
  /\ ancestors = {}
  /\ violations = {}
  /\ written = {}

Below == entry.describedBy[at]

\* The walkers start again at the root.
Restart == at' = Root /\ depth' = 0 /\ ancestors' = {}

\* The pointers above a link are unmarked on the way back, where nothing reads them.
Descend == at' = Below /\ depth' = depth + 1 /\ ancestors' = ancestors \cup {Below}

-----------------------------------------------------------------------------
(* The member walker: validateLinkDocumentMembers and *StateMembersAt *)

\* Why the walker does not follow the pointer below the link it visits, if so.
MembersRefusal ==
  IF Below = NoLink THEN {}
  ELSE IF depth >= MaxDepth THEN {"limit"}
  ELSE IF Below \in ancestors THEN {"cycle"}
  ELSE {}

\* The additional members that are not registered: of an extension value, its
\* own name, but for an @-Member.
Strays ==
  IF at = Root /\ entry.form[Root] = "extension"
  THEN IF entry.registered \/ entry.atMember THEN {} ELSE {"stray"}
  ELSE IF at \in entry.stray THEN {"stray"} ELSE {}

VisitMembers ==
  /\ pc = "members"
  /\ violations' = violations \cup Strays \cup MembersRefusal
  /\ IF Below # NoLink /\ MembersRefusal = {}
     THEN Descend /\ UNCHANGED pc
     ELSE Restart /\ pc' = IF violations' = {} THEN "rules" ELSE "done"
  /\ UNCHANGED <<call, entry, written>>

-----------------------------------------------------------------------------
(* The walker of the core rules: validateLinks and validateLinkAt *)

\* Bug: the depth is compared after the step.
RulesRefusalLate ==
  IF Below = NoLink THEN {}
  ELSE IF depth > MaxDepth THEN {"limit"}
  ELSE IF Below \in ancestors THEN {"cycle"}
  ELSE {}

RulesRefusal ==
  IF Below = NoLink THEN {}
  ELSE IF depth >= MaxDepth THEN {"limit"}
  ELSE IF Below \in ancestors THEN {"cycle"}
  ELSE {}

\* An extension value and a null link have no rules.
Faults == IF at \in entry.faulty /\ entry.form[at] \notin {"extension", "null"}
          THEN {"fault"} ELSE {}

\* validateLinks does not enter @-Members.
SkipsRules == entry.atMember

\* Bug: the rules judge the first link only.
VisitRulesOfRoot ==
  /\ pc = "rules"
  /\ violations' = IF SkipsRules THEN violations ELSE violations \cup Faults
  /\ Restart
  /\ pc' = IF violations' = {} /\ call # "Validate" THEN "encode" ELSE "done"
  /\ UNCHANGED <<call, entry, written>>

\* Bug: the walker calls validateLink for the link below, which counts afresh.
VisitRulesAfresh ==
  /\ pc = "rules"
  /\ violations' = IF SkipsRules THEN violations ELSE violations \cup Faults \cup RulesRefusal
  /\ IF ~SkipsRules /\ Below # NoLink /\ RulesRefusal = {}
     THEN at' = Below /\ UNCHANGED <<pc, depth, ancestors>>
     ELSE Restart /\ pc' = IF violations' = {} /\ call # "Validate" THEN "encode" ELSE "done"
  /\ UNCHANGED <<call, entry, written>>

VisitRules ==
  /\ pc = "rules"
  /\ violations' = IF SkipsRules THEN violations ELSE violations \cup Faults \cup RulesRefusal
  /\ IF ~SkipsRules /\ Below # NoLink /\ RulesRefusal = {}
     THEN Descend /\ UNCHANGED pc
     ELSE Restart /\ pc' = IF violations' = {} /\ call # "Validate" THEN "encode" ELSE "done"
  /\ UNCHANGED <<call, entry, written>>

-----------------------------------------------------------------------------

\* Link.MarshalJSON writes the link and calls itself for the one below, with a
\* fresh encoder each time, so that the cycle detection of encoding/json never
\* begins.
VisitEncode ==
  /\ pc = "encode"
  /\ written' = written \cup {entry.form[at]}
  /\ IF Below # NoLink THEN at' = Below /\ UNCHANGED pc ELSE at' = at /\ pc' = "done"
  /\ UNCHANGED <<call, entry, depth, ancestors, violations>>

Visit == VisitMembers \/ VisitRules \/ VisitEncode

ChainNext == Visit \/ (pc = "done" /\ UNCHANGED chainVars)

ChainSpec == ChainInit /\ [][ChainNext]_chainVars

ChainFairSpec == ChainSpec /\ WF_chainVars(Visit)

-----------------------------------------------------------------------------

\* The chain of the entry through n pointers: the n-th link down is p[n].
IsPath(p, n) ==
  /\ p[0] = Root
  /\ \A k \in 0..(n - 1) : p[k + 1] = entry.describedBy[p[k]]

\* The links of a chain that ends after at most MaxDepth pointers.
ChainOf(p, n) == {p[k] : k \in 0..n}

EndsWith(p, n) == IsPath(p, n) /\ entry.describedBy[p[n]] = NoLink

Ends == \E n \in 0..MaxDepth : \E p \in [0..n -> Links] : EndsWith(p, n)

\* Whether both rules and encoder enter the entry.
Checked == call = "Marshal" \/ ~entry.atMember

ChainTypeOK ==
  /\ call \in Calls /\ entry \in Entries
  /\ pc \in {"members", "rules", "encode", "done"}
  /\ at \in Links
  /\ depth \in 0..MaxDepth
  /\ ancestors \subseteq Cells
  /\ violations \subseteq {"limit", "cycle", "stray", "fault"}
  /\ written \subseteq Forms

\* The verdict of validateDocumentMembers and ValidateWith on an entry that they
\* enter is that of the whole chain: a limit or a cycle is reported exactly when
\* the chain does not end within the limit, by whichever walker comes first; and
\* what is wrong with a link is reported at any depth.
VerdictExact ==
  pc \in {"encode", "done"} /\ Checked =>
    /\ Ends <=> violations \cap {"limit", "cycle"} = {}
    /\ \A n \in 0..MaxDepth : \A p \in [0..n -> Links] : EndsWith(p, n) =>
         /\ "stray" \in violations <=>
              call = "Marshal"
                /\ (\/ entry.stray \cap ChainOf(p, n) # {}
                    \/ entry.form[Root] = "extension" /\ ~entry.registered /\ ~entry.atMember)
         /\ "fault" \in violations <=>
              /\ ~entry.atMember /\ "stray" \notin violations
              /\ entry.faulty \cap ChainOf(p, n) # {}

\* The encoder is not started on a chain that it would not come to the end of:
\* Link.MarshalJSON has no limit of its own.
EncodesBounded == pc = "encode" /\ Checked => Ends

\* Whatever the application has built, the call returns.
Returns == Checked => <>(pc = "done")

\* docs/api.md:81: constructed recursive describedby chains use the package
\* nesting limit and reject pointer cycles before encoding, whatever function
\* encodes and whatever the entry is called.
ChainsCheckedBeforeEncoding == pc = "encode" => Ends
=============================================================================
