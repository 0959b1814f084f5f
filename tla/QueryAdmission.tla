------------------------------ MODULE QueryAdmission ------------------------------
(***************************************************************************)
(* Parsing of a query under limits: QueryParser.Parse (query.go), and the  *)
(* admission of its result by CursorPagination.ParseQuery (cursor.go),     *)
(* which charges the page family and the sort fields once more against     *)
(* the default limits.  Both range over maps, whose order Go leaves open.  *)
(*                                                                         *)
(* A parameter name is its place in the lexical order.  A parameter is     *)
(* [family, selectors, bytes, values]: its family, "malformed" where       *)
(* parseFamilyName refuses it; its selectors, where a fields name whose    *)
(* selector identifies no type counts as one without; the bytes of its     *)
(* name; and its values, each [bytes, valid, items] with valid, whether it *)
(* is a well-formed list, and its items, each [bytes, descending].         *)
(***************************************************************************)
EXTENDS Integers, FiniteSets, Sequences, Functions

CONSTANTS
  Queries,        \* the values of a query: functions from names to parameters
  ParserLimits,   \* limits that parsers are constructed with
  DefaultLimits,  \* DefaultQueryLimits()
  SortNameBytes,  \* len("sort")
  Calls           \* calls that parse the same values

Limits ==
  [MaxParameters : Nat \ {0}, MaxNameBytes : Nat \ {0}, MaxValues : Nat \ {0},
   MaxValueBytes : Nat \ {0}, MaxTotalBytes : Nat \ {0}, MaxListItems : Nat \ {0},
   MaxSelectors : Nat \ {0}]

ASSUME LimitsArePositive ==
  /\ ParserLimits \cup {DefaultLimits} \subseteq Limits
  /\ SortNameBytes \in 1..DefaultLimits.MaxNameBytes

VARIABLES
  values,   \* the decoded query
  limits,   \* parser.limits
  pc,       \* per call: what it does next
  pending,  \* per call: the names that the loop has not reached
  bytes,    \* per call: totalBytes, and then bytesRemaining
  counted,  \* per call: totalValues, and then valuesRemaining
  sorted,   \* per call: the sort fields charged, and the bytes they take
  answer    \* per call: its failure, or NoAnswer

vars == <<values, limits, pc, pending, bytes, counted, sorted, answer>>

Sum(numbers) == FoldFunction(+, 0, numbers)

\* strings.Join(fields, ","), with a minus sign before a descending field.
Encoded(items) ==
  Sum([k \in DOMAIN items |->
         items[k].bytes + (IF k > 1 THEN 1 ELSE 0) + (IF items[k].descending THEN 1 ELSE 0)])

Lists == {"include", "fields", "sort"}

Fields == [bytes : Nat, descending : BOOLEAN]

Parameters ==
  [family : STRING, selectors : Nat, bytes : Nat,
   values : Seq([bytes : Nat, valid : BOOLEAN, items : Seq(Fields)])]

ASSUME QueriesTyped ==
  \A query \in Queries :
    /\ query \in [DOMAIN query -> Parameters]
    /\ IsFiniteSet(DOMAIN query) /\ DOMAIN query \subseteq Nat

\* The name "sort" is unique among those without selectors; a list is the text of its
\* items.
ASSUME QueriesWellFormed ==
  \A query \in Queries :
    /\ \A name, other \in DOMAIN query :
         /\ query[name].family = "sort" /\ query[name].selectors = 0
         /\ query[other].family = "sort" /\ query[other].selectors = 0
         => name = other /\ query[name].bytes = SortNameBytes
    /\ \A name \in DOMAIN query : query[name].family \in Lists =>
         \A value \in Range(query[name].values) : value.bytes = Encoded(value.items)

NoAnswer == [by |-> "nobody", code |-> "none", parameter |-> 0]

Init ==
  /\ values \in Queries
  /\ limits \in ParserLimits
  /\ pc = [c \in Calls |-> "start"]
  /\ pending = [c \in Calls |-> {}]
  /\ bytes = [c \in Calls |-> 0]
  /\ counted = [c \in Calls |-> 0]
  /\ sorted = [c \in Calls |-> [count |-> 0, bytes |-> 0]]
  /\ answer = [c \in Calls |-> NoAnswer]

\* The call ends; parameter 0 stands for no parameter.
Refuse(c, by, code, parameter) ==
  /\ pc' = [pc EXCEPT ![c] = "refused"]
  /\ answer' = [answer EXCEPT ![c] = [by |-> by, code |-> code, parameter |-> parameter]]
  /\ UNCHANGED <<pending, bytes, counted, sorted>>

Goto(c, next, names) ==
  /\ pc' = [pc EXCEPT ![c] = next]
  /\ pending' = [pending EXCEPT ![c] = names]
  /\ UNCHANGED answer

Charged(c, name) == Goto(c, pc[c], pending[c] \ {name})

ValueBytes(p) == Sum([k \in DOMAIN p.values |-> p.values[k].bytes])
LongValue(p, max) == \E k \in DOMAIN p.values : p.values[k].bytes > max

-----------------------------------------------------------------------------
(* QueryParser.validateLimits *)

CountParameters(c) ==
  /\ pc[c] = "start"
  /\ \/ /\ Cardinality(DOMAIN values) > limits.MaxParameters
        /\ Refuse(c, "limits", "limit", 0)
     \/ /\ Cardinality(DOMAIN values) <= limits.MaxParameters
        /\ Goto(c, "limits", DOMAIN values)
        /\ UNCHANGED <<bytes, counted, sorted>>
  /\ UNCHANGED <<values, limits>>

\* Bug: a long value is noticed only in the total.
ChargeParameterTotals(c) ==
  /\ pc[c] = "limits"
  /\ \E name \in pending[c] :
       LET p == values[name]
           total == bytes[c] + p.bytes + ValueBytes(p)
           count == counted[c] + Len(p.values)
       IN \/ /\ p.bytes > limits.MaxNameBytes \/ count > limits.MaxValues
             /\ Refuse(c, "limits", "limit", name)
          \/ /\ p.bytes <= limits.MaxNameBytes /\ count <= limits.MaxValues
             /\ total > limits.MaxTotalBytes
             /\ Refuse(c, "limits", "limit", 0)
          \/ /\ p.bytes <= limits.MaxNameBytes /\ count <= limits.MaxValues
             /\ total <= limits.MaxTotalBytes
             /\ Charged(c, name)
             /\ bytes' = [bytes EXCEPT ![c] = total]
             /\ counted' = [counted EXCEPT ![c] = count]
             /\ UNCHANGED sorted
  /\ UNCHANGED <<values, limits>>

ChargeParameter(c) ==
  /\ pc[c] = "limits"
  /\ \E name \in pending[c] :
       LET p == values[name]
           total == bytes[c] + p.bytes + ValueBytes(p)
           count == counted[c] + Len(p.values)
           over == \/ p.bytes > limits.MaxNameBytes \/ count > limits.MaxValues
                   \/ LongValue(p, limits.MaxValueBytes)
       IN \/ over /\ Refuse(c, "limits", "limit", name)
          \/ ~over /\ total > limits.MaxTotalBytes /\ Refuse(c, "limits", "limit", 0)
          \/ /\ ~over /\ total <= limits.MaxTotalBytes
             /\ Charged(c, name)
             /\ bytes' = [bytes EXCEPT ![c] = total]
             /\ counted' = [counted EXCEPT ![c] = count]
             /\ UNCHANGED sorted
  /\ UNCHANGED <<values, limits>>

LimitsHold(c) ==
  /\ pc[c] = "limits" /\ pending[c] = {}
  /\ Goto(c, "families", DOMAIN values)
  /\ UNCHANGED <<values, limits, bytes, counted, sorted>>

-----------------------------------------------------------------------------
(* QueryParser.Parse *)

\* The refusal of a parameter, or "none".
FamilyRefusal(p) ==
  IF p.family = "malformed" THEN "invalid-name"
  ELSE IF p.selectors > limits.MaxSelectors THEN "limit"
  ELSE IF p.family = "unknown" THEN "unknown-parameter"
  ELSE IF p.family \notin Lists THEN "none"
  ELSE IF p.selectors # (IF p.family = "fields" THEN 1 ELSE 0) THEN "invalid-name"
  ELSE IF Len(p.values) # 1 THEN "multiple-values"
  ELSE IF ~p.values[1].valid THEN "invalid-value"
  ELSE IF Len(p.values[1].items) > limits.MaxListItems THEN "limit"
  ELSE "none"

\* The names in sorted order.
ParseParameter(c) ==
  /\ pc[c] = "families"
  /\ \E name \in pending[c] :
       /\ \A other \in pending[c] : name <= other
       /\ \/ /\ FamilyRefusal(values[name]) # "none"
             /\ Refuse(c, "families", FamilyRefusal(values[name]), name)
          \/ /\ FamilyRefusal(values[name]) = "none"
             /\ Charged(c, name)
             /\ UNCHANGED <<bytes, counted, sorted>>
  /\ UNCHANGED <<values, limits>>

\* query.Page and query.Sort.
PageNames == {name \in DOMAIN values : values[name].family = "page"}
SortNames == {name \in DOMAIN values : values[name].family = "sort"}
SortFields ==
  IF SortNames = {} THEN <<>> ELSE values[CHOOSE name \in SortNames : TRUE].values[1].items

Parsed(c) ==
  /\ pc[c] = "families" /\ pending[c] = {}
  /\ Goto(c, "parsed", {})
  /\ UNCHANGED <<values, limits, bytes, counted, sorted>>

-----------------------------------------------------------------------------
(* CursorPagination.admit *)

\* Bug: a full page family is refused, with or without sort fields.
CountPageStrictly(c) ==
  /\ pc[c] = "parsed"
  /\ LET over == \/ Cardinality(PageNames) >= DefaultLimits.MaxParameters
                 \/ Len(SortFields) > DefaultLimits.MaxListItems
     IN \/ over /\ Refuse(c, "admit", "limit", 0)
        \/ /\ ~over /\ Goto(c, "page", PageNames)
           /\ bytes' = [bytes EXCEPT ![c] = DefaultLimits.MaxTotalBytes]
           /\ counted' = [counted EXCEPT ![c] = DefaultLimits.MaxValues]
           /\ UNCHANGED sorted
  /\ UNCHANGED <<values, limits>>

CountPage(c) ==
  /\ pc[c] = "parsed"
  /\ LET over == \/ Cardinality(PageNames) > DefaultLimits.MaxParameters
                 \/ Len(SortFields) > DefaultLimits.MaxListItems
     IN \/ over /\ Refuse(c, "admit", "limit", 0)
        \/ /\ ~over /\ Goto(c, "page", PageNames)
           /\ bytes' = [bytes EXCEPT ![c] = DefaultLimits.MaxTotalBytes]
           /\ counted' = [counted EXCEPT ![c] = DefaultLimits.MaxValues]
           /\ UNCHANGED sorted
  /\ UNCHANGED <<values, limits>>

ChargePage(c) ==
  /\ pc[c] = "page"
  /\ \E name \in pending[c] :
       LET p == values[name]
           over == \/ p.bytes > DefaultLimits.MaxNameBytes \/ Len(p.values) > counted[c]
                   \/ LongValue(p, DefaultLimits.MaxValueBytes)
                   \/ p.bytes + ValueBytes(p) > bytes[c]
       IN \/ over /\ Refuse(c, "admit", "limit", 0)
          \/ /\ ~over /\ Charged(c, name)
             /\ bytes' = [bytes EXCEPT ![c] = @ - p.bytes - ValueBytes(p)]
             /\ counted' = [counted EXCEPT ![c] = @ - Len(p.values)]
             /\ UNCHANGED sorted
  /\ UNCHANGED <<values, limits>>

ChargeSortName(c) ==
  /\ pc[c] = "page" /\ pending[c] = {}
  /\ LET over == \/ Cardinality(PageNames) = DefaultLimits.MaxParameters
                 \/ counted[c] = 0 \/ bytes[c] < SortNameBytes
     IN \/ SortFields = <<>> /\ Goto(c, "admitted", {}) /\ UNCHANGED bytes
        \/ SortFields # <<>> /\ over /\ Refuse(c, "admit", "limit", 0)
        \/ /\ SortFields # <<>> /\ ~over /\ Goto(c, "sort", {})
           /\ bytes' = [bytes EXCEPT ![c] = @ - SortNameBytes]
  /\ UNCHANGED <<values, limits, counted, sorted>>

\* Bug: a field is charged against its own budget alone.
ChargeFieldSeparately(c) ==
  /\ pc[c] = "sort" /\ sorted[c].count < Len(SortFields)
  /\ LET field == SortFields[sorted[c].count + 1]
         size == field.bytes + (IF sorted[c].count > 0 THEN 1 ELSE 0)
                 + (IF field.descending THEN 1 ELSE 0)
         over == size > DefaultLimits.MaxValueBytes - sorted[c].bytes
     IN \/ over /\ Refuse(c, "admit", "limit", 0)
        \/ /\ ~over
           /\ bytes' = [bytes EXCEPT ![c] = @ - size]
           /\ sorted' = [sorted EXCEPT ![c] = [count |-> @.count + 1, bytes |-> @.bytes + size]]
           /\ UNCHANGED <<pc, pending, counted, answer>>
  /\ UNCHANGED <<values, limits>>

ChargeField(c) ==
  /\ pc[c] = "sort" /\ sorted[c].count < Len(SortFields)
  /\ LET field == SortFields[sorted[c].count + 1]
         size == field.bytes + (IF sorted[c].count > 0 THEN 1 ELSE 0)
                 + (IF field.descending THEN 1 ELSE 0)
         over == size > DefaultLimits.MaxValueBytes - sorted[c].bytes \/ size > bytes[c]
     IN \/ over /\ Refuse(c, "admit", "limit", 0)
        \/ /\ ~over
           /\ bytes' = [bytes EXCEPT ![c] = @ - size]
           /\ sorted' = [sorted EXCEPT ![c] = [count |-> @.count + 1, bytes |-> @.bytes + size]]
           /\ UNCHANGED <<pc, pending, counted, answer>>
  /\ UNCHANGED <<values, limits>>

FieldsCharged(c) ==
  /\ pc[c] = "sort" /\ sorted[c].count = Len(SortFields)
  /\ Goto(c, "admitted", {})
  /\ UNCHANGED <<values, limits, bytes, counted, sorted>>

Done == (\A c \in Calls : pc[c] \in {"refused", "admitted"}) /\ UNCHANGED vars

Next ==
  \/ \E c \in Calls :
       \/ CountParameters(c) \/ ChargeParameter(c) \/ LimitsHold(c)
       \/ ParseParameter(c) \/ Parsed(c)
       \/ CountPage(c) \/ ChargePage(c) \/ ChargeSortName(c) \/ ChargeField(c) \/ FieldsCharged(c)
  \/ Done

Spec == Init /\ [][Next]_vars

-----------------------------------------------------------------------------
(* What the limits say, of all the parameters at once *)

Within(max, query) ==
  /\ Cardinality(DOMAIN query) <= max.MaxParameters
  /\ \A name \in DOMAIN query :
       query[name].bytes <= max.MaxNameBytes /\ ~LongValue(query[name], max.MaxValueBytes)
  /\ Sum([name \in DOMAIN query |-> Len(query[name].values)]) <= max.MaxValues
  /\ Sum([name \in DOMAIN query |-> query[name].bytes + ValueBytes(query[name])])
       <= max.MaxTotalBytes

\* The parameters that cursor pagination reads.
Paged ==
  [name \in PageNames \cup (IF SortFields = <<>> THEN {} ELSE SortNames) |-> values[name]]

RefusedBy(c, who) == pc[c] = "refused" /\ answer[c].by = who

-----------------------------------------------------------------------------

TypeOK ==
  /\ limits \in ParserLimits
  /\ pc \in [Calls -> {"start", "limits", "families", "parsed", "page", "sort", "admitted",
                       "refused"}]
  /\ \A c \in Calls : pending[c] \subseteq DOMAIN values
  /\ bytes \in [Calls -> Nat] /\ counted \in [Calls -> Nat]
  /\ sorted \in [Calls -> [count : Nat, bytes : Nat]]
  /\ \A c \in Calls : (pc[c] = "refused") <=> (answer[c] # NoAnswer)

\* QueryParser refuses a query for its size if and only if it exceeds a limit, in whatever
\* order the map yields its parameters.
LimitsExact ==
  \A c \in Calls :
    /\ RefusedBy(c, "limits") => ~Within(limits, values)
    /\ pc[c] \notin {"start", "limits"} /\ ~RefusedBy(c, "limits") => Within(limits, values)

\* CursorPagination, which never sees the encoded query, admits what the default limits
\* admit of its page family and its sort parameter, neither more nor less.
AdmitExact ==
  \A c \in Calls :
    LET small == Within(DefaultLimits, Paged) /\ Len(SortFields) <= DefaultLimits.MaxListItems
    IN /\ RefusedBy(c, "admit") => ~small
       /\ pc[c] = "admitted" => small

\* A query that a parser with the default limits accepts is not refused by cursor
\* pagination for its size.
AdmitsParsed ==
  limits = DefaultLimits => \A c \in Calls : ~RefusedBy(c, "admit")
=============================================================================
