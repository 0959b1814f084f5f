------------------------------ MODULE MCCursorPaging ------------------------------
(***************************************************************************)
(* A collection of five results; page families with each parameter         *)
(* absent, valid, out of bounds, repeated or unknown.                      *)
(***************************************************************************)
EXTENDS CursorPaging

Sizes == {<<>>, <<-1>>, <<0>>, <<1>>, <<2>>, <<3>>, <<1, 1>>}
Cursors == {<<1>>, <<2>>, <<3>>, <<5>>, <<6>>, <<1, 2>>}

Chosen(names, size, after, before) ==
  [p \in names |-> CASE p = "size" -> size [] p = "after" -> after [] p = "before" -> before
                     [] p = "other" -> <<>>]

MCFamilies ==
  {Chosen(names, size, after, before) :
     names \in SUBSET {"size", "after", "before"}, size \in Sizes, after \in Cursors,
     before \in Cursors}
  \cup {Chosen({"other", "size"}, <<1>>, <<>>, <<>>)}
=============================================================================
