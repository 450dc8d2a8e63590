------------------------------- MODULE Lists -------------------------------
(* A list is a sequence; Array.filter keeps those of its entries that are in *)
(* a set.  (SelectSeq, written so that it can be reasoned about.)            *)
EXTENDS Integers, Sequences

Kept(list, set) ==
  LET kept[i \in 0..Len(list)] ==
        IF i = 0 THEN <<>>
        ELSE IF list[i] \in set THEN Append(kept[i - 1], list[i]) ELSE kept[i - 1]
  IN kept[Len(list)]
=============================================================================
