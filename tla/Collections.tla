----------------------------- MODULE Collections -----------------------------
(***************************************************************************)
(* Python's collections as sequences: what a loop over a list collects, and*)
(* dictionaries, which keep the order of insertion, as lists of pairs.     *)
(***************************************************************************)
EXTENDS Naturals, Sequences

(* The elements of s that are in a set, in their order, after each turn of the
   loop that collects them. *)
Collected(s, keep) ==
    LET kept[i \in 0 .. Len(s)] ==
            IF i = 0 THEN <<>>
            ELSE IF s[i] \in keep THEN Append(kept[i - 1], s[i])
            ELSE kept[i - 1]
    IN  kept

Select(s, keep) == Collected(s, keep)[Len(s)]

(* A key that is there keeps its place. *)
Keys(dict) == {dict[i][1] : i \in DOMAIN dict}
Unique(dict) == \A i, j \in DOMAIN dict : dict[i][1] = dict[j][1] => i = j
Put(dict, pair) ==
    IF pair[1] \in Keys(dict)
    THEN [i \in DOMAIN dict |-> IF dict[i][1] = pair[1] THEN pair ELSE dict[i]]
    ELSE Append(dict, pair)
=============================================================================
