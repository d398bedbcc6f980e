---------------------------- MODULE MCIndexBase -----------------------------
(* Keys of three digits, three of the trie's levels, that share prefixes of *)
(* every length; bounds on, between and outside the keys.                    *)
EXTENDS IndexBase

MCKeys == {1, 2, 6, 18, 39, 45, 63}
MCBounds == {0, 2, 6, 20, 39, 63}
MCMaxAdds == [k \in Kinds |-> IF k = "trie" THEN 4 ELSE 7]
MCMaxPerKey == [k \in Keys |-> IF k = 39 THEN 2 ELSE 1]
=============================================================================
