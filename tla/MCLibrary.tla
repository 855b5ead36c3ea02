------------------------------ MODULE MCLibrary -----------------------------
(* The kernel's library on small inputs for TLC: all ints of six bits, the     *)
(* formats of up to three pieces, names at the limits of eight and three       *)
(* characters, two lists of four nodes and a fifo of three characters.         *)
EXTENDS Library

MCBases == {2, 8, 10, 16, 7}

MCPieces == <<[spec |-> "text", arg |-> <<"a">>],
              [spec |-> "text", arg |-> <<"b", "c">>],
              [spec |-> "d", arg |-> -32],
              [spec |-> "d", arg |-> 10],
              [spec |-> "x", arg |-> -1],
              [spec |-> "c", arg |-> "z"],
              [spec |-> "s", arg |-> <<>>],
              [spec |-> "s", arg |-> <<"s", "1">>]>>

MCMinors == {0, 7, 10, 31}

Stems == {<<"a">>, <<"A", "1">>, <<"s", "h", "e", "l", "l">>, <<"a", "b", "c">>,
          <<"l", "o", "n", "g", "n", "a", "m", "e">>}
Extensions == {<<>>, <<".", "b">>, <<".", "e", "l", "f">>, <<".", "B">>}
MCNames == {s \o e : s \in Stems, e \in Extensions}
\* The bytes of the name that matter and two more, used before up to the k-th.
MCBlocks == {[i \in 1 .. SFN_LEN + 3 |-> IF i <= k THEN "?" ELSE "NUL"] : k \in 0 .. SFN_LEN + 3}
MCFolders == {<<>>, <<"/">>, <<"/", "h", "/">>, <<"h", "\\">>}

=============================================================================
