------------------------- MODULE MCDataPreparation -------------------------
(***************************************************************************)
(* DataPreparation for TLC.  a, b and c are near duplicates in a chain (a  *)
(* and c are not), and c of p, which matches a protected record; d and e   *)
(* are similar but share no LSH band, a and d share one but are not        *)
(* similar.  q is quarantined, x and o (oversize) are rejected.            *)
(***************************************************************************)
EXTENDS DataPreparation

MCContents == {"a", "b", "c", "d", "e", "f", "p", "q", "x", "o"}
MCVerdict == [c \in MCContents |-> CASE c = "q" -> "QUARANTINED"
                                     [] c \in {"x", "o"} -> "REJECTED"
                                     [] OTHER -> "POLICY_ACCEPTED"]
MCSimilar == {{"a", "b"}, {"b", "c"}, {"c", "p"}, {"d", "e"}}
MCBanded == {{"a", "b"}, {"b", "c"}, {"c", "p"}, {"a", "c"}, {"a", "d"}}
MCQuality == [c \in MCContents |-> CASE c = "b" -> 0 [] c = "p" -> 2 [] OTHER -> 1]
MCBytesOf == [c \in MCContents |->
    CASE c = "a" -> <<0, 0, 0, 0, 0>> [] c = "b" -> <<0, 0, 0, 1>> [] c = "c" -> <<0, 1, 0, 1, 0>>
      [] c = "d" -> <<1, 1, 1, 1, 1, 1, 1>>
      [] c = "e" -> <<1, 1, 0, 0>> [] c = "f" -> <<0, 1, 0, 0, 1>>
      [] c = "p" -> <<1>>             [] OTHER -> <<1, 0>>]
(* By source id, and the other way round. *)
MCSampleRanks == {[d \in 1 .. 4 |-> d], [d \in 1 .. 4 |-> 5 - d]}

ContentCases ==
    {<<"a", "b", "c", "d">>, <<"c", "a", "f", "b">>, <<"b", "p", "a", "c">>,
     <<"a", "a", "d", "a">>, <<"d", "e", "f", "a">>, <<"p", "c", "d", "f">>,
     <<"q", "d", "x", "e">>, <<"o", "f", "d", "d">>, <<"q", "x", "o", "x">>}
RepoCases == {<<1, 1, 2, 3>>, <<1, 2, 1, 2>>, <<1, 2, 3, 3>>, <<1, 2, 3, 1>>, <<1, 1, 1, 2>>}

Removal(nth, records, repos) ==
    [authority |-> "host", snapshot |-> nth, order |-> nth,
     records |-> records, repositories |-> repos]
Usual == <<Removal(1, {}, {})>>
OtherRemovals ==
    {<<Removal(2, {2}, {}), Removal(1, {}, {1})>>,
     <<Removal(1, {}, {}), Removal(2, {}, {1})>>,
     <<Removal(1, {}, {}), [Removal(1, {1}, {}) EXCEPT !.snapshot = 2]>>}

Case(cs, rs, removals) ==
    [source |-> [d \in 1 .. 4 |-> [content |-> cs[d], repo |-> rs[d]]], supplied |-> removals]

MCSourceCases ==
    {Case(cs, rs, Usual) : cs \in ContentCases, rs \in RepoCases}
    \cup {Case(cs, <<1, 2, 1, 2>>, s) :
              cs \in {<<"a", "b", "c", "d">>, <<"d", "f", "e", "a">>}, s \in OtherRemovals}
=============================================================================
