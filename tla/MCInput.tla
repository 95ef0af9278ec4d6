------------------------------ MODULE MCInput -------------------------------
(* A TLC instance of Input. *)
EXTENDS Input

Alphabet == {"1", ".", "x", "=", "<", ">", "!", "-", "\"", "\\", "\n", "#", " ", "(", "NUL"}

\* Texts of a few pieces each, so that every kind of token meets every other.
Pieces == {<<"1", ".", "5">>, <<"i", "f">>, <<"x", "1", "'">>, <<"#", "x", "\n">>, <<"#", "\\", "\n">>,
           <<"\"", "\\", "\"", "\n", "\"">>, <<"<", "<">>, <<"!", "=">>, <<"=", ">">>, <<"-", ">">>,
           <<".", ".">>, <<"\\", "\n">>, <<"\n", " ", "\n">>, <<"*">>, <<",">>, <<")">>, <<"?">>,
           <<"1", "2">>, <<" ">>, <<"t", "r", "u", "e">>}

MCFiles == UNION {[1 .. n -> Alphabet] : n \in 0 .. 3} \cup {a \o b \o c : a, b, c \in Pieces}

MCReserved == [w \in {<<"i", "f">>, <<"t", "o">>, <<"i", "n">>, <<"o", "r">>, <<"t", "r", "u", "e">>} |->
                 CASE w = <<"i", "n">> -> [type |-> "COMPARE", tag |-> "INFIX_OPERATOR"]
                   [] w = <<"o", "r">> -> [type |-> "OR", tag |-> "INFIX_OPERATOR"]
                   [] w = <<"t", "r", "u", "e">> -> [type |-> "BOOL", tag |-> "OPERAND"]
                   [] OTHER -> [type |-> "KEYWORD", tag |-> "OPERATOR"]]

MCChars == Alphabet \cup UNION {{p[j] : j \in DOMAIN p} : p \in Pieces}

MCLines == {<<>>, <<"(">>, <<")">>, <<")", "(">>, <<"[", "x">>, <<"x", ",">>, <<"1", "\\">>, <<"#", "]">>}
=============================================================================
