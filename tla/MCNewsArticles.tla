------------------------- MODULE MCNewsArticles -------------------------
(***************************************************************************)
(* A small instance of NewsArticles for TLC: one event reported three      *)
(* times in a chain, one of unknown relevance, one in another language.    *)
(***************************************************************************)
EXTENDS NewsArticles

CONSTANTS first, second, third

Reports == {first, second, third}
Chain == {{first, second}, {second, third}}
Hours == [a \in Reports |-> IF a = first THEN 0 ELSE IF a = second THEN 1 ELSE 2]
Relevances == [a \in Reports |-> IF a = first THEN 2 ELSE IF a = second THEN 0 ELSE 1]
InEnglish == {second, third}
=============================================================================
