------------------------------ MODULE MC_Lexer ------------------------------
(***************************************************************************)
(* All inputs of up to five characters: two letters that make a keyword, a  *)
(* digit, operators of one and two characters, white space, quotes and a    *)
(* character the language does not have.                                    *)
(***************************************************************************)
EXTENDS Lexer

MCLetters == {"i", "f"}
MCDigits == {"1"}
MCKeywords == {<<"i", "f">>}
Alphabet == MCLetters \cup MCDigits \cup {"=", "<", "-", " ", "\"", "#"}
MCInputs == UNION {[1..n -> Alphabet] : n \in 0..5}
=============================================================================
