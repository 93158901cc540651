------------------------------ MODULE MC_Parser ------------------------------
(***************************************************************************)
(* The parser on every short sequence of tokens over a few alphabets, each  *)
(* after a few openings.                                                    *)
(***************************************************************************)
EXTENDS Parsing

a == IdentToken("a")
one == IntToken(1)
K(types) == {Punct(t) : t \in types}
T(types) == [i \in DOMAIN types |-> Punct(types[i])]

Strung(alphabet, n) == UNION {[1..k -> alphabet] : k \in 0..n}
After(openings, ends) == {o \o e : o \in openings, e \in ends}

\* Operators, grouping, calls and arrays.
Operations == Strung({a} \cup K({"-", "+", "*", "<", "==", "(", ")"}), 5)
Lists == After({T(<<"[">>), <<a, Punct("(")>>, << <<"BUILTIN", "len">>, Punct("(")>>},
               Strung({a, one} \cup K({",", ")", "]", "-"}), 5))

Indices ==
    After({<<a, Punct("["), a>>, <<Punct("-"), a, Punct("["), one>>},
          Strung({a} \cup K({"[", "]", "+", "("}), 4))
    \cup After({T(<<"(", "-">>)}, Strung({a} \cup K({"-", "(", ")", "[", "]", "+"}), 5))

\* Statements, blocks and functions.
Statements == Strung({a, one} \cup K({"LET", "=", ";", "RETURN", "BREAK", "+"}), 5)

Blocks == After({T(<<"FOR">>), T(<<"FOR", "{">>), T(<<"RETURN", "FUNCTION", "(">>)},
                Strung({a} \cup K({"{", "}", "(", ")", ",", "CONTINUE", ";"}), 4))
Functions == After({T(<<"LET">>) \o <<a>> \o T(<<"=", "FUNCTION", "(">>)},
                   Strung({a} \cup K({"{", "}", ")", ",", "NULL"}), 5))
Hashes == After({<<a, Punct("=")>> \o T(<<"{">>)},
                Strung({a, <<"STRING", "s">>} \cup K({":", ",", "}", "!", "TRUE"}), 5))

\* Conditionals with and without an alternative.
If == T(<<"IF", "(">>) \o <<a>> \o T(<<")", "{">>)
Branches == After({If, If \o T(<<"}", "ELSE", "{">>), If \o <<a>> \o T(<<"}", ";">>) \o If},
                  Strung({a} \cup K({"{", "}", ";", "RETURN"}), 4))

\* A program of TestReturnStatements: a statement follows an if without an else.
Ten(op) == <<IntToken(10), Punct(op), one>>
TestProgram == T(<<"IF", "(">>) \o Ten(">") \o T(<<")", "{", "IF", "(">>) \o Ten(">")
                \o T(<<")", "{", "RETURN">>) \o <<IntToken(10)>> \o T(<<";", "}", "RETURN">>)
                \o <<one>> \o T(<<";", "}">>)

MCSources == Operations \cup Lists \cup Indices \cup Statements \cup Blocks \cup Functions
                \cup Hashes \cup Branches \cup {TestProgram}
=============================================================================
