-------------------------------- MODULE Lexer --------------------------------
(***************************************************************************)
(* The lexer (lexer/lexer.go): NextToken called until it returns EOF.  The  *)
(* input is a sequence of characters; readPosition is position + 1, and ch  *)
(* is End (0 in the code) from the end of the input on.  A token is a pair  *)
(* <<type, characters>>.                                                    *)
(***************************************************************************)
EXTENDS Naturals, SequencesExt, FiniteSetsExt

CONSTANTS Inputs, Letters, Digits, Keywords      \* token.go's words of letters

End == "end"
Quote == "\""
Space == {" ", "\n", "\r", "\t"}
Single == {"+", "-", "/", "*", ",", ":", ";", "(", ")", "{", "}", "[", "]"}
Doubled == {"=", "!", "<", ">"}         \* which an = may follow

\* A character is of one kind, and the end of the input (NUL in the code) is none.
ASSUME LexerAssumption ==
    /\ \A s \in Inputs : s \in Seq(ToSet(s)) /\ End \notin ToSet(s)
    /\ Letters \cap Digits = {}
    /\ (Letters \cup Digits) \cap (Space \cup Single \cup Doubled \cup {Quote, End}) = {}

VARIABLES
    input, position,
    opened,      \* where the string that is being read begins, 0 outside of one
    tokens       \* the tokens returned so far, each with the place it begins at
vars == <<input, position, opened, tokens>>

CharAt(p) == IF p > Len(input) THEN End ELSE input[p]

\* The first position from p on whose character is none of the set.
SkipOver(p, set) == Min({q \in p..(Len(input) + 1) : CharAt(q) \notin set})

LookupIdent(word) == IF word \in Keywords THEN "KEYWORD" ELSE "IDENT"

\* A faulty Operator: a character at a time.
OneCharacter(p) == <<CharAt(p)>>
Operator(p) == IF CharAt(p) \in Doubled /\ CharAt(p + 1) = "=" THEN <<CharAt(p), "=">> ELSE <<CharAt(p)>>

Word(p, set) == SubSeq(input, p, SkipOver(p, set) - 1)

\* The token that begins at p, where there is neither space nor a quote; a character
\* the language does not have is a token too.
TokenFrom(p) ==
    CASE CharAt(p) \in Single \cup Doubled -> <<"OPERATOR", Operator(p)>>
      [] CharAt(p) = End -> <<"EOF", <<>> >>
      [] CharAt(p) \in Letters -> LET w == Word(p, Letters) IN <<LookupIdent(w), w>>
      [] CharAt(p) \in Digits -> <<"INT", Word(p, Digits)>>
      [] OTHER -> <<"ILLEGAL", <<CharAt(p)>> >>

Init == input \in Inputs /\ position = 1 /\ opened = 0 /\ tokens = <<>>

Start == SkipOver(position, Space)      \* skipWhitespace
AtEOF == tokens # <<>> /\ Last(tokens).type = "EOF"
Return(type, chars, at) == tokens' = Append(tokens, [type |-> type, chars |-> chars, at |-> at])

NextToken ==
    /\ ~AtEOF /\ opened = 0 /\ CharAt(Start) # Quote
    /\ LET t == TokenFrom(Start)
       IN  Return(t[1], t[2], Start) /\ position' = Start + Len(t[2])
    /\ UNCHANGED <<input, opened>>

OpenString ==
    /\ ~AtEOF /\ opened = 0 /\ CharAt(Start) = Quote
    /\ opened' = Start /\ position' = Start + 1 /\ UNCHANGED <<input, tokens>>

\* readString looks for the quote only: beyond the input it goes on for ever, which is
\* the same state over and over here.
ReadString ==
    /\ opened # 0 /\ CharAt(position) # Quote
    /\ position' = IF position > Len(input) THEN position ELSE position + 1
    /\ UNCHANGED <<input, opened, tokens>>

\* Faulty CloseStrings: the first quote is in the token; the last is left for the next.
CloseWithQuote ==
    /\ opened # 0 /\ CharAt(position) = Quote
    /\ Return("STRING", SubSeq(input, opened, position - 1), opened)
    /\ opened' = 0 /\ position' = position + 1 /\ UNCHANGED input

CloseAtQuote ==
    /\ opened # 0 /\ CharAt(position) = Quote
    /\ Return("STRING", SubSeq(input, opened + 1, position - 1), opened)
    /\ opened' = 0 /\ position' = position /\ UNCHANGED input

CloseString ==
    /\ opened # 0 /\ CharAt(position) = Quote
    /\ Return("STRING", SubSeq(input, opened + 1, position - 1), opened)
    /\ opened' = 0 /\ position' = position + 1 /\ UNCHANGED input

Next == NextToken \/ OpenString \/ ReadString \/ CloseString
\* The parser calls NextToken until it has seen EOF.
Spec == Init /\ [][Next]_vars /\ WF_vars(Next)

-----------------------------------------------------------------------------
(***************************************************************************)
(* Properties.                                                              *)
(***************************************************************************)
Width(t) == IF t.type = "STRING" THEN Len(t.chars) + 2 ELSE Len(t.chars)
Text(t) == [k \in 1..Width(t) |-> CharAt(t.at + k - 1)]

\* Nothing but white space lies between the tokens, and a token holds the characters it
\* was read from: no character is read twice or lost, strings included.
NothingSkipped ==
    /\ \A i \in DOMAIN tokens :
        LET t == tokens[i]
            before == IF i = 1 THEN 1 ELSE tokens[i - 1].at + Width(tokens[i - 1])
        IN  /\ \A p \in before..(t.at - 1) : CharAt(p) \in Space
            /\ Text(t) = IF t.type = "STRING" THEN <<Quote>> \o t.chars \o <<Quote>> ELSE t.chars
    /\ tokens # <<>> /\ opened = 0 => position = Last(tokens).at + Width(Last(tokens))

\* No two tokens that touch would be one: names, numbers and operators are read as far
\* as they go.
LongestMatch ==
    \A i \in 2..Len(tokens) :
        LET s == tokens[i - 1]
            t == tokens[i]
        IN  (s.at + Width(s) = t.at /\ t.type # "EOF") =>
                /\ {s.type, t.type} \notin {{"INT"}, {"IDENT"}, {"KEYWORD"}, {"IDENT", "KEYWORD"}}
                /\ ~(s.type = "OPERATOR" /\ Len(s.chars) = 1 /\ s.chars[1] \in Doubled
                        /\ t.type = "OPERATOR" /\ t.chars[1] = "=")

\* The lexer comes to the end of an input whose strings are closed, and of no other: an
\* unterminated string is read for ever, and whoever asked for the token waits.
Closed == Cardinality({p \in DOMAIN input : input[p] = Quote}) % 2 = 0
ReachesEOF == (Closed => <>AtEOF) /\ (~Closed => []~AtEOF)
=============================================================================
