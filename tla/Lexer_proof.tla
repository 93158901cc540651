----------------------------- MODULE Lexer_proof -----------------------------
(***************************************************************************)
(* The tokens of any input: none of its characters is lost or read twice,   *)
(* and every name, number and operator is read as far as it goes.           *)
(***************************************************************************)
EXTENDS Lexer, SequenceTheorems, Induction

Characters == ToSet(input)
Types == {"OPERATOR", "EOF", "KEYWORD", "IDENT", "INT", "ILLEGAL", "STRING"}
Token == [type : Types, chars : Seq(Characters), at : Nat \ {0}]

-----------------------------------------------------------------------------
(***************************************************************************)
(* Reading the input.                                                       *)
(***************************************************************************)
LEMMA InputCharacters ==
    ASSUME input \in Inputs
    PROVE  /\ input \in Seq(Characters) /\ Len(input) \in Nat
           /\ \A p \in 1..Len(input) : CharAt(p) = input[p] /\ CharAt(p) \in Characters /\ CharAt(p) # End
           /\ CharAt(Len(input) + 1) = End
<1>1. input \in Seq(Characters) /\ Len(input) \in Nat /\ End \notin Characters
    BY LexerAssumption DEF Characters
<1>2. \A p \in 1..Len(input) : input[p] \in Characters
    BY <1>1
<1> QED BY <1>1, <1>2 DEF CharAt

LEMMA SkipsOver ==
    ASSUME input \in Inputs, NEW p \in 1..(Len(input) + 1), NEW set, End \notin set
    PROVE  /\ SkipOver(p, set) \in p..(Len(input) + 1)
           /\ CharAt(SkipOver(p, set)) \notin set
           /\ \A q \in p..(SkipOver(p, set) - 1) : CharAt(q) \in set
<1> DEFINE S == {q \in p..(Len(input) + 1) : CharAt(q) \notin set}
<1>1. Len(input) + 1 \in S /\ S \in SUBSET Nat /\ Len(input) \in Nat
    BY InputCharacters
<1>2. PICK m \in S : \A n \in S : m <= n
    BY <1>1, LeastNatural
<1>3. SkipOver(p, set) \in S /\ \A n \in S : SkipOver(p, set) <= n
    BY <1>2 DEF SkipOver, Min
<1> HIDE DEF SkipOver
<1>4. ASSUME NEW q \in p..(SkipOver(p, set) - 1) PROVE CharAt(q) \in set
    <2>1. q \in p..(Len(input) + 1) /\ ~(SkipOver(p, set) <= q)
        BY <1>1, <1>3
    <2> QED BY <2>1, <1>3
<1> QED BY <1>3, <1>4

\* The characters chars are those of the input from p on.
Reads(chars, p) ==
    /\ chars \in Seq(Characters) /\ p + Len(chars) \in 1..(Len(input) + 1)
    /\ chars = [k \in 1..Len(chars) |-> CharAt(p + k - 1)]

LEMMA ReadsSubSeq ==
    ASSUME input \in Inputs, NEW p \in 1..(Len(input) + 1), NEW e \in p..(Len(input) + 1)
    PROVE  Reads(SubSeq(input, p, e - 1), p) /\ Len(SubSeq(input, p, e - 1)) = e - p
<1> DEFINE s == SubSeq(input, p, e - 1)
           r == [k \in 1..(e - p) |-> CharAt(p + k - 1)]
<1>1. input \in Seq(Characters) /\ Len(input) \in Nat /\ \A q \in 1..Len(input) : CharAt(q) = input[q] /\ CharAt(q) \in Characters
    BY InputCharacters
<1>2. p \in Nat /\ e \in Nat /\ p >= 1 /\ e >= p /\ e - 1 <= Len(input) /\ e - p \in Nat
    BY <1>1
<1>3. \A k \in 1..(e - p) : p + k - 1 \in 1..Len(input)
    BY <1>2, <1>1
<1>4. s \in Seq(Characters) /\ Len(s) = e - p /\ \A k \in 1..(e - p) : s[k] = input[p + k - 1]
    <2>1. \A i \in p..(e - 1) : input[i] \in Characters
        BY <1>1, <1>2
    <2>2. /\ s \in Seq(Characters) /\ Len(s) = IF p <= e - 1 THEN (e - 1) - p + 1 ELSE 0
          /\ \A k \in 1..((e - 1) - p + 1) : s[k] = input[p + k - 1]
        BY <2>1, <1>2, SubSeqProperties
    <2>3. (e - 1) - p + 1 = e - p /\ (~(p <= e - 1) => e - p = 0)
        BY <1>2
    <2> QED BY <2>2, <2>3
<1>5. r \in Seq(Characters) /\ Len(r) = e - p /\ \A k \in 1..(e - p) : r[k] = input[p + k - 1]
    BY <1>1, <1>2, <1>3
<1> HIDE DEF s, r
<1>6. s = r
    BY <1>4, <1>5, SeqEqual
<1>7. p + Len(s) \in 1..(Len(input) + 1)
    BY <1>1, <1>2, <1>4
<1>8. s = [k \in 1..Len(s) |-> CharAt(p + k - 1)]
    BY <1>4, <1>6 DEF r
<1> QED BY <1>4, <1>7, <1>8 DEF Reads, s

\* One or two characters.
LEMMA ReadsOne ==
    ASSUME input \in Inputs, NEW p \in 1..Len(input)
    PROVE  Reads(<<CharAt(p)>>, p)
<1>1. Len(input) \in Nat /\ CharAt(p) \in Characters
    BY InputCharacters
<1>2. <<CharAt(p)>> = [k \in 1..1 |-> CharAt(p + k - 1)]
    BY <1>1
<1> QED BY <1>1, <1>2 DEF Reads

LEMMA ReadsTwo ==
    ASSUME input \in Inputs, NEW p \in 1..Len(input), p + 1 \in 1..Len(input)
    PROVE  Reads(<<CharAt(p), CharAt(p + 1)>>, p)
<1>1. Len(input) \in Nat /\ CharAt(p) \in Characters /\ CharAt(p + 1) \in Characters
    BY InputCharacters
<1>2. <<CharAt(p), CharAt(p + 1)>> = [k \in 1..2 |-> CharAt(p + k - 1)]
    BY <1>1
<1> QED BY <1>1, <1>2 DEF Reads

-----------------------------------------------------------------------------
(***************************************************************************)
(* The tokens.                                                              *)
(***************************************************************************)
Following(t) == CharAt(t.at + Len(t.chars))

\* A token stands where it was read, and could not be read further.
TokenInOrder(t) ==
    /\ t \in Token /\ t.at + Width(t) \in 1..(Len(input) + 1)
    /\ Text(t) = IF t.type = "STRING" THEN <<Quote>> \o t.chars \o <<Quote>> ELSE t.chars
    /\ t.type = "INT" => CharAt(t.at) \in Digits /\ Following(t) \notin Digits
    /\ t.type \in {"IDENT", "KEYWORD"} => CharAt(t.at) \in Letters /\ Following(t) \notin Letters
    /\ t.type = "OPERATOR" =>
        /\ t.chars[1] = CharAt(t.at)
        /\ Len(t.chars) = 1 /\ t.chars[1] \in Doubled => Following(t) # "="

\* A token that is no string, from the characters it was read from.
LEMMA ReadToken ==
    ASSUME input \in Inputs, NEW p \in 1..(Len(input) + 1), NEW type \in Types \ {"STRING"},
           NEW chars, Reads(chars, p),
           NEW t, t = [type |-> type, chars |-> chars, at |-> p]
    PROVE  t \in Token /\ Width(t) = Len(chars) /\ Text(t) = chars /\ Following(t) = CharAt(p + Len(chars))
<1>1. Len(input) \in Nat
    BY InputCharacters
<1>2. t \in Token /\ t.type = type /\ t.chars = chars /\ t.at = p /\ type # "STRING"
    BY <1>1 DEF Token, Reads
<1> QED BY <1>2 DEF Width, Text, Reads, Following

LEMMA WordReads ==
    ASSUME input \in Inputs, NEW p \in 1..(Len(input) + 1), NEW set, End \notin set, CharAt(p) \in set
    PROVE  Reads(Word(p, set), p) /\ CharAt(p + Len(Word(p, set))) \notin set
<1> DEFINE e == SkipOver(p, set)
<1>1. e \in p..(Len(input) + 1) /\ CharAt(e) \notin set /\ Len(input) \in Nat
    BY SkipsOver, InputCharacters
<1> HIDE DEF e
<1>2. Reads(SubSeq(input, p, e - 1), p) /\ Len(SubSeq(input, p, e - 1)) = e - p
    BY <1>1, ReadsSubSeq
<1>3. p + (e - p) = e
    BY <1>1
<1>4. Word(p, set) = SubSeq(input, p, e - 1)
    BY DEF Word, e
<1> QED BY <1>1, <1>2, <1>3, <1>4

\* What NextToken returns.
LEMMA TokenFromInOrder ==
    ASSUME input \in Inputs, NEW p \in 1..(Len(input) + 1),
           NEW t, t = [type |-> TokenFrom(p)[1], chars |-> TokenFrom(p)[2], at |-> p]
    PROVE  TokenInOrder(t) /\ Width(t) = Len(TokenFrom(p)[2])
<1>1. Len(input) \in Nat /\ p \in Nat \ {0}
    BY InputCharacters
<1>2. ASSUME NEW type \in Types \ {"STRING"}, NEW chars, TokenFrom(p) = <<type, chars>>, Reads(chars, p),
             type = "INT" => CharAt(p) \in Digits /\ CharAt(p + Len(chars)) \notin Digits,
             type \in {"IDENT", "KEYWORD"} => CharAt(p) \in Letters /\ CharAt(p + Len(chars)) \notin Letters,
             type = "OPERATOR" =>
                /\ chars[1] = CharAt(p)
                /\ Len(chars) = 1 /\ chars[1] \in Doubled => CharAt(p + Len(chars)) # "="
      PROVE  TokenInOrder(t) /\ Width(t) = Len(TokenFrom(p)[2])
    <2>1. TokenFrom(p)[1] = type /\ TokenFrom(p)[2] = chars
        BY <1>2
    <2>2. t = [type |-> type, chars |-> chars, at |-> p]
        BY <2>1
    <2>3. t \in Token /\ Width(t) = Len(chars) /\ Text(t) = chars /\ Following(t) = CharAt(p + Len(chars))
        BY <1>2, <2>2, ReadToken
    <2>4. t.type = type /\ t.chars = chars /\ t.at = p
        BY <2>2
    <2>5. p + Len(chars) \in 1..(Len(input) + 1)
        BY <1>2 DEF Reads
    <2> QED BY <1>2, <2>1, <2>3, <2>4, <2>5 DEF TokenInOrder
<1>3. CASE CharAt(p) = End
    <2>1. TokenFrom(p) = <<"EOF", <<>> >>
        BY <1>3, LexerAssumption DEF TokenFrom, End, Single, Doubled
    <2>2. Reads(<<>>, p)
        BY <1>1 DEF Reads
    <2> QED BY <1>2, <2>1, <2>2 DEF Types
<1>4. CASE CharAt(p) # End
    <2>1. p \in 1..Len(input)
        BY <1>1, <1>4 DEF CharAt
    <2>2. CASE CharAt(p) \in Single \cup Doubled
        <3>1. TokenFrom(p) = <<"OPERATOR", Operator(p)>>
            BY <2>2, <1>4, LexerAssumption DEF TokenFrom
        <3>2. CASE CharAt(p) \in Doubled /\ CharAt(p + 1) = "="
            <4>1. Operator(p) = <<CharAt(p), "=">> /\ CharAt(p + 1) # End
                BY <3>2 DEF Operator, End
            <4>2. p + 1 \in 1..Len(input)
                BY <2>1, <4>1, <1>1 DEF CharAt
            <4>3. Reads(Operator(p), p) /\ Len(Operator(p)) # 1 /\ Operator(p)[1] = CharAt(p)
                BY <2>1, <3>2, <4>1, <4>2, ReadsTwo
            <4> QED BY <1>2, <3>1, <4>3 DEF Types
        <3>3. CASE ~(CharAt(p) \in Doubled /\ CharAt(p + 1) = "=")
            <4>1. Operator(p) = <<CharAt(p)>>
                BY <3>3 DEF Operator
            <4>2. Reads(Operator(p), p) /\ Len(Operator(p)) = 1 /\ Operator(p)[1] = CharAt(p)
                BY <2>1, <4>1, ReadsOne
            <4> QED BY <1>2, <3>1, <3>3, <4>2 DEF Types
        <3> QED BY <3>2, <3>3
    <2>3. CASE CharAt(p) \in Letters
        <3>1. TokenFrom(p) = <<LookupIdent(Word(p, Letters)), Word(p, Letters)>>
            BY <2>3, <1>4, LexerAssumption DEF TokenFrom
        <3>2. Reads(Word(p, Letters), p) /\ CharAt(p + Len(Word(p, Letters))) \notin Letters
            BY <2>3, WordReads, LexerAssumption
        <3>3. LookupIdent(Word(p, Letters)) \in {"KEYWORD", "IDENT"}
            BY DEF LookupIdent
        <3> QED BY <2>3, <1>2, <3>1, <3>2, <3>3 DEF Types
    <2>4. CASE CharAt(p) \in Digits
        <3>1. TokenFrom(p) = <<"INT", Word(p, Digits)>>
            BY <2>4, <1>4, LexerAssumption DEF TokenFrom
        <3>2. Reads(Word(p, Digits), p) /\ CharAt(p + Len(Word(p, Digits))) \notin Digits
            BY <2>4, WordReads, LexerAssumption
        <3> QED BY <2>4, <1>2, <3>1, <3>2 DEF Types
    <2>5. CASE CharAt(p) \notin Single \cup Doubled \cup Letters \cup Digits
        <3>1. TokenFrom(p) = <<"ILLEGAL", <<CharAt(p)>> >>
            BY <2>5, <1>4 DEF TokenFrom
        <3>2. Reads(<<CharAt(p)>>, p)
            BY <2>1, ReadsOne
        <3> QED BY <1>2, <3>1, <3>2 DEF Types
    <2> QED BY <2>2, <2>3, <2>4, <2>5
<1> QED BY <1>3, <1>4

LEMMA StringInOrder ==
    ASSUME input \in Inputs, NEW o \in 1..Len(input), NEW p \in (o + 1)..Len(input),
           CharAt(o) = Quote, CharAt(p) = Quote,
           NEW t, t = [type |-> "STRING", chars |-> SubSeq(input, o + 1, p - 1), at |-> o]
    PROVE  TokenInOrder(t) /\ t.at + Width(t) = p + 1
<1> DEFINE chars == SubSeq(input, o + 1, p - 1)
           n == p - (o + 1)
           text == <<Quote>> \o chars \o <<Quote>>
           S == Characters
<1>1. Len(input) \in Nat /\ o \in Nat \ {0} /\ p \in Nat /\ p >= o + 1 /\ n \in Nat /\ Quote \in S
    BY InputCharacters
<1>2. Reads(chars, o + 1) /\ Len(chars) = n
    <2>1. o + 1 \in 1..(Len(input) + 1) /\ p \in (o + 1)..(Len(input) + 1)
        BY <1>1
    <2> HIDE DEF chars
    <2> QED BY <2>1, ReadsSubSeq DEF chars
<1>3. chars \in Seq(S) /\ \A k \in 1..n : chars[k] = CharAt(o + 1 + k - 1)
    BY <1>2 DEF Reads
<1> HIDE DEF chars
<1>4. t \in Token /\ t.type = "STRING" /\ t.chars = chars /\ t.at = o /\ Width(t) = n + 2
    BY <1>1, <1>2, <1>3 DEF Token, Types, Width, chars
<1>5. text \in Seq(S) /\ Len(text) = n + 2 /\ text[1] = Quote /\ text[n + 2] = Quote
      /\ \A k \in 2..(n + 1) : text[k] = chars[k - 1]
    <2>1. <<Quote>> \in Seq(S) /\ Len(<<Quote>>) = 1 /\ <<Quote>>[1] = Quote
        BY <1>1
    <2>2. /\ <<Quote>> \o chars \in Seq(S) /\ Len(<<Quote>> \o chars) = n + 1
          /\ \A k \in 1..(n + 1) : (<<Quote>> \o chars)[k] = IF k <= 1 THEN Quote ELSE chars[k - 1]
        BY <2>1, <1>1, <1>2, <1>3, ConcatProperties
    <2> DEFINE first == <<Quote>> \o chars
    <2> HIDE DEF first
    <2>3. /\ first \in Seq(S) /\ Len(first) = n + 1
          /\ \A k \in 1..(n + 1) : first[k] = IF k <= 1 THEN Quote ELSE chars[k - 1]
        BY <2>2 DEF first
    <2>4. /\ first \o <<Quote>> \in Seq(S) /\ Len(first \o <<Quote>>) = n + 2
          /\ \A k \in 1..(n + 2) : (first \o <<Quote>>)[k] = IF k <= n + 1 THEN first[k] ELSE Quote
        <3> DEFINE last == <<Quote>>
        <3>1. last \in Seq(S) /\ Len(last) = 1 /\ last[1] = Quote
            BY <2>1
        <3> HIDE DEF last
        <3>2. /\ first \o last \in Seq(S) /\ Len(first \o last) = (n + 1) + 1
              /\ \A k \in 1..((n + 1) + 1) : (first \o last)[k] = IF k <= n + 1 THEN first[k] ELSE last[k - (n + 1)]
            <4>1. /\ first \o last \in Seq(S) /\ Len(first \o last) = Len(first) + Len(last)
                  /\ \A k \in 1..(Len(first) + Len(last)) :
                        (first \o last)[k] = IF k <= Len(first) THEN first[k] ELSE last[k - Len(first)]
                BY <2>3, <3>1, ConcatProperties, Zenon
            <4> DEFINE both == first \o last
            <4> HIDE DEF both
            <4>2. /\ both \in Seq(S) /\ Len(both) = Len(first) + Len(last)
                  /\ \A k \in 1..(Len(first) + Len(last)) :
                        both[k] = IF k <= Len(first) THEN first[k] ELSE last[k - Len(first)]
                BY <4>1 DEF both
            <4>3. Len(first) = n + 1 /\ Len(last) = 1
                BY <2>3, <3>1
            <4>4. /\ both \in Seq(S) /\ Len(both) = (n + 1) + 1
                  /\ \A k \in 1..((n + 1) + 1) : both[k] = IF k <= n + 1 THEN first[k] ELSE last[k - (n + 1)]
                BY <4>2, <4>3, Zenon
            <4> QED BY <4>4 DEF both
        <3>3. \A k \in 1..(n + 2) : ~(k <= n + 1) => k - (n + 1) = 1
            BY <1>1
        <3>4. (n + 1) + 1 = n + 2
            BY <1>1
        <3>5. \A k \in 1..(n + 2) : (first \o last)[k] = IF k <= n + 1 THEN first[k] ELSE Quote
            BY <3>1, <3>2, <3>3, <3>4
        <3> QED BY <3>2, <3>4, <3>5 DEF last
    <2>5. text = first \o <<Quote>>
        BY DEF first
    <2> HIDE DEF text
    <2> QED BY <2>3, <2>4, <2>5, <1>1
<1> HIDE DEF text
<1>6. Text(t) = [k \in 1..(n + 2) |-> CharAt(o + k - 1)]
    BY <1>4 DEF Text
<1>7. ASSUME NEW k \in 1..(n + 2) PROVE text[k] = CharAt(o + k - 1) /\ CharAt(o + k - 1) \in S
    <2>1. o + k - 1 \in 1..Len(input)
        BY <1>1
    <2>2. CASE k = 1
        BY <2>2, <1>1, <1>5
    <2>3. CASE k = n + 2
        BY <2>3, <1>1, <1>5
    <2>4. CASE k \in 2..(n + 1)
        <3>1. k - 1 \in 1..n /\ o + 1 + (k - 1) - 1 = o + k - 1
            BY <2>4, <1>1
        <3> QED BY <2>4, <3>1, <1>3, <1>5, <2>1, InputCharacters
    <2> QED BY <2>2, <2>3, <2>4, <1>1
<1>8. Text(t) = text
    <2> DEFINE r == [k \in 1..(n + 2) |-> CharAt(o + k - 1)]
    <2>1. r \in Seq(S) /\ Len(r) = n + 2 /\ \A k \in 1..(n + 2) : r[k] = CharAt(o + k - 1)
        <3>1. n + 2 \in Nat
            BY <1>1
        <3>2. \A k \in 1..(n + 2) : CharAt(o + k - 1) \in S
            BY <1>7, Zenon
        <3> QED BY <3>1, <3>2
    <2> HIDE DEF r
    <2>2. r = text
        BY <2>1, <1>5, <1>7, SeqEqual
    <2> QED BY <2>2, <1>6 DEF r
<1>9. t.at + Width(t) = p + 1 /\ p + 1 \in 1..(Len(input) + 1)
    BY <1>1, <1>4
<1> QED BY <1>4, <1>8, <1>9 DEF TokenInOrder, text

-----------------------------------------------------------------------------
(***************************************************************************)
(* The inductive invariant: the tokens in order, only space between them,   *)
(* and the place of the lexer right after the last, or inside a string.      *)
(***************************************************************************)
SpaceBetween(p, q) == \A k \in p..(q - 1) : CharAt(k) \in Space
EndOf(t) == t.at + Width(t)
Before(ts, i) == IF i = 1 THEN 1 ELSE EndOf(ts[i - 1])

TokensInOrder(ts) ==
    /\ ts \in Seq(Token)
    /\ \A i \in 1..Len(ts) : TokenInOrder(ts[i]) /\ SpaceBetween(Before(ts, i), ts[i].at)

PlaceInOrder(p, o, ts) ==
    /\ p \in 1..(Len(input) + 1)
    /\ o = 0 => p = Before(ts, Len(ts) + 1)
    /\ o # 0 => /\ o \in 1..Len(input) /\ CharAt(o) = Quote /\ o < p
                /\ SpaceBetween(Before(ts, Len(ts) + 1), o)

LexerInOrder == input \in Inputs /\ TokensInOrder(tokens) /\ PlaceInOrder(position, opened, tokens)

LEMMA AppendInOrder ==
    ASSUME NEW ts, TokensInOrder(ts), NEW t, TokenInOrder(t),
           SpaceBetween(Before(ts, Len(ts) + 1), t.at)
    PROVE  TokensInOrder(Append(ts, t)) /\ Before(Append(ts, t), Len(Append(ts, t)) + 1) = EndOf(t)
<1> DEFINE n == Len(ts)
           us == Append(ts, t)
<1>1. ts \in Seq(Token) /\ t \in Token /\ n \in Nat
    BY DEF TokensInOrder, TokenInOrder
<1>2. us \in Seq(Token) /\ Len(us) = n + 1 /\ us[n + 1] = t /\ \A i \in 1..n : us[i] = ts[i]
    BY <1>1
<1> HIDE DEF us
<1>3. ASSUME NEW i \in 1..(n + 1) PROVE Before(us, i) = Before(ts, i)
    <2>1. i # 1 => i - 1 \in 1..n
        BY <1>1
    <2> QED BY <2>1, <1>2 DEF Before
<1>4. ASSUME NEW i \in 1..(n + 1) PROVE TokenInOrder(us[i]) /\ SpaceBetween(Before(us, i), us[i].at)
    <2>1. CASE i = n + 1
        BY <2>1, <1>2, <1>3
    <2>2. CASE i # n + 1
        <3>1. i \in 1..n
            BY <2>2, <1>1
        <3> QED BY <3>1, <1>2, <1>3 DEF TokensInOrder
    <2> QED BY <2>1, <2>2
<1>5. Before(us, (n + 1) + 1) = EndOf(t)
    BY <1>1, <1>2 DEF Before
<1> QED BY <1>2, <1>4, <1>5 DEF TokensInOrder, us

\* After a step it is enough to look at what has changed.
LEMMA InputKept ==
    ASSUME LexerInOrder, input' = input,
           TokensInOrder(tokens'), PlaceInOrder(position', opened', tokens')
    PROVE  LexerInOrder'
<1>1. Token' = Token /\ \A p : CharAt(p)' = CharAt(p)
    BY DEF Token, Types, Characters, CharAt
<1>2. \A t : Width(t)' = Width(t) /\ Following(t)' = Following(t) /\ EndOf(t)' = EndOf(t)
    BY <1>1 DEF Width, Following, EndOf
<1>3. \A t : Text(t)' = Text(t)
    BY <1>1, <1>2 DEF Text
<1>4. \A t : TokenInOrder(t)' <=> TokenInOrder(t)
    BY <1>1, <1>2, <1>3 DEF TokenInOrder
<1>5. \A p, q : SpaceBetween(p, q)' <=> SpaceBetween(p, q)
    BY <1>1 DEF SpaceBetween
<1>6. \A ts, i : Before(ts, i)' = Before(ts, i)
    BY <1>2 DEF Before
<1>7. TokensInOrder(tokens)'
    BY <1>1, <1>4, <1>5, <1>6 DEF TokensInOrder
<1>8. PlaceInOrder(position, opened, tokens)'
    BY <1>1, <1>5, <1>6 DEF PlaceInOrder
<1> QED BY <1>7, <1>8 DEF LexerInOrder

LEMMA InitInOrder == Init => LexerInOrder
<1> SUFFICES ASSUME Init PROVE LexerInOrder
    OBVIOUS
<1>1. input \in Inputs /\ position = 1 /\ opened = 0 /\ tokens = <<>>
    BY DEF Init
<1>2. Len(input) \in Nat
    BY <1>1, InputCharacters
<1>3. TokensInOrder(tokens)
    BY <1>1 DEF TokensInOrder
<1>4. PlaceInOrder(position, opened, tokens)
    BY <1>1, <1>2 DEF PlaceInOrder, Before
<1> QED BY <1>1, <1>3, <1>4 DEF LexerInOrder

\* Where the next token begins.
LEMMA StartIs ==
    ASSUME LexerInOrder, opened = 0
    PROVE  /\ Start \in 1..(Len(input) + 1) /\ CharAt(Start) \notin Space
           /\ SpaceBetween(Before(tokens, Len(tokens) + 1), Start)
<1>1. /\ input \in Inputs /\ Len(input) \in Nat /\ position \in 1..(Len(input) + 1)
      /\ position = Before(tokens, Len(tokens) + 1)
    BY InputCharacters DEF LexerInOrder, PlaceInOrder
<1>2. End \notin Space
    BY DEF End, Space
<1>3. /\ Start \in position..(Len(input) + 1) /\ CharAt(Start) \notin Space
      /\ \A q \in position..(Start - 1) : CharAt(q) \in Space
    BY <1>1, <1>2, SkipsOver DEF Start
<1> QED BY <1>1, <1>3 DEF SpaceBetween

LEMMA NextTokenInOrder ==
    ASSUME LexerInOrder, NextToken
    PROVE  LexerInOrder'
<1> DEFINE r == TokenFrom(Start)
           t == [type |-> r[1], chars |-> r[2], at |-> Start]
<1>1. /\ opened = 0 /\ tokens' = Append(tokens, t) /\ position' = Start + Len(r[2])
      /\ input' = input /\ opened' = 0
    BY DEF NextToken, Return
<1>2. input \in Inputs /\ TokensInOrder(tokens) /\ Start \in 1..(Len(input) + 1)
      /\ SpaceBetween(Before(tokens, Len(tokens) + 1), Start)
    BY <1>1, StartIs DEF LexerInOrder
<1>3. TokenInOrder(t) /\ Width(t) = Len(r[2]) /\ t.at = Start
    BY <1>2, TokenFromInOrder
<1> HIDE DEF t, r
<1>4. TokensInOrder(tokens') /\ Before(tokens', Len(tokens') + 1) = EndOf(t)
    BY <1>1, <1>2, <1>3, AppendInOrder
<1>5. PlaceInOrder(position', opened', tokens')
    BY <1>1, <1>3, <1>4 DEF PlaceInOrder, EndOf, TokenInOrder
<1> QED BY <1>1, <1>4, <1>5, InputKept

LEMMA OpenStringInOrder ==
    ASSUME LexerInOrder, OpenString
    PROVE  LexerInOrder'
<1>1. /\ opened = 0 /\ CharAt(Start) = Quote /\ opened' = Start /\ position' = Start + 1
      /\ input' = input /\ tokens' = tokens
    BY DEF OpenString
<1>2. /\ input \in Inputs /\ TokensInOrder(tokens) /\ Start \in 1..(Len(input) + 1)
      /\ SpaceBetween(Before(tokens, Len(tokens) + 1), Start) /\ Len(input) \in Nat
    BY <1>1, StartIs, InputCharacters DEF LexerInOrder
<1>3. Start \in 1..Len(input)
    <2>1. CharAt(Len(input) + 1) # Quote
        BY <1>2, InputCharacters DEF End, Quote
    <2> QED BY <1>1, <1>2, <2>1
<1> HIDE DEF Start
<1>4. PlaceInOrder(position', opened', tokens')
    BY <1>1, <1>2, <1>3 DEF PlaceInOrder
<1> QED BY <1>1, <1>2, <1>4, InputKept

LEMMA ReadStringInOrder ==
    ASSUME LexerInOrder, ReadString
    PROVE  LexerInOrder'
<1>1. /\ opened # 0 /\ input' = input /\ opened' = opened /\ tokens' = tokens
      /\ position' = IF position > Len(input) THEN position ELSE position + 1
    BY DEF ReadString
<1>2. /\ input \in Inputs /\ TokensInOrder(tokens) /\ PlaceInOrder(position, opened, tokens)
      /\ Len(input) \in Nat
    BY InputCharacters DEF LexerInOrder
<1>3. position \in 1..(Len(input) + 1) /\ opened \in 1..Len(input) /\ opened < position
    BY <1>1, <1>2 DEF PlaceInOrder
<1>4. position' \in 1..(Len(input) + 1) /\ opened < position'
    BY <1>1, <1>2, <1>3
<1>5. PlaceInOrder(position', opened', tokens')
    BY <1>1, <1>2, <1>4 DEF PlaceInOrder
<1> QED BY <1>1, <1>2, <1>5, InputKept

LEMMA CloseStringInOrder ==
    ASSUME LexerInOrder, CloseString
    PROVE  LexerInOrder'
<1> DEFINE t == [type |-> "STRING", chars |-> SubSeq(input, opened + 1, position - 1), at |-> opened]
<1>1. /\ opened # 0 /\ CharAt(position) = Quote /\ tokens' = Append(tokens, t)
      /\ opened' = 0 /\ position' = position + 1 /\ input' = input
    BY DEF CloseString, Return
<1>2. /\ input \in Inputs /\ TokensInOrder(tokens) /\ position \in 1..(Len(input) + 1)
      /\ opened \in 1..Len(input) /\ CharAt(opened) = Quote /\ opened < position
      /\ SpaceBetween(Before(tokens, Len(tokens) + 1), opened) /\ Len(input) \in Nat
    BY <1>1, InputCharacters DEF LexerInOrder, PlaceInOrder
<1>3. position \in (opened + 1)..Len(input)
    <2>1. CharAt(Len(input) + 1) # Quote
        BY <1>2, InputCharacters DEF End, Quote
    <2> QED BY <1>1, <1>2, <2>1
<1>4. TokenInOrder(t) /\ t.at + Width(t) = position + 1 /\ t.at = opened
    BY <1>1, <1>2, <1>3, StringInOrder
<1> HIDE DEF t
<1>5. TokensInOrder(tokens') /\ Before(tokens', Len(tokens') + 1) = EndOf(t)
    BY <1>1, <1>2, <1>4, AppendInOrder
<1>6. PlaceInOrder(position', opened', tokens')
    BY <1>1, <1>4, <1>5 DEF PlaceInOrder, EndOf, TokenInOrder
<1> QED BY <1>1, <1>5, <1>6, InputKept

\* Every token stands where it was read, with only space before it, and the lexer goes on
\* right behind the last.
LEMMA AlwaysInOrder == Spec => []LexerInOrder
<1>1. LexerInOrder /\ [Next]_vars => LexerInOrder'
    <2> SUFFICES ASSUME LexerInOrder, [Next]_vars PROVE LexerInOrder'
        OBVIOUS
    <2>1. CASE UNCHANGED vars
        BY <2>1, InputKept DEF vars, LexerInOrder
    <2> QED BY <2>1, NextTokenInOrder, OpenStringInOrder, ReadStringInOrder, CloseStringInOrder DEF Next
<1> QED BY <1>1, InitInOrder, PTL DEF Spec

-----------------------------------------------------------------------------
\* For every input: between the tokens is nothing but white space, a token holds the
\* characters it was read from, a string those between its quotes, and the next is read
\* right behind the last (lexer.go, NextToken and what it calls).
THEOREM NothingIsSkipped == Spec => []NothingSkipped
<1>1. LexerInOrder => NothingSkipped
    <2> SUFFICES ASSUME LexerInOrder PROVE NothingSkipped
        OBVIOUS
    <2>1. /\ TokensInOrder(tokens) /\ tokens \in Seq(Token) /\ Len(tokens) \in Nat
          /\ PlaceInOrder(position, opened, tokens) /\ DOMAIN tokens = 1..Len(tokens)
        BY DEF LexerInOrder, TokensInOrder
    <2>2. ASSUME NEW i \in 1..Len(tokens)
          PROVE  /\ \A p \in Before(tokens, i)..(tokens[i].at - 1) : CharAt(p) \in Space
                 /\ Text(tokens[i]) = IF tokens[i].type = "STRING" THEN <<Quote>> \o tokens[i].chars \o <<Quote>>
                                      ELSE tokens[i].chars
        BY <2>1 DEF TokensInOrder, TokenInOrder, SpaceBetween
    <2>3. tokens # <<>> /\ opened = 0 => position = Last(tokens).at + Width(Last(tokens))
        <3> SUFFICES ASSUME tokens # <<>>, opened = 0 PROVE position = EndOf(tokens[Len(tokens)])
            BY DEF Last, EndOf
        <3>1. Len(tokens) # 0 /\ (Len(tokens) + 1) - 1 = Len(tokens)
            BY <2>1
        <3> QED BY <2>1, <3>1 DEF PlaceInOrder, Before
    <2> QED BY <2>1, <2>2, <2>3 DEF NothingSkipped, Before, EndOf
<1> QED BY <1>1, AlwaysInOrder, PTL

\* For every input, two names or numbers are never read where one could be, nor = after
\* an operator it makes another one of (lexer.go, readIdentifier, readNumber, NextToken).
THEOREM ReadsAsFarAsItGoes == Spec => []LongestMatch
<1>1. LexerInOrder => LongestMatch
    <2> SUFFICES ASSUME LexerInOrder, NEW i \in 2..Len(tokens),
                        NEW s, s = tokens[i - 1], NEW t, t = tokens[i],
                        s.at + Width(s) = t.at
                 PROVE  /\ {s.type, t.type} \notin {{"INT"}, {"IDENT"}, {"KEYWORD"}, {"IDENT", "KEYWORD"}}
                        /\ ~(s.type = "OPERATOR" /\ Len(s.chars) = 1 /\ s.chars[1] \in Doubled
                                /\ t.type = "OPERATOR" /\ t.chars[1] = "=")
        BY DEF LongestMatch
    <2>1. tokens \in Seq(Token) /\ Len(tokens) \in Nat /\ i - 1 \in 1..Len(tokens) /\ i \in 1..Len(tokens)
        BY DEF LexerInOrder, TokensInOrder
    <2>2. TokenInOrder(s) /\ TokenInOrder(t)
        BY <2>1 DEF LexerInOrder, TokensInOrder
    <2>3. s.type # "STRING" => Following(s) = CharAt(t.at)
        BY DEF Width, Following
    <2>4. ~(s.type = "INT" /\ t.type = "INT")
        BY <2>2, <2>3 DEF TokenInOrder
    <2>5. ~(s.type \in {"IDENT", "KEYWORD"} /\ t.type \in {"IDENT", "KEYWORD"})
        BY <2>2, <2>3 DEF TokenInOrder
    <2>6. ~(s.type = "OPERATOR" /\ Len(s.chars) = 1 /\ s.chars[1] \in Doubled
                /\ t.type = "OPERATOR" /\ t.chars[1] = "=")
        BY <2>2, <2>3 DEF TokenInOrder
    <2> QED BY <2>4, <2>5, <2>6
<1> QED BY <1>1, AlwaysInOrder, PTL
=============================================================================
