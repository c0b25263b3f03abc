------------------------------ MODULE Bencode ------------------------------
(***************************************************************************)
(* The bencode parser (src/metainfo/parser.cpp), a recursive descent over  *)
(* the input, checked on every input of at most MaxInput characters, and   *)
(* of MaxLong over a smaller alphabet.                                     *)
(*                                                                         *)
(* The input grows by one character at a time while the parser asks for    *)
(* more, so that inputs refused early are not extended: whatever follows   *)
(* the character that made the parser refuse is never read.  Positions     *)
(* count from 1.                                                           *)
(***************************************************************************)
EXTENDS Integers, Sequences

LOCAL INSTANCE SequencesExt

CONSTANTS
    Alphabet,   \* the characters an input is made of
    Payload,    \* those of them that occur in strings
    MaxInput,   \* bound: characters of the input
    Few,        \* the characters longer inputs are made of
    MaxLong,    \* bound: characters of such an input
    MaxDigits,  \* bound: digits in a row
    MaxDepth,   \* kMaxDepth
    IntMax,     \* the largest int64_t
    InfoKey     \* a character that stands for the key "info"

ASSUME BencodeAssumption ==
    /\ Alphabet \subseteq {"-", "0", "1", "2", ":", "d", "e", "f", "i", "l"}
    /\ Payload \subseteq Alphabet /\ Few \subseteq Alphabet
    /\ {MaxInput, MaxLong, MaxDigits, MaxDepth, IntMax} \subseteq Nat

VARIABLE data   \* data_

parserVars == <<data>>

\* The characters, in the order of their codes.
Codes == <<"-", "0", "1", "2", ":", "d", "e", "f", "i", "l">>
Digits == [c \in {"0", "1", "2"} |-> CASE c = "0" -> 0 [] c = "1" -> 1 [] c = "2" -> 2]

Code(c) == CHOOSE n \in 1 .. Len(Codes) : Codes[n] = c

\* std::string's order.
Before(a, b) ==
    \E n \in 0 .. Len(a) :
        /\ n < Len(b)
        /\ SubSeq(a, 1, n) = SubSeq(b, 1, n)
        /\ n = Len(a) \/ Code(a[n + 1]) < Code(b[n + 1])

IntValue(n) == [kind |-> "int", int |-> n]
StrValue(s) == [kind |-> "string", string |-> s]
ListValue(s) == [kind |-> "list", list |-> s]
DictValue(s) == [kind |-> "dict", dict |-> s]   \* keys and values, in the order of the keys

\* A parse that went well; one that ran out of input, which must be at least n long and
\* may go on with the characters of next; one refused.
Parsed(pos, value, info) == [is |-> "parsed", pos |-> pos, value |-> value, info |-> info]
Short(n, next) == [is |-> "short", need |-> n, next |-> next]
Invalid == [is |-> "invalid"]

----------------------------------------------------------------------------
(* The parser *)

\* What is tried after n digits.
After(n) == IF n < MaxDigits THEN Alphabet ELSE Alphabet \ DOMAIN Digits

At(pos) == IF pos <= Len(data) THEN data[pos] ELSE "end"

\* The first position from pos on that holds no digit.
SkipDigits(pos) == Min({q \in pos .. (Len(data) + 1) : At(q) \notin DOMAIN Digits})

Number(from, to) ==
    FoldLeft(LAMBDA n, c : 10 * n + Digits[c], 0, SubSeq(data, from, to))

\* Faulty variant: leading zeros pass.
LeadingZeroAllowed(from, to, negative) == FALSE

LeadingZero(from, to, negative) == At(from) = "0" /\ (to > from \/ negative)

ReadString(pos, info) ==
    LET colon == SkipDigits(pos)
        n     == Number(pos, colon - 1)
    IN  IF At(colon) = "end" THEN Short(colon, After(colon - pos))
        ELSE IF At(colon) # ":" \/ colon = pos \/ LeadingZero(pos, colon - 1, FALSE)
        THEN Invalid
        ELSE IF n > Len(data) - colon THEN Short(colon + n, Payload)
        ELSE Parsed(colon + n + 1, StrValue(SubSeq(data, colon + 1, colon + n)), info)

ParseInt(pos, info) ==
    LET negative == At(pos + 1) = "-"
        first    == IF negative THEN pos + 2 ELSE pos + 1
        last     == SkipDigits(first)
        n        == Number(first, last - 1)
    IN  IF At(last) = "end" THEN Short(last, After(last - first))
        ELSE IF \/ At(last) # "e" \/ last = first
                \/ LeadingZero(first, last - 1, negative)
                \/ n > (IF negative THEN IntMax + 1 ELSE IntMax)
        THEN Invalid
        ELSE Parsed(last + 1, IntValue(IF negative THEN -n ELSE n), info)

TooDeep(depth) == depth > MaxDepth

\* Keys arrive in strictly increasing order.
InOrder(items, key) == items = <<>> \/ Before(Last(items).key, key)

\* Faulty variant: at any depth.
IsInfoAnywhere(depth, key) == key = <<InfoKey>>

\* The key whose value get_info_range() delimits.
IsInfo(depth, key) == depth = 1 /\ key = <<InfoKey>>

RECURSIVE ParseValue(_, _, _), ListItems(_, _, _, _), DictItems(_, _, _, _)

\* The loop of parse_list().
ListItems(pos, depth, info, items) ==
    IF At(pos) = "end" THEN Short(pos, Alphabet)
    ELSE IF At(pos) = "e" THEN Parsed(pos + 1, ListValue(items), info)
    ELSE LET v == ParseValue(pos, depth, info)
         IN  IF v.is # "parsed" THEN v
             ELSE ListItems(v.pos, depth, v.info, Append(items, v.value))

\* The loop of parse_dict().
DictItems(pos, depth, info, items) ==
    IF At(pos) = "end" THEN Short(pos, Alphabet)
    ELSE IF At(pos) = "e" THEN Parsed(pos + 1, DictValue(items), info)
    ELSE LET k == ReadString(pos, info)
         IN  IF k.is # "parsed" THEN k
             ELSE IF ~InOrder(items, k.value.string) THEN Invalid
             ELSE LET key == k.value.string
                      v   == ParseValue(k.pos, depth, info)
                  IN  IF v.is # "parsed" THEN v
                      ELSE DictItems(v.pos, depth,
                               IF IsInfo(depth, key) THEN <<k.pos, v.pos>> ELSE v.info,
                               Append(items, [key |-> key, value |-> v.value]))

ParseValue(pos, depth, info) ==
    IF At(pos) = "end" THEN Short(pos, Alphabet)
    ELSE IF At(pos) = "i" THEN ParseInt(pos, info)
    ELSE IF At(pos) \in DOMAIN Digits THEN ReadString(pos, info)
    ELSE IF At(pos) \notin {"l", "d"} \/ TooDeep(depth + 1) THEN Invalid
    ELSE IF At(pos) = "l" THEN ListItems(pos + 1, depth + 1, info, <<>>)
    ELSE DictItems(pos + 1, depth + 1, info, <<>>)

Parse ==
    LET v == ParseValue(1, 0, <<1, 1>>)
    IN  IF v.is = "parsed" /\ v.pos <= Len(data) THEN Invalid ELSE v

ParserInit == data = <<>>

\* The characters worth adding: those the parser would read, and one too many.
Wanted ==
    LET v == Parse
    IN  IF v.is = "parsed" THEN Alphabet
        ELSE IF v.is = "short" /\ v.need <= MaxInput THEN v.next
        ELSE IF v.is = "short" /\ v.need <= MaxLong /\ ToSet(data) \subseteq Few
        THEN v.next \cap Few
        ELSE {}

Extend(c) == data' = Append(data, c)

ParserNext == \E c \in Wanted : Extend(c)

----------------------------------------------------------------------------
(* The encoding of a value, and the values a torrent file may hold *)

Numeral(n) == IF n < 10 THEN <<ToString(n)>> ELSE <<ToString(n \div 10), ToString(n % 10)>>

EncodeString(s) == Numeral(Len(s)) \o <<":">> \o s

RECURSIVE Encode(_)
Encode(v) ==
    CASE v.kind = "int"    -> <<"i">> \o (IF v.int < 0 THEN <<"-">> \o Numeral(-v.int)
                                                     ELSE Numeral(v.int)) \o <<"e">>
      [] v.kind = "string" -> EncodeString(v.string)
      [] v.kind = "list"   ->
             <<"l">> \o FlattenSeq([k \in 1 .. Len(v.list) |-> Encode(v.list[k])]) \o <<"e">>
      [] v.kind = "dict"   ->
             <<"d">> \o FlattenSeq([k \in 1 .. Len(v.dict) |->
                 EncodeString(v.dict[k].key) \o Encode(v.dict[k].value)]) \o <<"e">>

Elements(v) ==
    CASE v.kind = "list" -> v.list
      [] v.kind = "dict" -> [k \in 1 .. Len(v.dict) |-> v.dict[k].value]
      [] OTHER           -> <<>>

\* Integers in range, keys in strictly increasing order, at most room levels.
RECURSIVE Legal(_, _)
Legal(v, room) ==
    /\ v.kind \in {"list", "dict"} => room > 0
    /\ v.kind = "int" => v.int \in (-IntMax - 1) .. IntMax
    /\ v.kind = "dict" => \A k \in 2 .. Len(v.dict) : Before(v.dict[k - 1].key, v.dict[k].key)
    /\ \A k \in 1 .. Len(Elements(v)) : Legal(Elements(v)[k], room - 1)

Strings == BoundedSeq(Payload, 1)
SomeInts == {-IntMax - 1, -IntMax, -1, 0, 1, 10, IntMax}
Scalars == {IntValue(n) : n \in SomeInts} \cup {StrValue(s) : s \in Strings}

\* Lists and dictionaries of at most n of the given values.
Nested(S, n) ==
    {ListValue(s) : s \in BoundedSeq(S, n)}
        \cup {DictValue(s) : s \in BoundedSeq([key : Strings, value : S], n)}

Samples == Scalars \cup Nested(Scalars, 2) \cup Nested(Nested(Scalars, 1), 1)

Encodings == {Encode(v) : v \in {w \in Samples : Legal(w, MaxDepth)}}
Beginnings == UNION {{SubSeq(e, 1, n) : n \in 0 .. Len(e)} : e \in Encodings}

----------------------------------------------------------------------------
\* Nothing but bencode passes, and each value in one form only ("It rejects non-canonical
\* integers, unsorted or duplicate keys, string lengths past the end of the input, trailing
\* data, and nesting deeper than 100 levels"): what is accepted is, character by character,
\* the encoding of a legal value.  And no legal value is turned away, at the limits
\* either: the encoding of one is accepted and none of its beginnings is refused.
AcceptsCanonical ==
    LET v == Parse
    IN  /\ v.is = "parsed" => Legal(v.value, MaxDepth) /\ Encode(v.value) = data
        /\ v.is = "invalid" => data \notin Beginnings
        /\ data \in Encodings => v.is = "parsed"

\* get_info_range() delimits the value of the top dictionary's "info" and of no other
\* "info" inside or beside it: the info hash is taken over exactly those characters.
InfoIsDelimited ==
    LET v    == Parse
        Info == {k \in 1 .. Len(v.value.dict) : v.value.dict[k].key = <<InfoKey>>}
    IN  v.is = "parsed" /\ v.value.kind = "dict" =>
            SubSeq(data, v.info[1], v.info[2] - 1) =
                IF Info = {} THEN <<>>
                ELSE Encode(v.value.dict[CHOOSE k \in Info : TRUE].value)
============================================================================
