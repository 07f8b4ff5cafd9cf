------------------------------- MODULE JsonText -------------------------------
(***************************************************************************)
(* The strict parser every body and every proof passes through             *)
(* (python/vekquorum/jsonparse.py) and the RFC 8785 canonicalizer whose    *)
(* bytes are hashed and signed (canon.py), with what the TypeScript port   *)
(* (src/jsonparse.ts, src/canon.ts) does otherwise.  A text grows chunk by *)
(* chunk and is parsed at every length; JsonGrammar says what it means.    *)
(*                                                                         *)
(* Values: [lit |-> text], [str |-> code points], [list |-> sequence],     *)
(* [obj |-> function from names], [int |-> n] and                          *)
(* [float |-> <<negative, digits, point>>] for 0.digits * 10^point, which  *)
(* is exact for the doubles in range here (at most 15 digits, no           *)
(* subnormals).                                                            *)
(***************************************************************************)
EXTENDS JsonGrammar

CONSTANTS Port,           \* "python" or "typescript"
          Questions,      \* by name, what to try: [profile, chunks, pieces]
          MaxIntDigits    \* digits Python's int() converts

VARIABLES question, text, pieces

vars == <<profile, question, text, pieces>>

\* What str.isdigit takes for a digit, ARABIC-INDIC THREE and SUPERSCRIPT
\* TWO among them, and what int and float make of it: the superscript is a
\* ValueError.  The port compares with "0" and "9".
DigitValue == [c \in Digits |-> c - Zero] @@ (1635 :> 3)
IsDigit == IF Port = "python" THEN DOMAIN DigitValue \union {178} ELSE Digits

Proto == <<95, 95, 112, 114, 111, 116, 111, 95, 95>>

Got(v, i) == [val |-> v, at |-> i]
Bad(code) == [code |-> code]
Malformed == Bad("MALFORMED_JSON")
Fails(r) == "code" \in DOMAIN r
Then(r, Use(_, _)) == IF Fails(r) THEN r ELSE Use(r.val, r.at)

At(t, i, c) == i <= Len(t) /\ t[i] = c

\* The first place from i on that holds no member of S.
Past(t, i, S) ==
  LET J == {j \in i .. Len(t) : t[j] \notin S}
  IN  IF J = {} THEN Len(t) + 1 ELSE Min(J)

SkipWs(t, i) == Past(t, i, Whitespace)

Literal(t, i, word) ==
  IF IsPrefix(word, SubSeq(t, i, Len(t)))
  THEN Got([lit |-> word], i + Len(word)) ELSE Malformed

----------------------------------------------------------------------------
(* Strings.                                                                *)

\* Fault: the second half of a pair may be any unit.
AnyUnit(u) == TRUE
LowUnit(u) == u \in 56320 .. 57343

HexValue(c) ==
  CASE c \in Digits -> c - 48
    [] c \in 65 .. 70 -> c - 55
    [] c \in 97 .. 102 -> c - 87
    [] OTHER -> -1

\* The unit that four hexadecimal digits spell, -1 if they do not.
Quad(t, i) ==
  IF i + 3 > Len(t) \/ \E j \in i .. i + 3 : HexValue(t[j]) = -1 THEN -1
  ELSE FoldLeft(LAMBDA n, c : 16 * n + HexValue(c), 0, SubSeq(t, i, i + 3))

Hex4(t, i) ==
  LET cp == Quad(t, i)
      lo == Quad(t, i + 6)
  IN  IF cp = -1 THEN Malformed
      ELSE IF cp \in 55296 .. 56319 /\ At(t, i + 4, Backslash) /\ At(t, i + 5, LowU) THEN
        IF lo = -1 THEN Malformed
        ELSE IF LowUnit(lo)
             THEN Got(65536 + (cp - 55296) * 1024 + (lo - 56320), i + 10)
             ELSE Bad("INVALID_UTF8")
      ELSE IF cp \in SurrogateUnits THEN Bad("INVALID_UTF8")
      ELSE Got(cp, i + 4)

RECURSIVE Chars(_, _, _)

Chars(t, i, buf) ==
  LET Escaped == {c \in DOMAIN ShortEscapes : At(t, i + 1, ShortEscapes[c])}
  IN  IF i > Len(t) THEN Malformed
      ELSE IF t[i] = Quote THEN Got(buf, i + 1)
      ELSE IF t[i] = Backslash THEN
        IF At(t, i + 1, LowU)
        THEN Then(Hex4(t, i + 2), LAMBDA c, j : Chars(t, j, Append(buf, c)))
        ELSE IF Escaped = {} THEN Malformed
        ELSE Chars(t, i + 2, Append(buf, CHOOSE c \in Escaped : TRUE))
      ELSE IF t[i] < 32 THEN Malformed
      ELSE IF t[i] \in SurrogateUnits THEN Bad("INVALID_UTF8")
      ELSE Chars(t, i + 1, Append(buf, t[i]))

String(t, i) == Chars(t, i + 1, <<>>)

----------------------------------------------------------------------------
(* Numbers.                                                                *)

\* Fault: a number may begin with zeros.
AnyZeros(int) == FALSE
LeadingZeros(int) == Len(int) > 1 /\ int[1] = Zero

ValueOf(digits) == FoldLeft(LAMBDA n, c : 10 * n + DigitValue[c], 0, digits)

\* ip.fp * 10^e as its significant digits and the place of their point.
Decimal(ip, fp, e) ==
  LET raw == ip \o fp
      S == {k \in DOMAIN raw : raw[k] # 0}
  IN  IF S = {} THEN <<<<>>, 1>>
      ELSE <<SubSeq(raw, Min(S), Max(S)), Len(ip) + e - Min(S) + 1>>

LargestDouble == <<1, 7, 9, 7, 6, 9, 3, 1, 3, 4, 8, 6, 2, 3, 1, 5, 7>>
Infinity == <<<<1>>, 310>>

\* Lexicographic order of sequences of numbers.
Less(a, b) ==
  \/ IsStrictPrefix(a, b)
  \/ \E i \in DOMAIN a \intersect DOMAIN b :
       SubSeq(a, 1, i - 1) = SubSeq(b, 1, i - 1) /\ a[i] < b[i]

\* float(): the double of a decimal, negative zero being equal to zero.
Float(neg, d) ==
  IF d[1] = <<>> THEN [float |-> <<FALSE, <<>>, 1>>]
  ELSE IF d[2] > 309 \/ (d[2] = 309 /\ Less(LargestDouble, d[1]))
       THEN [float |-> <<neg>> \o Infinity]
       ELSE [float |-> <<neg>> \o d]

\* Fault: the ends of the safe range are refused.
OpenRange(n) == n >= SafeMax
Unsafe(n) == n > SafeMax

Wire(token, neg, int) ==
  IF token = <<Minus, Zero>> THEN Bad("NUMBER_PROFILE")
  ELSE IF (Port = "python" /\ Len(int) > MaxIntDigits) \/ ~(ToSet(int) \subseteq DOMAIN DigitValue)
       THEN Bad("ValueError")
  ELSE IF Unsafe(ValueOf(int)) THEN Bad("NUMBER_PROFILE")
  ELSE Got([int |-> IF neg THEN -ValueOf(int) ELSE ValueOf(int)], 0)

Number(t, i) ==
  LET neg == At(t, i, Minus)
      start == IF neg THEN i + 1 ELSE i
      dot == Past(t, start, IsDigit)
      hasFrac == At(t, dot, Dot)
      exp == IF hasFrac THEN Past(t, dot + 1, IsDigit) ELSE dot
      hasExp == exp <= Len(t) /\ t[exp] \in Exponents
      down == hasExp /\ At(t, exp + 1, Minus)
      first == IF down \/ At(t, exp + 1, Plus) THEN exp + 2 ELSE exp + 1
      end == IF hasExp THEN Past(t, first, IsDigit) ELSE exp
      int == SubSeq(t, start, dot - 1)
      frac == SubSeq(t, dot + 1, exp - 1)
      e == IF hasExp THEN SubSeq(t, first, end - 1) ELSE <<>>
      Numeric(s) == [k \in DOMAIN s |-> DigitValue[s[k]]]
  IN  IF int = <<>> \/ LeadingZeros(int) \/ (hasFrac /\ frac = <<>>) \/ (hasExp /\ e = <<>>)
      THEN Malformed
      ELSE IF profile = "wire" THEN
        IF hasFrac \/ hasExp THEN Bad("NUMBER_PROFILE")
        ELSE Then(Wire(SubSeq(t, i, end - 1), neg, int), LAMBDA v, z : Got(v, end))
      ELSE IF ~(ToSet(int \o frac \o e) \subseteq DOMAIN DigitValue) THEN Bad("ValueError")
      ELSE Got(Float(neg, Decimal(Numeric(int), Numeric(frac),
                                  IF down THEN -ValueOf(e) ELSE ValueOf(e))), end)

----------------------------------------------------------------------------
(* Values.                                                                 *)

\* Faults: the last level is refused; of two members the last one wins.
TooDeepEarly(d) == d >= MaxDepth
LastWins(key, out) == FALSE

TooDeep(d) == d > MaxDepth
Repeated(key, out) == key \in DOMAIN out

RECURSIVE Value(_, _, _), Members(_, _, _, _), Elements(_, _, _, _)

\* One value, its first character at i.
Value(t, i, d) ==
  IF i > Len(t) THEN Malformed
  ELSE IF TooDeep(d) THEN Bad("SCHEMA_INVALID")
  ELSE LET j == SkipWs(t, i + 1)
       IN  CASE t[i] = OpenObject ->
                  IF At(t, j, CloseObject) THEN Got([obj |-> <<>>], j + 1)
                  ELSE Members(t, j, d, <<>>)
             [] t[i] = OpenList ->
                  IF At(t, j, CloseList) THEN Got([list |-> <<>>], j + 1)
                  ELSE Elements(t, j, d, <<>>)
             [] t[i] = Quote -> Then(String(t, i), LAMBDA s, k : Got([str |-> s], k))
             [] t[i] = True[1] -> Literal(t, i, True)
             [] t[i] = False[1] -> Literal(t, i, False)
             [] t[i] = Null[1] -> Literal(t, i, Null)
             [] OTHER -> Number(t, i)

\* out[key] = v.  In the port this assigns the prototype of the object, or
\* does nothing, when the key is __proto__.
Stored(key, v, out) ==
  IF Port = "typescript" /\ key = Proto THEN out ELSE (key :> v) @@ out

\* The rest of an object whose members so far are out.
Members(t, i, d, out) ==
  IF ~At(t, i, Quote) THEN Malformed
  ELSE Then(String(t, i), LAMBDA key, j :
    IF ~At(t, SkipWs(t, j), Colon) THEN Malformed
    ELSE Then(Value(t, SkipWs(t, SkipWs(t, j) + 1), d + 1), LAMBDA v, k :
      LET now == Stored(key, v, out)
          next == SkipWs(t, k)
      IN  IF Repeated(key, out) THEN Bad("DUPLICATE_KEY")
          ELSE IF Cardinality(DOMAIN now) > MaxMembers THEN Bad("SCHEMA_INVALID")
          ELSE IF At(t, next, CloseObject) THEN Got([obj |-> now], next + 1)
          ELSE IF At(t, next, Comma) THEN Members(t, SkipWs(t, next + 1), d, now)
          ELSE Malformed))

Elements(t, i, d, out) ==
  Then(Value(t, i, d + 1), LAMBDA v, k :
    LET next == SkipWs(t, k)
    IN  IF Len(out) = MaxArray THEN Bad("SCHEMA_INVALID")
        ELSE IF At(t, next, CloseList) THEN Got([list |-> Append(out, v)], next + 1)
        ELSE IF At(t, next, Comma) THEN Elements(t, SkipWs(t, next + 1), d, Append(out, v))
        ELSE Malformed)

\* parse_json of a text.
Parse(t) ==
  IF At(t, 1, 65279) THEN Bad("INVALID_UTF8")
  ELSE Then(Value(t, SkipWs(t, 1), 0), LAMBDA v, k :
         IF SkipWs(t, k) = Len(t) + 1 THEN Got(v, k) ELSE Malformed)

----------------------------------------------------------------------------
(* The canonicalizer.                                                      *)

\* Faults: control characters are left as they are; bytes of a unit are in
\* the wrong order; the exponent of a long decimal is forgotten.
RawControls(c) ==
  IF c \in DOMAIN ShortEscapes \ {47} THEN <<Backslash, ShortEscapes[c]>> ELSE <<c>>
LittleEndian(s) == FlattenSeq([i \in DOMAIN s |->
  FlattenSeq([j \in DOMAIN UnitsOf(s[i]) |->
    <<UnitsOf(s[i])[j] % 256, UnitsOf(s[i])[j] \div 256>>])])

Hex(d) == IF d < 10 THEN 48 + d ELSE 87 + d

Escape(c) ==
  IF c \in DOMAIN ShortEscapes \ {47} THEN <<Backslash, ShortEscapes[c]>>
  ELSE IF c < 32 THEN <<Backslash, LowU, Zero, Zero, Hex(c \div 16), Hex(c % 16)>>
  ELSE <<c>>

Escaped(s) == <<Quote>> \o FlattenSeq([i \in DOMAIN s |-> Escape(s[i])]) \o <<Quote>>

\* _utf16_units: the bytes of a name in UTF-16BE.
Utf16(s) == FlattenSeq([i \in DOMAIN s |->
  FlattenSeq([j \in DOMAIN UnitsOf(s[i]) |->
    <<UnitsOf(s[i])[j] \div 256, UnitsOf(s[i])[j] % 256>>])])

\* JavaScript compares strings by their units.
NativeUnits(s) == FlattenSeq([i \in DOMAIN s |-> UnitsOf(s[i])])

SortKey(s) == IF Port = "python" THEN Utf16(s) ELSE NativeUnits(s)
SortedNames(o) == SetToSortSeq(DOMAIN o, LAMBDA a, b : Less(SortKey(a), SortKey(b)))

Zeros(n) == [i \in 1 .. n |-> 0]

\* repr() of a positive double: integer part, fraction, exponent.
Repr(digits, point) ==
  LET k == Len(digits)
  IN  IF point - 1 < -4 \/ point > 16
      THEN [ip |-> <<digits[1]>>, fp |-> Tail(digits), e |-> point - 1]
      ELSE IF point <= 0 THEN [ip |-> <<0>>, fp |-> Zeros(-point) \o digits, e |-> 0]
      ELSE IF k <= point THEN [ip |-> digits \o Zeros(point - k), fp |-> <<>>, e |-> 0]
      ELSE [ip |-> SubSeq(digits, 1, point), fp |-> SubSeq(digits, point + 1, k), e |-> 0]

\* Fault: the exponent that repr wrote is not added to the point.
NoExponent(r) == Decimal(r.ip, r.fp, 0)
SplitShortest(r) == Decimal(r.ip, r.fp, r.e)

RECURSIVE Numeral(_)
Numeral(n) == IF n < 10 THEN <<48 + n>> ELSE Append(Numeral(n \div 10), 48 + (n % 10))

\* _number_to_string; -1 stands where an infinity raises NUMBER_PROFILE.
\* The port calls String, which starts from the shortest digits itself.
NumberText(neg, digits, point) ==
  LET split == IF Port = "python" THEN SplitShortest(Repr(digits, point))
               ELSE <<digits, point>>
      d == [i \in DOMAIN split[1] |-> Zero + split[1][i]]
      n == split[2]
      k == Len(d)
      zeros(m) == [i \in 1 .. m |-> Zero]
      sign == IF neg THEN <<Minus>> ELSE <<>>
      power == <<101, IF n - 1 >= 0 THEN Plus ELSE Minus>>
               \o Numeral(IF n - 1 >= 0 THEN n - 1 ELSE 1 - n)
  IN  IF digits = <<>> THEN <<Zero>>
      ELSE IF <<digits, point>> = Infinity THEN <<-1>>
      ELSE sign \o
           (IF k <= n /\ n <= 21 THEN d \o zeros(n - k)
            ELSE IF 0 < n /\ n <= 21 THEN SubSeq(d, 1, n) \o <<Dot>> \o SubSeq(d, n + 1, k)
            ELSE IF -6 < n /\ n <= 0 THEN <<Zero, Dot>> \o zeros(-n) \o d
            ELSE IF k = 1 THEN d \o power
            ELSE <<d[1], Dot>> \o Tail(d) \o power)

Separated(parts) ==
  FlattenSeq([i \in DOMAIN parts |-> IF i = 1 THEN parts[i] ELSE <<Comma>> \o parts[i]])

RECURSIVE Ser(_)
Ser(v) ==
  CASE "lit" \in DOMAIN v -> v.lit
    [] "int" \in DOMAIN v ->
         (IF v.int < 0 THEN <<Minus>> ELSE <<>>) \o Numeral(IF v.int < 0 THEN -v.int ELSE v.int)
    [] "float" \in DOMAIN v -> NumberText(v.float[1], v.float[2], v.float[3])
    [] "str" \in DOMAIN v -> Escaped(v.str)
    [] "list" \in DOMAIN v ->
         <<OpenList>> \o Separated([i \in DOMAIN v.list |-> Ser(v.list[i])]) \o <<CloseList>>
    [] OTHER ->
         LET ks == SortedNames(v.obj)
         IN  <<OpenObject>>
             \o Separated([i \in DOMAIN ks |-> Escaped(ks[i]) \o <<Colon>> \o Ser(v.obj[ks[i]])])
             \o <<CloseObject>>

\* canonicalize, and J of a parsed body under the wire profile.
Canonicalize(t) ==
  Then(Parse(t), LAMBDA v, k :
    IF Contains(Ser(v), -1) THEN Bad("NUMBER_PROFILE") ELSE Got(Ser(v), k))

----------------------------------------------------------------------------

Init ==
  /\ question \in DOMAIN Questions
  /\ profile = Questions[question].profile
  /\ text = <<>>
  /\ pieces = 0

Grow ==
  /\ pieces < Questions[question].pieces
  /\ \E c \in Questions[question].chunks : text' = text \o c
  /\ pieces' = pieces + 1
  /\ UNCHANGED <<question, profile>>

Spec == Init /\ [][Grow]_vars

----------------------------------------------------------------------------

\* The parser accepts exactly the JSON of its profile: what it returns for
\* is one value within the limits, no member name is given twice however it
\* is escaped, no surrogate stands alone, and no other text gets through.
AcceptsExactlyJson == ~Fails(Parse(text)) <=> IsJson(text)

\* The canonical text of a value, which is what is hashed and signed, parses
\* to the same value and is its own canonical text: two parties who agree
\* on a value agree on its bytes, and the bytes determine the value.
CanonicalMeansSame ==
  LET c == Canonicalize(text)
      again == Parse(c.val)
  IN  ~Fails(c) => /\ ~Fails(again)
                   /\ again.val = Parse(text).val
                   /\ Canonicalize(c.val).val = c.val
=============================================================================
