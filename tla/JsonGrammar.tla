----------------------------- MODULE JsonGrammar -----------------------------
(***************************************************************************)
(* The JSON that vq/1 means: a text is a sequence of code points, and      *)
(* IsJson says which texts are one value of the number profile within the  *)
(* limits, with no member name twice.  Nothing here follows the parser:    *)
(* the grammar guesses where a value may be cut and asks for both halves.  *)
(***************************************************************************)
EXTENDS Integers, Sequences, FiniteSets, SequencesExt

CONSTANTS Characters,   \* what strings may hold, control characters included
          MaxDepth, MaxMembers, MaxArray,
          SafeMax       \* largest integer of the wire profile

VARIABLE profile        \* the number profile asked for, "wire" or "rfc8785"

ASSUME JsonAssumption == {MaxDepth, MaxMembers, MaxArray, SafeMax} \subseteq Nat

Quote == 34
Plus == 43
Comma == 44
Minus == 45
Dot == 46
Zero == 48
Colon == 58
OpenList == 91
Backslash == 92
CloseList == 93
LowU == 117
OpenObject == 123
CloseObject == 125
Whitespace == {9, 10, 13, 32}
Exponents == {69, 101}
Digits == 48 .. 57
SurrogateUnits == 55296 .. 57343

True == <<116, 114, 117, 101>>
False == <<102, 97, 108, 115, 101>>
Null == <<110, 117, 108, 108>>

\* Characters a backslash and one letter stand for.
ShortEscapes == [c \in {8, 9, 10, 12, 13, Quote, 47, Backslash} |->
  CASE c = 8 -> 98 [] c = 9 -> 116 [] c = 10 -> 110 [] c = 12 -> 102
    [] c = 13 -> 114 [] OTHER -> c]

\* Four hexadecimal digits, in either case, for a UTF-16 unit.
HexSpellings(u) ==
  LET DigitsOf(d) == IF d < 10 THEN {48 + d} ELSE {55 + d, 87 + d}
  IN  {<<a, b, c, d>> : a \in DigitsOf(u \div 4096), b \in DigitsOf((u \div 256) % 16),
                        c \in DigitsOf((u \div 16) % 16), d \in DigitsOf(u % 16)}

UnitsOf(c) ==
  IF c < 65536 THEN <<c>>
  ELSE <<55296 + (c - 65536) \div 1024, 56320 + ((c - 65536) % 1024)>>

Unicode(u) == {<<Backslash, LowU>> \o h : h \in HexSpellings(u)}

SpellingsOf(c) ==
  LET u == UnitsOf(c)
  IN  (IF c < 32 \/ c \in {Quote, Backslash} THEN {} ELSE {<<c>>})
      \union (IF c \in DOMAIN ShortEscapes THEN {<<Backslash, ShortEscapes[c]>>} ELSE {})
      \union (IF Len(u) = 1 THEN Unicode(c)
              ELSE {h \o l : h \in Unicode(u[1]), l \in Unicode(u[2])})

Spellings == UNION {{<<s, c>> : s \in SpellingsOf(c)} : c \in Characters}

RECURSIVE Spelt(_)

\* The strings that t spells between its quotes: none or one.
Spelt(t) ==
  IF t = <<>> THEN {<<>>}
  ELSE UNION {{<<p[2]>> \o r : r \in Spelt(SubSeq(t, Len(p[1]) + 1, Len(t)))} :
              p \in {q \in Spellings : IsPrefix(q[1], t)}}

Inner(t) == SubSeq(t, 2, Len(t) - 1)
Enclosed(t, open, close) == Len(t) >= 2 /\ t[1] = open /\ t[Len(t)] = close

IsString(t) == Enclosed(t, Quote, Quote) /\ Spelt(Inner(t)) # {}

Name(t) == CHOOSE s \in Spelt(Inner(t)) : TRUE

IsDigits(t) == t # <<>> /\ ToSet(t) \subseteq Digits
IsInteger(t) == IsDigits(t) /\ (t[1] = Zero => Len(t) = 1)
IsFraction(t) == t = <<>> \/ (t[1] = Dot /\ IsDigits(Tail(t)))
IsExponent(t) ==
  \/ t = <<>>
  \/ /\ t[1] \in Exponents
     /\ \/ IsDigits(Tail(t))
        \/ Len(t) > 1 /\ t[2] \in {Plus, Minus} /\ IsDigits(SubSeq(t, 3, Len(t)))

NatOf(t) == FoldLeft(LAMBDA n, c : 10 * n + c - Zero, 0, t)

IsNumber(t) ==
  LET u == IF t # <<>> /\ t[1] = Minus THEN Tail(t) ELSE t
  IN  IF profile = "wire"
      THEN IsInteger(u) /\ NatOf(u) <= SafeMax /\ t # <<Minus, Zero>>
      ELSE \E i \in 1 .. Len(u) : \E j \in i .. Len(u) :
             /\ IsInteger(SubSeq(u, 1, i))
             /\ IsFraction(SubSeq(u, i + 1, j))
             /\ IsExponent(SubSeq(u, j + 1, Len(u)))

Trim(t) ==
  LET K == {k \in DOMAIN t : t[k] \notin Whitespace}
  IN  IF K = {} THEN <<>> ELSE SubSeq(t, Min(K), Max(K))

Before(t, i) == Trim(SubSeq(t, 1, i - 1))
After(t, i) == SubSeq(t, i + 1, Len(t))
Ends(t) == {i \in DOMAIN t : t[i] = Comma} \union {Len(t) + 1}

RECURSIVE IsValue(_, _), IsElements(_, _, _), IsMembers(_, _, _)

\* t, without blanks around it, is one value at depth d.
IsValue(t, d) ==
  /\ d <= MaxDepth
  /\ \/ t \in {True, False, Null}
     \/ IsString(t)
     \/ IsNumber(t)
     \/ Enclosed(t, OpenList, CloseList)
        /\ (Trim(Inner(t)) = <<>> \/ IsElements(Inner(t), d + 1, MaxArray))
     \/ Enclosed(t, OpenObject, CloseObject)
        /\ (Trim(Inner(t)) = <<>> \/ IsMembers(Inner(t), d + 1, {}))

\* t is one to room values with commas between them.
IsElements(t, d, room) ==
  /\ room > 0
  /\ \E i \in Ends(t) :
       /\ IsValue(Before(t, i), d)
       /\ i <= Len(t) => IsElements(After(t, i), d, room - 1)

\* t is one or more members whose names are not among names.
IsMembers(t, d, names) ==
  /\ Cardinality(names) < MaxMembers
  /\ \E i \in Ends(t) : \E c \in 1 .. i - 1 :
       /\ t[c] = Colon
       /\ IsString(Before(t, c))
       /\ Name(Before(t, c)) \notin names
       /\ IsValue(Trim(SubSeq(t, c + 1, i - 1)), d)
       /\ i <= Len(t) => IsMembers(After(t, i), d, names \union {Name(Before(t, c))})

IsJson(t) == IsValue(Trim(t), 0)
=============================================================================
