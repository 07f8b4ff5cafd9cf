----------------------------- MODULE MCJsonText -----------------------------
(***************************************************************************)
(* The questions: brackets and literals, members and their names, strings  *)
(* and escapes, numbers of both profiles.  Ts is the port, on the texts    *)
(* the Python side gets.                                                   *)
(***************************************************************************)
EXTENDS JsonText

Ts == INSTANCE JsonText WITH Port <- "typescript"

Question(p, n, chunks) == [profile |-> p, pieces |-> n, chunks |-> chunks]

Astral == 128512     \* U+1F600, spelled d83d de00
Private == 57344     \* U+E000, after every astral character in unit order

Structure ==
  {<<OpenList>>, <<CloseList>>, <<OpenObject>>, <<CloseObject>>, <<Comma>>, True,
   <<32, Quote, 98, Quote, 32, Colon>>}

Named(name, digit) == <<Quote>> \o name \o <<Quote, Colon, digit>>
Names ==
  {<<OpenObject>>, <<CloseObject>>, <<Comma>>, Named(<<97>>, Zero),
   <<Comma>> \o Named(<<Backslash, LowU, 48, 48, 54, 49>>, 49),
   <<Comma>> \o Named(<<Astral>>, Zero), Named(<<Private, 97>>, Zero)}

Hexes == {<<48, 48, 48, 49>>, <<48, 48, 54, 65>>, <<100, 56, 51, 68>>, <<100, 69, 48, 48>>}
Strings ==
  {<<Quote>>, <<Backslash>>, <<110>>, <<10>>, <<Astral>>, <<55357>>, <<48, 48, 48, 49>>}
  \union {<<Backslash, LowU>> \o h : h \in Hexes}

Numbers == {<<Minus>>, <<Zero>>, <<49>>, <<53, 48>>, <<Dot>>, <<101>>, <<69, Plus>>}
Doubles == {<<Zero, Dot>>, <<49>>, <<55>>, <<56>>, <<Zero, Zero, Zero>>, <<101, Minus>>,
            <<101>>, <<50>>, <<51, Zero>>}
Wires == {<<Minus>>, <<Zero>>, <<57>>, <<49>>, <<Dot>>, <<101>>, True, SubSeq(True, 1, 3),
          <<65279>>}

MCQuestions ==
  [structure |-> Question("wire", 6, Structure), names |-> Question("wire", 6, Names),
   strings |-> Question("wire", 5, Strings), numbers |-> Question("rfc8785", 6, Numbers),
   doubles |-> Question("rfc8785", 5, Doubles), wires |-> Question("wire", 4, Wires)]

MCCharacters ==
  (UNION {ToSet(c) : c \in Strings \union Names} \ SurrogateUnits) \union {1, 98, 106}

\* Digits that are not ASCII.
ForeignQuestions == [digits |-> Question("wire", 3, {<<1635>>, <<178>>, <<49>>})]

\* A party who signs in Python and one who signs in TypeScript accept the
\* same texts and sign the same bytes for them: the order Python takes from
\* UTF-16BE is JavaScript's own, and the digits recovered from repr are
\* those that String writes.
PortsAgree ==
  LET py == Canonicalize(text)
      ts == Ts!Canonicalize(text)
  IN  /\ Fails(py) <=> Fails(ts)
      /\ ~Fails(py) => py.val = ts.val
=============================================================================
