---------------------------- MODULE StringPrograms ----------------------------
(***************************************************************************)
(* What Go says of strings whose characters take one, two and three bytes,  *)
(* cut at every byte, and small functions that ask the runtime the same.    *)
(* These programs are not in the repository: those of src/xtests/string.go  *)
(* never cut a character, and only take ASCII apart.                       *)
(***************************************************************************)
EXTENDS ProgramText, Strings

Characters == {97, 233, 8364}
Texts      == {<<>>, Utf8(<<97>>), Utf8(<<233>>), Utf8(<<97, 8364>>), Utf8(<<233, 97>>), Utf8(<<8364, 233>>)}
AllAscii(s) == \A k \in DOMAIN s : s[k] < 128

-----------------------------------------------------------------------------
(* Go's range, conversions and slices of strings.                          *)

RuneError == 65533

\* The character s begins with at offset k, and its width: one byte of anything
\* else is an error.
WidthAt(s, k) ==
  LET widths == {n \in 1 .. 3 : k + n <= Len(s) /\ \E x \in Characters : Encoded(x) = SubSeq(s, k + 1, k + n)}
  IN  IF widths = {} THEN 1 ELSE CHOOSE n \in widths : TRUE
RuneAt(s, k) ==
  LET here == {x \in Characters : Encoded(x) = SubSeq(s, k + 1, k + WidthAt(s, k))}
  IN  IF here = {} THEN RuneError ELSE CHOOSE x \in here : TRUE

\* The offsets a range over s goes through.
Offsets(s) ==
  LET from[k \in 0 .. Len(s)] == IF k = Len(s) THEN <<>> ELSE <<k>> \o from[k + WidthAt(s, k)]
  IN  from[0]
Runes(s) == LET at == Offsets(s) IN [n \in DOMAIN at |-> RuneAt(s, at[n])]

-----------------------------------------------------------------------------
(* Programs: what a function is asked, with Go's answer and whether the     *)
(* runtime's must be the same.                                             *)
Asked(program, go, same) == [program |-> Straight(program), go |-> go, same |-> same]

\* s[low:high]: a lower bound of -1 passes for one that is left out.
PartOf(s, low, high) ==
  Asked(<<Substring(0, C(s), C(low), C(high)), Ret(R(0))>>,
        IF 0 <= low /\ low <= high /\ high <= Len(s) THEN SubSeq(s, low + 1, high) ELSE Trap,
        low # -1 \/ high > Len(s))

JoinOf(s, t) == Asked(<<BinOp(0, "ADD", "string", C(s), C(t)), Ret(R(0))>>, s \o t, TRUE)

\* s[k]: the byte behind the last one is there too.
ByteOf(s, k) ==
  Asked(<<Lookup(0, C(s), C(k)), Ret(R(0))>>, IF k < Len(s) THEN s[k + 1] ELSE Trap, k < Len(s))

\* string(rune(n))
TextOf(n) ==
  Asked(<<Convert(0, "rune", "string", C(n)), Ret(R(0))>>,
        Encoded(IF IsChar(n) THEN n ELSE RuneError), IsChar(n) /\ n # 0)

\* string([]byte(s)[:k]): the runtime wants all of the capacity to be used.
ThroughBytes(s, k) ==
  Asked(<<Convert(0, "string", "bytes", C(s)), SliceOf(1, "slice", 0, R(0), Absent, C(k)),
          Convert(2, "bytes", "string", R(1)), Ret(R(2))>>, SubSeq(s, 1, k), k = Len(s))

\* string([]rune(s)[:k]), and len([]rune(s)), which is the number of bytes.
ThroughRunes(s, k) ==
  Asked(<<Convert(0, "string", "runes", C(s)), SliceOf(1, "slice", 0, R(0), Absent, C(k)),
          Convert(2, "runes", "string", R(1)), Ret(R(2))>>, Utf8(SubSeq(Runes(s), 1, k)), TRUE)
CountOfRunes(s) ==
  Asked(<<Convert(0, "string", "runes", C(s)), Len_(1, "slice", R(0)), Ret(R(1))>>,
        Len(Runes(s)), AllAscii(s))

\* n := 0; for i, c := range s { a[n] = i or c; n++ }; return a
Longest == 6
RangeOver(s, which) ==
  [program |-> Func(
     <<<<Variable(0, Zeros(Longest, 0)), RangeText(1), Jump(2)>>,
       <<Phi(2, <<C(0), R(3)>>), Next(4, R(1), C(s)), Extract(5, 0, R(4)), If(R(5), 3, 4)>>,
       <<Extract(6, which, R(4)), IndexAddr(7, "array", R(0), R(2)), Store(R(7), R(6)),
         Add(3, R(2), C(1)), Jump(2)>>,
       <<Load(8, R(0)), Ret(R(8))>>>>),
   go |-> LET seen == IF which = 1 THEN Offsets(s) ELSE Runes(s)
          IN  [n \in 1 .. Longest |-> IF n <= Len(seen) THEN seen[n] ELSE 0],
   same |-> IsUtf8(s) /\ (which = 2 \/ Offsets(s) = [n \in DOMAIN Offsets(s) |-> n - 1])]

-----------------------------------------------------------------------------
(* The questions, each with what it is about.                              *)
Cuts(s) == {SubSeq(s, k + 1, Len(s)) : k \in 0 .. Len(s)} \cup {SubSeq(s, 1, k) : k \in 0 .. Len(s)}
CutTexts  == UNION {Cuts(s) : s \in Texts}
SomeRunes == {-1, 0, 1, 233, 55295, 55296, 57343, 57344, 65536, 1114111, 1114112}

Questions ==
  UNION {{<<"part", s, low, high>> : low \in -1 .. Len(s) + 1, high \in 0 .. Len(s) + 1} : s \in Texts}
  \cup {<<"join", s, t>> : s \in CutTexts, t \in {Encoded(97), Encoded(233)}}
  \cup UNION {{<<"byte", s, k>> : k \in 0 .. Len(s)} : s \in Texts}
  \cup {<<"rune", n>> : n \in SomeRunes}
  \cup UNION {{<<"bytes", s, k>> : k \in 0 .. Len(s)} : s \in Texts}
  \cup UNION {{<<"runes", s, k>> : k \in 0 .. Len(Runes(s))} : s \in Texts}
  \cup {<<"count", s>> : s \in Texts}
  \cup {<<"range", s, which>> : s \in CutTexts, which \in {1, 2}}

Answer(q) ==
  CASE q[1] = "part"  -> PartOf(q[2], q[3], q[4])
    [] q[1] = "join"  -> JoinOf(q[2], q[3])
    [] q[1] = "byte"  -> ByteOf(q[2], q[3])
    [] q[1] = "rune"  -> TextOf(q[2])
    [] q[1] = "bytes" -> ThroughBytes(q[2], q[3])
    [] q[1] = "runes" -> ThroughRunes(q[2], q[3])
    [] q[1] = "count" -> CountOfRunes(q[2])
    [] q[1] = "range" -> RangeOver(q[2], q[3])

\* The answers, under names for the functions that ask.
Answers ==
  [name \in {ToString(q) : q \in Questions} |->
    Answer(CHOOSE q \in Questions : ToString(q) = name)]
=============================================================================
