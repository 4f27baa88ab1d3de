-------------------------------- MODULE Strings -------------------------------
(***************************************************************************)
(* Strings as the runtime has them (src/src/object/string.rs): the bytes    *)
(* before a terminating NUL, in UTF-8; and the functions of                *)
(* src/src/api/string.rs as operators on sequences of bytes.               *)
(***************************************************************************)
EXTENDS Integers, SequencesExt

CONSTANT Trap  \* the process ends

\* What C sees of the bytes written: those before the first NUL.
CString(bytes) ==
  LET nul == SelectInSeq(bytes, LAMBDA b : b = 0)
  IN  IF nul = 0 THEN bytes ELSE SubSeq(bytes, 1, nul - 1)

-----------------------------------------------------------------------------
(* Characters (Rust's char, a library).                                    *)

\* char::from_u32: no surrogates.
IsChar(n) == n \in 0 .. 55295 \/ n \in 57344 .. 1114111

\* The n-th group of six bits, from the lowest, as a continuation byte.
Continuation(ch, n) == 128 + ((ch \div 64^n) % 64)

\* char::encode_utf8
Encoded(ch) ==
  CASE ch < 128   -> <<ch>>
    [] ch \in 128 .. 2047    -> <<192 + ch \div 64, Continuation(ch, 0)>>
    [] ch \in 2048 .. 65535  -> <<224 + ch \div 4096, Continuation(ch, 1), Continuation(ch, 0)>>
    [] ch > 65535  -> <<240 + ch \div 262144, Continuation(ch, 2), Continuation(ch, 1), Continuation(ch, 0)>>

Utf8(chars) == FlattenSeq([k \in DOMAIN chars |-> Encoded(chars[k])])

\* The bytes of s, cut before every byte that is no continuation.
Pieces(s) ==
  LET at == SetToSortSeq({k \in DOMAIN s : s[k] \div 64 # 2}, <)
  IN  [k \in DOMAIN at |-> SubSeq(s, at[k], IF k = Len(at) THEN Len(s) ELSE at[k + 1] - 1)]

\* The payload of the first byte, and six bits from each byte after it.
CharOf(piece) ==
  FoldLeft(LAMBDA ch, b : 64 * ch + (b % 64),
           IF Len(piece) = 1 THEN piece[1] ELSE piece[1] % 2^(7 - Len(piece)), Tail(piece))

\* str::chars, and CStr::to_str, which fails on what is not UTF-8.
Chars(s) == [k \in DOMAIN Pieces(s) |-> CharOf(Pieces(s)[k])]
IsUtf8(s) ==
  /\ \A k \in DOMAIN Pieces(s) : Len(Pieces(s)[k]) <= 4 /\ IsChar(CharOf(Pieces(s)[k]))
  /\ Utf8(Chars(s)) = s

-----------------------------------------------------------------------------
(* Functions of the runtime: their result, or Trap where an assertion, an   *)
(* unwrap or the bounds check of a slice fails.                            *)

\* gox5_string_new_from_rune
NewFromRune(rune) == IF IsChar(rune) THEN CString(Encoded(rune)) ELSE Trap

\* gox5_string_new_from_byte_slice: room for size bytes, but as_bytes gives all
\* bytes up to the capacity.
NewFromByteSlice(size, bytes) == IF Len(bytes) = size THEN CString(bytes) ELSE Trap

\* gox5_string_new_from_rune_slice: this one cuts them to the size.
NewFromRuneSlice(size, runes) ==
  LET chars == SubSeq(runes, 1, size)
  IN  IF \A k \in DOMAIN chars : IsChar(chars[k]) THEN CString(Utf8(chars)) ELSE Trap

\* gox5_string_substr: -1 stands for a missing bound.
Substr(s, low, high) ==
  LET from == IF low = -1 THEN 0 ELSE low
      to   == IF high = -1 THEN Len(s) ELSE high
  IN  IF 0 <= from /\ from <= to /\ to <= Len(s) THEN SubSeq(s, from + 1, to) ELSE Trap

\* gox5_string_next: the character number count, which it calls its index.
NextOf(s, count) ==
  CASE ~IsUtf8(s)               -> Trap
    [] IsUtf8(s) /\ count < Len(Chars(s))  -> <<TRUE, count, Chars(s)[count + 1]>>
    [] IsUtf8(s) /\ count >= Len(Chars(s)) -> <<FALSE, 0, 0>>

\* gox5_slice_from_string: an element for each byte, whatever its type; characters
\* fill the first of them.
ElementsFromString(s, t) ==
  CASE t = "bytes"                -> s
    [] t = "runes" /\ IsUtf8(s)   ->
         LET chars == Chars(s)
         IN  [k \in 1 .. Len(s) |-> IF k <= Len(chars) THEN chars[k] ELSE 0]
    [] t = "runes" /\ ~IsUtf8(s)  -> Trap

\* ssa.Lookup: the byte behind the last is the NUL.
ByteAt(s, k) == Append(s, 0)[k + 1]
=============================================================================
