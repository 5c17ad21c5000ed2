----------------------------- MODULE StateSize -----------------------------
(***************************************************************************)
(* The JSON that the state builder measures (tmx-core/src/merge.rs): what  *)
(* an adapter hands back is brought to JSON first, text as a message,      *)
(* bytes that are no text as a base64 blob; then its canonical bytes are   *)
(* counted, and its levels.                                                *)
(*                                                                         *)
(* Strings are ASCII, and bytes are text when they all are below 128.      *)
(***************************************************************************)
EXTENDS JsonValues, SequencesExt, StateBuilder

-----------------------------------------------------------------------------
(* Canonical JSON *)

\* The bytes one character takes in a JSON string.
CharLen(c) == IF c \in {"\"", "\\", "\n", "\t", "\r"} THEN 2 ELSE 1

TokenLen(s) == 2 + SumFunction([i \in 1..Len(s) |-> CharLen(SubSeq(s, i, i))])

RECURSIVE CanonicalLen(_)

\* The length of a value's canonical JSON.  Numbers here are digits alone.
CanonicalLen(v) ==
  CASE v = Null -> 4
    [] v = Bool(TRUE) -> 4
    [] v = Bool(FALSE) -> 5
    [] IsNum(v) -> Len(ToString(v[2]))
    [] IsStr(v) -> TokenLen(v[2])
    [] IsArr(v) ->
         EnclosedLen([i \in 1..Len(v[2]) |-> CanonicalLen(v[2][i])])
    [] OTHER ->
         EnclosedLen([k \in DOMAIN v[2] |-> TokenLen(k) + 1 + CanonicalLen(v[2][k])])

RECURSIVE Depth(_)

\* The levels of a value: a scalar is one.
Depth(v) ==
  LevelAbove(IF IsArr(v) \/ IsObj(v) THEN {Depth(v[2][k]) : k \in DOMAIN v[2]} ELSE {})

-----------------------------------------------------------------------------
(* Outputs *)

Json(v) == <<"json", v>>
Text(s) == <<"text", s>>
Bytes(b) == <<"bytes", b>>

Alphabet == "ABCDEFGHIJKLMNOPQRSTUVWXYZabcdefghijklmnopqrstuvwxyz0123456789+/"
Printable == " !\"#$%&'()*+,-./0123456789:;<=>?@ABCDEFGHIJKLMNOPQRSTUVWXYZ"

\* The text that bytes below 128 spell; here from the space to Z.
AsText(bytes) ==
  FoldLeft(LAMBDA s, b : s \o SubSeq(Printable, b - 31, b - 31), "", bytes)

\* Three bytes, missing ones read as zero, are four digits of base 64; a digit
\* that stands for no byte at all is a pad.
Group(bytes) ==
  LET byte(i) == IF i <= Len(bytes) THEN bytes[i] ELSE 0
      packed == byte(1) * 65536 + byte(2) * 256 + byte(3)
      digit(i) == ((packed \div (<<262144, 4096, 64, 1>>[i])) % 64) + 1
      char(i) == IF i <= Len(bytes) + 1
                 THEN SubSeq(Alphabet, digit(i), digit(i)) ELSE "="
  IN  char(1) \o char(2) \o char(3) \o char(4)

RECURSIVE Base64(_)
Base64(bytes) ==
  IF bytes = <<>> THEN ""
  ELSE IF Len(bytes) <= 3 THEN Group(bytes)
  ELSE Group(SubSeq(bytes, 1, 3)) \o Base64(SubSeq(bytes, 4, Len(bytes)))

\* `normalize_output`: the JSON of what an adapter hands back.
NormalizeOutput(output) ==
  IF output[1] = "json" THEN output[2]
  ELSE IF output[1] = "text" THEN Obj([k \in {"message"} |-> Str(output[2])])
  ELSE IF \A i \in 1..Len(output[2]) : output[2][i] < 128
  THEN Obj([k \in {"message"} |-> Str(AsText(output[2]))])
  ELSE Obj([k \in {"blob"} |-> Str(Base64(output[2]))])

-----------------------------------------------------------------------------
(* What an output becomes *)

\* The place of a character in the alphabet; a pad stands for nothing.
SixBits(c) == IF c = "=" THEN 0 ELSE CHOOSE i \in 0..63 : SubSeq(Alphabet, i + 1, i + 1) = c

\* A base64 text is whole groups, and its bits are those of the bytes.
Decodes(text, bytes) ==
  /\ Len(text) = 4 * ((Len(bytes) + 2) \div 3)
  /\ \A i \in 1..Len(bytes) :
       LET g == 4 * ((i - 1) \div 3)
           six(j) == SixBits(SubSeq(text, g + j, g + j))
           bits == six(1) * 262144 + six(2) * 4096 + six(3) * 64 + six(4)
       IN  bytes[i] = (bits \div (<<65536, 256, 1>>[((i - 1) % 3) + 1])) % 256

\* What is put says what was handed back: bytes are decoded, text is read.
Preserves(output) ==
  LET value == NormalizeOutput(output)
      bytes == output[2]
  IN  CASE output[1] = "json" -> value = output[2]
        [] output[1] = "text" -> value = Obj([k \in {"message"} |-> Str(output[2])])
        [] "blob" \in DOMAIN value[2] -> Decodes(value[2]["blob"][2], bytes)
        [] OTHER ->
             LET text == value[2]["message"][2]
             IN  /\ Len(text) = Len(bytes)
                 /\ \A i \in 1..Len(text) :
                      SubSeq(text, i, i) = SubSeq(Printable, bytes[i] - 31, bytes[i] - 31)

=============================================================================
