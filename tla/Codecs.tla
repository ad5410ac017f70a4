------------------------------- MODULE Codecs -------------------------------
(***************************************************************************)
(* StringOps, Utils and HttpCommon: base64, hexadecimal and URL encoding   *)
(* of bytes, and their decoders.  Bytes and characters are their codes.    *)
(***************************************************************************)
EXTENDS Integers, Sequences, FiniteSetsExt, Loops

CONSTANTS Sample,   \* the bytes that data are made of
          MaxLen    \* bound: bytes of the data

CodecsAssumption == Sample \subseteq 0..255 /\ MaxLen \in Nat

VARIABLE data
Init == data = << >>
Next == Len(data) < MaxLen /\ \E b \in Sample : data' = Append(data, b)
Spec == Init /\ [][Next]_data

\* The codes of '0', 'A', 'a' and of the signs that the codecs use.
Zero == 48
UpperA == 65
LowerA == 97
Plus == 43
Slash == 47
Equals == 61
Percent == 37
Space == 32
Digits == 48..57
Uppers == 65..90
Lowers == 97..122

-----------------------------------------------------------------------------
\* BASE64_CHAR_TABLE, is_base64, get_base64_index.
BASE64_CHAR_TABLE == [i \in 0..63 |->
  CASE i < 26 -> UpperA + i [] i \in 26..51 -> LowerA + i - 26
    [] i \in 52..61 -> Zero + i - 52 [] i = 62 -> Plus [] i = 63 -> Slash]
is_base64(c) == c \in Uppers \cup Lowers \cup Digits \cup {Plus, Slash}
get_base64_index(c) ==
  CASE c \in Uppers -> c - UpperA [] c \in Lowers -> c - LowerA + 26
    [] c \in Digits -> c - Zero + 52 [] c = Plus -> 62 [] c = Slash -> 63

\* The groups of n of a sequence, the last of which may be shorter.
Group(s, n, g) == SubSeq(s, n * (g - 1) + 1, IF n * g < Len(s) THEN n * g ELSE Len(s))

\* Fault: the third character is padding unless the group is complete.
Encode64Group_short(bytes) ==
  LET b(i) == IF i <= Len(bytes) THEN bytes[i] ELSE 0
      triple == b(1) * 65536 + b(2) * 256 + b(3)
      digit(n) == BASE64_CHAR_TABLE[n % 64]
  IN  <<digit(triple \div 262144), digit(triple \div 4096),
        IF Len(bytes) > 2 THEN digit(triple \div 64) ELSE Equals,
        IF Len(bytes) > 2 THEN digit(triple) ELSE Equals>>

Encode64Group(bytes) ==
  LET b(i) == IF i <= Len(bytes) THEN bytes[i] ELSE 0
      triple == b(1) * 65536 + b(2) * 256 + b(3)
      digit(n) == BASE64_CHAR_TABLE[n % 64]
  IN  <<digit(triple \div 262144), digit(triple \div 4096),
        IF Len(bytes) > 1 THEN digit(triple \div 64) ELSE Equals,
        IF Len(bytes) > 2 THEN digit(triple) ELSE Equals>>
encode_base64(bytes) ==
  [i \in 1..(4 * ((Len(bytes) + 2) \div 3)) |->
     Encode64Group(Group(bytes, 3, ((i - 1) \div 4) + 1))[((i - 1) % 4) + 1]]

\* Four characters make three bytes, n + 1 characters n; a lone one makes none.
Decode64Group(chars) ==
  LET n(i) == IF i <= Len(chars) THEN get_base64_index(chars[i]) ELSE 0
  IN  <<n(1) * 4 + n(2) \div 16, (n(2) % 16) * 16 + n(3) \div 4, (n(3) % 4) * 64 + n(4)>>

\* Decoding ends before the first character that is not of the alphabet.
decode_base64(chars) ==
  LET stops == {i \in 1..Len(chars) : ~is_base64(chars[i])}
      good == IF stops = {} THEN chars ELSE SubSeq(chars, 1, Min(stops) - 1)
  IN  [j \in 1..((3 * Len(good)) \div 4) |->
         Decode64Group(Group(good, 4, ((j - 1) \div 3) + 1))[((j - 1) % 3) + 1]]

-----------------------------------------------------------------------------
HexDigit(n) == IF n < 10 THEN Zero + n ELSE UpperA + n - 10
from_hex_char(c) ==
  CASE c \in Digits -> c - Zero [] c \in 65..70 -> c - UpperA + 10
    [] c \in 97..102 -> c - LowerA + 10 [] OTHER -> -1

binary_to_hex_string(bytes) ==
  [i \in 1..(2 * Len(bytes)) |->
     LET byte == bytes[(i + 1) \div 2]
     IN  HexDigit(IF i % 2 = 1 THEN byte \div 16 ELSE byte % 16)]

\* An empty set is a failure; otherwise the bytes.
hex_string_to_binary(hex) ==
  IF Len(hex) % 2 # 0 \/ \E i \in DOMAIN hex : from_hex_char(hex[i]) = -1 THEN {}
  ELSE {[i \in 1..(Len(hex) \div 2) |->
           from_hex_char(hex[2 * i - 1]) * 16 + from_hex_char(hex[2 * i])]}

ToLower(c) == IF c \in Uppers THEN c + LowerA - UpperA ELSE c

-----------------------------------------------------------------------------
\* isalnum, or one of - _ . ~
Unreserved(c) == c \in Digits \cup Uppers \cup Lowers \cup {45, 95, 46, 126}

UrlCode(byte) ==
  IF Unreserved(byte) THEN <<byte>>
  ELSE <<Percent, HexDigit(byte \div 16), HexDigit(byte % 16)>>
url_encode(value) ==
  LET Round(text, i) == text \o UrlCode(value[i])
  IN  Loop(Round, << >>, Len(value))[Len(value)]

\* strtol of what follows a percent sign, for the two digits url_encode writes.
Strtol(h, l) == from_hex_char(h) * 16 + from_hex_char(l)

\* A round of url_decode's loop: the bytes decoded so far, and how many of the
\* next characters belong to an escape that was read.
Unescape(value, t, i) ==
  IF t.skip > 0 THEN [t EXCEPT !.skip = @ - 1]
  ELSE IF value[i] = Percent /\ i + 2 <= Len(value)
    THEN [out |-> Append(t.out, Strtol(value[i + 1], value[i + 2])), skip |-> 2]
    ELSE [out |-> Append(t.out, IF value[i] = Plus THEN Space ELSE value[i]), skip |-> 0]
url_decode(value) ==
  LET Round(t, i) == Unescape(value, t, i)
  IN  Loop(Round, [out |-> << >>, skip |-> 0], Len(value))[Len(value)].out

-----------------------------------------------------------------------------
\* What encode_base64 writes, decode_base64 reads back, for every rest that the
\* length leaves; the text has four characters for each three bytes begun.
Base64RoundTrip == /\ decode_base64(encode_base64(data)) = data
                   /\ Len(encode_base64(data)) = 4 * ((Len(data) + 2) \div 3)

\* The hexadecimal text of bytes is read back, in either case of its letters.
HexRoundTrip ==
  LET hex == binary_to_hex_string(data)
  IN  /\ hex_string_to_binary(hex) = {data}
      /\ hex_string_to_binary([i \in DOMAIN hex |-> ToLower(hex[i])]) = {data}

\* A value encoded for a URL is decoded to itself: its percent and plus signs,
\* which mean something to the decoder, arrive.
UrlRoundTrip == url_decode(url_encode(data)) = data
=============================================================================
