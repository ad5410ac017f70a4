----------------------------- MODULE TextProofs -----------------------------
(***************************************************************************)
(* What holds of the text components of Utilities (Codecs, Lines,          *)
(* CommandLine) for any text.  Their loops are recursive functions (Loop): *)
(* that one exists with the equations of its definition follows by         *)
(* induction on the number of rounds (Iterates), and what it computes by   *)
(* induction on the round.                                                 *)
(***************************************************************************)
EXTENDS UtilityProofs, WellFoundedInduction

LEMMA Least ==
  ASSUME NEW T \in SUBSET Nat, T # {} PROVE \E x \in T : \A y \in T : x <= y
<1>. DEFINE R == OpToRel(<, Nat)
<1>1. R = {ss \in Nat \X Nat : ss[1] < ss[2]}
  BY DEF OpToRel
<1>2. PICK x \in T : \A y \in T : <<y, x>> \notin R
  <2>1. IsWellFoundedOn(R, Nat)
    BY NatLessThanWellFounded
  <2>. HIDE DEF R
  <2>. QED  BY <2>1, WFMin
<1>. HIDE DEF R
<1>3. ASSUME NEW y \in T, y < x PROVE FALSE
  <2>1. <<y, x>> \in Nat \X Nat /\ <<y, x>>[1] < <<y, x>>[2]
    BY <1>3
  <2>. QED  BY <1>1, <1>2, <2>1
<1>. QED  BY <1>3

(* Induction, for a set: a least number outside it would follow one in it. *)
LEMMA SetInduction ==
  ASSUME NEW S, 0 \in S, \A n \in Nat : n \in S => n + 1 \in S
  PROVE  Nat \subseteq S
<1>1. SUFFICES ASSUME Nat \ S # {} PROVE FALSE
  OBVIOUS
<1>2. PICK x \in Nat \ S : \A y \in Nat \ S : x <= y
  BY <1>1, Least
<1>3. x - 1 \in Nat /\ x - 1 < x /\ (x - 1) + 1 = x
  BY <1>2
<1>4. x - 1 \in S
  BY <1>2, <1>3
<1>. QED  BY <1>2, <1>3, <1>4

(* What n rounds do, and the states that they go through.                  *)
Rounds(D, n) == [1..n -> [D -> D]]
States(D, start, n, F) ==
  {g \in [0..n -> D] : g[0] = start /\ \A i \in 1..n : g[i] = F[i][g[i - 1]]}

LEMMA Iterates ==
  ASSUME NEW D, NEW start \in D, NEW n \in Nat, NEW F, F \in Rounds(D, n)
  PROVE  States(D, start, n, F) # {}
<1>0. F \in [1..n -> [D -> D]]
  BY DEF Rounds
<1>. DEFINE S == {m \in Nat : m <= n => \E g \in [0..m -> D] :
                    g[0] = start /\ \A i \in 1..m : g[i] = F[i][g[i - 1]]}
<1>1. 0 \in S
  <2>1. PICK g : g = [i \in 0..0 |-> start]
    OBVIOUS
  <2>2. g \in [0..0 -> D] /\ g[0] = start /\ \A i \in 1..0 : g[i] = F[i][g[i - 1]]
    BY <2>1
  <2>. QED  BY <2>2
<1>2. ASSUME NEW m \in Nat, m \in S PROVE m + 1 \in S
  <2>1. SUFFICES ASSUME m + 1 <= n
                 PROVE  \E g \in [0..m + 1 -> D] :
                          g[0] = start /\ \A i \in 1..m + 1 : g[i] = F[i][g[i - 1]]
    OBVIOUS
  <2>2. PICK g \in [0..m -> D] : g[0] = start /\ \A i \in 1..m : g[i] = F[i][g[i - 1]]
    BY <1>2, <2>1
  <2>3. F[m + 1] \in [D -> D] /\ g[m] \in D
    BY <1>0, <2>1
  <2>4. PICK h : h = [i \in 0..m + 1 |-> IF i = m + 1 THEN F[m + 1][g[m]] ELSE g[i]]
    OBVIOUS
  <2>5. h \in [0..m + 1 -> D] /\ h[0] = start
    BY <2>2, <2>3, <2>4
  <2>6. \A i \in 0..m : h[i] = g[i]
    BY <2>4
  <2>7. h[m + 1] = F[m + 1][h[m]]
    BY <2>4, <2>6
  <2>8. ASSUME NEW i \in 1..m + 1 PROVE h[i] = F[i][h[i - 1]]
    <3>1. CASE i = m + 1
      BY <2>7, <3>1
    <3>2. CASE i \in 1..m
      BY <2>2, <2>6, <3>2
    <3>. QED  BY <3>1, <3>2
  <2>. QED  BY <2>5, <2>8
<1>. HIDE DEF S
<1>3. n \in S
  BY <1>1, <1>2, SetInduction
<1>. QED  BY <1>3 DEF S, States

LEMMA FunctionIsSeq ==
  ASSUME NEW D, NEW m \in Nat, NEW f \in [1..m -> D]
  PROVE  f \in Seq(D) /\ Len(f) = m
<1>1. f \in Seq(D)
  OBVIOUS
<1>2. DOMAIN f = 1..m
  OBVIOUS
<1>. QED  BY <1>1, <1>2

(* A sequence and what was appended to it; the positions of both.          *)
LEMMA Concatenated ==
  ASSUME NEW D, NEW s \in Seq(D), NEW t \in Seq(D)
  PROVE  /\ s \o t \in Seq(D) /\ Len(s \o t) = Len(s) + Len(t)
         /\ \A j \in 1..Len(s) : (s \o t)[j] = s[j]
         /\ \A j \in 1..Len(t) : (s \o t)[Len(s) + j] = t[j]
OBVIOUS

(* A part of a sequence, from position i to position j.                    *)
LEMMA PartOf ==
  ASSUME NEW D, NEW s \in Seq(D), NEW i \in Nat, NEW j \in Nat, 1 <= i, i <= j + 1, j <= Len(s)
  PROVE  /\ SubSeq(s, i, j) \in Seq(D) /\ Len(SubSeq(s, i, j)) = j - i + 1
         /\ \A k \in 1..j - i + 1 : SubSeq(s, i, j)[k] = s[i + k - 1]
OBVIOUS

(* A text written piece by piece, c[i] in round i.                         *)
Pieces(D, n, g, c) ==
  /\ g \in [0..n -> Seq(D)] /\ c \in [1..n -> Seq(D)]
  /\ \A i \in 1..n : g[i] = g[i - 1] \o c[i]
Begins(s, t) == Len(s) <= Len(t) /\ \A j \in 1..Len(s) : t[j] = s[j]

(* The text after a round is the beginning of the text after any later one. *)
LEMMA Grows ==
  ASSUME NEW D, NEW n \in Nat, NEW g, NEW c, Pieces(D, n, g, c), NEW k \in 0..n
  PROVE  Begins(g[k], g[n])
<1>0. /\ g \in [0..n -> Seq(D)] /\ c \in [1..n -> Seq(D)]
      /\ \A i \in 1..n : g[i] = g[i - 1] \o c[i]
  BY Zenon DEF Pieces
<1>. DEFINE S == {m \in Nat : k <= m /\ m <= n =>
                    Len(g[k]) <= Len(g[m]) /\ \A j \in 1..Len(g[k]) : g[m][j] = g[k][j]}
<1>1. 0 \in S
  <2>1. CASE k = 0
    <3>1. g[0] \in Seq(D)
      BY <1>0
    <3>2. Len(g[0]) \in Nat
      BY <3>1
    <3>. QED  BY <2>1, <3>2
  <2>. QED  BY <2>1
<1>2. ASSUME NEW m \in Nat, m \in S PROVE m + 1 \in S
  <2>1. SUFFICES ASSUME k <= m + 1, m + 1 <= n
                 PROVE  /\ Len(g[k]) <= Len(g[m + 1])
                        /\ \A j \in 1..Len(g[k]) : g[m + 1][j] = g[k][j]
    OBVIOUS
  <2>2. CASE k = m + 1
    <3>1. g[k] \in Seq(D)
      BY <1>0
    <3>2. Len(g[k]) \in Nat
      BY <3>1
    <3>. QED  BY <2>2, <3>2
  <2>3. CASE k <= m
    <3>1. Len(g[k]) <= Len(g[m]) /\ \A j \in 1..Len(g[k]) : g[m][j] = g[k][j]
      BY <1>2, <2>1, <2>3
    <3>2. m + 1 \in 1..n /\ m \in 0..n /\ (m + 1) - 1 = m
      BY <2>1
    <3>3. g[m] \in Seq(D) /\ c[m + 1] \in Seq(D) /\ g[m + 1] = g[m] \o c[m + 1] /\ g[k] \in Seq(D)
      BY <1>0, <3>2
    <3>. HIDE DEF S
    <3>4. /\ Len(g[m + 1]) = Len(g[m]) + Len(c[m + 1])
          /\ \A j \in 1..Len(g[m]) : g[m + 1][j] = g[m][j]
      <4>1. PICK a \in Seq(D) : a = g[m]
        BY <3>3
      <4>2. PICK e \in Seq(D) : e = c[m + 1]
        BY <3>3
      <4>3. g[m + 1] = a \o e
        BY <3>3, <4>1, <4>2
      <4>4. Len(a \o e) = Len(a) + Len(e) /\ \A j \in 1..Len(a) : (a \o e)[j] = a[j]
        BY Concatenated
      <4>. QED  BY <4>1, <4>2, <4>3, <4>4, Zenon
    <3>5. Len(g[m]) \in Nat /\ Len(c[m + 1]) \in Nat /\ Len(g[k]) \in Nat
      BY <3>3
    <3>6. \A j \in 1..Len(g[k]) : j \in 1..Len(g[m])
      BY <3>1, <3>5
    <3>7. \A j \in 1..Len(g[k]) : g[m + 1][j] = g[k][j]
      BY <3>1, <3>4, <3>6, Zenon
    <3>8. Len(g[k]) <= Len(g[m + 1])
      <4>1. PICK x \in Nat : x = Len(g[k])
        BY <3>5
      <4>2. PICK y \in Nat : y = Len(g[m])
        BY <3>5
      <4>3. PICK z \in Nat : z = Len(c[m + 1])
        BY <3>5
      <4>4. PICK w : w = Len(g[m + 1])
        OBVIOUS
      <4>5. x <= y /\ w = y + z
        BY <3>1, <3>4, <4>1, <4>2, <4>3, <4>4, Zenon
      <4>6. x <= w
        BY <4>5
      <4>. QED  BY <4>1, <4>4, <4>6, Zenon
    <3>. QED  BY <3>7, <3>8
  <2>. QED  BY <2>1, <2>2, <2>3
<1>. HIDE DEF S
<1>3. Nat \subseteq S
  BY <1>1, <1>2, SetInduction
<1>. QED  BY <1>3 DEF S, Begins

-----------------------------------------------------------------------------
(* Codecs: base64.                                                         *)

Byte == 0..255

LEMMA Codes ==
  ASSUME NEW d \in 0..63
  PROVE  /\ Codecs!get_base64_index(Codecs!BASE64_CHAR_TABLE[d]) = d
         /\ Codecs!is_base64(Codecs!BASE64_CHAR_TABLE[d])
<1>. USE DEF Codecs!get_base64_index, Codecs!is_base64, Codecs!BASE64_CHAR_TABLE, Codecs!Zero,
             Codecs!UpperA, Codecs!LowerA, Codecs!Digits, Codecs!Uppers, Codecs!Lowers,
             Codecs!Plus, Codecs!Slash
<1>1. ASSUME NEW c \in 65..90 PROVE Codecs!get_base64_index(c) = c - 65
  <2>1. c \in Codecs!Uppers
    OBVIOUS
  <2>. QED  BY <2>1
<1>2. ASSUME NEW c \in 97..122 PROVE Codecs!get_base64_index(c) = c - 71
  <2>1. c \in Codecs!Lowers /\ c \notin Codecs!Uppers
    OBVIOUS
  <2>. QED  BY <2>1
<1>3. ASSUME NEW c \in 48..57 PROVE Codecs!get_base64_index(c) = c + 4
  <2>1. c \in Codecs!Digits /\ c \notin Codecs!Uppers /\ c \notin Codecs!Lowers
    OBVIOUS
  <2>. QED  BY <2>1
<1>4. /\ Codecs!get_base64_index(43) = 62 /\ Codecs!get_base64_index(47) = 63
  <2>1. /\ 43 \notin Codecs!Uppers \cup Codecs!Lowers \cup Codecs!Digits
        /\ 47 \notin Codecs!Uppers \cup Codecs!Lowers \cup Codecs!Digits
    OBVIOUS
  <2>. QED  BY <2>1
<1>5. ASSUME NEW c \in 65..90 \cup 97..122 \cup 48..57 \cup {43, 47} PROVE Codecs!is_base64(c)
  OBVIOUS
<1>6. /\ d < 26 => Codecs!BASE64_CHAR_TABLE[d] = 65 + d
      /\ d \in 26..51 => Codecs!BASE64_CHAR_TABLE[d] = 71 + d
      /\ d \in 52..61 => Codecs!BASE64_CHAR_TABLE[d] = d - 4
      /\ d = 62 => Codecs!BASE64_CHAR_TABLE[d] = 43
      /\ d = 63 => Codecs!BASE64_CHAR_TABLE[d] = 47
  OBVIOUS
<1>. QED
  <2>. HIDE DEF Codecs!get_base64_index, Codecs!is_base64, Codecs!BASE64_CHAR_TABLE
  <2>1. CASE d < 26
    <3>1. 65 + d \in 65..90
      BY <2>1
    <3>. QED  BY <1>1, <1>5, <1>6, <2>1, <3>1
  <2>2. CASE d \in 26..51
    <3>1. 71 + d \in 97..122
      BY <2>2
    <3>. QED  BY <1>2, <1>5, <1>6, <2>2, <3>1
  <2>3. CASE d \in 52..61
    <3>1. d - 4 \in 48..57
      BY <2>3
    <3>. QED  BY <1>3, <1>5, <1>6, <2>3, <3>1
  <2>4. CASE d \in {62, 63}
    BY <1>4, <1>5, <1>6, <2>4
  <2>. QED  BY <2>1, <2>2, <2>3, <2>4
LEMMA GroupsOf3 ==
  ASSUME NEW D, NEW s \in Seq(D), NEW g \in Nat, g > 0, 3 * (g - 1) < Len(s)
  PROVE  /\ Len(Codecs!Group(s, 3, g)) = IF 3 * g < Len(s) THEN 3 ELSE Len(s) - 3 * (g - 1)
         /\ Codecs!Group(s, 3, g) \in Seq(D)
         /\ \A k \in 1..Len(Codecs!Group(s, 3, g)) :
              Codecs!Group(s, 3, g)[k] = s[3 * (g - 1) + k]
<1>. DEFINE a == 3 * (g - 1) + 1
            b == IF 3 * g < Len(s) THEN 3 * g ELSE Len(s)
<1>0. Len(s) \in Nat
  OBVIOUS
<1>1. a \in 1..Len(s) /\ b \in a..Len(s) /\ Codecs!Group(s, 3, g) = SubSeq(s, a, b)
  BY DEF Codecs!Group
<1>2. b - a + 1 = IF 3 * g < Len(s) THEN 3 ELSE Len(s) - 3 * (g - 1)
  <2>1. CASE 3 * g < Len(s)
    BY <1>0, <2>1
  <2>2. CASE ~(3 * g < Len(s))
    BY <1>0, <2>2
  <2>. QED  BY <2>1, <2>2
<1>. HIDE DEF b
<1>3. /\ Len(SubSeq(s, a, b)) = b - a + 1 /\ SubSeq(s, a, b) \in Seq(D)
      /\ \A k \in 1..Len(SubSeq(s, a, b)) : SubSeq(s, a, b)[k] = s[3 * (g - 1) + k]
  BY <1>1
<1>. QED  BY <1>1, <1>2, <1>3

LEMMA GroupsOf4 ==
  ASSUME NEW D, NEW s \in Seq(D), NEW g \in Nat, g > 0, 4 * (g - 1) < Len(s)
  PROVE  /\ Len(Codecs!Group(s, 4, g)) = IF 4 * g < Len(s) THEN 4 ELSE Len(s) - 4 * (g - 1)
         /\ Codecs!Group(s, 4, g) \in Seq(D)
         /\ \A k \in 1..Len(Codecs!Group(s, 4, g)) :
              Codecs!Group(s, 4, g)[k] = s[4 * (g - 1) + k]
<1>. DEFINE a == 4 * (g - 1) + 1
            b == IF 4 * g < Len(s) THEN 4 * g ELSE Len(s)
<1>0. Len(s) \in Nat
  OBVIOUS
<1>1. a \in 1..Len(s) /\ b \in a..Len(s) /\ Codecs!Group(s, 4, g) = SubSeq(s, a, b)
  BY DEF Codecs!Group
<1>2. b - a + 1 = IF 4 * g < Len(s) THEN 4 ELSE Len(s) - 4 * (g - 1)
  <2>1. CASE 4 * g < Len(s)
    BY <1>0, <2>1
  <2>2. CASE ~(4 * g < Len(s))
    BY <1>0, <2>2
  <2>. QED  BY <2>1, <2>2
<1>. HIDE DEF b
<1>3. /\ Len(SubSeq(s, a, b)) = b - a + 1 /\ SubSeq(s, a, b) \in Seq(D)
      /\ \A k \in 1..Len(SubSeq(s, a, b)) : SubSeq(s, a, b)[k] = s[4 * (g - 1) + k]
  BY <1>1
<1>. QED  BY <1>1, <1>2, <1>3

(* Up to three bytes as four digits of six bits, and their characters c.   *)
InDigits(b, c, d1, d2, d3, d4) ==
  LET t == Codecs!BASE64_CHAR_TABLE
  IN  /\ c[1] = t[d1] /\ c[2] = t[d2]
      /\ c[3] = (IF Len(b) > 1 THEN t[d3] ELSE 61)
      /\ c[4] = (IF Len(b) > 2 THEN t[d4] ELSE 61)
      /\ b[1] = d1 * 4 + d2 \div 16
      /\ Len(b) > 1 => b[2] = (d2 % 16) * 16 + d3 \div 4
      /\ Len(b) > 2 => b[3] = (d3 % 4) * 64 + d4

LEMMA EncodedGroup ==
  ASSUME NEW b \in Seq(Byte), Len(b) \in 1..3
  PROVE  \E d1, d2, d3, d4 \in 0..63 : InDigits(b, Codecs!Encode64Group(b), d1, d2, d3, d4)
<1>. DEFINE B(i) == IF i <= Len(b) THEN b[i] ELSE 0
            t == Codecs!BASE64_CHAR_TABLE
<1>1. /\ B(1) \in Byte /\ B(2) \in Byte /\ B(3) \in Byte /\ B(1) = b[1]
      /\ Len(b) > 1 => B(2) = b[2]
      /\ Len(b) > 2 => B(3) = b[3]
  <2>1. 0 \in Byte
    BY DEF Byte
  <2>2. \A i \in 1..Len(b) : b[i] \in Byte
    OBVIOUS
  <2>. QED  BY <2>1, <2>2
<1>0. PICK n : n = B(1) * 65536 + B(2) * 256 + B(3)
  OBVIOUS
<1>10. PICK d1 : d1 = (n \div 262144) % 64
  OBVIOUS
<1>11. PICK d2 : d2 = (n \div 4096) % 64
  OBVIOUS
<1>12. PICK d3 : d3 = (n \div 64) % 64
  OBVIOUS
<1>13. PICK d4 : d4 = n % 64
  OBVIOUS
<1>3. Codecs!Encode64Group(b) = <<t[d1], t[d2], IF Len(b) > 1 THEN t[d3] ELSE 61,
                                  IF Len(b) > 2 THEN t[d4] ELSE 61>>
  BY <1>0, <1>10, <1>11, <1>12, <1>13 DEF Codecs!Encode64Group, Codecs!Equals
<1>. HIDE DEF B, t
<1>2. /\ d1 \in 0..63 /\ d2 \in 0..63 /\ d3 \in 0..63 /\ d4 \in 0..63
      /\ d1 * 4 + d2 \div 16 = B(1) /\ (d2 % 16) * 16 + d3 \div 4 = B(2)
      /\ (d3 % 4) * 64 + d4 = B(3)
  <2>01. PICK x : x = B(1)
    OBVIOUS
  <2>02. PICK y : y = B(2)
    OBVIOUS
  <2>03. PICK z : z = B(3)
    OBVIOUS
  <2>0. /\ n = x * 65536 + y * 256 + z /\ x \in Byte /\ y \in Byte /\ z \in Byte
    BY <1>0, <1>1, <2>01, <2>02, <2>03
  <2>. USE DEF Byte
  <2>1. n \in Nat
    BY <2>0
  <2>2. d1 \in 0..63 /\ d2 \in 0..63 /\ d3 \in 0..63 /\ d4 \in 0..63
    BY <1>10, <1>11, <1>12, <1>13, <2>1
  <2>3. d1 = x \div 4
    <3>1. n \div 262144 = x \div 4
      BY <2>0
    <3>. QED  BY <1>10, <2>0, <3>1
  <2>4. d2 = (x % 4) * 16 + y \div 16
    <3>1. n \div 4096 = x * 16 + y \div 16
      BY <2>0
    <3>2. (x * 16 + y \div 16) % 64 = (x % 4) * 16 + y \div 16
      BY <2>0
    <3>. QED  BY <1>11, <3>1, <3>2
  <2>5. d3 = (y % 16) * 4 + z \div 64
    <3>1. n \div 64 = x * 1024 + y * 4 + z \div 64
      BY <2>0
    <3>2. (x * 1024 + y * 4 + z \div 64) % 64 = (y % 16) * 4 + z \div 64
      BY <2>0
    <3>. QED  BY <1>12, <3>1, <3>2
  <2>6. d4 = z % 64
    BY <1>13, <2>0
  <2>7. d1 * 4 + d2 \div 16 = x
    BY <2>0, <2>3, <2>4
  <2>8. (d2 % 16) * 16 + d3 \div 4 = y
    BY <2>0, <2>4, <2>5
  <2>9. (d3 % 4) * 64 + d4 = z
    <3>1. (z \div 64) % 4 = z \div 64 /\ d3 % 4 = z \div 64
      BY <2>0, <2>5
    <3>. QED  BY <2>0, <2>6, <3>1
  <2>. QED  BY <2>01, <2>02, <2>03, <2>2, <2>7, <2>8, <2>9
<1>4. PICK c : c = Codecs!Encode64Group(b)
  OBVIOUS
<1>5. /\ c[1] = t[d1] /\ c[2] = t[d2]
      /\ c[3] = (IF Len(b) > 1 THEN t[d3] ELSE 61)
      /\ c[4] = (IF Len(b) > 2 THEN t[d4] ELSE 61)
  BY <1>3, <1>4
<1>6. /\ b[1] = d1 * 4 + d2 \div 16
      /\ Len(b) > 1 => b[2] = (d2 % 16) * 16 + d3 \div 4
      /\ Len(b) > 2 => b[3] = (d3 % 4) * 64 + d4
  BY <1>1, <1>2
<1>7. /\ d1 \in 0..63 /\ d2 \in 0..63 /\ d3 \in 0..63 /\ d4 \in 0..63
  BY <1>2
<1>8. InDigits(b, c, d1, d2, d3, d4)
  BY <1>5, <1>6, Zenon DEF t, InDigits
<1>. QED  BY <1>4, <1>7, <1>8, Zenon
(* Where encode_base64 writes the digits of a group, and where it pads.    *)
LEMMA EncodedAt ==
  ASSUME NEW b \in Seq(Byte), NEW g \in Nat, g > 0, 3 * (g - 1) < Len(b), NEW k \in 1..4
  PROVE  LET e == Codecs!encode_base64(b)
             i == 4 * (g - 1) + k
         IN  /\ i \in 1..(4 * ((Len(b) + 2) \div 3))
             /\ e[i] = Codecs!Encode64Group(Codecs!Group(b, 3, g))[k]
             /\ IF i <= Len(b) + (Len(b) + 2) \div 3 THEN Codecs!is_base64(e[i]) ELSE e[i] = 61
<1>. DEFINE e == Codecs!encode_base64(b)
            m == 4 * ((Len(b) + 2) \div 3)
            group == Codecs!Group(b, 3, g)
            c == Codecs!Encode64Group(group)
<1>1. Len(b) \in Nat
  OBVIOUS
<1>2. PICK i : i = 4 * (g - 1) + k
  OBVIOUS
<1>3. i \in 1..m /\ (i - 1) \div 4 + 1 = g /\ ((i - 1) % 4) + 1 = k
  BY <1>1, <1>2
<1>4. e[i] = c[k]
  <2>1. e[i] = Codecs!Encode64Group(Codecs!Group(b, 3, ((i - 1) \div 4) + 1))[((i - 1) % 4) + 1]
    BY <1>3, Zenon DEF Codecs!encode_base64
  <2>. QED  BY <1>3, <2>1, Zenon
<1>5. /\ Len(group) = (IF 3 * g < Len(b) THEN 3 ELSE Len(b) - 3 * (g - 1))
      /\ group \in Seq(Byte)
  BY GroupsOf3
<1>6. Len(group) \in 1..3
  <2>1. CASE 3 * g < Len(b)
    BY <1>5, <2>1
  <2>2. CASE ~(3 * g < Len(b))
    <3>1. Len(b) - 3 * (g - 1) \in 1..3
      BY <1>1, <2>2
    <3>. QED  BY <1>5, <2>2, <3>1
  <2>. QED  BY <2>1, <2>2
<1>. HIDE DEF e, m, group, c
<1>70. PICK d1, d2, d3, d4 \in 0..63 : InDigits(group, c, d1, d2, d3, d4)
  BY <1>5, <1>6, EncodedGroup, Zenon DEF c
<1>7. LET t == Codecs!BASE64_CHAR_TABLE
      IN  /\ c[1] = t[d1] /\ c[2] = t[d2]
          /\ c[3] = (IF Len(group) > 1 THEN t[d3] ELSE 61)
          /\ c[4] = (IF Len(group) > 2 THEN t[d4] ELSE 61)
  BY <1>70, Zenon DEF InDigits
<1>11. PICK l \in 1..3 : l = Len(group)
  BY <1>6
<1>8. /\ Codecs!is_base64(c[1]) /\ Codecs!is_base64(c[2])
      /\ l > 1 => Codecs!is_base64(c[3])
      /\ ~(l > 1) => c[3] = 61
      /\ l > 2 => Codecs!is_base64(c[4])
      /\ ~(l > 2) => c[4] = 61
  BY <1>7, <1>11, Codes
<1>9. IF k <= l + 1 THEN Codecs!is_base64(c[k]) ELSE c[k] = 61
  <2>1. k = 1 \/ k = 2 \/ k = 3 \/ k = 4
    OBVIOUS
  <2>. QED  BY <1>8, <2>1
<1>10. i <= Len(b) + (Len(b) + 2) \div 3 <=> k <= l + 1
  <2>1. CASE 3 * g < Len(b)
    BY <1>1, <1>2, <1>5, <1>11, <2>1
  <2>2. CASE ~(3 * g < Len(b))
    <3>1. (Len(b) + 2) \div 3 = g
      BY <1>1, <2>2
    <3>. QED  BY <1>1, <1>2, <1>5, <1>11, <2>2, <3>1
  <2>. QED  BY <2>1, <2>2
<1>. QED  BY <1>2, <1>3, <1>4, <1>9, <1>10 DEF e, m, group, c

LEMMA Encoded ==
  ASSUME NEW b \in Seq(Byte)
  PROVE  LET e == Codecs!encode_base64(b)
             m == 4 * ((Len(b) + 2) \div 3)
             n == Len(b) + (Len(b) + 2) \div 3
         IN  /\ Len(e) = m /\ n \in 0..m
             /\ \E D : e \in Seq(D)
             /\ \A i \in 1..n : Codecs!is_base64(e[i])
             /\ \A i \in n + 1..m : e[i] = 61
<1>. DEFINE e == Codecs!encode_base64(b)
            m == 4 * ((Len(b) + 2) \div 3)
            n == Len(b) + (Len(b) + 2) \div 3
            D == {e[i] : i \in 1..m}
<1>1. Len(b) \in Nat
  OBVIOUS
<1>2. m \in Nat /\ n \in 0..m
  BY <1>1
<1>3. DOMAIN e = 1..m /\ e = [i \in 1..m |-> e[i]]
  BY DEF Codecs!encode_base64
<1>4. e \in Seq(D) /\ Len(e) = m
  <2>. HIDE DEF e, m
  <2>1. e \in [1..m -> D]
    BY <1>3
  <2>. QED  BY <1>2, <2>1, FunctionIsSeq
<1>5. ASSUME NEW i \in 1..m
      PROVE  IF i <= n THEN Codecs!is_base64(e[i]) ELSE e[i] = 61
  <2>1. PICK g : g = (i - 1) \div 4 + 1
    OBVIOUS
  <2>2. PICK k : k = ((i - 1) % 4) + 1
    OBVIOUS
  <2>3. /\ g \in Nat /\ g > 0 /\ k \in 1..4 /\ i = 4 * (g - 1) + k
    BY <1>1, <1>2, <2>1, <2>2
  <2>4. 3 * (g - 1) < Len(b)
    BY <1>1, <1>2, <2>3
  <2>. HIDE DEF e, n, m
  <2>5. IF 4 * (g - 1) + k <= n THEN Codecs!is_base64(e[4 * (g - 1) + k])
        ELSE e[4 * (g - 1) + k] = 61
    <3>1. IF 4 * (g - 1) + k <= Len(b) + (Len(b) + 2) \div 3
          THEN Codecs!is_base64(Codecs!encode_base64(b)[4 * (g - 1) + k])
          ELSE Codecs!encode_base64(b)[4 * (g - 1) + k] = 61
      BY <2>3, <2>4, EncodedAt, ZenonT(60)
    <3>. QED  BY <3>1, Zenon DEF e, n
  <2>. QED  BY <2>3, <2>5, Zenon
<1>. HIDE DEF e, n, m, D
<1>6. /\ \A i \in 1..n : i \in 1..m /\ i <= n
      /\ \A i \in n + 1..m : i \in 1..m /\ ~(i <= n)
  BY <1>2
<1>. QED  BY <1>2, <1>4, <1>5, <1>6, Zenon DEF e, n, m
(* Characters that stand for l bytes: the first l + 1 of four digits.       *)
Written(c, l, d1, d2, d3, d4) ==
  /\ l \in 1..3 /\ Len(c) = l + 1
  /\ d1 \in 0..63 /\ d2 \in 0..63 /\ d3 \in 0..63 /\ d4 \in 0..63
  /\ c[1] = Codecs!BASE64_CHAR_TABLE[d1] /\ c[2] = Codecs!BASE64_CHAR_TABLE[d2]
  /\ l > 1 => c[3] = Codecs!BASE64_CHAR_TABLE[d3]
  /\ l > 2 => c[4] = Codecs!BASE64_CHAR_TABLE[d4]

(* The first l bytes of the 24 bits of four digits.                        *)
Bytes(o, l, d1, d2, d3, d4) ==
  /\ o[1] = d1 * 4 + d2 \div 16
  /\ l > 1 => o[2] = (d2 % 16) * 16 + d3 \div 4
  /\ l > 2 => o[3] = (d3 % 4) * 64 + d4

(* What decoding a group of characters makes of the digits in it.          *)
LEMMA DecodedGroup ==
  ASSUME NEW c, NEW l, NEW d1, NEW d2, NEW d3, NEW d4, Written(c, l, d1, d2, d3, d4)
  PROVE  Bytes(Codecs!Decode64Group(c), l, d1, d2, d3, d4)
<1>0. /\ l \in 1..3 /\ Len(c) = l + 1
      /\ d1 \in 0..63 /\ d2 \in 0..63 /\ d3 \in 0..63 /\ d4 \in 0..63
      /\ c[1] = Codecs!BASE64_CHAR_TABLE[d1] /\ c[2] = Codecs!BASE64_CHAR_TABLE[d2]
      /\ l > 1 => c[3] = Codecs!BASE64_CHAR_TABLE[d3]
      /\ l > 2 => c[4] = Codecs!BASE64_CHAR_TABLE[d4]
  BY DEF Written
<1>. DEFINE N(i) == IF i <= Len(c) THEN Codecs!get_base64_index(c[i]) ELSE 0
<1>1. N(1) = d1 /\ N(2) = d2 /\ (l > 1 => N(3) = d3) /\ (l > 2 => N(4) = d4)
  <2>1. /\ Codecs!get_base64_index(c[1]) = d1 /\ Codecs!get_base64_index(c[2]) = d2
        /\ l > 1 => Codecs!get_base64_index(c[3]) = d3
        /\ l > 2 => Codecs!get_base64_index(c[4]) = d4
    BY <1>0, Codes
  <2>2. 1 <= Len(c) /\ 2 <= Len(c) /\ (l > 1 => 3 <= Len(c)) /\ (l > 2 => 4 <= Len(c))
    BY <1>0
  <2>. QED  BY <2>1, <2>2, Zenon
<1>2. PICK o : o = Codecs!Decode64Group(c)
  OBVIOUS
<1>3. o = <<N(1) * 4 + N(2) \div 16, (N(2) % 16) * 16 + N(3) \div 4, (N(3) % 4) * 64 + N(4)>>
  BY <1>2, Zenon DEF Codecs!Decode64Group
<1>. HIDE DEF N
<1>4. /\ o[1] = N(1) * 4 + N(2) \div 16 /\ o[2] = (N(2) % 16) * 16 + N(3) \div 4
      /\ o[3] = (N(3) % 4) * 64 + N(4)
  BY <1>3
<1>5. /\ o[1] = d1 * 4 + d2 \div 16
      /\ l > 1 => o[2] = (d2 % 16) * 16 + d3 \div 4
      /\ l > 2 => o[3] = (d3 % 4) * 64 + d4
  BY <1>0, <1>1, <1>4, SMTT(30)
<1>. QED  BY <1>2, <1>5, Zenon DEF Bytes

LEMMA DecodedAt ==
  ASSUME NEW b \in Seq(Byte), NEW D, NEW good \in Seq(D),
         Len(good) = Len(b) + (Len(b) + 2) \div 3,
         \A i \in 1..Len(good) : good[i] = Codecs!encode_base64(b)[i],
         NEW g \in Nat, g > 0, NEW k \in 1..3, 3 * (g - 1) + k <= Len(b)
  PROVE  Codecs!Decode64Group(Codecs!Group(good, 4, g))[k] = b[3 * (g - 1) + k]
<1>. DEFINE group == Codecs!Group(b, 3, g)
            chars == Codecs!Group(good, 4, g)
            c == Codecs!Encode64Group(group)
            e == Codecs!encode_base64(b)
<1>0. Len(b) \in Nat /\ Len(good) \in Nat
  OBVIOUS
<1>1. Len(b) \in Nat /\ Len(good) \in Nat /\ 3 * (g - 1) < Len(b)
  BY <1>0
<1>2. /\ Len(group) = (IF 3 * g < Len(b) THEN 3 ELSE Len(b) - 3 * (g - 1))
      /\ group \in Seq(Byte) /\ \A x \in 1..Len(group) : group[x] = b[3 * (g - 1) + x]
  BY <1>1, GroupsOf3
<1>3. PICK l \in 1..3 : l = Len(group)
  <2>1. CASE 3 * g < Len(b)
    BY <1>2, <2>1
  <2>2. CASE ~(3 * g < Len(b))
    <3>1. Len(b) - 3 * (g - 1) \in 1..3
      BY <1>1, <2>2
    <3>. QED  BY <1>2, <2>2, <3>1
  <2>. QED  BY <2>1, <2>2
<1>4. 4 * (g - 1) < Len(good)
  BY <1>1
<1>5. /\ Len(chars) = (IF 4 * g < Len(good) THEN 4 ELSE Len(good) - 4 * (g - 1))
      /\ \A x \in 1..Len(chars) : chars[x] = good[4 * (g - 1) + x]
  BY <1>4, GroupsOf4
<1>. HIDE DEF group, chars, c, e
<1>6. Len(chars) = l + 1 /\ 4 * (g - 1) + l + 1 <= Len(good) /\ k <= l
  <2>1. CASE 3 * g < Len(b)
    <3>1. 4 * g < Len(good)
      BY <1>1, <2>1
    <3>2. l = 3
      BY <1>2, <1>3, <2>1
    <3>. QED  BY <1>1, <1>5, <3>1, <3>2
  <2>2. CASE ~(3 * g < Len(b))
    <3>1. (Len(b) + 2) \div 3 = g
      BY <1>1, <2>2
    <3>2. ~(4 * g < Len(good)) /\ Len(good) = Len(b) + g
      BY <1>1, <2>2, <3>1, SMTT(30)
    <3>3. l = Len(b) - 3 * (g - 1)
      BY <1>2, <1>3, <2>2
    <3>4. Len(chars) = Len(good) - 4 * (g - 1)
      BY <1>5, <3>2
    <3>. QED  BY <1>1, <3>2, <3>3, <3>4
  <2>. QED  BY <2>1, <2>2
<1>7. ASSUME NEW x \in 1..l + 1 PROVE chars[x] = c[x]
  <2>1. x \in 1..4 /\ x \in 1..Len(chars) /\ 4 * (g - 1) + x \in 1..Len(good)
    BY <1>1, <1>6
  <2>2. chars[x] = e[4 * (g - 1) + x]
    BY <1>5, <2>1, Zenon DEF e
  <2>3. e[4 * (g - 1) + x] = c[x]
    BY <1>1, <2>1, EncodedAt, Zenon DEF e, c, group
  <2>. QED  BY <2>2, <2>3
<1>80. PICK d1, d2, d3, d4 \in 0..63 : InDigits(group, c, d1, d2, d3, d4)
  <2>1. Len(group) \in 1..3
    BY <1>3
  <2>. QED  BY <1>2, <2>1, EncodedGroup, Zenon DEF c
<1>8. LET t == Codecs!BASE64_CHAR_TABLE
      IN  /\ c[1] = t[d1] /\ c[2] = t[d2]
          /\ c[3] = (IF Len(group) > 1 THEN t[d3] ELSE 61)
          /\ c[4] = (IF Len(group) > 2 THEN t[d4] ELSE 61)
          /\ group[1] = d1 * 4 + d2 \div 16
          /\ Len(group) > 1 => group[2] = (d2 % 16) * 16 + d3 \div 4
          /\ Len(group) > 2 => group[3] = (d3 % 4) * 64 + d4
  BY <1>80, Zenon DEF InDigits
<1>9. Written(chars, l, d1, d2, d3, d4)
  <2>1. PICK x : x = chars
    OBVIOUS
  <2>2. Len(x) = l + 1 /\ \A i \in 1..l + 1 : x[i] = c[i]
    BY <1>6, <1>7, <2>1, Zenon
  <2>3. /\ x[1] = c[1] /\ x[2] = c[2] /\ (l > 1 => x[3] = c[3]) /\ (l > 2 => x[4] = c[4])
    BY <2>2
  <2>4. /\ x[1] = Codecs!BASE64_CHAR_TABLE[d1] /\ x[2] = Codecs!BASE64_CHAR_TABLE[d2]
        /\ l > 1 => x[3] = Codecs!BASE64_CHAR_TABLE[d3]
        /\ l > 2 => x[4] = Codecs!BASE64_CHAR_TABLE[d4]
    BY <1>3, <1>8, <2>3, Zenon
  <2>5. Written(x, l, d1, d2, d3, d4)
    BY <2>2, <2>4, Zenon DEF Written
  <2>. QED  BY <2>1, <2>5, Zenon
<1>10. PICK o : o = Codecs!Decode64Group(chars)
  OBVIOUS
<1>11. Bytes(o, l, d1, d2, d3, d4)
  BY <1>9, <1>10, DecodedGroup, Zenon
<1>12. /\ o[1] = group[1] /\ (l > 1 => o[2] = group[2]) /\ (l > 2 => o[3] = group[3])
  BY <1>3, <1>8, <1>11 DEF Bytes
<1>13. o[k] = group[k]
  <2>1. k = 1 \/ k = 2 \/ k = 3
    OBVIOUS
  <2>. QED  BY <1>6, <1>12, <2>1
<1>14. group[k] = b[3 * (g - 1) + k]
  <2>1. k \in 1..l
    BY <1>6
  <2>. QED  BY <1>2, <1>3, <2>1, Zenon
<1>. QED  BY <1>10, <1>13, <1>14, Zenon DEF chars

LEMMA Base64Back ==
  ASSUME NEW b \in Seq(Byte)
  PROVE  /\ Codecs!decode_base64(Codecs!encode_base64(b)) = b
         /\ Len(Codecs!encode_base64(b)) = 4 * ((Len(b) + 2) \div 3)
<1>. DEFINE e == Codecs!encode_base64(b)
            m == 4 * ((Len(b) + 2) \div 3)
            n == Len(b) + (Len(b) + 2) \div 3
            stops == {i \in 1..Len(e) : ~Codecs!is_base64(e[i])}
            good == IF stops = {} THEN e ELSE SubSeq(e, 1, Codecs!Min(stops) - 1)
<1>1. Len(e) = m /\ n \in 0..m /\ m \in Nat /\ Len(b) \in Nat
  <2>1. Len(b) \in Nat
    OBVIOUS
  <2>2. m \in Nat
    BY <2>1
  <2>. HIDE DEF e, m, n
  <2>. QED  BY <2>1, <2>2, Encoded, Zenon DEF e, m, n
<1>2. PICK D : e \in Seq(D)
  BY Encoded, Zenon
<1>. HIDE DEF e, m, n
<1>3. /\ \A i \in 1..n : Codecs!is_base64(e[i])
      /\ \A i \in n + 1..m : e[i] = 61
  BY Encoded, Zenon DEF e, m, n
<1>4. ~Codecs!is_base64(61)
  BY DEF Codecs!is_base64, Codecs!Uppers, Codecs!Lowers, Codecs!Digits, Codecs!Plus, Codecs!Slash
<1>5. \A i : i \in stops <=> i \in n + 1..m
  BY <1>1, <1>3, <1>4
<1>6. good \in Seq(D) /\ Len(good) = n /\ \A i \in 1..Len(good) : good[i] = e[i]
  <2>1. CASE n = m
    <3>1. stops = {}
      BY <1>1, <1>5, <2>1
    <3>. QED  BY <1>1, <1>2, <2>1, <3>1
  <2>2. CASE n # m
    <3>1. n + 1 \in stops /\ \A i \in stops : n + 1 <= i /\ i \in Int
      BY <1>1, <1>5, <2>2
    <3>. HIDE DEF stops
    <3>2. Codecs!Min(stops) = n + 1
      BY <1>1, <3>1 DEF Codecs!Min
    <3>3. good = SubSeq(e, 1, n) /\ n \in Nat /\ n <= Len(e)
      BY <1>1, <3>1, <3>2
    <3>4. /\ SubSeq(e, 1, n) \in Seq(D) /\ Len(SubSeq(e, 1, n)) = n
          /\ \A i \in 1..n : SubSeq(e, 1, n)[i] = e[i]
      BY <1>2, <3>3
    <3>. QED  BY <3>3, <3>4, Zenon
  <2>. QED  BY <2>1, <2>2
<1>. DEFINE d == [j \in 1..((3 * Len(good)) \div 4) |->
                   Codecs!Decode64Group(Codecs!Group(good, 4, ((j - 1) \div 3) + 1))
                     [((j - 1) % 3) + 1]]
<1>7. Codecs!decode_base64(e) = d
  BY Zenon DEF Codecs!decode_base64
<1>. HIDE DEF stops, good
<1>8. (3 * Len(good)) \div 4 = Len(b)
  BY <1>1, <1>6 DEF n
<1>9. DOMAIN d = 1..Len(b)
  BY <1>8
<1>10. ASSUME NEW j \in 1..Len(b) PROVE d[j] = b[j]
  <2>1. PICK g : g = (j - 1) \div 3 + 1
    OBVIOUS
  <2>2. PICK k : k = ((j - 1) % 3) + 1
    OBVIOUS
  <2>3. g \in Nat /\ g > 0 /\ k \in 1..3 /\ 3 * (g - 1) + k = j
    BY <1>1, <2>1, <2>2
  <2>4. d[j] = Codecs!Decode64Group(Codecs!Group(good, 4, g))[k]
    BY <1>8, <2>1, <2>2, Zenon
  <2>5. 3 * (g - 1) + k <= Len(b)
    BY <2>3
  <2>6. Codecs!Decode64Group(Codecs!Group(good, 4, g))[k] = b[3 * (g - 1) + k]
    BY <1>6, <2>3, <2>5, DecodedAt, Zenon DEF n, e
  <2>. QED  BY <2>3, <2>4, <2>6, Zenon
<1>. HIDE DEF d
<1>11. d = b
  <2>1. b = [j \in 1..Len(b) |-> b[j]]
    OBVIOUS
  <2>2. d = [j \in 1..Len(b) |-> d[j]]
    BY <1>9, Zenon DEF d
  <2>. QED  BY <1>10, <2>1, <2>2
<1>. QED  BY <1>1, <1>7, <1>11, Zenon DEF e, m

-----------------------------------------------------------------------------
(* Codecs: hexadecimal text and URL encoding.                              *)

LEMMA HexDigits ==
  ASSUME NEW n \in 0..15
  PROVE  /\ Codecs!HexDigit(n) \in 48..57 \cup 65..70
         /\ Codecs!from_hex_char(Codecs!HexDigit(n)) = n
         /\ Codecs!from_hex_char(Codecs!ToLower(Codecs!HexDigit(n))) = n
<1>. USE DEF Codecs!HexDigit, Codecs!from_hex_char, Codecs!ToLower, Codecs!Zero, Codecs!UpperA,
             Codecs!LowerA, Codecs!Digits, Codecs!Uppers
<1>1. CASE n < 10
  <2>1. Codecs!HexDigit(n) = 48 + n
    BY <1>1
  <2>. QED  BY <1>1, <2>1
<1>2. CASE n >= 10
  <2>1. Codecs!HexDigit(n) = 55 + n
    BY <1>2
  <2>. QED  BY <1>2, <2>1
<1>. QED  BY <1>1, <1>2

LEMMA Halves ==
  ASSUME NEW n \in Nat, NEW i \in 1..2 * n
  PROVE  \E j \in 1..n : i = 2 * j - 1 \/ i = 2 * j
<1>1. PICK j : j = (i + 1) \div 2
  OBVIOUS
<1>2. j \in 1..n /\ (i = 2 * j - 1 \/ i = 2 * j)
  BY <1>1
<1>. QED  BY <1>2

(* Text of two digits for each byte, its high half first, is read back.    *)
LEMMA HexRead ==
  ASSUME NEW b \in Seq(Byte), NEW h \in Seq(Int), Len(h) = 2 * Len(b),
         \A j \in 1..Len(b) : /\ Codecs!from_hex_char(h[2 * j - 1]) = b[j] \div 16
                              /\ Codecs!from_hex_char(h[2 * j]) = b[j] % 16
  PROVE  Codecs!hex_string_to_binary(h) = {b}
<1>1. PICK n \in Nat : n = Len(b)
  OBVIOUS
<1>2. DOMAIN h = 1..2 * n /\ Len(h) % 2 = 0 /\ Len(h) \div 2 = n
  BY <1>1
<1>3. \A j \in 1..n : b[j] \in Byte
  BY <1>1
<1>4. ASSUME NEW i \in DOMAIN h PROVE Codecs!from_hex_char(h[i]) # -1
  <2>1. PICK j \in 1..n : i = 2 * j - 1 \/ i = 2 * j
    <3>1. i \in 1..2 * n
      BY <1>2
    <3>. QED  BY <3>1, Halves
  <2>2. b[j] \div 16 # -1 /\ b[j] % 16 # -1
    <3>1. PICK x \in Byte : x = b[j]
      BY <1>3
    <3>2. x \div 16 # -1 /\ x % 16 # -1
      BY DEF Byte
    <3>. QED  BY <3>1, <3>2
  <2>3. /\ Codecs!from_hex_char(h[2 * j - 1]) = b[j] \div 16
        /\ Codecs!from_hex_char(h[2 * j]) = b[j] % 16
    BY <1>1
  <2>. QED  BY <2>1, <2>2, <2>3
<1>. DEFINE d == [i \in 1..Len(h) \div 2 |->
                   Codecs!from_hex_char(h[2 * i - 1]) * 16 + Codecs!from_hex_char(h[2 * i])]
<1>5. Codecs!hex_string_to_binary(h) = {d}
  <2>1. ~(Len(h) % 2 # 0 \/ \E i \in DOMAIN h : Codecs!from_hex_char(h[i]) = -1)
    BY <1>2, <1>4
  <2>. QED  BY <2>1, Zenon DEF Codecs!hex_string_to_binary
<1>6. ASSUME NEW j \in 1..n PROVE d[j] = b[j]
  <2>1. d[j] = Codecs!from_hex_char(h[2 * j - 1]) * 16 + Codecs!from_hex_char(h[2 * j])
    BY <1>2
  <2>2. d[j] = (b[j] \div 16) * 16 + (b[j] % 16)
    BY <1>1, <2>1
  <2>3. PICK x \in Byte : x = b[j]
    BY <1>3
  <2>4. (x \div 16) * 16 + (x % 16) = x
    BY DEF Byte
  <2>. QED  BY <2>2, <2>3, <2>4
<1>7. d = b
  <2>1. b = [j \in 1..n |-> b[j]]
    BY <1>1
  <2>2. d = [j \in 1..n |-> d[j]]
    BY <1>2
  <2>. HIDE DEF d
  <2>. QED  BY <1>6, <2>1, <2>2
<1>. QED  BY <1>5, <1>7, Zenon

LEMMA HexBack ==
  ASSUME NEW b \in Seq(Byte)
  PROVE  LET hex == Codecs!binary_to_hex_string(b)
         IN  /\ Codecs!hex_string_to_binary(hex) = {b}
             /\ Codecs!hex_string_to_binary([i \in DOMAIN hex |-> Codecs!ToLower(hex[i])]) = {b}
<1>. DEFINE hex == Codecs!binary_to_hex_string(b)
            low == [i \in DOMAIN hex |-> Codecs!ToLower(hex[i])]
            D == 48..57 \cup 65..70
<1>1. PICK n \in Nat : n = Len(b)
  OBVIOUS
<1>2. \A j \in 1..n : b[j] \in Byte
  BY <1>1
<1>3. DOMAIN hex = 1..2 * n /\ hex = [i \in 1..2 * n |-> hex[i]]
  BY <1>1 DEF Codecs!binary_to_hex_string
<1>4. ASSUME NEW j \in 1..n
      PROVE  /\ hex[2 * j - 1] = Codecs!HexDigit(b[j] \div 16)
             /\ hex[2 * j] = Codecs!HexDigit(b[j] % 16)
             /\ b[j] \div 16 \in 0..15 /\ b[j] % 16 \in 0..15
  <2>1. /\ 2 * j - 1 \in 1..2 * n /\ ((2 * j - 1) + 1) \div 2 = j /\ (2 * j - 1) % 2 = 1
        /\ 2 * j \in 1..2 * n /\ (2 * j + 1) \div 2 = j /\ (2 * j) % 2 # 1
    OBVIOUS
  <2>2. ASSUME NEW i \in 1..2 * n
        PROVE  hex[i] = Codecs!HexDigit(IF i % 2 = 1 THEN b[(i + 1) \div 2] \div 16
                                        ELSE b[(i + 1) \div 2] % 16)
    BY <1>1, Zenon DEF Codecs!binary_to_hex_string
  <2>. HIDE DEF hex
  <2>3. hex[2 * j - 1] = Codecs!HexDigit(b[j] \div 16)
    BY <2>1, <2>2, Zenon
  <2>4. hex[2 * j] = Codecs!HexDigit(b[j] % 16)
    BY <2>1, <2>2, Zenon
  <2>5. PICK x \in Byte : x = b[j]
    BY <1>2
  <2>6. x \div 16 \in 0..15 /\ x % 16 \in 0..15
    BY DEF Byte
  <2>. QED  BY <2>3, <2>4, <2>5, <2>6
<1>. HIDE DEF hex
<1>5. ASSUME NEW j \in 1..n
      PROVE  /\ hex[2 * j - 1] \in D /\ hex[2 * j] \in D
             /\ Codecs!from_hex_char(hex[2 * j - 1]) = b[j] \div 16
             /\ Codecs!from_hex_char(hex[2 * j]) = b[j] % 16
             /\ Codecs!from_hex_char(Codecs!ToLower(hex[2 * j - 1])) = b[j] \div 16
             /\ Codecs!from_hex_char(Codecs!ToLower(hex[2 * j])) = b[j] % 16
  <2>1. PICK x \in 0..15 : x = b[j] \div 16
    BY <1>4
  <2>2. PICK y \in 0..15 : y = b[j] % 16
    BY <1>4
  <2>3. hex[2 * j - 1] = Codecs!HexDigit(x) /\ hex[2 * j] = Codecs!HexDigit(y)
    BY <1>4, <2>1, <2>2
  <2>. QED  BY <2>1, <2>2, <2>3, HexDigits, Zenon
<1>6. ASSUME NEW i \in 1..2 * n PROVE hex[i] \in D
  <2>2. PICK j \in 1..n : i = 2 * j - 1 \/ i = 2 * j
    BY Halves
  <2>. HIDE DEF D
  <2>3. hex[2 * j - 1] \in D /\ hex[2 * j] \in D
    BY <1>5, <2>2, Zenon
  <2>. QED  BY <2>2, <2>3, Zenon
<1>7. ASSUME NEW c \in D PROVE c \in Int /\ Codecs!ToLower(c) \in Int
  BY DEF Codecs!ToLower, Codecs!Uppers, Codecs!LowerA, Codecs!UpperA
<1>8. hex \in Seq(Int) /\ Len(hex) = 2 * n
  <2>1. hex \in [1..2 * n -> Int]
    <3>1. \A i \in 1..2 * n : hex[i] \in Int
      BY <1>6, <1>7
    <3>. QED  BY <1>3, <3>1, Zenon
  <2>. QED  BY <2>1, FunctionIsSeq
<1>9. low \in Seq(Int) /\ Len(low) = 2 * n
  <2>. HIDE DEF D
  <2>1. low \in [1..2 * n -> Int]
    BY <1>3, <1>6, <1>7, Zenon
  <2>. HIDE DEF low
  <2>. QED  BY <2>1, FunctionIsSeq
<1>10. ASSUME NEW j \in 1..n
       PROVE  /\ low[2 * j - 1] = Codecs!ToLower(hex[2 * j - 1])
              /\ low[2 * j] = Codecs!ToLower(hex[2 * j])
  <2>1. 2 * j - 1 \in 1..2 * n /\ 2 * j \in 1..2 * n
    OBVIOUS
  <2>. QED  BY <1>3, <2>1, Zenon
<1>. HIDE DEF low
<1>11. Codecs!hex_string_to_binary(hex) = {b}
  BY <1>1, <1>5, <1>8, HexRead
<1>12. Codecs!hex_string_to_binary(low) = {b}
  <2>1. \A j \in 1..Len(b) : /\ Codecs!from_hex_char(low[2 * j - 1]) = b[j] \div 16
                             /\ Codecs!from_hex_char(low[2 * j]) = b[j] % 16
    BY <1>1, <1>5, <1>10, Zenon
  <2>2. Len(low) = 2 * Len(b)
    BY <1>1, <1>9
  <2>. QED  BY <1>9, <2>1, <2>2, HexRead, Zenon
<1>. QED  BY <1>11, <1>12, Zenon DEF hex, low

LEMMA HexNumbers ==
  ASSUME NEW c \in Int, NEW d \in Int
  PROVE  Codecs!from_hex_char(c) \in Int /\ Codecs!Strtol(c, d) \in Int
<1>1. ASSUME NEW x \in Int PROVE Codecs!from_hex_char(x) \in Int
  <2>1. 48..57 \subseteq Int /\ 65..70 \subseteq Int /\ 97..122 \subseteq Int
    OBVIOUS
  <2>2. x - 48 \in Int /\ x - 65 + 10 \in Int /\ x - 97 + 10 \in Int /\ -1 \in Int
    OBVIOUS
  <2>. QED  BY <2>2, Zenon DEF Codecs!from_hex_char, Codecs!Zero, Codecs!UpperA, Codecs!LowerA
<1>. QED  BY <1>1 DEF Codecs!Strtol

(* A byte as it is, or as an escape that the decoder reads back; a byte    *)
(* that is written as it is means nothing to the decoder.                  *)
LEMMA UrlCodes ==
  ASSUME NEW x \in Byte
  PROVE  \/ Codecs!UrlCode(x) = <<x>> /\ x # 37 /\ x # 43
         \/ \E a, c \in Int : Codecs!UrlCode(x) = <<37, a, c>> /\ Codecs!Strtol(a, c) = x
<1>1. CASE Codecs!Unreserved(x)
  <2>1. x # 37 /\ x # 43
    BY <1>1 DEF Codecs!Unreserved, Codecs!Digits, Codecs!Uppers, Codecs!Lowers
  <2>. QED  BY <1>1, <2>1, Zenon DEF Codecs!UrlCode
<1>2. CASE ~Codecs!Unreserved(x)
  <2>1. x \div 16 \in 0..15 /\ x % 16 \in 0..15 /\ (x \div 16) * 16 + (x % 16) = x
    BY DEF Byte
  <2>2. PICK h \in 0..15 : h = x \div 16
    BY <2>1
  <2>3. PICK l \in 0..15 : l = x % 16
    BY <2>1
  <2>4. h * 16 + l = x
    BY <2>1, <2>2, <2>3, Zenon
  <2>5. /\ Codecs!HexDigit(h) \in Int /\ Codecs!HexDigit(l) \in Int
        /\ Codecs!from_hex_char(Codecs!HexDigit(h)) = h
        /\ Codecs!from_hex_char(Codecs!HexDigit(l)) = l
    BY HexDigits
  <2>6. Codecs!Strtol(Codecs!HexDigit(h), Codecs!HexDigit(l)) = x
    BY <2>4, <2>5, Zenon DEF Codecs!Strtol
  <2>7. Codecs!UrlCode(x) = <<37, Codecs!HexDigit(h), Codecs!HexDigit(l)>>
    BY <1>2, <2>2, <2>3, Zenon DEF Codecs!UrlCode, Codecs!Percent
  <2>. QED  BY <2>5, <2>6, <2>7, Zenon
<1>. QED  BY <1>1, <1>2

LEMMA UrlTyped == ASSUME NEW x \in Byte PROVE Codecs!UrlCode(x) \in Seq(Int)
<1>1. x \in Int /\ 37 \in Int
  BY DEF Byte
<1>2. CASE Codecs!UrlCode(x) = <<x>>
  BY <1>1, <1>2
<1>3. ASSUME NEW a \in Int, NEW c \in Int, Codecs!UrlCode(x) = <<37, a, c>>
      PROVE  Codecs!UrlCode(x) \in Seq(Int)
  BY <1>3
<1>. QED  BY <1>2, <1>3, UrlCodes

(* The rounds of url_encode's loop.                                        *)
LEMMA UrlTexts ==
  ASSUME NEW b \in Seq(Byte)
  PROVE  \E g \in [0..Len(b) -> Seq(Int)] :
           /\ g[0] = << >>
           /\ \A i \in 1..Len(b) : g[i] = g[i - 1] \o Codecs!UrlCode(b[i])
           /\ Codecs!url_encode(b) = g[Len(b)]
<1>. DEFINE P(h) == h = [i \in 0..Len(b) |-> IF i = 0 THEN << >>
                                             ELSE h[i - 1] \o Codecs!UrlCode(b[i])]
<1>1. PICK n \in Nat : n = Len(b)
  OBVIOUS
<1>2. \A i \in 1..n : b[i] \in Byte /\ Codecs!UrlCode(b[i]) \in Seq(Int)
  BY <1>1, UrlTyped
<1>3. PICK F : F = [i \in 1..n |-> [t \in Seq(Int) |-> t \o Codecs!UrlCode(b[i])]]
  OBVIOUS
<1>4. F \in [1..n -> [Seq(Int) -> Seq(Int)]] /\ << >> \in Seq(Int)
  <2>1. ASSUME NEW s \in Seq(Int), NEW t \in Seq(Int) PROVE t \o s \in Seq(Int)
    OBVIOUS
  <2>. QED  BY <1>2, <1>3, <2>1
<1>50. States(Seq(Int), << >>, n, F) # {}
  <2>1. F \in Rounds(Seq(Int), n)
    BY <1>4, Zenon DEF Rounds
  <2>. QED  BY <1>4, <2>1, Iterates, Zenon
<1>5. PICK g \in [0..n -> Seq(Int)] :
        g[0] = << >> /\ \A i \in 1..n : g[i] = F[i][g[i - 1]]
  BY <1>50, Zenon DEF States
<1>6. ASSUME NEW i \in 1..n PROVE g[i] = g[i - 1] \o Codecs!UrlCode(b[i])
  <2>1. i - 1 \in 0..n
    OBVIOUS
  <2>2. g[i - 1] \in Seq(Int)
    BY <2>1
  <2>. QED  BY <1>3, <1>5, <2>2, Zenon
<1>7. P(g)
  <2>1. ASSUME NEW i \in 0..n
        PROVE  g[i] = IF i = 0 THEN << >> ELSE g[i - 1] \o Codecs!UrlCode(b[i])
    <3>1. CASE i = 0
      BY <1>5, <3>1
    <3>2. CASE i # 0
      <4>1. i \in 1..n
        BY <3>2
      <4>. QED  BY <1>6, <3>2, <4>1, Zenon
    <3>. QED  BY <3>1, <3>2
  <2>2. g = [i \in 0..n |-> g[i]]
    OBVIOUS
  <2>3. g = [i \in 0..n |-> IF i = 0 THEN << >> ELSE g[i - 1] \o Codecs!UrlCode(b[i])]
    BY <2>1, <2>2, Zenon
  <2>. QED  BY <1>1, <2>3, Zenon
<1>8. PICK h : h = (CHOOSE x : P(x))
  OBVIOUS
<1>9. P(h)
  <2>. HIDE DEF P
  <2>. QED  BY <1>7, <1>8, Zenon
<1>10. Codecs!url_encode(b) = h[n]
  BY <1>1, <1>8, Zenon DEF Codecs!url_encode, Codecs!Loop
<1>11. DOMAIN h = 0..n /\ h[0] = << >> /\ h = [i \in 0..n |-> h[i]]
  BY <1>1, <1>9
<1>12. ASSUME NEW i \in 1..n PROVE h[i] = h[i - 1] \o Codecs!UrlCode(b[i])
  <2>1. i \in 0..n /\ i # 0
    OBVIOUS
  <2>. QED  BY <1>1, <1>9, <2>1, Zenon
<1>13. \A i \in 0..n : h[i] \in Seq(Int)
  <2>. DEFINE S == {i \in Nat : i <= n => h[i] \in Seq(Int)}
  <2>1. 0 \in S
    BY <1>4, <1>11
  <2>2. ASSUME NEW i \in Nat, i \in S PROVE i + 1 \in S
    <3>1. SUFFICES ASSUME i + 1 <= n PROVE h[i + 1] \in Seq(Int)
      OBVIOUS
    <3>2. h[i] \in Seq(Int) /\ i + 1 \in 1..n /\ (i + 1) - 1 = i
      BY <2>2, <3>1
    <3>3. Codecs!UrlCode(b[i + 1]) \in Seq(Int)
      BY <1>2, <3>2
    <3>4. h[i + 1] = h[i] \o Codecs!UrlCode(b[i + 1])
      BY <1>12, <3>2, Zenon
    <3>. QED  BY <3>2, <3>3, <3>4
  <2>. HIDE DEF S
  <2>3. Nat \subseteq S
    BY <2>1, <2>2, SetInduction
  <2>. QED  BY <2>3 DEF S
<1>. HIDE DEF P
<1>14. h \in [0..n -> Seq(Int)]
  BY <1>11, <1>13, Zenon
<1>. QED  BY <1>1, <1>10, <1>11, <1>12, <1>14, Zenon

UrlState == [out : Seq(Int), skip : Nat]

LEMMA UnescapeTyped ==
  ASSUME NEW v \in Seq(Int), NEW t \in UrlState, NEW i \in 1..Len(v)
  PROVE  Codecs!Unescape(v, t, i) \in UrlState
<1>1. t.out \in Seq(Int) /\ t.skip \in Nat /\ v[i] \in Int
  BY DEF UrlState
<1>2. ASSUME NEW o \in Seq(Int), NEW k \in Nat PROVE [out |-> o, skip |-> k] \in UrlState
  BY DEF UrlState
<1>3. ASSUME NEW x \in Int PROVE Append(t.out, x) \in Seq(Int)
  BY <1>1
<1>4. CASE t.skip > 0
  <2>1. Codecs!Unescape(v, t, i) = [t EXCEPT !.skip = t.skip - 1]
    BY <1>4, Zenon DEF Codecs!Unescape
  <2>2. t.skip - 1 \in Nat
    BY <1>1, <1>4
  <2>. QED  BY <2>1, <2>2 DEF UrlState
<1>5. CASE ~(t.skip > 0) /\ v[i] = Codecs!Percent /\ i + 2 <= Len(v)
  <2>1. v[i + 1] \in Int /\ v[i + 2] \in Int
    BY <1>5
  <2>2. Codecs!Strtol(v[i + 1], v[i + 2]) \in Int
    BY <2>1, HexNumbers
  <2>3. Codecs!Unescape(v, t, i)
          = [out |-> Append(t.out, Codecs!Strtol(v[i + 1], v[i + 2])), skip |-> 2]
    BY <1>5, Zenon DEF Codecs!Unescape
  <2>4. 2 \in Nat
    OBVIOUS
  <2>. QED  BY <1>2, <1>3, <2>2, <2>3, <2>4, Zenon
<1>6. CASE ~(t.skip > 0) /\ ~(v[i] = Codecs!Percent /\ i + 2 <= Len(v))
  <2>1. (IF v[i] = Codecs!Plus THEN Codecs!Space ELSE v[i]) \in Int
    BY <1>1 DEF Codecs!Space
  <2>2. Codecs!Unescape(v, t, i)
          = [out |-> Append(t.out, IF v[i] = Codecs!Plus THEN Codecs!Space ELSE v[i]),
             skip |-> 0]
    BY <1>6, Zenon DEF Codecs!Unescape
  <2>4. 0 \in Nat
    OBVIOUS
  <2>. QED  BY <1>2, <1>3, <2>1, <2>2, <2>4, Zenon
<1>. QED  BY <1>4, <1>5, <1>6

(* The rounds of url_decode's loop.                                        *)
LEMMA UrlReads ==
  ASSUME NEW v \in Seq(Int)
  PROVE  \E h : /\ h[0] = [out |-> << >>, skip |-> 0]
                /\ \A i \in 1..Len(v) : h[i] = Codecs!Unescape(v, h[i - 1], i)
                /\ Codecs!url_decode(v) = h[Len(v)].out
<1>. DEFINE start == [out |-> << >>, skip |-> 0]
            P(h) == h = [i \in 0..Len(v) |-> IF i = 0 THEN start
                                             ELSE Codecs!Unescape(v, h[i - 1], i)]
<1>1. PICK n \in Nat : n = Len(v)
  OBVIOUS
<1>3. PICK F : F = [i \in 1..n |-> [t \in UrlState |-> Codecs!Unescape(v, t, i)]]
  OBVIOUS
<1>4. F \in [1..n -> [UrlState -> UrlState]] /\ start \in UrlState
  <2>1. ASSUME NEW i \in 1..n, NEW t \in UrlState PROVE Codecs!Unescape(v, t, i) \in UrlState
    BY <1>1, UnescapeTyped
  <2>2. << >> \in Seq(Int)
    OBVIOUS
  <2>3. start \in UrlState
    BY <2>2 DEF UrlState
  <2>. HIDE DEF start
  <2>. QED  BY <1>3, <2>1, <2>3, Zenon
<1>. HIDE DEF start
<1>50. States(UrlState, start, n, F) # {}
  <2>1. F \in Rounds(UrlState, n)
    BY <1>4, Zenon DEF Rounds
  <2>. QED  BY <1>4, <2>1, Iterates, Zenon
<1>5. PICK g \in [0..n -> UrlState] :
        g[0] = start /\ \A i \in 1..n : g[i] = F[i][g[i - 1]]
  BY <1>50, Zenon DEF States
<1>6. ASSUME NEW i \in 1..n PROVE g[i] = Codecs!Unescape(v, g[i - 1], i)
  <2>1. i - 1 \in 0..n
    OBVIOUS
  <2>2. g[i - 1] \in UrlState
    BY <2>1
  <2>. QED  BY <1>3, <1>5, <2>2, Zenon
<1>7. P(g)
  <2>1. ASSUME NEW i \in 0..n
        PROVE  g[i] = IF i = 0 THEN start ELSE Codecs!Unescape(v, g[i - 1], i)
    <3>1. CASE i = 0
      BY <1>5, <3>1
    <3>2. CASE i # 0
      <4>1. i \in 1..n
        BY <3>2
      <4>. QED  BY <1>6, <3>2, <4>1, Zenon
    <3>. QED  BY <3>1, <3>2
  <2>2. g = [i \in 0..n |-> g[i]]
    OBVIOUS
  <2>3. g = [i \in 0..n |-> IF i = 0 THEN start ELSE Codecs!Unescape(v, g[i - 1], i)]
    BY <2>1, <2>2, Zenon
  <2>. QED  BY <1>1, <2>3, Zenon
<1>8. PICK h : h = (CHOOSE x : P(x))
  OBVIOUS
<1>9. P(h)
  <2>. HIDE DEF P
  <2>. QED  BY <1>7, <1>8, Zenon
<1>10. Codecs!url_decode(v) = h[n].out
  BY <1>1, <1>8, Zenon DEF Codecs!url_decode, Codecs!Loop, start
<1>11. h[0] = start
  <2>1. 0 \in 0..n
    OBVIOUS
  <2>. QED  BY <1>1, <1>9, <2>1, Zenon
<1>12. ASSUME NEW i \in 1..n PROVE h[i] = Codecs!Unescape(v, h[i - 1], i)
  <2>1. i \in 0..n /\ i # 0
    OBVIOUS
  <2>. QED  BY <1>1, <1>9, <2>1, Zenon
<1>. QED  BY <1>1, <1>10, <1>11, <1>12, Zenon DEF start

(* A round of url_decode at a byte as it is, at an escape, and within one. *)
LEMMA UnescapePlain ==
  ASSUME NEW v, NEW o, NEW i, v[i] # 37, v[i] # 43, NEW t, t = [out |-> o, skip |-> 0]
  PROVE  Codecs!Unescape(v, t, i) = [out |-> Append(o, v[i]), skip |-> 0]
<1>1. t.out = o /\ ~(t.skip > 0)
  OBVIOUS
<1>. QED  BY <1>1, Zenon DEF Codecs!Unescape, Codecs!Percent, Codecs!Plus

LEMMA UnescapeCode ==
  ASSUME NEW v, NEW o, NEW i, v[i] = 37, i + 2 <= Len(v), NEW t, t = [out |-> o, skip |-> 0]
  PROVE  Codecs!Unescape(v, t, i)
           = [out |-> Append(o, Codecs!Strtol(v[i + 1], v[i + 2])), skip |-> 2]
<1>1. t.out = o /\ ~(t.skip > 0)
  OBVIOUS
<1>. QED  BY <1>1, Zenon DEF Codecs!Unescape, Codecs!Percent

LEMMA UnescapeRest ==
  ASSUME NEW v, NEW o, NEW i, NEW t
  PROVE  /\ t = [out |-> o, skip |-> 2] => Codecs!Unescape(v, t, i) = [out |-> o, skip |-> 1]
         /\ t = [out |-> o, skip |-> 1] => Codecs!Unescape(v, t, i) = [out |-> o, skip |-> 0]
<1>1. ASSUME NEW k \in 1..2, t = [out |-> o, skip |-> k]
      PROVE  Codecs!Unescape(v, t, i) = [out |-> o, skip |-> k - 1]
  <2>1. t.skip = k /\ t.skip > 0
    BY <1>1
  <2>2. Codecs!Unescape(v, t, i) = [t EXCEPT !.skip = k - 1]
    BY <2>1, Zenon DEF Codecs!Unescape
  <2>3. [t EXCEPT !.skip = k - 1] = [out |-> o, skip |-> k - 1]
    BY <1>1
  <2>. QED  BY <2>2, <2>3
<1>2. 2 \in 1..2 /\ 1 \in 1..2 /\ 2 - 1 = 1 /\ 1 - 1 = 0
  OBVIOUS
<1>3. ASSUME t = [out |-> o, skip |-> 2]
      PROVE  Codecs!Unescape(v, t, i) = [out |-> o, skip |-> 2 - 1]
  BY <1>1, <1>2, <1>3, Zenon
<1>4. ASSUME t = [out |-> o, skip |-> 1]
      PROVE  Codecs!Unescape(v, t, i) = [out |-> o, skip |-> 1 - 1]
  BY <1>1, <1>2, <1>4, Zenon
<1>. QED  BY <1>2, <1>3, <1>4, Zenon

LEMMA UrlBack ==
  ASSUME NEW b \in Seq(Byte) PROVE Codecs!url_decode(Codecs!url_encode(b)) = b
<1>1. PICK n \in Nat : n = Len(b)
  OBVIOUS
<1>2. PICK g \in [0..n -> Seq(Int)] :
        /\ g[0] = << >>
        /\ \A i \in 1..n : g[i] = g[i - 1] \o Codecs!UrlCode(b[i])
        /\ Codecs!url_encode(b) = g[n]
  BY <1>1, UrlTexts, Zenon
<1>3. PICK v \in Seq(Int) : v = g[n]
  OBVIOUS
<1>4. PICK h : /\ h[0] = [out |-> << >>, skip |-> 0]
               /\ \A i \in 1..Len(v) : h[i] = Codecs!Unescape(v, h[i - 1], i)
               /\ Codecs!url_decode(v) = h[Len(v)].out
  BY UrlReads
<1>5. PICK c : c = [i \in 1..n |-> Codecs!UrlCode(b[i])]
  OBVIOUS
<1>6. \A i \in 1..n : b[i] \in Byte
  BY <1>1
<1>7. c \in [1..n -> Seq(Int)] /\ \A i \in 1..n : g[i] = g[i - 1] \o c[i]
  <2>1. \A i \in 1..n : Codecs!UrlCode(b[i]) \in Seq(Int)
    BY <1>6, UrlTyped
  <2>2. c \in [1..n -> Seq(Int)]
    BY <1>5, <2>1, Zenon
  <2>. QED  BY <1>2, <1>5, <2>2, Zenon
<1>. DEFINE Read(i) == h[Len(g[i])] = [out |-> SubSeq(b, 1, i), skip |-> 0]
            S == {i \in Nat : i <= n => Read(i)}
<1>8. 0 \in S
  <2>1. Len(g[0]) = 0 /\ SubSeq(b, 1, 0) = << >>
    BY <1>2
  <2>. QED  BY <1>4, <2>1
<1>9. ASSUME NEW i \in Nat, i \in S PROVE i + 1 \in S
  <2>1. SUFFICES ASSUME i + 1 <= n PROVE Read(i + 1)
    OBVIOUS
  <2>2. i \in 0..n /\ i + 1 \in 1..n /\ (i + 1) - 1 = i /\ i + 1 \in 0..n /\ i <= n
    BY <2>1
  <2>3. Read(i)
    BY <1>9, <2>2, Zenon
  <2>. HIDE DEF S
  <2>4. PICK o : o = SubSeq(b, 1, i)
    OBVIOUS
  <2>5. PICK x \in Byte : x = b[i + 1]
    BY <1>6, <2>2
  <2>6. SubSeq(b, 1, i + 1) = Append(o, x)
    BY <1>1, <2>2, <2>4, <2>5
  <2>7. PICK a \in Seq(Int) : a = g[i]
    BY <2>2
  <2>8. PICK e \in Seq(Int) : e = Codecs!UrlCode(x)
    BY UrlTyped
  <2>9. g[i + 1] = a \o e
    BY <1>2, <2>2, <2>5, <2>7, <2>8, Zenon
  <2>10. PICK l \in Nat : l = Len(a)
    OBVIOUS
  <2>11. Len(g[i + 1]) = l + Len(e) /\ \A j \in 1..Len(e) : g[i + 1][l + j] = e[j]
    <3>1. Len(a \o e) = Len(a) + Len(e) /\ \A j \in 1..Len(e) : (a \o e)[Len(a) + j] = e[j]
      BY Concatenated
    <3>. QED  BY <2>9, <2>10, <3>1, Zenon
  <2>12. /\ Len(g[i + 1]) <= Len(v)
         /\ \A j \in 1..Len(g[i + 1]) : v[j] = g[i + 1][j]
    <3>1. Pieces(Int, n, g, c)
      BY <1>7, Zenon DEF Pieces
    <3>2. Begins(g[i + 1], g[n])
      BY <2>2, <3>1, Grows
    <3>. QED  BY <1>3, <3>2, Zenon DEF Begins
  <2>13. h[l] = [out |-> o, skip |-> 0]
    BY <2>3, <2>4, <2>7, <2>10, Zenon
  <2>. HIDE DEF Read
  <2>14. PICK k \in Nat : k = Len(v)
    OBVIOUS
  <2>15. CASE e = <<x>> /\ x # 37 /\ x # 43
    <3>1. Len(e) = 1 /\ e[1] = x
      BY <2>15
    <3>2. Len(g[i + 1]) = l + 1 /\ g[i + 1][l + 1] = x
      BY <2>11, <3>1
    <3>3. l + 1 \in 1..l + 1 /\ (l + 1) - 1 = l
      BY <2>10
    <3>4. v[l + 1] = x
      BY <2>12, <3>2, <3>3, Zenon
    <3>5. l + 1 \in 1..Len(v)
      BY <2>12, <2>14, <3>2
    <3>6. h[l + 1] = Codecs!Unescape(v, h[l], l + 1)
      BY <1>4, <3>3, <3>5, Zenon
    <3>7. h[l + 1] = [out |-> Append(o, x), skip |-> 0]
      <4>1. v[l + 1] # 37 /\ v[l + 1] # 43
        BY <2>15, <3>4
      <4>. QED  BY <2>13, <3>4, <3>6, <4>1, UnescapePlain, Zenon
    <3>. QED  BY <2>6, <3>2, <3>7, Zenon DEF Read
  <2>16. ASSUME NEW p1 \in Int, NEW p2 \in Int, e = <<37, p1, p2>>, Codecs!Strtol(p1, p2) = x
         PROVE  Read(i + 1)
    <3>1. Len(e) = 3 /\ e[1] = 37 /\ e[2] = p1 /\ e[3] = p2
      BY <2>16
    <3>2. /\ Len(g[i + 1]) = l + 3 /\ g[i + 1][l + 1] = 37 /\ g[i + 1][l + 2] = p1
          /\ g[i + 1][l + 3] = p2
      BY <2>11, <3>1
    <3>3. /\ l + 1 \in 1..l + 3 /\ l + 2 \in 1..l + 3 /\ l + 3 \in 1..l + 3
          /\ (l + 1) - 1 = l /\ (l + 2) - 1 = l + 1 /\ (l + 3) - 1 = l + 2
          /\ (l + 1) + 1 = l + 2 /\ (l + 1) + 2 = l + 3
      BY <2>10
    <3>4. v[l + 1] = 37 /\ v[l + 2] = p1 /\ v[l + 3] = p2
      BY <2>12, <3>2, <3>3, Zenon
    <3>5. /\ l + 1 \in 1..Len(v) /\ l + 2 \in 1..Len(v) /\ l + 3 \in 1..Len(v)
          /\ (l + 1) + 2 <= Len(v)
      <4>1. l + 3 <= k
        BY <2>12, <2>14, <3>2
      <4>2. l + 1 \in 1..k /\ l + 2 \in 1..k /\ l + 3 \in 1..k /\ (l + 1) + 2 <= k
        BY <2>10, <2>14, <4>1
      <4>. QED  BY <2>14, <4>2, Zenon
    <3>6. /\ h[l + 1] = Codecs!Unescape(v, h[l], l + 1)
          /\ h[l + 2] = Codecs!Unescape(v, h[l + 1], l + 2)
          /\ h[l + 3] = Codecs!Unescape(v, h[l + 2], l + 3)
      BY <1>4, <3>3, <3>5, Zenon
    <3>7. h[l + 1] = [out |-> Append(o, x), skip |-> 2]
      <4>1. Codecs!Strtol(v[(l + 1) + 1], v[(l + 1) + 2]) = x
        BY <2>16, <3>3, <3>4, Zenon
      <4>. QED  BY <2>13, <3>4, <3>5, <3>6, <4>1, UnescapeCode, Zenon
    <3>8. h[l + 2] = [out |-> Append(o, x), skip |-> 1]
      <4>1. PICK t : t = h[l + 1]
        OBVIOUS
      <4>2. PICK w : w = Append(o, x)
        OBVIOUS
      <4>3. t = [out |-> w, skip |-> 2]
        BY <3>7, <4>1, <4>2, Zenon
      <4>4. Codecs!Unescape(v, t, l + 2) = [out |-> w, skip |-> 1]
        BY <4>3, UnescapeRest, Zenon
      <4>. QED  BY <3>6, <4>1, <4>2, <4>4, Zenon
    <3>9. h[l + 3] = [out |-> Append(o, x), skip |-> 0]
      <4>1. PICK t : t = h[l + 2]
        OBVIOUS
      <4>2. PICK w : w = Append(o, x)
        OBVIOUS
      <4>3. t = [out |-> w, skip |-> 1]
        BY <3>8, <4>1, <4>2, Zenon
      <4>4. Codecs!Unescape(v, t, l + 3) = [out |-> w, skip |-> 0]
        BY <4>3, UnescapeRest, Zenon
      <4>. QED  BY <3>6, <4>1, <4>2, <4>4, Zenon
    <3>. QED  BY <2>6, <3>2, <3>9, Zenon DEF Read
  <2>. QED  BY <2>8, <2>15, <2>16, UrlCodes
<1>. HIDE DEF S, Read
<1>10. Read(n)
  <2>0. Nat \subseteq S
    BY <1>8, <1>9, SetInduction
  <2>1. n \in S /\ n <= n
    BY <2>0
  <2>. QED  BY <2>1, Zenon DEF S
<1>11. SubSeq(b, 1, n) = b
  BY <1>1
<1>12. h[Len(v)].out = b
  BY <1>3, <1>10, <1>11 DEF Read
<1>. QED  BY <1>2, <1>3, <1>4, <1>12, Zenon

LEMMA DataKept ==
  ASSUME data \in Seq(Byte), [Codecs!Next]_data
  PROVE  data' \in Seq(Byte)
<1>1. CASE UNCHANGED data
  BY <1>1
<1>2. ASSUME NEW b \in Sample, data' = Append(data, b) PROVE data' \in Seq(Byte)
  <2>1. b \in Byte
    BY UtilitiesAssumption DEF UtilitiesAssumption, Codecs!CodecsAssumption, Byte
  <2>. QED  BY <1>2, <2>1
<1>. QED  BY <1>1, <1>2 DEF Codecs!Next

(* StringOps, Utils and HttpCommon: what base64, hexadecimal text in       *)
(* either case and URL encoding make of bytes, of any length and value,    *)
(* is decoded to the same bytes.                                           *)
THEOREM RoundTripsAlways == UtilitiesSpec => []RoundTrips
<1>1. UtilitiesInit => data \in Seq(Byte)
  <2>1. << >> \in Seq(Byte)
    OBVIOUS
  <2>. QED  BY <2>1 DEF UtilitiesInit, Codecs!Init
<1>2. data \in Seq(Byte) /\ [UtilitiesNext]_utilityVars => (data \in Seq(Byte))'
  BY PartSteps, DataKept
<1>3. data \in Seq(Byte) => RoundTrips
  <2>1. ASSUME data \in Seq(Byte)
        PROVE  /\ Codecs!decode_base64(Codecs!encode_base64(data)) = data
               /\ Len(Codecs!encode_base64(data)) = 4 * ((Len(data) + 2) \div 3)
    BY <2>1, Base64Back
  <2>2. ASSUME data \in Seq(Byte) PROVE Codecs!HexRoundTrip
    BY <2>2, HexBack DEF Codecs!HexRoundTrip
  <2>3. ASSUME data \in Seq(Byte) PROVE Codecs!UrlRoundTrip
    BY <2>3, UrlBack DEF Codecs!UrlRoundTrip
  <2>. QED  BY <2>1, <2>2, <2>3, Zenon DEF RoundTrips, Codecs!Base64RoundTrip
<1>. QED  BY <1>1, <1>2, <1>3, PTL DEF UtilitiesSpec

LEMMA Appended ==
  ASSUME NEW D, NEW s \in Seq(D), NEW x \in D
  PROVE  /\ Append(s, x) \in Seq(D) /\ Len(Append(s, x)) = Len(s) + 1
         /\ Append(s, x)[Len(s) + 1] = x
         /\ \A i \in 1..Len(s) : Append(s, x)[i] = s[i]
OBVIOUS

(* A state that each round keeps in D stays in D; rounds that start alike  *)
(* and do the same end alike.                                              *)
LEMMA StaysIn ==
  ASSUME NEW n \in Nat, NEW D, NEW h, h[0] \in D,
         \A i \in 1..n : h[i - 1] \in D => h[i] \in D
  PROVE  \A i \in 0..n : h[i] \in D
<1>. DEFINE S == {i \in Nat : i <= n => h[i] \in D}
<1>1. 0 \in S
  OBVIOUS
<1>2. ASSUME NEW i \in Nat, i \in S PROVE i + 1 \in S
  <2>1. SUFFICES ASSUME i + 1 <= n PROVE h[i + 1] \in D
    OBVIOUS
  <2>2. h[i] \in D /\ i + 1 \in 1..n /\ (i + 1) - 1 = i
    BY <1>2, <2>1
  <2>3. \A j \in 1..n : h[j - 1] \in D => h[j] \in D
    OBVIOUS
  <2>. QED  BY <2>2, <2>3, Zenon
<1>. HIDE DEF S
<1>3. Nat \subseteq S
  BY <1>1, <1>2, SetInduction
<1>. QED  BY <1>3 DEF S

Follows(h, F, n) == \A i \in 1..n : h[i] = F[i][h[i - 1]]

LEMMA SameRounds ==
  ASSUME NEW n \in Nat, NEW F, NEW h, NEW k, h[0] = k[0], Follows(h, F, n), Follows(k, F, n)
  PROVE  h[n] = k[n]
<1>. DEFINE S == {i \in Nat : i <= n => h[i] = k[i]}
<1>1. 0 \in S
  OBVIOUS
<1>2. ASSUME NEW i \in Nat, i \in S PROVE i + 1 \in S
  <2>1. SUFFICES ASSUME i + 1 <= n PROVE h[i + 1] = k[i + 1]
    OBVIOUS
  <2>2. h[i] = k[i] /\ i + 1 \in 1..n /\ (i + 1) - 1 = i
    BY <1>2, <2>1
  <2>3. \A j \in 1..n : h[j] = F[j][h[j - 1]] /\ k[j] = F[j][k[j - 1]]
    BY Zenon DEF Follows
  <2>. QED  BY <2>2, <2>3, Zenon
<1>. HIDE DEF S
<1>3. Nat \subseteq S
  BY <1>1, <1>2, SetInduction
<1>. QED  BY <1>3 DEF S

-----------------------------------------------------------------------------
(* CommandLine: the words of an argument string.                           *)

Signs == Letters \cup {"q", "b", "_", "|"} \cup {CommandLine!Digits[k] : k \in 1..10}
TokenState == [argv : Seq(Seq(Signs)), token : Seq(Signs), quoted : BOOLEAN, escaped : BOOLEAN]
NoTokens == [argv |-> <<>>, token |-> <<>>, quoted |-> FALSE, escaped |-> FALSE]

(* What the loop of spawn_process_posix has made of a string.              *)
Parsed(string) ==
  LET Round(t, i) == CommandLine!Token(t, string[i])
  IN  CommandLine!Loop(Round, NoTokens, Len(string))[Len(string)]

LEMMA TokenTyped ==
  ASSUME NEW t \in TokenState, NEW c \in Signs
  PROVE  CommandLine!Token(t, c) \in TokenState /\ CommandLine!EndToken(t) \in TokenState
<1>1. t.argv \in Seq(Seq(Signs)) /\ t.token \in Seq(Signs)
  BY DEF TokenState
<1>2. Append(t.token, c) \in Seq(Signs) /\ Append(t.argv, t.token) \in Seq(Seq(Signs))
  BY <1>1
<1>3. <<>> \in Seq(Signs)
  OBVIOUS
<1>4. CommandLine!EndToken(t) \in TokenState
  BY <1>2, <1>3 DEF CommandLine!EndToken, TokenState
<1>5. CommandLine!Add(t, c) \in TokenState
  BY <1>2 DEF CommandLine!Add, TokenState
<1>6. [t EXCEPT !.escaped = TRUE] \in TokenState /\ [t EXCEPT !.quoted = ~@] \in TokenState
  BY DEF TokenState
<1>. QED  BY <1>4, <1>5, <1>6, Zenon DEF CommandLine!Token

LEMMA NoTokensTyped == NoTokens \in TokenState
<1>1. <<>> \in Seq(Signs) /\ <<>> \in Seq(Seq(Signs))
  OBVIOUS
<1>. QED  BY <1>1 DEF NoTokens, TokenState

(* The rounds of that loop.                                                *)
LEMMA ParsedRuns ==
  ASSUME NEW s \in Seq(Signs)
  PROVE  \E h \in [0..Len(s) -> TokenState] :
           /\ h[0] = NoTokens
           /\ \A i \in 1..Len(s) : h[i] = CommandLine!Token(h[i - 1], s[i])
           /\ Parsed(s) = h[Len(s)]
<1>. DEFINE P(h) == h = [i \in 0..Len(s) |->
                          IF i = 0 THEN NoTokens ELSE CommandLine!Token(h[i - 1], s[i])]
<1>1. PICK n \in Nat : n = Len(s)
  OBVIOUS
<1>2. /\ NoTokens \in TokenState
      /\ \A i \in 1..n, t \in TokenState : CommandLine!Token(t, s[i]) \in TokenState
  <2>1. \A i \in 1..n : s[i] \in Signs
    BY <1>1
  <2>. QED  BY <2>1, TokenTyped, NoTokensTyped, Zenon
<1>3. PICK F : F = [i \in 1..n |-> [t \in TokenState |-> CommandLine!Token(t, s[i])]]
  OBVIOUS
<1>4. F \in Rounds(TokenState, n)
  BY <1>2, <1>3, Zenon DEF Rounds
<1>5. PICK g \in [0..n -> TokenState] :
        g[0] = NoTokens /\ \A i \in 1..n : g[i] = F[i][g[i - 1]]
  <2>1. States(TokenState, NoTokens, n, F) # {}
    BY <1>2, <1>4, Iterates, Zenon
  <2>. QED  BY <2>1, Zenon DEF States
<1>6. ASSUME NEW i \in 0..n
      PROVE  g[i] = IF i = 0 THEN NoTokens ELSE CommandLine!Token(g[i - 1], s[i])
  <2>1. CASE i = 0
    BY <1>5, <2>1
  <2>2. CASE i # 0
    <3>1. i \in 1..n /\ i - 1 \in 0..n
      BY <2>2
    <3>2. g[i - 1] \in TokenState
      BY <3>1
    <3>. QED  BY <1>3, <1>5, <2>2, <3>1, <3>2, Zenon
  <2>. QED  BY <2>1, <2>2
<1>7. P(g)
  <2>1. g = [i \in 0..n |-> g[i]]
    OBVIOUS
  <2>. QED  BY <1>1, <1>6, <2>1, Zenon
<1>8. PICK h : h = (CHOOSE x : P(x))
  OBVIOUS
<1>9. P(h)
  <2>. HIDE DEF P
  <2>. QED  BY <1>7, <1>8, Zenon
<1>10. Parsed(s) = h[n]
  BY <1>1, <1>8, Zenon DEF Parsed, CommandLine!Loop
<1>11. ASSUME NEW i \in 0..n
       PROVE  h[i] = IF i = 0 THEN NoTokens ELSE CommandLine!Token(h[i - 1], s[i])
  BY <1>1, <1>9, Zenon
<1>12. DOMAIN h = 0..n /\ h = [i \in 0..n |-> h[i]]
  BY <1>1, <1>9, Zenon
<1>. HIDE DEF P
<1>13. h[0] = NoTokens
  <2>1. 0 \in 0..n
    OBVIOUS
  <2>. QED  BY <1>11, <2>1, Zenon
<1>14. ASSUME NEW i \in 1..n PROVE h[i] = CommandLine!Token(h[i - 1], s[i])
  <2>1. i \in 0..n /\ i # 0
    OBVIOUS
  <2>. QED  BY <1>11, <2>1, Zenon
<1>15. \A i \in 0..n : h[i] \in TokenState
  <2>1. h[0] \in TokenState /\ \A i \in 1..n : h[i - 1] \in TokenState => h[i] \in TokenState
    BY <1>2, <1>13, <1>14, Zenon
  <2>. QED  BY <2>1, StaysIn
<1>16. h \in [0..n -> TokenState]
  BY <1>12, <1>15, Zenon
<1>. QED  BY <1>1, <1>10, <1>13, <1>14, <1>16, Zenon

(* What it makes of one more character.                                    *)
LEMMA ParsedNext ==
  ASSUME NEW s \in Seq(Signs), NEW x \in Signs
  PROVE  /\ Parsed(<<>>) = NoTokens
         /\ Parsed(s) \in TokenState
         /\ Parsed(Append(s, x)) = CommandLine!Token(Parsed(s), x)
<1>1. PICK n \in Nat : n = Len(s)
  OBVIOUS
<1>2. PICK w \in Seq(Signs) : w = Append(s, x)
  BY Appended, Zenon
<1>3. Len(w) = n + 1 /\ w[n + 1] = x /\ \A i \in 1..n : w[i] = s[i]
  BY <1>1, <1>2
<1>4. PICK h \in [0..n -> TokenState] :
        /\ h[0] = NoTokens
        /\ \A i \in 1..n : h[i] = CommandLine!Token(h[i - 1], s[i])
        /\ Parsed(s) = h[n]
  BY <1>1, ParsedRuns, Zenon
<1>5. PICK k \in [0..n + 1 -> TokenState] :
        /\ k[0] = NoTokens
        /\ \A i \in 1..n + 1 : k[i] = CommandLine!Token(k[i - 1], w[i])
        /\ Parsed(w) = k[n + 1]
  BY <1>3, ParsedRuns, Zenon
<1>6. PICK e \in Seq(Signs) : e = <<>>
  <2>1. <<>> \in Seq(Signs)
    OBVIOUS
  <2>. QED  BY <2>1, Zenon
<1>7. Parsed(<<>>) = NoTokens
  <2>1. PICK j \in [0..Len(e) -> TokenState] : j[0] = NoTokens /\ Parsed(e) = j[Len(e)]
    BY ParsedRuns, Zenon
  <2>2. Len(e) = 0
    BY <1>6
  <2>. QED  BY <1>6, <2>1, <2>2, Zenon
<1>8. h[n] = k[n]
  <2>1. PICK F : F = [i \in 1..n |-> [t \in TokenState |-> CommandLine!Token(t, s[i])]]
    OBVIOUS
  <2>2. ASSUME NEW i \in 1..n PROVE h[i] = F[i][h[i - 1]] /\ k[i] = F[i][k[i - 1]]
    <3>1. i \in 1..n + 1 /\ i - 1 \in 0..n /\ i - 1 \in 0..n + 1
      OBVIOUS
    <3>2. h[i - 1] \in TokenState /\ k[i - 1] \in TokenState
      BY <3>1
    <3>3. k[i] = CommandLine!Token(k[i - 1], s[i])
      BY <1>3, <1>5, <3>1, Zenon
    <3>. QED  BY <1>4, <2>1, <3>2, <3>3, Zenon
  <2>3. h[0] = k[0]
    BY <1>4, <1>5, Zenon
  <2>4. Follows(h, F, n) /\ Follows(k, F, n)
    BY <2>2, Zenon DEF Follows
  <2>. QED  BY <2>3, <2>4, SameRounds
<1>9. k[n + 1] = CommandLine!Token(k[n], x)
  <2>1. n + 1 \in 1..n + 1 /\ (n + 1) - 1 = n
    OBVIOUS
  <2>. QED  BY <1>3, <1>5, <2>1, Zenon
<1>10. h[n] \in TokenState
  <2>1. n \in 0..n
    OBVIOUS
  <2>. QED  BY <2>1, Zenon
<1>11. Parsed(w) = CommandLine!Token(k[n], x)
  <2>1. Parsed(w) = k[n + 1]
    BY <1>5
  <2>. QED  BY <1>9, <2>1, Zenon
<1>12. Parsed(w) = CommandLine!Token(Parsed(s), x)
  <2>1. Parsed(s) = h[n]
    BY <1>4
  <2>. QED  BY <1>8, <1>11, <2>1, Zenon
<1>13. Parsed(s) \in TokenState
  <2>1. Parsed(s) = h[n]
    BY <1>4
  <2>. QED  BY <1>10, <2>1, Zenon
<1>. QED  BY <1>2, <1>7, <1>12, <1>13, Zenon

(* A character of a word in quotes, with a backslash if it needs one.      *)
Spelt(c) == IF c \in {"q", "b"} THEN <<"b", c>> ELSE <<c>>

LEMMA SpeltTyped == ASSUME NEW c \in Signs PROVE Spelt(c) \in Seq(Signs)
<1>1. "b" \in Signs
  BY DEF Signs
<1>2. <<"b", c>> \in Seq(Signs) /\ <<c>> \in Seq(Signs)
  BY <1>1
<1>. QED  BY <1>2, Zenon DEF Spelt

(* The rounds of Escaped's loop.                                           *)
LEMMA EscapedRuns ==
  ASSUME NEW w \in Seq(Signs)
  PROVE  \E h \in [0..Len(w) -> Seq(Signs)] :
           /\ h[0] = <<>>
           /\ \A i \in 1..Len(w) : h[i] = h[i - 1] \o Spelt(w[i])
           /\ CommandLine!Escaped(w) = h[Len(w)]
<1>. DEFINE P(h) == h = [i \in 0..Len(w) |->
                          IF i = 0 THEN <<>> ELSE h[i - 1] \o Spelt(w[i])]
<1>1. PICK n \in Nat : n = Len(w)
  OBVIOUS
<1>2. /\ <<>> \in Seq(Signs)
      /\ \A i \in 1..n, t \in Seq(Signs) : t \o Spelt(w[i]) \in Seq(Signs)
  <2>1. ASSUME NEW i \in 1..n, NEW t \in Seq(Signs) PROVE t \o Spelt(w[i]) \in Seq(Signs)
    <3>1. w[i] \in Signs
      BY <1>1
    <3>. QED  BY <3>1, SpeltTyped, Concatenated, Zenon
  <2>2. <<>> \in Seq(Signs)
    OBVIOUS
  <2>. QED  BY <2>1, <2>2
<1>3. PICK F : F = [i \in 1..n |-> [t \in Seq(Signs) |-> t \o Spelt(w[i])]]
  OBVIOUS
<1>4. F \in Rounds(Seq(Signs), n)
  BY <1>2, <1>3, Zenon DEF Rounds
<1>5. PICK g \in [0..n -> Seq(Signs)] :
        g[0] = <<>> /\ \A i \in 1..n : g[i] = F[i][g[i - 1]]
  <2>1. States(Seq(Signs), <<>>, n, F) # {}
    BY <1>2, <1>4, Iterates, Zenon
  <2>. QED  BY <2>1, Zenon DEF States
<1>6. ASSUME NEW i \in 0..n
      PROVE  g[i] = IF i = 0 THEN <<>> ELSE g[i - 1] \o Spelt(w[i])
  <2>1. CASE i = 0
    BY <1>5, <2>1
  <2>2. CASE i # 0
    <3>1. i \in 1..n /\ i - 1 \in 0..n
      BY <2>2
    <3>2. g[i - 1] \in Seq(Signs)
      BY <3>1
    <3>. QED  BY <1>3, <1>5, <2>2, <3>1, <3>2, Zenon
  <2>. QED  BY <2>1, <2>2
<1>7. P(g)
  <2>1. g = [i \in 0..n |-> g[i]]
    OBVIOUS
  <2>. QED  BY <1>1, <1>6, <2>1, Zenon
<1>8. PICK h : h = (CHOOSE x : P(x))
  OBVIOUS
<1>9. P(h)
  <2>. HIDE DEF P
  <2>. QED  BY <1>7, <1>8, Zenon
<1>10. CommandLine!Escaped(w) = h[n]
  BY <1>1, <1>8, Zenon DEF CommandLine!Escaped, CommandLine!Loop, Spelt
<1>11. ASSUME NEW i \in 0..n
       PROVE  h[i] = IF i = 0 THEN <<>> ELSE h[i - 1] \o Spelt(w[i])
  BY <1>1, <1>9, Zenon
<1>12. DOMAIN h = 0..n /\ h = [i \in 0..n |-> h[i]]
  BY <1>1, <1>9, Zenon
<1>. HIDE DEF P
<1>13. h[0] = <<>>
  <2>1. 0 \in 0..n
    OBVIOUS
  <2>. QED  BY <1>11, <2>1, Zenon
<1>14. ASSUME NEW i \in 1..n PROVE h[i] = h[i - 1] \o Spelt(w[i])
  <2>1. i \in 0..n /\ i # 0
    OBVIOUS
  <2>. QED  BY <1>11, <2>1, Zenon
<1>15. \A i \in 0..n : h[i] \in Seq(Signs)
  <2>1. h[0] \in Seq(Signs) /\ \A i \in 1..n : h[i - 1] \in Seq(Signs) => h[i] \in Seq(Signs)
    BY <1>2, <1>13, <1>14, Zenon
  <2>. QED  BY <2>1, StaysIn
<1>16. h \in [0..n -> Seq(Signs)]
  BY <1>12, <1>15, Zenon
<1>. QED  BY <1>1, <1>10, <1>13, <1>14, <1>16, Zenon

(* What it makes of one more character.                                    *)
LEMMA EscapedNext ==
  ASSUME NEW s \in Seq(Signs), NEW x \in Signs
  PROVE  /\ CommandLine!Escaped(<<>>) = <<>>
         /\ CommandLine!Escaped(s) \in Seq(Signs)
         /\ CommandLine!Escaped(Append(s, x)) = CommandLine!Escaped(s) \o Spelt(x)
<1>1. PICK n \in Nat : n = Len(s)
  OBVIOUS
<1>2. PICK w \in Seq(Signs) : w = Append(s, x)
  BY Appended, Zenon
<1>3. Len(w) = n + 1 /\ w[n + 1] = x /\ \A i \in 1..n : w[i] = s[i]
  BY <1>1, <1>2
<1>4. PICK h \in [0..n -> Seq(Signs)] :
        /\ h[0] = <<>>
        /\ \A i \in 1..n : h[i] = h[i - 1] \o Spelt(s[i])
        /\ CommandLine!Escaped(s) = h[n]
  BY <1>1, EscapedRuns, Zenon
<1>5. PICK k \in [0..n + 1 -> Seq(Signs)] :
        /\ k[0] = <<>>
        /\ \A i \in 1..n + 1 : k[i] = k[i - 1] \o Spelt(w[i])
        /\ CommandLine!Escaped(w) = k[n + 1]
  BY <1>3, EscapedRuns, Zenon
<1>6. PICK e \in Seq(Signs) : e = <<>>
  <2>1. <<>> \in Seq(Signs)
    OBVIOUS
  <2>. QED  BY <2>1, Zenon
<1>7. CommandLine!Escaped(<<>>) = <<>>
  <2>1. PICK j \in [0..Len(e) -> Seq(Signs)] : j[0] = <<>> /\ CommandLine!Escaped(e) = j[Len(e)]
    BY EscapedRuns, Zenon
  <2>2. Len(e) = 0
    BY <1>6
  <2>. QED  BY <1>6, <2>1, <2>2, Zenon
<1>8. h[n] = k[n]
  <2>1. PICK F : F = [i \in 1..n |-> [t \in Seq(Signs) |-> t \o Spelt(s[i])]]
    OBVIOUS
  <2>2. ASSUME NEW i \in 1..n PROVE h[i] = F[i][h[i - 1]] /\ k[i] = F[i][k[i - 1]]
    <3>1. i \in 1..n + 1 /\ i - 1 \in 0..n /\ i - 1 \in 0..n + 1
      OBVIOUS
    <3>2. h[i - 1] \in Seq(Signs) /\ k[i - 1] \in Seq(Signs)
      BY <3>1
    <3>3. k[i] = k[i - 1] \o Spelt(s[i])
      BY <1>3, <1>5, <3>1, Zenon
    <3>. QED  BY <1>4, <2>1, <3>2, <3>3, Zenon
  <2>3. h[0] = k[0]
    BY <1>4, <1>5, Zenon
  <2>4. Follows(h, F, n) /\ Follows(k, F, n)
    BY <2>2, Zenon DEF Follows
  <2>. QED  BY <2>3, <2>4, SameRounds
<1>9. k[n + 1] = k[n] \o Spelt(x)
  <2>1. n + 1 \in 1..n + 1 /\ (n + 1) - 1 = n
    OBVIOUS
  <2>. QED  BY <1>3, <1>5, <2>1, Zenon
<1>10. h[n] \in Seq(Signs)
  <2>1. n \in 0..n
    OBVIOUS
  <2>. QED  BY <2>1, Zenon
<1>11. CommandLine!Escaped(w) = k[n] \o Spelt(x)
  <2>1. CommandLine!Escaped(w) = k[n + 1]
    BY <1>5
  <2>. QED  BY <1>9, <2>1, Zenon
<1>12. CommandLine!Escaped(w) = CommandLine!Escaped(s) \o Spelt(x)
  <2>1. CommandLine!Escaped(s) = h[n]
    BY <1>4
  <2>. QED  BY <1>8, <1>11, <2>1, Zenon
<1>13. CommandLine!Escaped(s) \in Seq(Signs)
  <2>1. CommandLine!Escaped(s) = h[n]
    BY <1>4
  <2>. QED  BY <1>10, <2>1, Zenon
<1>. QED  BY <1>2, <1>7, <1>12, <1>13, Zenon

LEMMA KeptTyped ==
  ASSUME NEW w \in Seq(Signs) PROVE CommandLine!Kept(w) \in Seq(Seq(Signs))
<1>1. <<w>> \in Seq(Seq(Signs)) /\ <<>> \in Seq(Seq(Signs))
  OBVIOUS
<1>. QED  BY <1>1, Zenon DEF CommandLine!Kept

(* The rounds of NonEmpty's loop.                                          *)
LEMMA NonEmptyRuns ==
  ASSUME NEW ws \in Seq(Seq(Signs))
  PROVE  \E h \in [0..Len(ws) -> Seq(Seq(Signs))] :
           /\ h[0] = <<>>
           /\ \A i \in 1..Len(ws) : h[i] = h[i - 1] \o CommandLine!Kept(ws[i])
           /\ CommandLine!NonEmpty(ws) = h[Len(ws)]
<1>. DEFINE P(h) == h = [i \in 0..Len(ws) |->
                          IF i = 0 THEN <<>> ELSE h[i - 1] \o CommandLine!Kept(ws[i])]
<1>1. PICK n \in Nat : n = Len(ws)
  OBVIOUS
<1>2. /\ <<>> \in Seq(Seq(Signs))
      /\ \A i \in 1..n, t \in Seq(Seq(Signs)) : t \o CommandLine!Kept(ws[i]) \in Seq(Seq(Signs))
  <2>1. ASSUME NEW i \in 1..n, NEW t \in Seq(Seq(Signs))
        PROVE  t \o CommandLine!Kept(ws[i]) \in Seq(Seq(Signs))
    <3>1. ws[i] \in Seq(Signs)
      BY <1>1
    <3>. QED  BY <3>1, KeptTyped, Concatenated, Zenon
  <2>2. <<>> \in Seq(Seq(Signs))
    OBVIOUS
  <2>. QED  BY <2>1, <2>2
<1>3. PICK F : F = [i \in 1..n |-> [t \in Seq(Seq(Signs)) |-> t \o CommandLine!Kept(ws[i])]]
  OBVIOUS
<1>4. F \in Rounds(Seq(Seq(Signs)), n)
  BY <1>2, <1>3, Zenon DEF Rounds
<1>5. PICK g \in [0..n -> Seq(Seq(Signs))] :
        g[0] = <<>> /\ \A i \in 1..n : g[i] = F[i][g[i - 1]]
  <2>1. States(Seq(Seq(Signs)), <<>>, n, F) # {}
    BY <1>2, <1>4, Iterates, Zenon
  <2>. QED  BY <2>1, Zenon DEF States
<1>6. ASSUME NEW i \in 0..n
      PROVE  g[i] = IF i = 0 THEN <<>> ELSE g[i - 1] \o CommandLine!Kept(ws[i])
  <2>1. CASE i = 0
    BY <1>5, <2>1
  <2>2. CASE i # 0
    <3>1. i \in 1..n /\ i - 1 \in 0..n
      BY <2>2
    <3>2. g[i - 1] \in Seq(Seq(Signs))
      BY <3>1
    <3>. QED  BY <1>3, <1>5, <2>2, <3>1, <3>2, Zenon
  <2>. QED  BY <2>1, <2>2
<1>7. P(g)
  <2>1. g = [i \in 0..n |-> g[i]]
    OBVIOUS
  <2>. QED  BY <1>1, <1>6, <2>1, Zenon
<1>8. PICK h : h = (CHOOSE x : P(x))
  OBVIOUS
<1>9. P(h)
  <2>. HIDE DEF P
  <2>. QED  BY <1>7, <1>8, Zenon
<1>10. CommandLine!NonEmpty(ws) = h[n]
  BY <1>1, <1>8, Zenon DEF CommandLine!NonEmpty, CommandLine!Loop
<1>11. ASSUME NEW i \in 0..n
       PROVE  h[i] = IF i = 0 THEN <<>> ELSE h[i - 1] \o CommandLine!Kept(ws[i])
  BY <1>1, <1>9, Zenon
<1>12. DOMAIN h = 0..n /\ h = [i \in 0..n |-> h[i]]
  BY <1>1, <1>9, Zenon
<1>. HIDE DEF P
<1>13. h[0] = <<>>
  <2>1. 0 \in 0..n
    OBVIOUS
  <2>. QED  BY <1>11, <2>1, Zenon
<1>14. ASSUME NEW i \in 1..n PROVE h[i] = h[i - 1] \o CommandLine!Kept(ws[i])
  <2>1. i \in 0..n /\ i # 0
    OBVIOUS
  <2>. QED  BY <1>11, <2>1, Zenon
<1>15. \A i \in 0..n : h[i] \in Seq(Seq(Signs))
  <2>1. /\ h[0] \in Seq(Seq(Signs))
        /\ \A i \in 1..n : h[i - 1] \in Seq(Seq(Signs)) => h[i] \in Seq(Seq(Signs))
    BY <1>2, <1>13, <1>14, Zenon
  <2>. QED  BY <2>1, StaysIn
<1>16. h \in [0..n -> Seq(Seq(Signs))]
  BY <1>12, <1>15, Zenon
<1>. QED  BY <1>1, <1>10, <1>13, <1>14, <1>16, Zenon

(* What it makes of one more word.                                         *)
LEMMA NonEmptyNext ==
  ASSUME NEW s \in Seq(Seq(Signs)), NEW x \in Seq(Signs)
  PROVE  /\ CommandLine!NonEmpty(<<>>) = <<>>
         /\ CommandLine!NonEmpty(s) \in Seq(Seq(Signs))
         /\ CommandLine!NonEmpty(Append(s, x)) = CommandLine!NonEmpty(s) \o CommandLine!Kept(x)
<1>1. PICK n \in Nat : n = Len(s)
  OBVIOUS
<1>2. PICK w \in Seq(Seq(Signs)) : w = Append(s, x)
  BY Appended, Zenon
<1>3. Len(w) = n + 1 /\ w[n + 1] = x /\ \A i \in 1..n : w[i] = s[i]
  BY <1>1, <1>2
<1>4. PICK h \in [0..n -> Seq(Seq(Signs))] :
        /\ h[0] = <<>>
        /\ \A i \in 1..n : h[i] = h[i - 1] \o CommandLine!Kept(s[i])
        /\ CommandLine!NonEmpty(s) = h[n]
  BY <1>1, NonEmptyRuns, Zenon
<1>5. PICK k \in [0..n + 1 -> Seq(Seq(Signs))] :
        /\ k[0] = <<>>
        /\ \A i \in 1..n + 1 : k[i] = k[i - 1] \o CommandLine!Kept(w[i])
        /\ CommandLine!NonEmpty(w) = k[n + 1]
  BY <1>3, NonEmptyRuns, Zenon
<1>6. PICK e \in Seq(Seq(Signs)) : e = <<>>
  <2>1. <<>> \in Seq(Seq(Signs))
    OBVIOUS
  <2>. QED  BY <2>1, Zenon
<1>7. CommandLine!NonEmpty(<<>>) = <<>>
  <2>1. PICK j \in [0..Len(e) -> Seq(Seq(Signs))] :
          j[0] = <<>> /\ CommandLine!NonEmpty(e) = j[Len(e)]
    BY NonEmptyRuns, Zenon
  <2>2. Len(e) = 0
    BY <1>6
  <2>. QED  BY <1>6, <2>1, <2>2, Zenon
<1>8. h[n] = k[n]
  <2>1. PICK F : F = [i \in 1..n |-> [t \in Seq(Seq(Signs)) |-> t \o CommandLine!Kept(s[i])]]
    OBVIOUS
  <2>2. ASSUME NEW i \in 1..n PROVE h[i] = F[i][h[i - 1]] /\ k[i] = F[i][k[i - 1]]
    <3>1. i \in 1..n + 1 /\ i - 1 \in 0..n /\ i - 1 \in 0..n + 1
      OBVIOUS
    <3>2. h[i - 1] \in Seq(Seq(Signs)) /\ k[i - 1] \in Seq(Seq(Signs))
      BY <3>1
    <3>3. k[i] = k[i - 1] \o CommandLine!Kept(s[i])
      BY <1>3, <1>5, <3>1, Zenon
    <3>. QED  BY <1>4, <2>1, <3>2, <3>3, Zenon
  <2>3. h[0] = k[0]
    BY <1>4, <1>5, Zenon
  <2>4. Follows(h, F, n) /\ Follows(k, F, n)
    BY <2>2, Zenon DEF Follows
  <2>. QED  BY <2>3, <2>4, SameRounds
<1>9. k[n + 1] = k[n] \o CommandLine!Kept(x)
  <2>1. n + 1 \in 1..n + 1 /\ (n + 1) - 1 = n
    OBVIOUS
  <2>. QED  BY <1>3, <1>5, <2>1, Zenon
<1>10. h[n] \in Seq(Seq(Signs))
  <2>1. n \in 0..n
    OBVIOUS
  <2>. QED  BY <2>1, Zenon
<1>11. CommandLine!NonEmpty(w) = k[n] \o CommandLine!Kept(x)
  <2>1. CommandLine!NonEmpty(w) = k[n + 1]
    BY <1>5
  <2>. QED  BY <1>9, <2>1, Zenon
<1>12. CommandLine!NonEmpty(w) = CommandLine!NonEmpty(s) \o CommandLine!Kept(x)
  <2>1. CommandLine!NonEmpty(s) = h[n]
    BY <1>4
  <2>. QED  BY <1>8, <1>11, <2>1, Zenon
<1>13. CommandLine!NonEmpty(s) \in Seq(Seq(Signs))
  <2>1. CommandLine!NonEmpty(s) = h[n]
    BY <1>4
  <2>. QED  BY <1>10, <2>1, Zenon
<1>. QED  BY <1>2, <1>7, <1>12, <1>13, Zenon

DigitSigns == {CommandLine!Digits[k] : k \in 1..10}

LEMMA Values10 ==
  /\ \A v \in 0..9 : /\ CommandLine!Digits[v + 1] \in DigitSigns
                     /\ CommandLine!Value(CommandLine!Digits[v + 1]) = v
                     /\ CommandLine!IsDigit(CommandLine!Digits[v + 1])
  /\ \A c \in DigitSigns : CommandLine!Value(c) \in 0..9
<1>1. \A j, k \in 1..10 : CommandLine!Digits[j] = CommandLine!Digits[k] => j = k
  BY DEF CommandLine!Digits
<1>2. ASSUME NEW v \in 0..9
      PROVE  /\ CommandLine!Digits[v + 1] \in DigitSigns
             /\ CommandLine!Value(CommandLine!Digits[v + 1]) = v
             /\ CommandLine!IsDigit(CommandLine!Digits[v + 1])
  <2>1. v + 1 \in 1..10 /\ (v + 1) - 1 = v
    OBVIOUS
  <2>2. PICK k : k = (CHOOSE j \in 1..10 : CommandLine!Digits[v + 1] = CommandLine!Digits[j])
    OBVIOUS
  <2>3. k \in 1..10 /\ CommandLine!Digits[v + 1] = CommandLine!Digits[k]
    BY <2>1, <2>2, Zenon
  <2>4. k = v + 1
    BY <1>1, <2>1, <2>3, Zenon
  <2>5. CommandLine!Value(CommandLine!Digits[v + 1]) = v
    BY <2>1, <2>2, <2>4, Zenon DEF CommandLine!Value
  <2>. QED  BY <2>1, <2>5, Zenon DEF DigitSigns, CommandLine!IsDigit
<1>3. ASSUME NEW c \in DigitSigns PROVE CommandLine!Value(c) \in 0..9
  <2>1. PICK j \in 1..10 : c = CommandLine!Digits[j]
    BY Zenon DEF DigitSigns
  <2>2. j - 1 \in 0..9 /\ (j - 1) + 1 = j
    OBVIOUS
  <2>. QED  BY <1>2, <2>1, <2>2, Zenon
<1>. QED  BY <1>2, <1>3, Zenon

(* The rounds of from_chars.                                               *)
LEMMA NumberRuns ==
  ASSUME NEW s \in Seq(DigitSigns)
  PROVE  \E h \in [0..Len(s) -> Nat] :
           /\ h[0] = 0
           /\ \A i \in 1..Len(s) : h[i] = 10 * h[i - 1] + CommandLine!Value(s[i])
           /\ CommandLine!Number(s) = h[Len(s)]
<1>. DEFINE P(h) == h = [i \in 0..Len(s) |->
                          IF i = 0 THEN 0 ELSE 10 * h[i - 1] + CommandLine!Value(s[i])]
<1>1. PICK n \in Nat : n = Len(s)
  OBVIOUS
<1>2. /\ 0 \in Nat
      /\ \A i \in 1..n, t \in Nat : 10 * t + CommandLine!Value(s[i]) \in Nat
  <2>1. ASSUME NEW i \in 1..n, NEW t \in Nat PROVE 10 * t + CommandLine!Value(s[i]) \in Nat
    <3>1. s[i] \in DigitSigns
      BY <1>1
    <3>2. CommandLine!Value(s[i]) \in 0..9
      BY <3>1, Values10, Zenon
    <3>. QED  BY <3>2
  <2>. QED  BY <2>1
<1>3. PICK F : F = [i \in 1..n |-> [t \in Nat |-> 10 * t + CommandLine!Value(s[i])]]
  OBVIOUS
<1>4. F \in Rounds(Nat, n)
  BY <1>2, <1>3, Zenon DEF Rounds
<1>5. PICK g \in [0..n -> Nat] :
        g[0] = 0 /\ \A i \in 1..n : g[i] = F[i][g[i - 1]]
  <2>1. States(Nat, 0, n, F) # {}
    BY <1>2, <1>4, Iterates, Zenon
  <2>. QED  BY <2>1, Zenon DEF States
<1>6. ASSUME NEW i \in 0..n
      PROVE  g[i] = IF i = 0 THEN 0 ELSE 10 * g[i - 1] + CommandLine!Value(s[i])
  <2>1. CASE i = 0
    BY <1>5, <2>1
  <2>2. CASE i # 0
    <3>1. i \in 1..n /\ i - 1 \in 0..n
      BY <2>2
    <3>2. g[i - 1] \in Nat
      BY <3>1
    <3>. QED  BY <1>3, <1>5, <2>2, <3>1, <3>2, Zenon
  <2>. QED  BY <2>1, <2>2
<1>7. P(g)
  <2>1. g = [i \in 0..n |-> g[i]]
    OBVIOUS
  <2>. QED  BY <1>1, <1>6, <2>1, Zenon
<1>8. PICK h : h = (CHOOSE x : P(x))
  OBVIOUS
<1>9. P(h)
  <2>. HIDE DEF P
  <2>. QED  BY <1>7, <1>8, Zenon
<1>10. CommandLine!Number(s) = h[n]
  BY <1>1, <1>8, Zenon DEF CommandLine!Number, CommandLine!Loop
<1>11. ASSUME NEW i \in 0..n
       PROVE  h[i] = IF i = 0 THEN 0 ELSE 10 * h[i - 1] + CommandLine!Value(s[i])
  BY <1>1, <1>9, Zenon
<1>12. DOMAIN h = 0..n /\ h = [i \in 0..n |-> h[i]]
  BY <1>1, <1>9, Zenon
<1>. HIDE DEF P
<1>13. h[0] = 0
  <2>1. 0 \in 0..n
    OBVIOUS
  <2>. QED  BY <1>11, <2>1, Zenon
<1>14. ASSUME NEW i \in 1..n PROVE h[i] = 10 * h[i - 1] + CommandLine!Value(s[i])
  <2>1. i \in 0..n /\ i # 0
    OBVIOUS
  <2>. QED  BY <1>11, <2>1, Zenon
<1>15. \A i \in 0..n : h[i] \in Nat
  <2>1. h[0] \in Nat /\ \A i \in 1..n : h[i - 1] \in Nat => h[i] \in Nat
    BY <1>2, <1>13, <1>14, Zenon
  <2>. QED  BY <2>1, StaysIn
<1>16. h \in [0..n -> Nat]
  BY <1>12, <1>15, Zenon
<1>. QED  BY <1>1, <1>10, <1>13, <1>14, <1>16, Zenon

-----------------------------------------------------------------------------
(* The loop between two characters, none of them a backslash just read; Q  *)
(* is "in" within quotes.                                                  *)
Is(t, A, T, q, e) == t = [argv |-> A, token |-> T, quoted |-> q, escaped |-> e]
InState(t, A, T, Q) == Is(t, A, T, Q = "in", FALSE)

LEMMA Fields ==
  ASSUME NEW A, NEW T, NEW q, NEW e, NEW t, Is(t, A, T, q, e), NEW r, NEW c
  PROVE  /\ t.argv = A /\ t.token = T /\ t.quoted = q /\ t.escaped = e
         /\ Is([t EXCEPT !.quoted = r], A, T, r, e) /\ Is([t EXCEPT !.escaped = r], A, T, q, r)
         /\ Is(CommandLine!Add(t, c), A, Append(T, c), q, FALSE)
<1>1. t.argv = A /\ t.token = T /\ t.quoted = q /\ t.escaped = e
  BY DEF Is
<1>2. Is([t EXCEPT !.quoted = r], A, T, r, e)
  BY DEF Is
<1>3. Is([t EXCEPT !.escaped = r], A, T, q, r)
  BY DEF Is
<1>4. Is(CommandLine!Add(t, c), A, Append(T, c), q, FALSE)
  BY <1>1, Zenon DEF Is, CommandLine!Add
<1>. QED  BY <1>1, <1>2, <1>3, <1>4

LEMMA OneToken ==
  ASSUME NEW A, NEW T, NEW Q, NEW c, NEW t, InState(t, A, T, Q)
  PROVE  /\ c \notin {"b", "q"} /\ (c = "_" => Q = "in")
              => InState(CommandLine!Token(t, c), A, Append(T, c), Q)
         /\ Q = "out" => InState(CommandLine!Token(t, "q"), A, T, "in")
         /\ Q = "in" => InState(CommandLine!Token(t, "q"), A, T, "out")
         /\ InState(CommandLine!Token(CommandLine!Token(t, "b"), c), A, Append(T, c), Q)
<1>0. Is(t, A, T, Q = "in", FALSE)
  BY Zenon DEF InState
<1>1. t.quoted = (Q = "in") /\ t.escaped = FALSE
  BY <1>0, Zenon DEF Is
<1>4. ASSUME c \notin {"b", "q"}, c = "_" => Q = "in"
      PROVE  InState(CommandLine!Token(t, c), A, Append(T, c), Q)
  <2>1. CommandLine!Token(t, c) = CommandLine!Add(t, c)
    BY <1>1, <1>4, Zenon DEF CommandLine!Token
  <2>2. InState(CommandLine!Add(t, c), A, Append(T, c), Q)
    BY <1>0, Fields, Zenon DEF InState
  <2>. QED  BY <2>1, <2>2, Zenon
<1>5. ASSUME NEW R, (R = "in") <=> ~(Q = "in")
      PROVE  InState(CommandLine!Token(t, "q"), A, T, R)
  <2>1. "q" # "b"
    OBVIOUS
  <2>2. CommandLine!Token(t, "q") = [t EXCEPT !.quoted = ~t.quoted]
    BY <1>1, <2>1, Zenon DEF CommandLine!Token
  <2>3. (~t.quoted) = (R = "in")
    BY <1>1, <1>5, Zenon
  <2>4. InState([t EXCEPT !.quoted = (R = "in")], A, T, R)
    BY <1>0, Fields, Zenon DEF InState
  <2>. QED  BY <2>2, <2>3, <2>4, Zenon
<1>6. InState(CommandLine!Token(CommandLine!Token(t, "b"), c), A, Append(T, c), Q)
  <2>1. PICK u : u = [t EXCEPT !.escaped = TRUE]
    OBVIOUS
  <2>2. CommandLine!Token(t, "b") = u
    BY <1>1, <2>1, Zenon DEF CommandLine!Token
  <2>3. Is(u, A, T, Q = "in", TRUE)
    BY <1>0, <2>1, Fields, Zenon
  <2>4. CommandLine!Token(u, c) = CommandLine!Add(u, c)
    <3>1. u.escaped = TRUE
      BY <2>3, Zenon DEF Is
    <3>. QED  BY <3>1, Zenon DEF CommandLine!Token
  <2>5. InState(CommandLine!Add(u, c), A, Append(T, c), Q)
    BY <2>3, Fields, Zenon DEF InState
  <2>. QED  BY <2>2, <2>4, <2>5, Zenon
<1>7. /\ Q = "out" => InState(CommandLine!Token(t, "q"), A, T, "in")
      /\ Q = "in" => InState(CommandLine!Token(t, "q"), A, T, "out")
  <2>1. "in" # "out"
    OBVIOUS
  <2>. QED  BY <1>5, <2>1, Zenon
<1>. QED  BY <1>4, <1>6, <1>7, Zenon

LEMMA WordEnds ==
  ASSUME NEW A \in Seq(Seq(Signs)), NEW T \in Seq(Signs), NEW t, InState(t, A, T, "out")
  PROVE  LET B == A \o CommandLine!Kept(T)
         IN  /\ InState(CommandLine!EndToken(t), B, <<>>, "out")
             /\ InState(CommandLine!Token(t, "_"), B, <<>>, "out")
             /\ B \in Seq(Seq(Signs))
<1>1. Is(t, A, T, "out" = "in", FALSE)
  BY Zenon DEF InState
<1>2. t.argv = A /\ t.token = T /\ t.quoted = ("out" = "in") /\ t.escaped = FALSE
  BY <1>1, Zenon DEF Is
<1>3. InState(CommandLine!EndToken(t), A \o CommandLine!Kept(T), <<>>, "out")
  <2>1. CASE T = <<>>
    <3>1. A \o <<>> = A
      OBVIOUS
    <3>2. CommandLine!Kept(T) = <<>>
      BY <2>1, Zenon DEF CommandLine!Kept
    <3>3. CommandLine!EndToken(t) = t
      BY <1>2, <2>1, Zenon DEF CommandLine!EndToken
    <3>. QED  BY <2>1, <3>1, <3>2, <3>3, Zenon
  <2>2. CASE T # <<>>
    <3>1. A \o <<T>> = Append(A, T)
      OBVIOUS
    <3>2. CommandLine!Kept(T) = <<T>>
      BY <2>2, Zenon DEF CommandLine!Kept
    <3>3. CommandLine!EndToken(t) = [argv |-> Append(A, T), token |-> <<>>,
                                     quoted |-> "out" = "in", escaped |-> FALSE]
      BY <1>2, <2>2, Zenon DEF CommandLine!EndToken
    <3>4. InState(CommandLine!EndToken(t), Append(A, T), <<>>, "out")
      BY <3>3, Zenon DEF Is, InState
    <3>. QED  BY <3>1, <3>2, <3>4, Zenon
  <2>. QED  BY <2>1, <2>2
<1>4. CommandLine!Token(t, "_") = CommandLine!EndToken(t)
  <2>1. "_" # "b" /\ "_" # "q" /\ "out" # "in"
    OBVIOUS
  <2>. QED  BY <1>2, <2>1, Zenon DEF CommandLine!Token
<1>5. A \o CommandLine!Kept(T) \in Seq(Seq(Signs))
  BY KeptTyped, Concatenated
<1>. QED  BY <1>3, <1>4, <1>5, Zenon

(* The beginnings of a sequence.                                           *)
LEMMA Beginnings ==
  ASSUME NEW D, NEW s \in Seq(D)
  PROVE  /\ SubSeq(s, 1, 0) = <<>> /\ SubSeq(s, 1, Len(s)) = s
         /\ \A i \in 0..Len(s) : SubSeq(s, 1, i) \in Seq(D)
         /\ \A i \in 1..Len(s) : /\ s[i] \in D
                                 /\ SubSeq(s, 1, i) = Append(SubSeq(s, 1, i - 1), s[i])
<1>1. PICK n \in Nat : n = Len(s)
  OBVIOUS
<1>2. \A i \in 1..n : s[i] \in D
  BY <1>1
<1>3. ASSUME NEW i \in 1..n PROVE SubSeq(s, 1, i) = Append(SubSeq(s, 1, i - 1), s[i])
  BY <1>1
<1>4. ASSUME NEW i \in 0..n PROVE SubSeq(s, 1, i) \in Seq(D)
  BY <1>1
<1>5. SubSeq(s, 1, 0) = <<>> /\ SubSeq(s, 1, n) = s
  BY <1>1
<1>. QED  BY <1>1, <1>2, <1>3, <1>4, <1>5, Zenon

(* A word in quotes, with its backslashes.                                 *)
LEMMA EscapedWord ==
  ASSUME NEW s \in Seq(Signs), NEW w \in Seq(Signs), NEW A,
         InState(Parsed(s), A, <<>>, "in")
  PROVE  InState(Parsed(s \o CommandLine!Escaped(w)), A, w, "in")
<1>1. PICK n \in Nat : n = Len(w)
  OBVIOUS
<1>. DEFINE Up(i) == SubSeq(w, 1, i)
            Good(i) == InState(Parsed(s \o CommandLine!Escaped(Up(i))), A, Up(i), "in")
            S == {i \in Nat : i <= n => Good(i)}
<1>2. \A i \in 0..n : Up(i) \in Seq(Signs) /\ CommandLine!Escaped(Up(i)) \in Seq(Signs)
  <2>1. \A i \in 0..n : Up(i) \in Seq(Signs)
    BY <1>1, Beginnings
  <2>2. "b" \in Signs
    BY DEF Signs
  <2>. QED  BY <2>1, <2>2, EscapedNext, Zenon
<1>3. 0 \in S
  <2>1. Up(0) = <<>>
    BY Beginnings
  <2>2. CommandLine!Escaped(<<>>) = <<>>
    <3>1. "b" \in Signs
      BY DEF Signs
    <3>. QED  BY <3>1, EscapedNext, Zenon
  <2>3. s \o <<>> = s
    OBVIOUS
  <2>4. InState(Parsed(s \o CommandLine!Escaped(Up(0))), A, Up(0), "in")
    BY <2>1, <2>2, <2>3, Zenon
  <2>5. Good(0)
    BY <2>4, Zenon
  <2>. HIDE DEF Good
  <2>. QED  BY <2>5
<1>4. ASSUME NEW i \in Nat, i \in S PROVE i + 1 \in S
  <2>. HIDE DEF Good
  <2>1. SUFFICES ASSUME i + 1 <= n PROVE Good(i + 1)
    OBVIOUS
  <2>2. Good(i)
    BY <1>4, <2>1
  <2>. HIDE DEF S
  <2>3. i \in 0..n /\ i + 1 \in 1..n /\ (i + 1) - 1 = i
    BY <2>1
  <2>4. PICK c \in Signs : c = w[i + 1]
    BY <1>1, <2>3, Beginnings, Zenon
  <2>5. PICK u \in Seq(Signs) : u = Up(i)
    BY <1>2, <2>3, Zenon
  <2>6. Up(i + 1) = Append(u, c)
    <3>1. SubSeq(w, 1, i + 1) = Append(SubSeq(w, 1, (i + 1) - 1), w[i + 1])
      BY <1>1, <2>3, Beginnings, Zenon
    <3>. QED  BY <2>3, <2>4, <2>5, <3>1, Zenon
  <2>. HIDE DEF Up
  <2>7. PICK e \in Seq(Signs) : e = CommandLine!Escaped(u)
    BY <1>2, <2>3, <2>5, Zenon
  <2>8. CommandLine!Escaped(Append(u, c)) = e \o Spelt(c)
    BY <2>7, EscapedNext, Zenon
  <2>9. PICK r \in Seq(Signs) : r = s \o e
    BY Concatenated, Zenon
  <2>10. InState(Parsed(r), A, u, "in")
    BY <2>2, <2>5, <2>7, <2>9, Zenon DEF Good
  <2>11. CASE c \in {"q", "b"}
    <3>1. "b" \in Signs
      BY DEF Signs
    <3>20. PICK b \in Signs : b = "b"
      BY <3>1
    <3>21. s \o (e \o <<b, c>>) = Append(Append(r, b), c) /\ Append(r, b) \in Seq(Signs)
      <4>1. e \o <<b, c>> = Append(Append(e, b), c) /\ Append(e, b) \in Seq(Signs)
        OBVIOUS
      <4>2. PICK f \in Seq(Signs) : f = Append(e, b)
        BY <4>1
      <4>3. s \o Append(f, c) = Append(s \o f, c)
        OBVIOUS
      <4>4. s \o f = Append(r, b)
        BY <2>9, <4>2
      <4>5. Append(r, b) \in Seq(Signs)
        OBVIOUS
      <4>. QED  BY <4>1, <4>2, <4>3, <4>4, <4>5, Zenon
    <3>2. s \o (e \o <<"b", c>>) = Append(Append(r, "b"), c) /\ Append(r, "b") \in Seq(Signs)
      BY <3>20, <3>21, Zenon
    <3>3. Parsed(Append(r, "b")) = CommandLine!Token(Parsed(r), "b")
      BY <3>1, ParsedNext, Zenon
    <3>4. Parsed(Append(Append(r, "b"), c)) = CommandLine!Token(Parsed(Append(r, "b")), c)
      BY <3>2, ParsedNext, Zenon
    <3>5. InState(CommandLine!Token(CommandLine!Token(Parsed(r), "b"), c), A, Append(u, c), "in")
      <4>1. PICK t : t = Parsed(r)
        OBVIOUS
      <4>2. InState(CommandLine!Token(CommandLine!Token(t, "b"), c), A, Append(u, c), "in")
        BY <2>10, <4>1, OneToken, Zenon
      <4>. QED  BY <4>1, <4>2, Zenon
    <3>6. Spelt(c) = <<"b", c>>
      BY <2>11, Zenon DEF Spelt
    <3>. QED  BY <2>6, <2>8, <3>2, <3>3, <3>4, <3>5, <3>6, Zenon DEF Good
  <2>12. CASE c \notin {"q", "b"}
    <3>2. s \o (e \o <<c>>) = Append(r, c)
      BY <2>9
    <3>3. Parsed(Append(r, c)) = CommandLine!Token(Parsed(r), c)
      BY ParsedNext, Zenon
    <3>4. InState(CommandLine!Token(Parsed(r), c), A, Append(u, c), "in")
      <4>1. PICK t : t = Parsed(r)
        OBVIOUS
      <4>2. c \notin {"b", "q"}
        BY <2>12
      <4>3. InState(CommandLine!Token(t, c), A, Append(u, c), "in")
        BY <2>10, <4>1, <4>2, OneToken, Zenon
      <4>. QED  BY <4>1, <4>3, Zenon
    <3>6. Spelt(c) = <<c>>
      BY <2>12, Zenon DEF Spelt
    <3>. QED  BY <2>6, <2>8, <3>2, <3>3, <3>4, <3>6, Zenon DEF Good
  <2>. QED  BY <2>11, <2>12
<1>. HIDE DEF S
<1>5. n \in S
  BY <1>3, <1>4, SetInduction
<1>6. Up(n) = w
  BY <1>1, Beginnings
<1>. HIDE DEF Up
<1>7. n <= n
  OBVIOUS
<1>. QED  BY <1>5, <1>6, <1>7, Zenon DEF S

(* No character of a word has a meaning, within quotes or outside.         *)
Literal(w, Q) == \A i \in 1..Len(w) : w[i] \notin {"b", "q"} /\ (w[i] = "_" => Q = "in")

(* A word that needs none, in quotes or as it is.                          *)
LEMMA PlainWord ==
  ASSUME NEW s \in Seq(Signs), NEW w \in Seq(Signs), NEW A, NEW Q,
         InState(Parsed(s), A, <<>>, Q), Literal(w, Q)
  PROVE  InState(Parsed(s \o w), A, w, Q)
<1>1. PICK n \in Nat : n = Len(w)
  OBVIOUS
<1>. DEFINE Up(i) == SubSeq(w, 1, i)
            Good(i) == InState(Parsed(s \o Up(i)), A, Up(i), Q)
            S == {i \in Nat : i <= n => Good(i)}
<1>2. \A i \in 0..n : Up(i) \in Seq(Signs)
  BY <1>1, Beginnings
<1>3. 0 \in S
  <2>1. Up(0) = <<>>
    BY Beginnings
  <2>2. s \o <<>> = s
    OBVIOUS
  <2>3. InState(Parsed(s \o Up(0)), A, Up(0), Q)
    BY <2>1, <2>2, Zenon
  <2>5. Good(0)
    BY <2>3, Zenon
  <2>. HIDE DEF Good
  <2>. QED  BY <2>5
<1>4. ASSUME NEW i \in Nat, i \in S PROVE i + 1 \in S
  <2>. HIDE DEF Good
  <2>1. SUFFICES ASSUME i + 1 <= n PROVE Good(i + 1)
    OBVIOUS
  <2>2. Good(i)
    BY <1>4, <2>1
  <2>. HIDE DEF S
  <2>3. i \in 0..n /\ i + 1 \in 1..n /\ (i + 1) - 1 = i
    BY <2>1
  <2>4. PICK c \in Signs : c = w[i + 1]
    BY <1>1, <2>3, Beginnings, Zenon
  <2>5. PICK u \in Seq(Signs) : u = Up(i)
    BY <1>2, <2>3, Zenon
  <2>6. Up(i + 1) = Append(u, c)
    <3>1. SubSeq(w, 1, i + 1) = Append(SubSeq(w, 1, (i + 1) - 1), w[i + 1])
      BY <1>1, <2>3, Beginnings, Zenon
    <3>. QED  BY <2>3, <2>4, <2>5, <3>1, Zenon
  <2>. HIDE DEF Up
  <2>7. PICK r \in Seq(Signs) : r = s \o u
    BY Concatenated, Zenon
  <2>8. s \o Append(u, c) = Append(r, c)
    BY <2>7
  <2>9. Parsed(Append(r, c)) = CommandLine!Token(Parsed(r), c)
    BY ParsedNext, Zenon
  <2>10. c \notin {"b", "q"} /\ (c = "_" => Q = "in")
    BY <1>1, <2>3, <2>4, Zenon DEF Literal
  <2>11. InState(Parsed(r), A, u, Q)
    BY <2>2, <2>5, <2>7, Zenon DEF Good
  <2>12. InState(CommandLine!Token(Parsed(r), c), A, Append(u, c), Q)
    <3>1. PICK t : t = Parsed(r)
      OBVIOUS
    <3>2. InState(CommandLine!Token(t, c), A, Append(u, c), Q)
      BY <2>10, <2>11, <3>1, OneToken, Zenon
    <3>. QED  BY <3>1, <3>2, Zenon
  <2>. QED  BY <2>6, <2>8, <2>9, <2>12, Zenon DEF Good
<1>. HIDE DEF S
<1>5. n \in S
  BY <1>3, <1>4, SetInduction
<1>6. Up(n) = w
  BY <1>1, Beginnings
<1>. HIDE DEF Up
<1>7. n <= n
  OBVIOUS
<1>. QED  BY <1>5, <1>6, <1>7, Zenon DEF S

LEMMA Marks == "q" \in Signs /\ "b" \in Signs /\ "_" \in Signs /\ "|" \in Signs
BY DEF Signs

LEMMA EmptyTyped == \A D : <<>> \in Seq(D)
OBVIOUS

LEMMA Extended ==
  /\ \A D : \A s, x \in Seq(D) : x # <<>> => s \o x \in Seq(D) /\ s \o x # <<>>
  /\ \A D : \A s \in Seq(D), x \in D : Append(s, x) \in Seq(D) /\ Append(s, x) # <<>>
<1>1. ASSUME NEW D, NEW s \in Seq(D), NEW x \in Seq(D), x # <<>>
      PROVE  s \o x \in Seq(D) /\ s \o x # <<>>
  <2>1. Len(x) \in Nat /\ Len(x) # 0 /\ Len(s) \in Nat
    BY <1>1
  <2>2. s \o x \in Seq(D) /\ Len(s \o x) = Len(s) + Len(x)
    OBVIOUS
  <2>3. Len(s \o x) # 0
    BY <2>1, <2>2
  <2>4. Len(<<>>) = 0
    OBVIOUS
  <2>. QED  BY <2>2, <2>3, <2>4, Zenon
<1>2. ASSUME NEW D, NEW s \in Seq(D), NEW x \in D
      PROVE  Append(s, x) \in Seq(D) /\ Append(s, x) # <<>>
  <2>1. Append(s, x) \in Seq(D) /\ Len(Append(s, x)) = Len(s) + 1 /\ Len(s) \in Nat
    OBVIOUS
  <2>2. Len(Append(s, x)) # 0
    BY <2>1
  <2>4. Len(<<>>) = 0
    OBVIOUS
  <2>. QED  BY <2>1, <2>2, <2>4, Zenon
<1>. QED  BY <1>1, <1>2, Zenon

LEMMA InTheQuotes ==
  ASSUME NEW s \in Seq(Signs), NEW y \in Seq(Signs), NEW w, NEW A,
         InState(Parsed(s), A, <<>>, "out"),
         InState(Parsed(Append(s, "q")), A, <<>>, "in")
           => InState(Parsed(Append(s, "q") \o y), A, w, "in")
  PROVE  LET x == CommandLine!InQuotes(y)
         IN  x \in Seq(Signs) /\ x # <<>> /\ InState(Parsed(s \o x), A, w, "out")
<1>1. PICK q \in Signs : q = "q"
  BY Marks, Zenon
<1>2. PICK x : x = CommandLine!InQuotes(y)
  OBVIOUS
<1>3. x = <<q>> \o y \o <<q>>
  BY <1>1, <1>2, Zenon DEF CommandLine!InQuotes
<1>4. x \in Seq(Signs) /\ x # <<>>
  <2>1. <<q>> \o y \in Seq(Signs) /\ Len(<<q>> \o y) = 1 + Len(y)
    OBVIOUS
  <2>2. PICK z \in Seq(Signs) : z = <<q>> \o y
    BY <2>1
  <2>3. z \o <<q>> \in Seq(Signs) /\ Len(z \o <<q>>) = Len(z) + 1
    OBVIOUS
  <2>. QED  BY <1>3, <2>2, <2>3
<1>5. PICK r \in Seq(Signs) : r = Append(s, q)
  BY Appended, Zenon
<1>6. PICK u \in Seq(Signs) : u = r \o y
  BY Concatenated, Zenon
<1>7. s \o x = Append(u, q)
  <2>0. <<q>> \o y \in Seq(Signs)
    OBVIOUS
  <2>1. PICK z \in Seq(Signs) : z = <<q>> \o y
    BY <2>0, Zenon
  <2>2. s \o z = u
    BY <1>5, <1>6, <2>1
  <2>3. s \o (z \o <<q>>) = Append(s \o z, q)
    OBVIOUS
  <2>. QED  BY <1>3, <2>1, <2>2, <2>3, Zenon
<1>8. Parsed(r) = CommandLine!Token(Parsed(s), q)
  BY <1>5, ParsedNext, Zenon
<1>9. InState(Parsed(r), A, <<>>, "in")
  <2>1. InState(CommandLine!Token(Parsed(s), "q"), A, <<>>, "in")
    BY OneToken, Zenon
  <2>. QED  BY <1>1, <1>8, <2>1, Zenon
<1>10. InState(Parsed(u), A, w, "in")
  BY <1>1, <1>5, <1>6, <1>9, Zenon
<1>11. Parsed(Append(u, q)) = CommandLine!Token(Parsed(u), q)
  BY ParsedNext, Zenon
<1>12. InState(CommandLine!Token(Parsed(u), "q"), A, w, "out")
  BY <1>10, OneToken, Zenon
<1>13. InState(Parsed(s \o x), A, w, "out")
  BY <1>1, <1>7, <1>11, <1>12, Zenon
<1>. QED  BY <1>2, <1>4, <1>13, Zenon

LEMMA EscapedTyped == ASSUME NEW w \in Seq(Signs) PROVE CommandLine!Escaped(w) \in Seq(Signs)
BY Marks, EscapedNext, Zenon

(* However a word is spelt, the loop reads it.                             *)
LEMMA SpeltWord ==
  ASSUME NEW s \in Seq(Signs), NEW w \in Seq(Signs), NEW A,
         InState(Parsed(s), A, <<>>, "out"), NEW x \in CommandLine!Spellings(w)
  PROVE  x \in Seq(Signs) /\ x # <<>> /\ InState(Parsed(s \o x), A, w, "out")
<1>1. Append(s, "q") \in Seq(Signs)
  BY Marks, Appended, Zenon
<1>2. CASE x = CommandLine!InQuotes(CommandLine!Escaped(w))
  <2>1. CommandLine!Escaped(w) \in Seq(Signs)
    BY EscapedTyped
  <2>2. InState(Parsed(Append(s, "q")), A, <<>>, "in")
          => InState(Parsed(Append(s, "q") \o CommandLine!Escaped(w)), A, w, "in")
    BY <1>1, EscapedWord, Zenon
  <2>. QED  BY <1>2, <2>1, <2>2, InTheQuotes, Zenon
<1>3. CASE x = CommandLine!InQuotes(w) /\ ~CommandLine!Special(w)
  <2>1. Literal(w, "in")
    <3>1. DOMAIN w = 1..Len(w)
      OBVIOUS
    <3>. QED  BY <1>3, <3>1 DEF Literal, CommandLine!Special, CommandLine!Has
  <2>2. InState(Parsed(Append(s, "q")), A, <<>>, "in")
          => InState(Parsed(Append(s, "q") \o w), A, w, "in")
    BY <1>1, <2>1, PlainWord, Zenon
  <2>. QED  BY <1>3, <2>2, InTheQuotes, Zenon
<1>4. CASE x = w /\ ~(CommandLine!Special(w) \/ CommandLine!Has(w, "_") \/ w = <<>>)
  <2>1. Literal(w, "out")
    <3>1. DOMAIN w = 1..Len(w)
      OBVIOUS
    <3>. QED  BY <1>4, <3>1, Zenon DEF Literal, CommandLine!Special, CommandLine!Has
  <2>2. InState(Parsed(s \o w), A, w, "out")
    BY <2>1, PlainWord, Zenon
  <2>. QED  BY <1>4, <2>2, Zenon
<1>5. \/ x = CommandLine!InQuotes(CommandLine!Escaped(w))
      \/ x = CommandLine!InQuotes(w) /\ ~CommandLine!Special(w)
      \/ x = w /\ ~(CommandLine!Special(w) \/ CommandLine!Has(w, "_") \/ w = <<>>)
  BY Zenon DEF CommandLine!Spellings
<1>. QED  BY <1>2, <1>3, <1>4, <1>5, Zenon

-----------------------------------------------------------------------------
(* What the words are before and after the child has them.                 *)

ParsedSoFar(string, ws) ==
  \E A \in Seq(Seq(Signs)), T \in Seq(Signs) :
    InState(Parsed(string), A, T, "out") /\ A \o CommandLine!Kept(T) = CommandLine!NonEmpty(ws)
WordsAre ==
  /\ words \in Seq(Seq(Signs)) /\ args \in Seq(Signs) /\ ParsedSoFar(args, words)
  /\ (args = <<>> => words = <<>>) /\ (words = <<>> => args = <<>>)

LEMMA TokensAre ==
  ASSUME NEW string \in Seq(Signs), NEW ws, ParsedSoFar(string, ws)
  PROVE  CommandLine!Tokens(string) = CommandLine!NonEmpty(ws)
<1>1. PICK A \in Seq(Seq(Signs)), T \in Seq(Signs) :
        InState(Parsed(string), A, T, "out") /\ A \o CommandLine!Kept(T) = CommandLine!NonEmpty(ws)
  BY Zenon DEF ParsedSoFar
<1>2. CommandLine!Tokens(string) = CommandLine!EndToken(Parsed(string)).argv
  BY Zenon DEF CommandLine!Tokens, Parsed, NoTokens
<1>3. InState(CommandLine!EndToken(Parsed(string)), A \o CommandLine!Kept(T), <<>>, "out")
  BY <1>1, WordEnds, Zenon
<1>4. CommandLine!EndToken(Parsed(string)).argv = A \o CommandLine!Kept(T)
  <2>1. PICK t : t = CommandLine!EndToken(Parsed(string))
    OBVIOUS
  <2>2. PICK B : B = A \o CommandLine!Kept(T)
    OBVIOUS
  <2>3. t = [argv |-> B, token |-> <<>>, quoted |-> "out" = "in", escaped |-> FALSE]
    BY <1>3, <2>1, <2>2, Zenon DEF InState, Is
  <2>4. t.argv = B
    BY <2>3, Zenon
  <2>. QED  BY <2>1, <2>2, <2>4, Zenon
<1>. QED  BY <1>1, <1>2, <1>4, Zenon

LEMMA NothingParsed == InState(Parsed(<<>>), <<>>, <<>>, "out") /\ CommandLine!NonEmpty(<<>>) = <<>>
<1>1. Parsed(<<>>) = NoTokens
  <2>. QED  BY EmptyTyped, Marks, ParsedNext, Zenon
<1>2. InState(NoTokens, <<>>, <<>>, "out")
  <2>1. ("out" = "in") = FALSE
    OBVIOUS
  <2>. QED  BY <2>1, Zenon DEF InState, Is, NoTokens
<1>3. CommandLine!NonEmpty(<<>>) = <<>>
  <2>. QED  BY EmptyTyped, NonEmptyNext, Zenon
<1>. QED  BY <1>1, <1>2, <1>3, Zenon

(* One more word, behind a space unless it is the first.                   *)
LEMMA OneMoreWord ==
  ASSUME NEW string \in Seq(Signs), NEW ws \in Seq(Seq(Signs)), ParsedSoFar(string, ws),
         string = <<>> => ws = <<>>,
         NEW w \in Seq(Signs), NEW x \in CommandLine!Spellings(w), NEW longer,
         longer = (IF string = <<>> THEN string ELSE Append(string, "_")) \o x
  PROVE  /\ longer \in Seq(Signs) /\ longer # <<>> /\ ParsedSoFar(longer, Append(ws, w))
         /\ Append(ws, w) \in Seq(Seq(Signs)) /\ Append(ws, w) # <<>>
<1>1. PICK s : s = IF string = <<>> THEN string ELSE Append(string, "_")
  OBVIOUS
<1>2. PICK B : B = CommandLine!NonEmpty(ws)
  OBVIOUS
<1>3. s \in Seq(Signs) /\ B \in Seq(Seq(Signs)) /\ InState(Parsed(s), B, <<>>, "out")
  <2>0. B \in Seq(Seq(Signs))
    <3>. QED  BY <1>2, EmptyTyped, NonEmptyNext, Zenon
  <2>1. CASE string = <<>>
    <3>1. s = <<>> /\ ws = <<>> /\ <<>> \in Seq(Signs)
      BY <1>1, <2>1, EmptyTyped, Zenon
    <3>. QED  BY <1>2, <2>0, <3>1, NothingParsed, Zenon
  <2>2. CASE string # <<>>
    <3>1. s = Append(string, "_")
      BY <1>1, <2>2, Zenon
    <3>2. PICK A \in Seq(Seq(Signs)), T \in Seq(Signs) :
            InState(Parsed(string), A, T, "out") /\ A \o CommandLine!Kept(T) = B
      BY <1>2, Zenon DEF ParsedSoFar
    <3>3. Parsed(s) = CommandLine!Token(Parsed(string), "_")
      BY <3>1, Marks, ParsedNext, Zenon
    <3>4. InState(CommandLine!Token(Parsed(string), "_"), B, <<>>, "out")
      BY <3>2, WordEnds, Zenon
    <3>5. s \in Seq(Signs)
      BY <3>1, Marks, Appended, Zenon
    <3>. QED  BY <2>0, <3>3, <3>4, <3>5, Zenon
  <2>. QED  BY <2>1, <2>2
<1>4. x \in Seq(Signs) /\ x # <<>> /\ InState(Parsed(s \o x), B, w, "out")
  BY <1>3, SpeltWord, Zenon
<1>5. longer = s \o x
  BY <1>1, Zenon
<1>6. longer \in Seq(Signs) /\ longer # <<>>
  <2>1. s \o x \in Seq(Signs) /\ s \o x # <<>>
    BY <1>3, <1>4, Extended, Zenon
  <2>. QED  BY <1>5, <2>1, Zenon
<1>7. CommandLine!NonEmpty(Append(ws, w)) = B \o CommandLine!Kept(w)
  BY <1>2, NonEmptyNext, Zenon
<1>8. ParsedSoFar(longer, Append(ws, w))
  BY <1>3, <1>4, <1>5, <1>7, Zenon DEF ParsedSoFar
<1>9. Append(ws, w) \in Seq(Seq(Signs)) /\ Append(ws, w) # <<>>
  BY Extended, Zenon
<1>. QED  BY <1>6, <1>8, <1>9, Zenon

-----------------------------------------------------------------------------
(* The child's words, and CLIParser's place among them.                    *)

LEMMA WordTyped ==
  ASSUME NEW w \in CommandLine!Words PROVE w \in Seq(Signs)
<1>1. PICK k \in 0..MaxWord : w \in [1..k -> Letters]
  BY Zenon DEF CommandLine!Words
<1>2. k \in Nat
  BY UtilitiesAssumption DEF UtilitiesAssumption, CommandLine!CommandLineAssumption
<1>3. w \in [1..k -> Signs]
  BY <1>1 DEF Signs
<1>. QED  BY <1>2, <1>3, FunctionIsSeq, Zenon

LEMMA WordsStart == CommandLine!Init => WordsAre
<1>1. ASSUME CommandLine!Init PROVE WordsAre
  <2>1. words = <<>> /\ args = <<>>
    BY <1>1 DEF CommandLine!Init
  <2>2. <<>> \o CommandLine!Kept(<<>>) = <<>>
    <3>1. CommandLine!Kept(<<>>) = <<>>
      BY Zenon DEF CommandLine!Kept
    <3>2. <<>> \o <<>> = <<>>
      OBVIOUS
    <3>. QED  BY <3>1, <3>2, Zenon
  <2>3. ParsedSoFar(<<>>, <<>>)
    BY <2>2, EmptyTyped, NothingParsed, Zenon DEF ParsedSoFar
  <2>. QED  BY <2>1, <2>3, EmptyTyped, Zenon DEF WordsAre
<1>. QED  BY <1>1

(* The words so far when the only one is a descriptor, in its quotes.      *)
LEMMA FirstWord ==
  ASSUME NEW w \in Seq(Signs), Literal(w, "in"), NEW x, x = CommandLine!InQuotes(w)
  PROVE  /\ x \in Seq(Signs) /\ x # <<>> /\ ParsedSoFar(x, <<w>>)
         /\ <<w>> \in Seq(Seq(Signs)) /\ <<w>> # <<>>
<1>1. PICK e \in Seq(Signs) : e = <<>>
  BY EmptyTyped, Zenon
<1>2. PICK A \in Seq(Seq(Signs)) : A = <<>>
  BY EmptyTyped, Zenon
<1>3. InState(Parsed(e), A, <<>>, "out")
  BY <1>1, <1>2, NothingParsed, Zenon
<1>4. Append(e, "q") \in Seq(Signs)
  BY Marks, Appended, Zenon
<1>5. InState(Parsed(Append(e, "q")), A, <<>>, "in")
          => InState(Parsed(Append(e, "q") \o w), A, w, "in")
  BY <1>4, PlainWord, Zenon
<1>6. x \in Seq(Signs) /\ x # <<>> /\ InState(Parsed(e \o x), A, w, "out")
  BY <1>3, <1>5, InTheQuotes, Zenon
<1>7. e \o x = x
  BY <1>1, <1>6
<1>8. <<w>> = Append(A, w) /\ <<w>> \in Seq(Seq(Signs)) /\ <<w>> # <<>>
  BY <1>2
<1>9. CommandLine!NonEmpty(<<w>>) = A \o CommandLine!Kept(w)
  <2>1. CommandLine!NonEmpty(Append(A, w)) = CommandLine!NonEmpty(A) \o CommandLine!Kept(w)
    BY NonEmptyNext, Zenon
  <2>2. CommandLine!NonEmpty(A) = A
    BY <1>2, NothingParsed, Zenon
  <2>. QED  BY <1>8, <2>1, <2>2, Zenon
<1>10. ParsedSoFar(x, <<w>>)
  BY <1>6, <1>7, <1>9, Zenon DEF ParsedSoFar
<1>. QED  BY <1>6, <1>8, <1>10, Zenon

Paths == \A d \in Descriptors :
  CommandLine!serialize(d) \in Seq(Signs) /\ Literal(CommandLine!serialize(d), "in")

LEMMA WordsKept ==
  ASSUME Paths, WordsAre, [CommandLine!Next]_wordVars
  PROVE  WordsAre'
<1>1. ASSUME NEW w \in CommandLine!Words, CommandLine!GiveWord(w) PROVE WordsAre'
  <2>1. PICK x \in CommandLine!Spellings(w) :
          args' = (IF args = <<>> THEN args ELSE Append(args, "_")) \o x
    BY <1>1, Zenon DEF CommandLine!GiveWord
  <2>2. words' = Append(words, w)
    BY <1>1, Zenon DEF CommandLine!GiveWord
  <2>3. w \in Seq(Signs)
    BY WordTyped
  <2>4. words \in Seq(Seq(Signs)) /\ args \in Seq(Signs) /\ ParsedSoFar(args, words)
        /\ (args = <<>> => words = <<>>)
    BY Zenon DEF WordsAre
  <2>5. PICK longer : longer = (IF args = <<>> THEN args ELSE Append(args, "_")) \o x
    OBVIOUS
  <2>6. /\ longer \in Seq(Signs) /\ longer # <<>> /\ ParsedSoFar(longer, Append(words, w))
        /\ Append(words, w) \in Seq(Seq(Signs)) /\ Append(words, w) # <<>>
    BY <2>3, <2>4, <2>5, OneMoreWord, Zenon
  <2>7. args' = longer
    BY <2>1, <2>5, Zenon
  <2>. QED  BY <2>2, <2>6, <2>7, Zenon DEF WordsAre
<1>2. ASSUME NEW d \in Descriptors, CommandLine!GiveDescriptor(d) PROVE WordsAre'
  <2>1. PICK w : w = CommandLine!serialize(d)
    OBVIOUS
  <2>2. w \in Seq(Signs) /\ Literal(w, "in")
    BY <2>1, Zenon DEF Paths
  <2>3. words' = <<w>> /\ args' = CommandLine!InQuotes(w)
    BY <1>2, <2>1, Zenon DEF CommandLine!GiveDescriptor
  <2>4. PICK x : x = CommandLine!InQuotes(w)
    OBVIOUS
  <2>5. /\ x \in Seq(Signs) /\ x # <<>> /\ ParsedSoFar(x, <<w>>)
        /\ <<w>> \in Seq(Seq(Signs)) /\ <<w>> # <<>>
    BY <2>2, <2>4, FirstWord, Zenon
  <2>. QED  BY <2>3, <2>4, <2>5, Zenon DEF WordsAre
<1>3. ASSUME UNCHANGED <<words, args>> PROVE WordsAre'
  BY <1>3, Zenon DEF WordsAre
<1>4. ASSUME NEW w, CommandLine!consume(w) PROVE UNCHANGED <<words, args>>
  BY <1>4 DEF CommandLine!consume
<1>. QED
  BY <1>1, <1>2, <1>3, <1>4 DEF CommandLine!Next, CommandLine!Spawn, CommandLine!next, wordVars

(* A list behind a first element.                                          *)
LEMMA Behind ==
  ASSUME NEW D, NEW K \in Seq(D), NEW program, NEW v, v = <<program>> \o K
  PROVE  /\ v # <<>> /\ Tail(v) = K /\ Len(v) = Len(K) + 1
         /\ \A i \in 1..Len(K) : v[i + 1] = K[i]
         /\ \A c \in 2..Len(K) + 2 : SubSeq(K, 1, c - 2) \o SubSeq(v, c, Len(v)) = K
<1>. DEFINE E == D \cup {program}
<1>1. PICK n \in Nat : n = Len(K)
  OBVIOUS
<1>2. K \in Seq(E)
  <2>1. K \in [1..n -> E]
    BY <1>1
  <2>. QED  BY <2>1, FunctionIsSeq, Zenon
<1>. HIDE DEF E
<1>3. PICK w \in Seq(E) : w = <<program>>
  <2>1. program \in E
    BY DEF E
  <2>2. <<program>> \in Seq(E)
    BY <2>1
  <2>. QED  BY <2>2, Zenon
<1>4. v \in Seq(E) /\ Len(v) = n + 1 /\ v[1] = program /\ \A i \in 1..n : v[i + 1] = K[i]
  <2>1. Len(w) = 1 /\ w[1] = program
    BY <1>3
  <2>. QED  BY <1>1, <1>2, <1>3, <2>1
<1>5. v # <<>> /\ Tail(v) = K
  BY <1>1, <1>2, <1>4
<1>6. ASSUME NEW c \in 2..n + 2
      PROVE  SubSeq(K, 1, c - 2) \o SubSeq(v, c, n + 1) = K
  <2>1. PICK a \in 0..n : a = c - 2
    OBVIOUS
  <2>2. SubSeq(K, 1, a) \in Seq(E) /\ SubSeq(v, a + 2, n + 1) \in Seq(E)
    BY <1>1, <1>2, <1>4
  <2>3. PICK x \in Seq(E) : x = SubSeq(K, 1, a)
    BY <2>2, Zenon
  <2>4. PICK y \in Seq(E) : y = SubSeq(v, a + 2, n + 1)
    BY <2>2, Zenon
  <2>5. Len(x) = a /\ \A i \in 1..a : x[i] = K[i]
    BY <1>1, <1>2, <2>3
  <2>6. Len(y) = n - a /\ \A i \in 1..n - a : y[i] = v[(a + 2) + i - 1]
    <3>1. /\ v \in Seq(E) /\ a + 2 \in Nat /\ n + 1 \in Nat /\ 1 <= a + 2
          /\ a + 2 <= (n + 1) + 1 /\ n + 1 <= Len(v)
      BY <1>4
    <3>2. /\ Len(y) = (n + 1) - (a + 2) + 1
          /\ \A i \in 1..(n + 1) - (a + 2) + 1 : y[i] = v[(a + 2) + i - 1]
      <4>1. /\ Len(SubSeq(v, a + 2, n + 1)) = (n + 1) - (a + 2) + 1
            /\ \A i \in 1..(n + 1) - (a + 2) + 1 :
                 SubSeq(v, a + 2, n + 1)[i] = v[(a + 2) + i - 1]
        BY <3>1, PartOf, ZenonT(30)
      <4>. QED  BY <2>4, <4>1, Zenon
    <3>3. (n + 1) - (a + 2) + 1 = n - a
      OBVIOUS
    <3>. QED  BY <3>2, <3>3, Zenon
  <2>7. ASSUME NEW i \in 1..n - a PROVE y[i] = K[a + i]
    <3>1. (a + 2) + i - 1 = (a + i) + 1 /\ a + i \in 1..n
      OBVIOUS
    <3>2. v[(a + i) + 1] = K[a + i]
      BY <1>4, <3>1
    <3>. QED  BY <2>6, <3>1, <3>2
  <2>8. PICK z \in Seq(E) : z = x \o y
    BY Concatenated, Zenon
  <2>9. Len(z) = n /\ (\A i \in 1..a : z[i] = K[i]) /\ \A i \in 1..n - a : z[a + i] = K[a + i]
    <3>1. /\ Len(z) = Len(x) + Len(y)
          /\ \A j \in 1..Len(x) : z[j] = x[j]
          /\ \A j \in 1..Len(y) : z[Len(x) + j] = y[j]
      <4>1. /\ Len(x \o y) = Len(x) + Len(y)
            /\ \A j \in 1..Len(x) : (x \o y)[j] = x[j]
            /\ \A j \in 1..Len(y) : (x \o y)[Len(x) + j] = y[j]
        BY Concatenated
      <4>. QED  BY <2>8, <4>1
    <3>2. Len(x) = a /\ Len(y) = n - a
      BY <2>5, <2>6
    <3>3. ASSUME NEW i \in 1..n - a PROVE z[a + i] = K[a + i]
      BY <2>7, <3>1, <3>2
    <3>4. Len(z) = n
      BY <3>1, <3>2
    <3>. QED  BY <2>5, <3>1, <3>2, <3>3, <3>4
  <2>10. \A i \in 1..n : z[i] = K[i]
    <3>1. ASSUME NEW i \in 1..n, i > a PROVE z[i] = K[i]
      <4>1. i - a \in 1..n - a /\ a + (i - a) = i
        BY <3>1
      <4>. QED  BY <2>9, <4>1
    <3>2. \A i \in 1..n : i \in 1..a \/ i > a
      OBVIOUS
    <3>. QED  BY <2>9, <3>1, <3>2, Zenon
  <2>11. z = K
    BY <1>1, <1>2, <2>9, <2>10, SMTT(30)
  <2>12. c = a + 2
    BY <2>1
  <2>. QED  BY <2>1, <2>3, <2>4, <2>8, <2>11, <2>12
<1>. QED  BY <1>1, <1>4, <1>5, <1>6

(* CLIParser's place: what it gave out is the child's words up to there.   *)
Reading ==
  LET K == CommandLine!NonEmpty(words)
  IN  IF argv = <<>> THEN heard = <<>>
      ELSE /\ argv = <<<<"program">>>> \o K
           /\ m_current_arg \in 2..Len(K) + 2
           /\ heard = SubSeq(K, 1, m_current_arg - 2)

LEMMA ReadingStart == CommandLine!Init => Reading
BY DEF CommandLine!Init, Reading

LEMMA ReadingKept ==
  ASSUME WordsAre, Reading, [CommandLine!Next]_wordVars
  PROVE  Reading'
<1>1. PICK K : K = CommandLine!NonEmpty(words)
  OBVIOUS
<1>2. K \in Seq(Seq(Signs))
  <2>1. words \in Seq(Seq(Signs))
    BY Zenon DEF WordsAre
  <2>. QED  BY <1>1, <2>1, EmptyTyped, NonEmptyNext, Zenon
<1>3. ASSUME argv = <<>>, UNCHANGED <<argv, heard>> PROVE Reading'
  BY <1>3, Zenon DEF Reading
<1>4. ASSUME CommandLine!Spawn PROVE Reading'
  <2>1. argv = <<>> /\ UNCHANGED <<words, heard>> /\ m_current_arg' = 2
    BY <1>4 DEF CommandLine!Spawn
  <2>2. CommandLine!Tokens(args) = K
    BY <1>1, TokensAre, Zenon DEF WordsAre
  <2>3. argv' = <<<<"program">>>> \o K
    BY <1>4, <2>2, Zenon DEF CommandLine!Spawn
  <2>4. heard = SubSeq(K, 1, 2 - 2)
    <3>1. heard = <<>>
      BY <2>1, Zenon DEF Reading
    <3>2. SubSeq(K, 1, 2 - 2) = <<>>
      BY <1>2
    <3>. QED  BY <3>1, <3>2, Zenon
  <2>5. CommandLine!NonEmpty(words)' = K
    BY <1>1, <2>1, Zenon
  <2>6. argv' # <<>>
    BY <1>2, <2>3, Behind, Zenon
  <2>7. 2 \in 2..Len(K) + 2
    BY <1>2
  <2>. QED  BY <2>1, <2>3, <2>4, <2>5, <2>6, <2>7, Zenon DEF Reading
<1>5. ASSUME argv # <<>>, CommandLine!remaining, UNCHANGED <<words, argv>>,
             heard' = Append(heard, CommandLine!peek), m_current_arg' = m_current_arg + 1
      PROVE  Reading'
  <2>1. PICK c : c = m_current_arg
    OBVIOUS
  <2>2. argv = <<<<"program">>>> \o K /\ c \in 2..Len(K) + 2 /\ heard = SubSeq(K, 1, c - 2)
    BY <1>1, <1>5, <2>1, Zenon DEF Reading
  <2>3. PICK n \in Nat : n = Len(K)
    BY <1>2
  <2>4. Len(argv) = n + 1 /\ \A i \in 1..n : argv[i + 1] = K[i]
    <3>1. Len(argv) = Len(K) + 1 /\ \A i \in 1..Len(K) : argv[i + 1] = K[i]
      <4>1. argv = <<<<"program">>>> \o K
        BY <2>2
      <4>2. Len(argv) = Len(K) + 1
        BY <1>2, <4>1, Behind, Zenon
      <4>3. \A i \in 1..Len(K) : argv[i + 1] = K[i]
        <5>1. PICK v : v = argv
          OBVIOUS
        <5>2. v = <<<<"program">>>> \o K
          BY <4>1, <5>1, Zenon
        <5>3. \A i \in 1..Len(K) : v[i + 1] = K[i]
          BY <1>2, <5>2, Behind
        <5>. QED  BY <5>1, <5>3, Zenon
      <4>. QED  BY <4>2, <4>3
    <3>. QED  BY <2>3, <3>1, Zenon
  <2>5. c \in 2..n + 1 /\ CommandLine!peek = argv[c]
    BY <1>5, <2>1, <2>2, <2>3, <2>4 DEF CommandLine!remaining, CommandLine!peek
  <2>6. c - 1 \in 1..n /\ (c - 1) + 1 = c /\ (c - 1) - 1 = c - 2 /\ (c + 1) - 2 = c - 1
        /\ c + 1 \in 2..n + 2
    BY <2>5
  <2>7. argv[c] = K[c - 1]
    BY <2>4, <2>6, Zenon
  <2>8. SubSeq(K, 1, c - 1) = Append(SubSeq(K, 1, c - 2), K[c - 1])
    BY <1>2, <2>3, <2>6, Beginnings, Zenon
  <2>9. heard' = SubSeq(K, 1, (c + 1) - 2)
    BY <1>5, <2>2, <2>5, <2>6, <2>7, <2>8, Zenon
  <2>10. CommandLine!NonEmpty(words)' = K
    BY <1>1, <1>5, Zenon
  <2>. QED  BY <1>5, <2>1, <2>2, <2>3, <2>6, <2>9, <2>10, Zenon DEF Reading
<1>6. ASSUME UNCHANGED wordVars PROVE Reading'
  BY <1>6, Zenon DEF Reading, wordVars
<1>7. ASSUME NEW w, CommandLine!GiveWord(w) \/ CommandLine!GiveDescriptor(w)
      PROVE  argv = <<>> /\ UNCHANGED <<argv, heard>>
  BY <1>7 DEF CommandLine!GiveWord, CommandLine!GiveDescriptor
<1>8. ASSUME NEW w, CommandLine!next \/ CommandLine!consume(w)
      PROVE  /\ argv # <<>> /\ CommandLine!remaining /\ UNCHANGED <<words, argv>>
             /\ heard' = Append(heard, CommandLine!peek) /\ m_current_arg' = m_current_arg + 1
  BY <1>8, Zenon DEF CommandLine!next, CommandLine!consume
<1>. QED  BY <1>3, <1>4, <1>5, <1>6, <1>7, <1>8, Zenon DEF CommandLine!Next

LEMMA ChildHears ==
  ASSUME WordsAre, Reading PROVE CommandLine!WordsArrive /\ CommandLine!CursorKeepsPlace
<1>1. PICK K : K = CommandLine!NonEmpty(words)
  OBVIOUS
<1>2. K \in Seq(Seq(Signs))
  <2>1. words \in Seq(Seq(Signs))
    BY Zenon DEF WordsAre
  <2>. QED  BY <1>1, <2>1, EmptyTyped, NonEmptyNext, Zenon
<1>3. ASSUME argv # <<>>
      PROVE  /\ argv = <<<<"program">>>> \o K
             /\ m_current_arg \in 2..Len(K) + 2
             /\ heard = SubSeq(K, 1, m_current_arg - 2)
  BY <1>1, <1>3, Zenon DEF Reading
<1>4. CommandLine!WordsArrive
  BY <1>1, <1>2, <1>3, Behind, Zenon DEF CommandLine!WordsArrive
<1>5. ASSUME argv # <<>>
      PROVE  heard \o SubSeq(argv, m_current_arg, Len(argv)) = Tail(argv)
  <2>1. PICK c \in 2..Len(K) + 2 : c = m_current_arg
    BY <1>3, <1>5, Zenon
  <2>2. argv = <<<<"program">>>> \o K /\ heard = SubSeq(K, 1, c - 2)
    BY <1>3, <1>5, <2>1, Zenon
  <2>3. Tail(argv) = K
    BY <1>2, <2>2, Behind, Zenon
  <2>4. SubSeq(K, 1, c - 2) \o SubSeq(argv, c, Len(argv)) = K
    BY <1>2, <2>2, Behind, Zenon
  <2>. QED  BY <2>1, <2>2, <2>3, <2>4, Zenon
<1>6. CommandLine!CursorKeepsPlace
  BY <1>5, Zenon DEF CommandLine!CursorKeepsPlace
<1>. QED  BY <1>4, <1>6

-----------------------------------------------------------------------------
(* The connection string.                                                  *)

LEMMA MinIs ==
  ASSUME NEW S \in SUBSET Nat, S # {}
  PROVE  CommandLine!Min(S) \in S /\ \A y \in S : CommandLine!Min(S) <= y
<1>1. PICK x \in S : \A y \in S : x <= y
  BY Least, Zenon
<1>. QED  BY <1>1, Zenon DEF CommandLine!Min

Ten10 == 10000000000
Tens == [k \in 0..10 |-> IF k = 10 THEN Ten10 ELSE CommandLine!Powers[k + 1]]

LEMMA TensStep ==
  ASSUME NEW n \in Nat, NEW k \in 1..10
  PROVE  n \div Tens[k - 1] = 10 * (n \div Tens[k]) + ((n \div Tens[k - 1]) % 10)
<1>1. /\ Tens[0] = 1 /\ Tens[1] = 10 /\ Tens[2] = 100 /\ Tens[3] = 1000 /\ Tens[4] = 10000
      /\ Tens[5] = 100000 /\ Tens[6] = 1000000 /\ Tens[7] = 10000000 /\ Tens[8] = 100000000
      /\ Tens[9] = 1000000000 /\ Tens[10] = 10000000000
  BY DEF Tens, Ten10, CommandLine!Powers
<1>2. PICK a : a = Tens[k - 1]
  OBVIOUS
<1>3. PICK b : b = Tens[k]
  OBVIOUS
<1>4. a \in {1, 10, 100, 1000, 10000, 100000, 1000000, 10000000, 100000000, 1000000000}
      /\ b = 10 * a
  <2>1. k \in {1, 2, 3, 4, 5, 6, 7, 8, 9, 10}
    OBVIOUS
  <2>. QED  BY <1>1, <1>2, <1>3, <2>1
<1>5. (n \div a) \div 10 = n \div b
  <2>1. (n \div 1) \div 10 = n \div 10
    OBVIOUS
  <2>2. (n \div 10) \div 10 = n \div 100
    OBVIOUS
  <2>3. (n \div 100) \div 10 = n \div 1000
    OBVIOUS
  <2>4. (n \div 1000) \div 10 = n \div 10000
    OBVIOUS
  <2>5. (n \div 10000) \div 10 = n \div 100000
    OBVIOUS
  <2>6. (n \div 100000) \div 10 = n \div 1000000
    OBVIOUS
  <2>7. (n \div 1000000) \div 10 = n \div 10000000
    OBVIOUS
  <2>8. (n \div 10000000) \div 10 = n \div 100000000
    OBVIOUS
  <2>9. (n \div 100000000) \div 10 = n \div 1000000000
    OBVIOUS
  <2>10. (n \div 1000000000) \div 10 = n \div 10000000000
    OBVIOUS
  <2>. QED  BY <1>4, <2>1, <2>2, <2>3, <2>4, <2>5, <2>6, <2>7, <2>8, <2>9, <2>10
<1>6. PICK m \in Nat : m = n \div a
  BY <1>4
<1>7. m = 10 * (m \div 10) + (m % 10)
  OBVIOUS
<1>8. m = 10 * (n \div b) + (m % 10)
  BY <1>5, <1>6, <1>7
<1>. QED  BY <1>2, <1>3, <1>6, <1>8, Zenon

LEMMA TensDivide ==
  ASSUME NEW n \in Nat, NEW k \in 0..10
  PROVE  n \div Tens[k] \in Nat /\ (n < Tens[k] => n \div Tens[k] = 0) /\ n \div Tens[0] = n
<1>1. /\ Tens[0] = 1 /\ Tens[1] = 10 /\ Tens[2] = 100 /\ Tens[3] = 1000 /\ Tens[4] = 10000
      /\ Tens[5] = 100000 /\ Tens[6] = 1000000 /\ Tens[7] = 10000000 /\ Tens[8] = 100000000
      /\ Tens[9] = 1000000000 /\ Tens[10] = 10000000000
  BY DEF Tens, Ten10, CommandLine!Powers
<1>2. k \in {0, 1, 2, 3, 4, 5, 6, 7, 8, 9, 10}
  OBVIOUS
<1>3. Tens[k] \in Nat \ {0}
  BY <1>1, <1>2
<1>4. PICK t \in Nat \ {0} : t = Tens[k]
  BY <1>3
<1>5. n \div t \in Nat
  OBVIOUS
<1>6. n < t => n \div t = 0
  OBVIOUS
<1>7. n \div Tens[0] = n
  BY <1>1
<1>. QED  BY <1>4, <1>5, <1>6, <1>7

(* The digits of a number.                                                 *)
LEMMA Decimals ==
  ASSUME NEW n \in Nat
  PROVE  \E L \in 1..10 :
           /\ CommandLine!Decimal(n) \in Seq(DigitSigns) /\ Len(CommandLine!Decimal(n)) = L
           /\ L = 10 \/ n < Tens[L]
           /\ \A i \in 1..L :
                CommandLine!Value(CommandLine!Decimal(n)[i]) = (n \div Tens[L - i]) % 10
<1>1. PICK S : S = {k \in 1..10 : k = 10 \/ n < CommandLine!Powers[k + 1]}
  OBVIOUS
<1>2. PICK L : L = CommandLine!Min(S)
  OBVIOUS
<1>3. L \in S
  <2>1. S \in SUBSET Nat /\ S # {}
    BY <1>1
  <2>. QED  BY <1>2, <2>1, MinIs, Zenon
<1>4. L \in 1..10 /\ (L = 10 \/ n < Tens[L])
  BY <1>1, <1>3 DEF Tens
<1>5. PICK v : v = [i \in 1..L |-> (n \div Tens[L - i]) % 10]
  OBVIOUS
<1>6. ASSUME NEW i \in 1..L
      PROVE  /\ v[i] \in 0..9 /\ v[i] = (n \div Tens[L - i]) % 10
             /\ CommandLine!Powers[L - i + 1] = Tens[L - i]
  <2>1. L - i \in 0..10 /\ L - i # 10
    BY <1>4
  <2>2. PICK m \in Nat : m = n \div Tens[L - i]
    BY <2>1, TensDivide
  <2>3. m % 10 \in 0..9
    OBVIOUS
  <2>4. CommandLine!Powers[L - i + 1] = Tens[L - i]
    BY <2>1 DEF Tens
  <2>. QED  BY <1>5, <2>2, <2>3, <2>4
<1>7. PICK D : D = CommandLine!Decimal(n)
  OBVIOUS
<1>8. D = [i \in 1..L |-> CommandLine!Digits[((n \div CommandLine!Powers[L - i + 1]) % 10) + 1]]
  BY <1>1, <1>2, <1>7, Zenon DEF CommandLine!Decimal
<1>9. ASSUME NEW i \in 1..L
      PROVE  D[i] \in DigitSigns /\ CommandLine!Value(D[i]) = (n \div Tens[L - i]) % 10
  <2>1. D[i] = CommandLine!Digits[v[i] + 1]
    BY <1>6, <1>8, Zenon
  <2>. QED  BY <1>6, <2>1, Values10, Zenon
<1>10. D \in [1..L -> DigitSigns]
  BY <1>8, <1>9, Zenon
<1>11. D \in Seq(DigitSigns) /\ Len(D) = L
  BY <1>4, <1>10, FunctionIsSeq
<1>. QED  BY <1>4, <1>7, <1>9, <1>11, Zenon

(* from_chars reads what std::format wrote, of any u32.                    *)
LEMMA NumberBack ==
  ASSUME NEW n \in Nat, n < Ten10
  PROVE  CommandLine!Number(CommandLine!Decimal(n)) = n
<1>1. PICK D : D = CommandLine!Decimal(n)
  OBVIOUS
<1>2. PICK L \in 1..10 :
        /\ D \in Seq(DigitSigns) /\ Len(D) = L
        /\ L = 10 \/ n < Tens[L]
        /\ \A i \in 1..L : CommandLine!Value(D[i]) = (n \div Tens[L - i]) % 10
  BY <1>1, Decimals, Zenon
<1>3. PICK h \in [0..L -> Nat] :
        /\ h[0] = 0
        /\ \A i \in 1..L : h[i] = 10 * h[i - 1] + CommandLine!Value(D[i])
        /\ CommandLine!Number(D) = h[L]
  <2>1. D \in Seq(DigitSigns) /\ Len(D) = L
    BY <1>2
  <2>. QED  BY <2>1, NumberRuns
<1>4. h[0] = n \div Tens[L]
  <2>1. L \in 0..10
    OBVIOUS
  <2>2. n < Tens[L]
    BY <1>2 DEF Tens
  <2>. QED  BY <1>3, <2>1, <2>2, TensDivide
<1>. DEFINE S == {i \in Nat : i <= L => h[i] = n \div Tens[L - i]}
<1>5. 0 \in S
  BY <1>4
<1>6. ASSUME NEW i \in Nat, i \in S PROVE i + 1 \in S
  <2>1. SUFFICES ASSUME i + 1 <= L PROVE h[i + 1] = n \div Tens[L - (i + 1)]
    OBVIOUS
  <2>2. PICK k \in 1..10 : k = L - i
    BY <2>1
  <2>3. h[i] = n \div Tens[k]
    BY <1>6, <2>1, <2>2
  <2>4. i + 1 \in 1..L /\ (i + 1) - 1 = i /\ L - (i + 1) = k - 1
    BY <2>1, <2>2
  <2>5. h[i + 1] = 10 * h[i] + ((n \div Tens[k - 1]) % 10)
    <3>1. h[i + 1] = 10 * h[(i + 1) - 1] + CommandLine!Value(D[i + 1])
      BY <1>3, <2>4, Zenon
    <3>2. CommandLine!Value(D[i + 1]) = (n \div Tens[L - (i + 1)]) % 10
      BY <1>2, <2>4, Zenon
    <3>. QED  BY <2>4, <3>1, <3>2, Zenon
  <2>6. h[i + 1] = n \div Tens[k - 1]
    BY <2>3, <2>5, TensStep, Zenon
  <2>. QED  BY <2>4, <2>6, Zenon
<1>. HIDE DEF S
<1>7. Nat \subseteq S
  BY <1>5, <1>6, SetInduction
<1>8. h[L] = n \div Tens[0]
  <2>1. L \in S /\ L <= L /\ L - L = 0
    BY <1>7
  <2>. QED  BY <2>1 DEF S
<1>9. n \div Tens[0] = n
  <2>1. 0 \in 0..10
    OBVIOUS
  <2>. QED  BY <2>1, TensDivide
<1>. QED  BY <1>1, <1>3, <1>8, <1>9

LEMMA FirstBar ==
  ASSUME NEW u \in Seq(Signs), NEW t \in Nat, NEW m \in t..Len(u), u[m] = "|",
         \A i \in t..m - 1 : u[i] # "|"
  PROVE  CommandLine!Min(CommandLine!Bars(u, t)) = m /\ CommandLine!Bars(u, t) # {}
<1>1. PICK n \in Nat : n = Len(u)
  OBVIOUS
<1>2. PICK S : S = {i \in t..n : u[i] = "|"}
  OBVIOUS
<1>3. m \in Nat /\ m \in S /\ S # {} /\ S \in SUBSET Nat
  BY <1>1, <1>2
<1>4. ASSUME NEW y \in S PROVE m <= y
  BY <1>1, <1>2
<1>5. CommandLine!Min(S) \in S /\ \A y \in S : CommandLine!Min(S) <= y
  BY <1>3, MinIs, Zenon
<1>6. PICK x : x = CommandLine!Min(S)
  OBVIOUS
<1>7. x \in Nat /\ x <= m /\ m <= x
  BY <1>3, <1>4, <1>5, <1>6
<1>8. x = m
  BY <1>3, <1>7
<1>9. CommandLine!Bars(u, t) = S
  BY <1>1, <1>2, Zenon DEF CommandLine!Bars
<1>. QED  BY <1>3, <1>6, <1>8, <1>9, Zenon

LEMMA NoBar ==
  ASSUME NEW u \in Seq(Signs), NEW t \in Nat, \A i \in t..Len(u) : u[i] # "|"
  PROVE  CommandLine!Bars(u, t) = {}
BY DEF CommandLine!Bars

(* Three fields in a string, each with a bar behind it.                    *)
Barred(data_, n, a, b) ==
  /\ data_ \in Seq(Signs) /\ Len(data_) = n
  /\ a \in 1..n /\ b \in 1..n /\ a < b /\ b < n
  /\ \A i \in 1..n : data_[i] = "|" <=> (i = a \/ i = b \/ i = n)

LEMMA Deserialized ==
  ASSUME NEW v, NEW n \in Nat, NEW a \in Nat, NEW b \in Nat, Barred(v, n, a, b),
         NEW D \in Seq(DigitSigns), D = SubSeq(v, b + 1, n - 1), D # <<>>,
         ~(CommandLine!Number(D) \div 2 > CommandLine!MaxHalf)
  PROVE  CommandLine!deserialize(v) =
           [socket_path |-> SubSeq(v, 1, a - 1), shared_mem_path |-> SubSeq(v, a + 1, b - 1),
            shared_mem_size |-> CommandLine!Number(D)]
<1>1. /\ v \in Seq(Signs) /\ Len(v) = n
      /\ a \in 1..n /\ b \in 1..n /\ a < b /\ b < n
      /\ \A i \in 1..n : v[i] = "|" <=> (i = a \/ i = b \/ i = n)
  BY Zenon DEF Barred
<1>2. CommandLine!Min(CommandLine!Bars(v, 1)) = a /\ CommandLine!Bars(v, 1) # {}
  <2>1. 1 \in Nat /\ a \in 1..Len(v) /\ v[a] = "|" /\ \A i \in 1..a - 1 : v[i] # "|"
    BY <1>1
  <2>. QED  BY <1>1, <2>1, FirstBar, Zenon
<1>3. CommandLine!Min(CommandLine!Bars(v, a + 1)) = b /\ CommandLine!Bars(v, a + 1) # {}
  <2>1. a + 1 \in Nat /\ b \in a + 1..Len(v) /\ v[b] = "|" /\ \A i \in a + 1..b - 1 : v[i] # "|"
    BY <1>1
  <2>. QED  BY <1>1, <2>1, FirstBar, Zenon
<1>4. CommandLine!Min(CommandLine!Bars(v, b + 1)) = n /\ CommandLine!Bars(v, b + 1) # {}
  <2>1. b + 1 \in Nat /\ n \in b + 1..Len(v) /\ v[n] = "|" /\ \A i \in b + 1..n - 1 : v[i] # "|"
    BY <1>1
  <2>. QED  BY <1>1, <2>1, FirstBar, Zenon
<1>5. {i \in 1..Len(D) : ~CommandLine!IsDigit(D[i])} = {}
  <2>1. ASSUME NEW i \in 1..Len(D) PROVE CommandLine!IsDigit(D[i])
    <3>1. D[i] \in DigitSigns
      OBVIOUS
    <3>. QED  BY <3>1, Zenon DEF DigitSigns, CommandLine!IsDigit
  <2>. QED  BY <2>1, Zenon
<1>6. PICK stops : stops = {i \in 1..Len(D) : ~CommandLine!IsDigit(D[i])}
  OBVIOUS
<1>7. stops = {} /\ 1 \notin stops
  BY <1>5, <1>6
<1>. QED  BY <1>2, <1>3, <1>4, <1>6, <1>7, Zenon DEF CommandLine!deserialize

(* Cut short, it is no descriptor.                                         *)
LEMMA CutShort ==
  ASSUME NEW v, NEW n \in Nat, NEW a \in Nat, NEW b \in Nat, Barred(v, n, a, b),
         NEW k \in 0..n - 1
  PROVE  CommandLine!deserialize(SubSeq(v, 1, k)) = CommandLine!NoDescriptor
<1>1. /\ v \in Seq(Signs) /\ Len(v) = n
      /\ a \in 1..n /\ b \in 1..n /\ a < b /\ b < n
      /\ \A i \in 1..n : v[i] = "|" <=> (i = a \/ i = b \/ i = n)
  BY Zenon DEF Barred
<1>2. PICK u \in Seq(Signs) : u = SubSeq(v, 1, k)
  <2>1. 1 <= k + 1 /\ k <= Len(v) /\ k \in Nat /\ 1 \in Nat /\ 1 <= 1
    BY <1>1
  <2>. QED  BY <1>1, <2>1, PartOf, Zenon
<1>3. Len(u) = k /\ \A i \in 1..k : u[i] = v[i]
  BY <1>1, <1>2
<1>4. CASE k < a
  <2>1. CommandLine!Bars(u, 1) = {}
    <3>1. 1 \in Nat /\ \A i \in 1..Len(u) : u[i] # "|"
      BY <1>1, <1>3, <1>4
    <3>. QED  BY <3>1, NoBar, Zenon
  <2>. QED  BY <1>2, <2>1, Zenon DEF CommandLine!deserialize
<1>5. CASE a <= k
  <2>1. CommandLine!Min(CommandLine!Bars(u, 1)) = a
    <3>1. 1 \in Nat /\ a \in 1..Len(u) /\ u[a] = "|" /\ \A i \in 1..a - 1 : u[i] # "|"
      BY <1>1, <1>3, <1>5
    <3>. QED  BY <3>1, FirstBar, Zenon
  <2>2. CASE k < b
    <3>1. CommandLine!Bars(u, a + 1) = {}
      <4>1. a + 1 \in Nat /\ \A i \in a + 1..Len(u) : u[i] # "|"
        BY <1>1, <1>3, <2>2
      <4>. QED  BY <4>1, NoBar, Zenon
    <3>. QED  BY <1>2, <2>1, <3>1, Zenon DEF CommandLine!deserialize
  <2>3. CASE b <= k
    <3>1. CommandLine!Min(CommandLine!Bars(u, a + 1)) = b
      <4>1. a + 1 \in Nat /\ b \in a + 1..Len(u) /\ u[b] = "|"
        BY <1>1, <1>3, <2>3
      <4>2. \A i \in a + 1..b - 1 : u[i] # "|"
        BY <1>1, <1>3, <2>3
      <4>. QED  BY <4>1, <4>2, FirstBar, Zenon
    <3>2. CommandLine!Bars(u, b + 1) = {}
      <4>1. b + 1 \in Nat /\ \A i \in b + 1..Len(u) : u[i] # "|"
        BY <1>1, <1>3, <2>3
      <4>. QED  BY <4>1, NoBar, Zenon
    <3>. QED  BY <1>2, <2>1, <3>1, <3>2, Zenon DEF CommandLine!deserialize
  <2>4. k < b \/ b <= k
    BY <1>1
  <2>. QED  BY <2>2, <2>3, <2>4
<1>6. k < a \/ a <= k
  OBVIOUS
<1>. QED  BY <1>4, <1>5, <1>6

(* A descriptor's fields, and where they are in its string.                *)
LEMMA DescriptorSize ==
  ASSUME NEW d \in Descriptors
  PROVE  d.shared_mem_size \div 2 <= CommandLine!MaxHalf
BY UtilitiesAssumption, Zenon DEF UtilitiesAssumption, CommandLine!CommandLineAssumption

LEMMA DescriptorFields ==
  ASSUME NEW d \in Descriptors
  PROVE  /\ d.socket_path \in Seq(CommandLine!PathLetters)
         /\ d.shared_mem_path \in Seq(CommandLine!PathLetters)
         /\ d.shared_mem_size \in Nat /\ d.shared_mem_size < Ten10
         /\ d = [socket_path |-> d.socket_path, shared_mem_path |-> d.shared_mem_path,
                 shared_mem_size |-> d.shared_mem_size]
<1>1. d \in [socket_path : Seq(CommandLine!PathLetters),
             shared_mem_path : Seq(CommandLine!PathLetters), shared_mem_size : Nat]
  BY UtilitiesAssumption, Zenon DEF UtilitiesAssumption, CommandLine!CommandLineAssumption
<1>2. d.shared_mem_size \div 2 <= CommandLine!MaxHalf
  BY DescriptorSize, Zenon
<1>3. PICK m \in Nat : m = d.shared_mem_size
  BY <1>1
<1>4. m \div 2 <= CommandLine!MaxHalf
  BY <1>2, <1>3, Zenon
<1>5. m < Ten10
  <2>1. m <= 2 * (m \div 2) + 1
    BY SMT
  <2>2. m \div 2 \in Int
    BY SMT
  <2>. QED  BY <1>4, <2>1, <2>2, SMT DEF Ten10, CommandLine!MaxHalf
<1>. QED  BY <1>1, <1>3, <1>5

LEMMA FieldSigns ==
  /\ \A s \in Seq(CommandLine!PathLetters) :
       s \in Seq(Signs) /\ \A i \in 1..Len(s) : s[i] \notin {"q", "b", "|"}
  /\ \A s \in Seq(DigitSigns) :
       s \in Seq(Signs) /\ \A i \in 1..Len(s) : s[i] \notin {"q", "b", "|"}
<1>1. \A c \in CommandLine!PathLetters : c \in Signs /\ c \notin {"q", "b", "|"}
  BY Zenon DEF CommandLine!PathLetters, Signs
<1>2. \A c \in DigitSigns : c \in Signs /\ c \notin {"q", "b", "|"}
  <2>1. \A k \in 1..10 : CommandLine!Digits[k] \notin {"q", "b", "|"}
    BY DEF CommandLine!Digits
  <2>. QED  BY <2>1, Zenon DEF DigitSigns, Signs
<1>3. ASSUME NEW C, \A c \in C : c \in Signs /\ c \notin {"q", "b", "|"}, NEW s \in Seq(C)
      PROVE  s \in Seq(Signs) /\ \A i \in 1..Len(s) : s[i] \notin {"q", "b", "|"}
  <2>1. PICK n \in Nat : n = Len(s)
    OBVIOUS
  <2>2. \A i \in 1..n : s[i] \in C
    BY <2>1
  <2>3. s \in [1..n -> Signs]
    BY <1>3, <2>1, <2>2
  <2>4. s \in Seq(Signs)
    BY <2>3, FunctionIsSeq, Zenon
  <2>. QED  BY <1>3, <2>1, <2>2, <2>4, Zenon
<1>. QED  BY <1>1, <1>2, <1>3, Zenon

NoneOf(s, C) == \A i \in 1..Len(s) : s[i] \notin C

WithBar(s, t, r) == r = s \o t \o <<"|">>
Fielded(s, t, r) ==
  /\ r \in Seq(Signs) /\ Len(r) = Len(s) + Len(t) + 1 /\ r[Len(r)] = "|"
  /\ \A i \in 1..Len(s) : r[i] = s[i]
  /\ \A i \in 1..Len(t) : r[Len(s) + i] = t[i]

(* One more field, and its bar.                                            *)
LEMMA FieldAdded ==
  ASSUME NEW s \in Seq(Signs), NEW t \in Seq(Signs), NEW r, WithBar(s, t, r)
  PROVE  Fielded(s, t, r)
<1>1. PICK u \in Seq(Signs) : u = s \o t
  BY Concatenated, Zenon
<1>2. /\ Len(u) = Len(s) + Len(t)
      /\ \A i \in 1..Len(s) : u[i] = s[i]
      /\ \A i \in 1..Len(t) : u[Len(s) + i] = t[i]
  BY <1>1, Concatenated
<1>3. PICK bar \in Signs : bar = "|"
  BY Marks, Zenon
<1>4. PICK n \in Nat : n = Len(u)
  OBVIOUS
<1>5. r = Append(u, bar)
  <2>1. u \o <<bar>> = Append(u, bar)
    OBVIOUS
  <2>. QED  BY <1>1, <1>3, <2>1, Zenon DEF WithBar
<1>6. r \in Seq(Signs) /\ Len(r) = n + 1 /\ r[n + 1] = bar /\ \A i \in 1..n : r[i] = u[i]
  BY <1>4, <1>5, Appended
<1>7. PICK j \in Nat : j = Len(s)
  OBVIOUS
<1>8. PICK q \in Nat : q = Len(t)
  OBVIOUS
<1>9. n = j + q
  BY <1>2, <1>4, <1>7, <1>8
<1>10. \A i \in 1..j : r[i] = s[i]
  BY <1>2, <1>6, <1>7, <1>9
<1>11. ASSUME NEW i \in 1..q PROVE r[j + i] = t[i]
  <2>1. j + i \in 1..n
    BY <1>9
  <2>2. u[j + i] = t[i]
    BY <1>2, <1>7, <1>8
  <2>. QED  BY <1>6, <2>1, <2>2
<1>. QED  BY <1>3, <1>6, <1>7, <1>8, <1>9, <1>10, <1>11 DEF Fielded

LEMMA Part ==
  ASSUME NEW v \in Seq(Signs), NEW t \in Seq(Signs), NEW j \in Nat, j + Len(t) <= Len(v),
         \A i \in 1..Len(t) : v[j + i] = t[i]
  PROVE  SubSeq(v, j + 1, j + Len(t)) = t
<1>1. PICK n \in Nat : n = Len(v)
  OBVIOUS
<1>2. PICK q \in Nat : q = Len(t)
  OBVIOUS
<1>3. SubSeq(v, j + 1, j + q) \in Seq(Signs) /\ j + q <= n
  BY <1>1, <1>2
<1>4. PICK u \in Seq(Signs) : u = SubSeq(v, j + 1, j + q)
  BY <1>3
<1>5. Len(u) = q /\ \A i \in 1..q : u[i] = v[(j + 1) + i - 1]
  BY <1>1, <1>3, <1>4
<1>6. \A i \in 1..q : u[i] = t[i]
  <2>1. ASSUME NEW i \in 1..q PROVE u[i] = t[i]
    <3>1. (j + 1) + i - 1 = j + i
      OBVIOUS
    <3>. QED  BY <1>2, <1>5, <3>1
  <2>. QED  BY <2>1
<1>7. u = t
  BY <1>2, <1>5, <1>6
<1>. QED  BY <1>2, <1>4, <1>7

Joint(x, y, D, v) == v = x \o <<"|">> \o y \o <<"|">> \o D \o <<"|">>

Serial(x, y, D, C, v, n, a, b) ==
  /\ v \in Seq(Signs) /\ Len(v) = n
  /\ a \in 1..n /\ b \in 1..n /\ a < b /\ b < n
  /\ \A i \in 1..n : v[i] \notin C <=> ("|" \notin C \/ (i # a /\ i # b /\ i # n))
  /\ SubSeq(v, 1, a - 1) = x /\ SubSeq(v, a + 1, b - 1) = y
  /\ SubSeq(v, b + 1, n - 1) = D

LEMMA Serialized ==
  ASSUME NEW x \in Seq(Signs), NEW y \in Seq(Signs), NEW D \in Seq(Signs),
         NEW C, NoneOf(x, C), NoneOf(y, C), NoneOf(D, C), NEW v, Joint(x, y, D, v)
  PROVE  \E n, a, b \in Nat : Serial(x, y, D, C, v, n, a, b)
<1>1. PICK e \in Seq(Signs) : e = <<>>
  BY EmptyTyped, Zenon
<1>2. e \o x = x /\ Len(e) = 0
  BY <1>1
<1>3. PICK r1 : WithBar(e, x, r1)
  BY Zenon DEF WithBar
<1>4. PICK r2 : WithBar(r1, y, r2)
  BY Zenon DEF WithBar
<1>5. WithBar(r2, D, v)
  BY <1>2, <1>3, <1>4, Zenon DEF WithBar, Joint
<1>6. /\ r1 \in Seq(Signs) /\ Len(r1) = Len(e) + Len(x) + 1 /\ r1[Len(r1)] = "|"
      /\ \A i \in 1..Len(x) : r1[Len(e) + i] = x[i]
  <2>1. Fielded(e, x, r1)
    BY <1>3, FieldAdded, Zenon
  <2>. QED  BY <2>1, Zenon DEF Fielded
<1>7. /\ r2 \in Seq(Signs) /\ Len(r2) = Len(r1) + Len(y) + 1 /\ r2[Len(r2)] = "|"
      /\ \A i \in 1..Len(r1) : r2[i] = r1[i]
      /\ \A i \in 1..Len(y) : r2[Len(r1) + i] = y[i]
  <2>1. r1 \in Seq(Signs) /\ Fielded(r1, y, r2)
    BY <1>4, <1>6, FieldAdded, Zenon
  <2>. QED  BY <2>1, Zenon DEF Fielded
<1>8. /\ v \in Seq(Signs) /\ Len(v) = Len(r2) + Len(D) + 1 /\ v[Len(v)] = "|"
      /\ \A i \in 1..Len(r2) : v[i] = r2[i]
      /\ \A i \in 1..Len(D) : v[Len(r2) + i] = D[i]
  <2>1. Fielded(r2, D, v)
    BY <1>5, <1>7, FieldAdded, Zenon
  <2>. QED  BY <2>1, Zenon DEF Fielded
<1>9. PICK j \in Nat : j = Len(x)
  OBVIOUS
<1>10. PICK q \in Nat : q = Len(y)
  OBVIOUS
<1>11. PICK m \in Nat : m = Len(D)
  OBVIOUS
<1>12. PICK a \in Nat : a = j + 1
  OBVIOUS
<1>13. PICK b \in Nat : b = a + q + 1
  OBVIOUS
<1>14. PICK n \in Nat : n = b + m + 1
  OBVIOUS
<1>15. Len(r1) = a /\ r1[a] = "|" /\ \A i \in 1..j : r1[i] = x[i]
  BY <1>2, <1>6, <1>9, <1>12
<1>16. /\ Len(r2) = b /\ r2[b] = "|" /\ r2[a] = "|"
       /\ (\A i \in 1..j : r2[i] = x[i]) /\ \A i \in 1..q : r2[a + i] = y[i]
  <2>1. Len(r2) = b /\ r2[b] = "|" /\ \A i \in 1..q : r2[a + i] = y[i]
    BY <1>7, <1>10, <1>13, <1>15
  <2>2. \A i \in 1..a : r2[i] = r1[i]
    BY <1>7, <1>15
  <2>. QED  BY <1>12, <1>15, <2>1, <2>2
<1>17. /\ Len(v) = n /\ v[n] = "|" /\ v[b] = "|" /\ v[a] = "|"
       /\ \A i \in 1..m : v[b + i] = D[i]
  <2>1. Len(v) = n /\ v[n] = "|" /\ \A i \in 1..m : v[b + i] = D[i]
    BY <1>8, <1>11, <1>14, <1>16
  <2>2. \A i \in 1..b : v[i] = r2[i]
    BY <1>8, <1>16
  <2>. QED  BY <1>12, <1>13, <1>16, <2>1, <2>2
<1>18. (\A i \in 1..j : v[i] = x[i]) /\ \A i \in 1..q : v[a + i] = y[i]
  <2>2. \A i \in 1..b : v[i] = r2[i]
    BY <1>8, <1>16
  <2>3. ASSUME NEW i \in 1..j PROVE v[i] = x[i]
    BY <1>12, <1>13, <1>16, <2>2
  <2>4. ASSUME NEW i \in 1..q PROVE v[a + i] = y[i]
    <3>1. a + i \in 1..b
      BY <1>13
    <3>. QED  BY <1>16, <2>2, <3>1
  <2>. QED  BY <2>3, <2>4
<1>19. a \in 1..n /\ b \in 1..n /\ a < b /\ b < n
  BY <1>12, <1>13, <1>14
<1>20. /\ SubSeq(v, 1, a - 1) = x /\ SubSeq(v, a + 1, b - 1) = y
       /\ SubSeq(v, b + 1, n - 1) = D
  <2>1. SubSeq(v, 0 + 1, 0 + j) = x
    <3>1. 0 + Len(x) <= Len(v) /\ \A i \in 1..Len(x) : v[0 + i] = x[i]
      BY <1>9, <1>12, <1>17, <1>18, <1>19
    <3>. QED  BY <1>8, <1>9, <3>1, Part
  <2>2. SubSeq(v, a + 1, a + q) = y
    <3>1. a + Len(y) <= Len(v) /\ \A i \in 1..Len(y) : v[a + i] = y[i]
      BY <1>10, <1>13, <1>17, <1>18, <1>19
    <3>. QED  BY <1>8, <1>10, <3>1, Part
  <2>3. SubSeq(v, b + 1, b + m) = D
    <3>1. b + Len(D) <= Len(v) /\ \A i \in 1..Len(D) : v[b + i] = D[i]
      BY <1>11, <1>14, <1>17, <1>19
    <3>. QED  BY <1>8, <1>11, <3>1, Part
  <2>4. 0 + 1 = 1 /\ 0 + j = a - 1 /\ a + q = b - 1 /\ b + m = n - 1
    BY <1>12, <1>13, <1>14
  <2>. QED  BY <2>1, <2>2, <2>3, <2>4, Zenon
<1>21. ASSUME NEW i \in 1..n, i # a, i # b, i # n PROVE v[i] \notin C
  <2>1. CASE i < a
    <3>1. i \in 1..j
      BY <1>12, <2>1
    <3>2. x[i] \notin C
      BY <1>9, <3>1, Zenon DEF NoneOf
    <3>. QED  BY <1>18, <3>1, <3>2, Zenon
  <2>2. CASE a < i /\ i < b
    <3>1. i - a \in 1..q /\ a + (i - a) = i
      BY <1>13, <2>2
    <3>2. y[i - a] \notin C
      BY <1>10, <3>1, Zenon DEF NoneOf
    <3>. QED  BY <1>18, <3>1, <3>2, Zenon
  <2>3. CASE b < i /\ i < n
    <3>1. i - b \in 1..m /\ b + (i - b) = i
      BY <1>14, <2>3
    <3>2. D[i - b] \notin C
      BY <1>11, <3>1, Zenon DEF NoneOf
    <3>. QED  BY <1>17, <3>1, <3>2, Zenon
  <2>. QED  BY <1>19, <1>21, <2>1, <2>2, <2>3
<1>22. ASSUME NEW i \in 1..n
       PROVE  v[i] \notin C <=> ("|" \notin C \/ (i # a /\ i # b /\ i # n))
  <2>1. (i = a \/ i = b \/ i = n) => v[i] = "|"
    BY <1>17, Zenon
  <2>. QED  BY <1>21, <2>1, Zenon
<1>23. v \in Seq(Signs) /\ Len(v) = n
  BY <1>8, <1>17
<1>. QED  BY <1>19, <1>20, <1>22, <1>23, Zenon DEF Serial

LEMMA DescriptorBack ==
  ASSUME NEW d \in Descriptors, NEW v, v = CommandLine!serialize(d)
  PROVE  /\ v \in Seq(Signs) /\ v # <<>> /\ Literal(v, "in")
         /\ CommandLine!deserialize(v) = d
         /\ \A k \in 0..Len(v) - 1 :
              CommandLine!deserialize(SubSeq(v, 1, k)) = CommandLine!NoDescriptor
<1>1. PICK x : x = d.socket_path
  OBVIOUS
<1>2. PICK y : y = d.shared_mem_path
  OBVIOUS
<1>3. PICK s : s = d.shared_mem_size
  OBVIOUS
<1>4. /\ x \in Seq(CommandLine!PathLetters) /\ y \in Seq(CommandLine!PathLetters)
      /\ s \in Nat /\ s < Ten10
      /\ d = [socket_path |-> x, shared_mem_path |-> y, shared_mem_size |-> s]
  BY <1>1, <1>2, <1>3, DescriptorFields
<1>5. PICK D : D = CommandLine!Decimal(s)
  OBVIOUS
<1>6. D \in Seq(DigitSigns) /\ D # <<>>
  <2>1. PICK L \in 1..10 : D \in Seq(DigitSigns) /\ Len(D) = L
    BY <1>4, <1>5, Decimals, Zenon
  <2>2. Len(D) # 0 /\ Len(<<>>) = 0
    BY <2>1
  <2>. QED  BY <2>1, <2>2, Zenon
<1>7. CommandLine!Number(D) = s
  BY <1>4, <1>5, NumberBack, Zenon
<1>8. Joint(x, y, D, v)
  BY <1>1, <1>2, <1>3, <1>5, Zenon DEF Joint, CommandLine!serialize
<1>9. PICK B : B = {"|"}
  OBVIOUS
<1>10. PICK Q : Q = {"q", "b"}
  OBVIOUS
<1>11. /\ x \in Seq(Signs) /\ NoneOf(x, B) /\ NoneOf(x, Q)
       /\ y \in Seq(Signs) /\ NoneOf(y, B) /\ NoneOf(y, Q)
       /\ D \in Seq(Signs) /\ NoneOf(D, B) /\ NoneOf(D, Q)
  <2>1. ASSUME NEW t \in Seq(Signs), \A i \in 1..Len(t) : t[i] \notin {"q", "b", "|"}
        PROVE  NoneOf(t, B) /\ NoneOf(t, Q)
    BY <1>9, <1>10, <2>1, Zenon DEF NoneOf
  <2>. QED  BY <1>4, <1>6, <2>1, FieldSigns, Zenon
<1>12. PICK n \in Nat, a \in Nat, b \in Nat :
         /\ v \in Seq(Signs) /\ Len(v) = n
         /\ a \in 1..n /\ b \in 1..n /\ a < b /\ b < n
         /\ \A i \in 1..n : v[i] \notin B <=> ("|" \notin B \/ (i # a /\ i # b /\ i # n))
         /\ SubSeq(v, 1, a - 1) = x /\ SubSeq(v, a + 1, b - 1) = y
         /\ SubSeq(v, b + 1, n - 1) = D
  <2>1. \E i, j, k \in Nat : Serial(x, y, D, B, v, i, j, k)
    BY <1>8, <1>11, Serialized, Zenon
  <2>. QED  BY <2>1, Zenon DEF Serial
<1>13. Barred(v, n, a, b)
  <2>1. \A i \in 1..n : v[i] = "|" <=> (i = a \/ i = b \/ i = n)
    BY <1>9, <1>12, Zenon
  <2>. QED  BY <1>12, <2>1, Zenon DEF Barred
<1>14. CommandLine!deserialize(v) = d
  <2>1. CommandLine!deserialize(v) =
           [socket_path |-> SubSeq(v, 1, a - 1), shared_mem_path |-> SubSeq(v, a + 1, b - 1),
            shared_mem_size |-> CommandLine!Number(D)]
    <3>1. D = SubSeq(v, b + 1, n - 1)
      BY <1>12
    <3>2. ~(CommandLine!Number(D) \div 2 > CommandLine!MaxHalf)
      <4>1. s \div 2 <= CommandLine!MaxHalf
        BY <1>3, DescriptorSize
      <4>2. CommandLine!MaxHalf \in Nat
        BY DEF CommandLine!MaxHalf
      <4>. QED  BY <1>4, <1>7, <4>1, <4>2
    <3>. QED  BY <1>6, <1>13, <3>1, <3>2, Deserialized, Zenon
  <2>. QED  BY <1>4, <1>7, <1>12, <2>1, Zenon
<1>15. ASSUME NEW k \in 0..n - 1
       PROVE  CommandLine!deserialize(SubSeq(v, 1, k)) = CommandLine!NoDescriptor
  BY <1>13, CutShort, Zenon
<1>16. v # <<>>
  <2>1. Len(v) # 0 /\ Len(<<>>) = 0
    BY <1>12
  <2>. QED  BY <2>1, Zenon
<1>17. Literal(v, "in")
  <2>1. PICK k \in Nat, l \in Nat, m \in Nat : Serial(x, y, D, Q, v, k, l, m)
    BY <1>8, <1>11, Serialized, Zenon
  <2>2. "|" \notin Q
    BY <1>10
  <2>3. \A i \in 1..Len(v) : v[i] \notin Q
    BY <2>1, <2>2, Zenon DEF Serial
  <2>. QED  BY <1>10, <2>3, Zenon DEF Literal
<1>. QED  BY <1>12, <1>14, <1>15, <1>16, <1>17, Zenon

LEMMA PathsWritten == Paths
BY DescriptorBack, Zenon DEF Paths

(* The node's first word is the descriptor that was written for it.        *)
LEMMA NodeReads ==
  ASSUME Reading PROVE CommandLine!DescriptorArrives
<1>1. ASSUME argv # <<>>, NEW d \in Descriptors, words = <<CommandLine!serialize(d)>>
      PROVE  /\ CommandLine!deserialize(argv[2]) = d
             /\ \A k \in 0..Len(argv[2]) - 1 :
                  CommandLine!deserialize(SubSeq(argv[2], 1, k)) = CommandLine!NoDescriptor
  <2>1. PICK v : v = CommandLine!serialize(d)
    OBVIOUS
  <2>2. /\ v \in Seq(Signs) /\ v # <<>>
        /\ CommandLine!deserialize(v) = d
        /\ \A k \in 0..Len(v) - 1 :
             CommandLine!deserialize(SubSeq(v, 1, k)) = CommandLine!NoDescriptor
    BY <2>1, DescriptorBack, Zenon
  <2>3. PICK A \in Seq(Seq(Signs)) : A = <<>>
    BY EmptyTyped, Zenon
  <2>4. <<v>> = Append(A, v) /\ A \o <<v>> = <<v>>
    BY <2>3
  <2>5. CommandLine!NonEmpty(words) = <<v>>
    <3>1. CommandLine!NonEmpty(Append(A, v)) = CommandLine!NonEmpty(A) \o CommandLine!Kept(v)
      BY <2>2, NonEmptyNext, Zenon
    <3>2. CommandLine!NonEmpty(A) = A
      BY <2>3, NothingParsed, Zenon
    <3>3. CommandLine!Kept(v) = <<v>>
      BY <2>2, Zenon DEF CommandLine!Kept
    <3>. QED  BY <1>1, <2>1, <2>4, <3>1, <3>2, <3>3, Zenon
  <2>6. argv = <<<<"program">>>> \o <<v>>
    BY <1>1, <2>5, Zenon DEF Reading
  <2>7. argv[2] = v
    <3>1. <<v>> \in Seq({v}) /\ Len(<<v>>) = 1 /\ <<v>>[1] = v
      OBVIOUS
    <3>2. PICK K \in Seq({v}) : K = <<v>>
      BY <3>1, Zenon
    <3>3. Len(K) = 1 /\ K[1] = v
      BY <3>1, <3>2, Zenon
    <3>4. \A i \in 1..Len(K) : argv[i + 1] = K[i]
      <4>1. PICK w : w = argv
        OBVIOUS
      <4>2. w = <<<<"program">>>> \o K
        BY <2>6, <3>2, <4>1, Zenon
      <4>3. \A i \in 1..Len(K) : w[i + 1] = K[i]
        BY <4>2, Behind
      <4>. QED  BY <4>1, <4>3, Zenon
    <3>5. 1 \in 1..Len(K) /\ 1 + 1 = 2
      BY <3>3
    <3>. QED  BY <3>3, <3>4, <3>5
  <2>. QED  BY <2>2, <2>7, Zenon
<1>. QED  BY <1>1, Zenon DEF CommandLine!DescriptorArrives

(* CommandLine: the child's words are those that its parent meant, however *)
(* long, however many and in whichever spelling; CLIParser gives out each  *)
(* once, in order; and a node reads the descriptor that spawn_node wrote.  *)
THEOREM ArgumentsArriveAlways == UtilitiesSpec => []ArgumentsArrive
<1>1. UtilitiesInit => WordsAre /\ Reading
  BY WordsStart, ReadingStart, Zenon DEF UtilitiesInit
<1>2. WordsAre /\ Reading /\ [UtilitiesNext]_utilityVars => (WordsAre /\ Reading)'
  <2>1. [UtilitiesNext]_utilityVars => [CommandLine!Next]_wordVars
    BY PartSteps
  <2>2. ASSUME WordsAre, [CommandLine!Next]_wordVars PROVE WordsAre'
    BY <2>2, PathsWritten, WordsKept
  <2>3. ASSUME WordsAre, Reading, [CommandLine!Next]_wordVars PROVE Reading'
    BY <2>3, ReadingKept
  <2>. QED  BY <2>1, <2>2, <2>3, Zenon
<1>3. WordsAre /\ Reading => ArgumentsArrive
  <2>1. ASSUME WordsAre, Reading
        PROVE  CommandLine!WordsArrive /\ CommandLine!CursorKeepsPlace
    BY <2>1, ChildHears
  <2>2. ASSUME Reading PROVE CommandLine!DescriptorArrives
    BY <2>2, NodeReads
  <2>. QED  BY <2>1, <2>2, Zenon DEF ArgumentsArrive
<1>. QED  BY <1>1, <1>2, <1>3, PTL DEF UtilitiesSpec

-----------------------------------------------------------------------------
(* Lines: the lines of a child's output.                                   *)

Symbols == Chars \cup {"n"}

(* A line of the text and the end behind it; the lines reported are these, *)
(* and the rest of the text waits.                                         *)
Closed(text, x, y) ==
  /\ x \in 1..Len(text) /\ y \in 1..Len(text) - 1 /\ x <= y
  /\ \A k \in x..y : ~Lines!IsEnd(text[k])
  /\ x = 1 \/ Lines!IsEnd(text[x - 1])
  /\ Lines!IsEnd(text[y + 1])
Found(text, m, f, g) ==
  /\ f \in [1..m -> Nat] /\ g \in [1..m -> Nat]
  /\ \A k \in 1..m : Closed(text, f[k], g[k])
  /\ \A j, k \in 1..m : j < k => f[j] < f[k]
  /\ \A x, y \in Nat : Closed(text, x, y) => \E k \in 1..m : f[k] = x /\ g[k] = y
Reports(text, ls, m, f, g) ==
  /\ ls \in Seq(Seq(Symbols)) /\ Len(ls) = m
  /\ \A k \in 1..m : ls[k] = SubSeq(text, f[k], g[k])
Waits(text, acc, q) ==
  /\ acc = SubSeq(text, q + 1, Len(text))
  /\ \A k \in q + 1..Len(text) : ~Lines!IsEnd(text[k])
  /\ q = 0 \/ Lines!IsEnd(text[q])
LinesOf(text, ls, acc) ==
  /\ text \in Seq(Symbols) /\ acc \in Seq(Symbols)
  /\ \E m \in Nat : \E f, g \in [1..m -> Nat] : Found(text, m, f, g) /\ Reports(text, ls, m, f, g)
  /\ \E q \in 0..Len(text) : Waits(text, acc, q)

(* What SubSeq makes of one more position.                                 *)
LEMMA OneFurther ==
  ASSUME NEW D, NEW s \in Seq(D), NEW a \in Nat, NEW n \in Nat, 1 <= a, a <= n + 1,
         n + 1 <= Len(s)
  PROVE  SubSeq(s, a, n + 1) = Append(SubSeq(s, a, n), s[n + 1])
<1>1. SubSeq(s, a, n + 1) \in Seq(D) /\ SubSeq(s, a, n) \in Seq(D) /\ s[n + 1] \in D
  OBVIOUS
<1>2. PICK u \in Seq(D) : u = SubSeq(s, a, n)
  BY <1>1, Zenon
<1>3. PICK v \in Seq(D) : v = SubSeq(s, a, n + 1)
  BY <1>1, Zenon
<1>4. PICK c \in D : c = s[n + 1]
  BY <1>1, Zenon
<1>5. PICK k \in Nat : k = n + 1 - a
  OBVIOUS
<1>6. Len(u) = k /\ \A i \in 1..k : u[i] = s[a + i - 1]
  BY <1>2, <1>5
<1>7. Len(v) = k + 1 /\ \A i \in 1..k + 1 : v[i] = s[a + i - 1]
  BY <1>3, <1>5
<1>8. v[k + 1] = c
  <2>1. a + (k + 1) - 1 = n + 1 /\ k + 1 \in 1..k + 1
    BY <1>5
  <2>. QED  BY <1>4, <1>7, <2>1
<1>9. PICK w \in Seq(D) : w = Append(u, c)
  BY Appended, Zenon
<1>10. Len(w) = k + 1 /\ w[k + 1] = c /\ \A i \in 1..k : w[i] = u[i]
  BY <1>6, <1>9, Appended
<1>11. \A i \in 1..k + 1 : w[i] = v[i]
  <2>1. ASSUME NEW i \in 1..k PROVE w[i] = v[i]
    <3>1. i \in 1..k + 1
      OBVIOUS
    <3>. QED  BY <1>6, <1>7, <1>10, <3>1, Zenon
  <2>2. \A i \in 1..k + 1 : i \in 1..k \/ i = k + 1
    OBVIOUS
  <2>. QED  BY <1>8, <1>10, <2>1, <2>2, Zenon
<1>12. w = v
  BY <1>7, <1>10, <1>11
<1>. QED  BY <1>2, <1>3, <1>4, <1>9, <1>12, Zenon

Longer(text, c, n, longer) ==
  /\ longer \in Seq(Symbols) /\ Len(longer) = n + 1 /\ longer[n + 1] = c
  /\ \A k \in 1..n : longer[k] = text[k]
  /\ \A x, y \in Nat : 1 <= x /\ y <= n => SubSeq(longer, x, y) = SubSeq(text, x, y)

LEMMA OneMore ==
  ASSUME NEW text \in Seq(Symbols), NEW c \in Symbols, NEW longer, longer = Append(text, c),
         NEW n \in Nat, n = Len(text)
  PROVE  Longer(text, c, n, longer)
<1>1. /\ longer \in Seq(Symbols) /\ Len(longer) = n + 1 /\ longer[n + 1] = c
      /\ \A k \in 1..n : longer[k] = text[k]
  BY Appended
<1>2. ASSUME NEW x \in Nat, NEW y \in Nat, 1 <= x, y <= n
      PROVE  SubSeq(longer, x, y) = SubSeq(text, x, y)
  <2>1. CASE y < x
    <3>1. SubSeq(longer, x, y) = <<>> /\ SubSeq(text, x, y) = <<>>
      BY <1>1, <1>2, <2>1
    <3>. QED  BY <3>1
  <2>2. CASE x <= y
    <3>1. SubSeq(longer, x, y) \in Seq(Symbols) /\ SubSeq(text, x, y) \in Seq(Symbols)
      BY <1>1, <1>2, <2>2
    <3>2. PICK u \in Seq(Symbols) : u = SubSeq(longer, x, y)
      BY <3>1, Zenon
    <3>3. PICK v \in Seq(Symbols) : v = SubSeq(text, x, y)
      BY <3>1, Zenon
    <3>4. Len(u) = y - x + 1 /\ \A i \in 1..y - x + 1 : u[i] = longer[x + i - 1]
      BY <1>1, <1>2, <2>2, <3>2
    <3>5. Len(v) = y - x + 1 /\ \A i \in 1..y - x + 1 : v[i] = text[x + i - 1]
      BY <1>2, <2>2, <3>3
    <3>6. \A i \in 1..y - x + 1 : x + i - 1 \in 1..n
      BY <1>2, <2>2
    <3>7. \A i \in 1..y - x + 1 : u[i] = v[i]
      BY <1>1, <3>4, <3>5, <3>6
    <3>8. u = v
      BY <3>4, <3>5, <3>7
    <3>. QED  BY <3>2, <3>3, <3>8
  <2>3. y < x \/ x <= y
    OBVIOUS
  <2>. QED  BY <2>1, <2>2, <2>3, Zenon
<1>. QED  BY <1>1, <1>2, Zenon DEF Longer

Closes(text, longer, c, n, q, x, y) ==
  /\ y # n => (Closed(longer, x, y) <=> Closed(text, x, y))
  /\ Closed(text, x, y) => y < q /\ y # n
  /\ Closed(longer, x, n) <=> Lines!IsEnd(c) /\ x = q + 1 /\ q < n

(* What one more character closes.                                         *)
LEMMA ClosedNext ==
  ASSUME NEW text \in Seq(Symbols), NEW c \in Symbols, NEW longer, longer = Append(text, c),
         NEW n \in Nat, n = Len(text), NEW acc, NEW q \in 0..n, Waits(text, acc, q),
         NEW x \in Nat, NEW y \in Nat
  PROVE  Closes(text, longer, c, n, q, x, y)
<1>1. /\ longer \in Seq(Symbols) /\ Len(longer) = n + 1 /\ longer[n + 1] = c
      /\ \A k \in 1..n : longer[k] = text[k]
  <2>1. Longer(text, c, n, longer)
    BY OneMore, Zenon
  <2>. QED  BY <2>1, Zenon DEF Longer
<1>2. /\ \A k \in q + 1..n : ~Lines!IsEnd(text[k])
      /\ q = 0 \/ Lines!IsEnd(text[q])
  BY Zenon DEF Waits
<1>3. ASSUME y # n PROVE Closed(longer, x, y) <=> Closed(text, x, y)
  <2>1. CASE y < n /\ x <= y /\ 1 <= x
    <3>1. /\ x \in 1..Len(text) /\ y \in 1..Len(text) - 1
          /\ x \in 1..Len(longer) /\ y \in 1..Len(longer) - 1
      BY <1>1, <2>1
    <3>2. \A k \in x..y : longer[k] = text[k]
      BY <1>1, <2>1
    <3>3. longer[y + 1] = text[y + 1]
      BY <1>1, <2>1
    <3>4. x = 1 \/ longer[x - 1] = text[x - 1]
      BY <1>1, <2>1
    <3>. QED  BY <3>1, <3>2, <3>3, <3>4, Zenon DEF Closed
  <2>2. CASE ~(y < n /\ x <= y /\ 1 <= x)
    BY <1>1, <1>3, <2>2 DEF Closed
  <2>. QED  BY <2>1, <2>2
<1>4. ASSUME Closed(text, x, y) PROVE y < q /\ y # n
  <2>1. y \in 1..n - 1 /\ Lines!IsEnd(text[y + 1])
    BY <1>4 DEF Closed
  <2>2. y + 1 \notin q + 1..n
    BY <1>2, <2>1, Zenon
  <2>. QED  BY <2>1, <2>2
<1>5. ASSUME Closed(longer, x, n) PROVE Lines!IsEnd(c) /\ x = q + 1 /\ q < n
  <2>1. /\ x \in 1..n + 1 /\ n \in 1..(n + 1) - 1 /\ x <= n
        /\ \A k \in x..n : ~Lines!IsEnd(longer[k])
        /\ x = 1 \/ Lines!IsEnd(longer[x - 1])
        /\ Lines!IsEnd(longer[n + 1])
    BY <1>1, <1>5, Zenon DEF Closed
  <2>2. x >= q + 1
    <3>1. SUFFICES ASSUME x <= q PROVE FALSE
      BY <2>1
    <3>2. q \in x..n /\ q \in 1..n /\ q # 0
      BY <2>1, <3>1
    <3>3. ~Lines!IsEnd(text[q])
      <4>1. longer[q] = text[q]
        BY <1>1, <3>2
      <4>. QED  BY <2>1, <3>2, <4>1, Zenon
    <3>. QED  BY <1>2, <3>2, <3>3
  <2>3. x <= q + 1
    <3>1. SUFFICES ASSUME x > q + 1 PROVE FALSE
      BY <2>1
    <3>2. x - 1 \in q + 1..n /\ x - 1 \in 1..n /\ x # 1
      BY <2>1, <3>1
    <3>3. Lines!IsEnd(text[x - 1])
      <4>1. longer[x - 1] = text[x - 1]
        BY <1>1, <3>2
      <4>. QED  BY <2>1, <3>2, <4>1, Zenon
    <3>. QED  BY <1>2, <3>2, <3>3, Zenon
  <2>4. x = q + 1 /\ q < n
    BY <2>1, <2>2, <2>3
  <2>. QED  BY <1>1, <2>1, <2>4, Zenon
<1>6. ASSUME Lines!IsEnd(c), x = q + 1, q < n PROVE Closed(longer, x, n)
  <2>1. x \in 1..n + 1 /\ n \in 1..(n + 1) - 1 /\ x <= n
    BY <1>6
  <2>2. \A k \in x..n : ~Lines!IsEnd(longer[k])
    <3>1. ASSUME NEW k \in x..n PROVE ~Lines!IsEnd(longer[k])
      <4>1. k \in q + 1..n /\ k \in 1..n
        BY <1>6, <2>1
      <4>. QED  BY <1>1, <1>2, <4>1, Zenon
    <3>. QED  BY <3>1
  <2>3. x = 1 \/ Lines!IsEnd(longer[x - 1])
    <3>1. CASE q = 0
      BY <1>6, <3>1
    <3>2. CASE q # 0
      <4>1. x - 1 = q /\ q \in 1..n
        BY <1>6, <3>2
      <4>. QED  BY <1>1, <1>2, <3>2, <4>1, Zenon
    <3>. QED  BY <3>1, <3>2
  <2>. QED  BY <1>1, <1>6, <2>1, <2>2, <2>3, Zenon DEF Closed
<1>. QED  BY <1>3, <1>4, <1>5, <1>6, Zenon DEF Closes

LEMMA NoLines == LinesOf(<<>>, <<>>, <<>>)
<1>1. PICK e \in Seq(Symbols) : e = <<>>
  BY EmptyTyped, Zenon
<1>2. PICK ls \in Seq(Seq(Symbols)) : ls = <<>>
  BY EmptyTyped, Zenon
<1>3. Len(e) = 0 /\ Len(ls) = 0
  BY <1>1, <1>2
<1>4. PICK f \in [1..0 -> Nat] : TRUE
  <2>1. [i \in 1..0 |-> 0] \in [1..0 -> Nat]
    OBVIOUS
  <2>. QED  BY <2>1
<1>5. ~\E i \in 1..0 : TRUE
  OBVIOUS
<1>6. Found(e, 0, f, f)
  <2>1. ASSUME NEW x \in Nat, NEW y \in Nat PROVE ~Closed(e, x, y)
    BY <1>3 DEF Closed
  <2>. QED  BY <1>5, <2>1, Zenon DEF Found
<1>7. Reports(e, ls, 0, f, f)
  BY <1>3, <1>5, Zenon DEF Reports
<1>8. Waits(e, e, 0)
  <2>1. SubSeq(e, 0 + 1, 0) = e
    BY <1>1
  <2>2. \A k \in 0 + 1..0 : FALSE
    OBVIOUS
  <2>. QED  BY <1>3, <2>1, <2>2, Zenon DEF Waits
<1>9. 0 \in Nat /\ 0 \in 0..Len(e)
  BY <1>3
<1>. QED  BY <1>1, <1>2, <1>6, <1>7, <1>8, <1>9, Zenon DEF LinesOf

(* A byte that ends no line waits with those before it.                    *)
LEMMA ByteWaits ==
  ASSUME NEW text, NEW ls, NEW acc, LinesOf(text, ls, acc),
         NEW c \in Symbols, ~Lines!IsEnd(c)
  PROVE  LinesOf(Append(text, c), ls, Append(acc, c))
<1>0. PICK m \in Nat, q \in 0..Len(text) :
        /\ text \in Seq(Symbols) /\ acc \in Seq(Symbols) /\ Waits(text, acc, q)
        /\ \E f, g \in [1..m -> Nat] : Found(text, m, f, g) /\ Reports(text, ls, m, f, g)
  BY Zenon DEF LinesOf
<1>1. PICK f \in [1..m -> Nat], g \in [1..m -> Nat] :
        /\ text \in Seq(Symbols) /\ acc \in Seq(Symbols)
        /\ Found(text, m, f, g) /\ Reports(text, ls, m, f, g) /\ Waits(text, acc, q)
  BY <1>0, Zenon
<1>2. PICK n \in Nat : n = Len(text)
  BY <1>1
<1>3. PICK longer \in Seq(Symbols) : longer = Append(text, c)
  BY <1>1, Appended, Zenon
<1>4. /\ Len(longer) = n + 1 /\ longer[n + 1] = c
      /\ \A k \in 1..n : longer[k] = text[k]
      /\ \A x, y \in Nat : 1 <= x /\ y <= n => SubSeq(longer, x, y) = SubSeq(text, x, y)
  <2>1. Longer(text, c, n, longer)
    BY <1>1, <1>2, <1>3, OneMore, Zenon
  <2>. QED  BY <2>1, Zenon DEF Longer
<1>5. q \in 0..n
  BY <1>1, <1>2, Zenon
<1>6. ASSUME NEW x \in Nat, NEW y \in Nat
      PROVE  /\ Closed(longer, x, y) <=> Closed(text, x, y)
             /\ Closed(text, x, y) => y < q
  <2>1. /\ y # n => (Closed(longer, x, y) <=> Closed(text, x, y))
        /\ Closed(text, x, y) => y < q /\ y # n
        /\ Closed(longer, x, n) <=> Lines!IsEnd(c) /\ x = q + 1 /\ q < n
    <3>1. Closes(text, longer, c, n, q, x, y)
      BY <1>1, <1>2, <1>3, <1>5, ClosedNext, Zenon
    <3>. QED  BY <3>1, Zenon DEF Closes
  <2>. QED  BY <2>1, Zenon
<1>7. Found(longer, m, f, g)
  BY <1>1, <1>6, Zenon DEF Found
<1>8. Reports(longer, ls, m, f, g)
  <2>1. ASSUME NEW k \in 1..m PROVE SubSeq(longer, f[k], g[k]) = SubSeq(text, f[k], g[k])
    <3>1. Closed(text, f[k], g[k]) /\ f[k] \in Nat /\ g[k] \in Nat
      BY <1>1, Zenon DEF Found
    <3>2. 1 <= f[k] /\ g[k] <= n
      BY <1>2, <3>1 DEF Closed
    <3>. QED  BY <1>4, <3>1, <3>2, Zenon
  <2>. QED  BY <1>1, <2>1, Zenon DEF Reports
<1>9. Waits(longer, Append(acc, c), q)
  <2>1. /\ acc = SubSeq(text, q + 1, n)
        /\ \A k \in q + 1..n : ~Lines!IsEnd(text[k])
        /\ q = 0 \/ Lines!IsEnd(text[q])
    BY <1>1, <1>2, Zenon DEF Waits
  <2>2. Append(acc, c) = SubSeq(longer, q + 1, n + 1)
    <3>1. q + 1 \in Nat /\ 1 <= q + 1 /\ n <= n
      BY <1>5
    <3>2. acc = SubSeq(longer, q + 1, n)
      BY <1>4, <2>1, <3>1, Zenon
    <3>3. Append(SubSeq(longer, q + 1, n), longer[n + 1]) = SubSeq(longer, q + 1, n + 1)
      <4>1. q + 1 \in Nat /\ 1 <= q + 1 /\ q + 1 <= n + 1 /\ n + 1 <= Len(longer)
        BY <1>4, <1>5
      <4>. QED  BY <4>1, OneFurther, Zenon
    <3>. QED  BY <1>4, <3>2, <3>3, Zenon
  <2>3. ASSUME NEW k \in q + 1..n + 1 PROVE ~Lines!IsEnd(longer[k])
    <3>1. CASE k = n + 1
      BY <1>4, <3>1, Zenon
    <3>2. CASE k # n + 1
      <4>1. k \in q + 1..n /\ k \in 1..n
        BY <1>5, <3>2
      <4>. QED  BY <1>4, <2>1, <4>1, Zenon
    <3>. QED  BY <3>1, <3>2
  <2>4. q = 0 \/ Lines!IsEnd(longer[q])
    <3>1. q # 0 => q \in 1..n
      BY <1>5
    <3>. QED  BY <1>4, <2>1, <3>1, Zenon
  <2>. QED  BY <1>4, <2>2, <2>3, <2>4, Zenon DEF Waits
<1>10. Append(acc, c) \in Seq(Symbols)
  BY <1>1, Appended, Zenon
<1>11. q \in 0..Len(longer)
  BY <1>4, <1>5
<1>. QED  BY <1>1, <1>3, <1>7, <1>8, <1>9, <1>10, <1>11, Zenon DEF LinesOf

(* An end reports what waits, unless that is empty.                        *)
LEMMA EndReports ==
  ASSUME NEW text, NEW ls, NEW acc, LinesOf(text, ls, acc),
         NEW c \in Symbols, Lines!IsEnd(c)
  PROVE  LinesOf(Append(text, c), IF acc = <<>> THEN ls ELSE Append(ls, acc), <<>>)
<1>0. PICK m \in Nat, q \in 0..Len(text) :
        /\ text \in Seq(Symbols) /\ acc \in Seq(Symbols) /\ Waits(text, acc, q)
        /\ \E f, g \in [1..m -> Nat] : Found(text, m, f, g) /\ Reports(text, ls, m, f, g)
  BY Zenon DEF LinesOf
<1>1. PICK f \in [1..m -> Nat], g \in [1..m -> Nat] :
        /\ text \in Seq(Symbols) /\ acc \in Seq(Symbols)
        /\ Found(text, m, f, g) /\ Reports(text, ls, m, f, g) /\ Waits(text, acc, q)
  BY <1>0, Zenon
<1>2. PICK n \in Nat : n = Len(text)
  BY <1>1
<1>3. PICK longer \in Seq(Symbols) : longer = Append(text, c)
  BY <1>1, Appended, Zenon
<1>4. /\ Len(longer) = n + 1 /\ longer[n + 1] = c
      /\ \A k \in 1..n : longer[k] = text[k]
      /\ \A x, y \in Nat : 1 <= x /\ y <= n => SubSeq(longer, x, y) = SubSeq(text, x, y)
  <2>1. Longer(text, c, n, longer)
    BY <1>1, <1>2, <1>3, OneMore, Zenon
  <2>. QED  BY <2>1, Zenon DEF Longer
<1>5. q \in 0..n
  BY <1>1, <1>2, Zenon
<1>6. ASSUME NEW x \in Nat, NEW y \in Nat
      PROVE  /\ y # n => (Closed(longer, x, y) <=> Closed(text, x, y))
             /\ Closed(text, x, y) => y < q /\ y # n
             /\ Closed(longer, x, n) <=> x = q + 1 /\ q < n
  <2>1. /\ y # n => (Closed(longer, x, y) <=> Closed(text, x, y))
        /\ Closed(text, x, y) => y < q /\ y # n
        /\ Closed(longer, x, n) <=> Lines!IsEnd(c) /\ x = q + 1 /\ q < n
    <3>1. Closes(text, longer, c, n, q, x, y)
      BY <1>1, <1>2, <1>3, <1>5, ClosedNext, Zenon
    <3>. QED  BY <3>1, Zenon DEF Closes
  <2>. QED  BY <2>1, Zenon
<1>7. acc = SubSeq(text, q + 1, n) /\ acc \in Seq(Symbols) /\ Len(acc) = n - q
  <2>1. acc = SubSeq(text, q + 1, n)
    BY <1>1, <1>2, Zenon DEF Waits
  <2>. QED  BY <1>1, <1>2, <1>5, <2>1
<1>8. ASSUME NEW k \in 1..m
      PROVE  /\ Closed(longer, f[k], g[k]) /\ f[k] \in Nat /\ g[k] \in Nat
             /\ 1 <= f[k] /\ f[k] <= g[k] /\ g[k] < q
             /\ ls[k] = SubSeq(longer, f[k], g[k])
  <2>1. Closed(text, f[k], g[k]) /\ f[k] \in Nat /\ g[k] \in Nat
    BY <1>1, Zenon DEF Found
  <2>2. 1 <= f[k] /\ f[k] <= g[k]
    BY <2>1 DEF Closed
  <2>3. Closed(longer, f[k], g[k]) /\ g[k] < q
    BY <1>6, <2>1, Zenon
  <2>4. g[k] <= n
    BY <1>5, <2>1, <2>3
  <2>5. ls[k] = SubSeq(longer, f[k], g[k])
    <3>1. ls[k] = SubSeq(text, f[k], g[k])
      BY <1>1, Zenon DEF Reports
    <3>. QED  BY <1>4, <2>1, <2>2, <2>4, <3>1, Zenon
  <2>. QED  BY <2>1, <2>2, <2>3, <2>5
<1>9. /\ \A j, k \in 1..m : j < k => f[j] < f[k]
      /\ \A x, y \in Nat : Closed(text, x, y) => \E k \in 1..m : f[k] = x /\ g[k] = y
      /\ ls \in Seq(Seq(Symbols)) /\ Len(ls) = m
  BY <1>1, Zenon DEF Found, Reports
<1>10. PICK e \in Seq(Symbols) : e = <<>>
  BY EmptyTyped, Zenon
<1>11. Waits(longer, e, n + 1) /\ n + 1 \in 0..Len(longer)
  <2>1. e = SubSeq(longer, (n + 1) + 1, n + 1)
    BY <1>4, <1>10
  <2>2. \A k \in (n + 1) + 1..n + 1 : FALSE
    OBVIOUS
  <2>3. n + 1 \in 0..Len(longer)
    BY <1>4
  <2>. QED  BY <1>4, <2>1, <2>2, <2>3, Zenon DEF Waits
<1>12. CASE acc = <<>>
  <2>1. q = n
    <3>1. Len(acc) = 0
      BY <1>12
    <3>. QED  BY <1>5, <1>7, <3>1
  <2>2. ASSUME NEW x \in Nat, NEW y \in Nat, Closed(longer, x, y)
        PROVE  \E k \in 1..m : f[k] = x /\ g[k] = y
    <3>1. y # n
      <4>1. ~(q < n)
        BY <2>1
      <4>. QED  BY <1>6, <2>2, <4>1, Zenon
    <3>. QED  BY <1>6, <1>9, <2>2, <3>1, ZenonT(30)
  <2>3. Found(longer, m, f, g)
    BY <1>8, <1>9, <2>2, Zenon DEF Found
  <2>4. Reports(longer, ls, m, f, g)
    BY <1>8, <1>9, Zenon DEF Reports
  <2>. QED  BY <1>3, <1>10, <1>11, <1>12, <2>3, <2>4, Zenon DEF LinesOf
<1>13. CASE acc # <<>>
  <2>1. q < n /\ q + 1 \in Nat
    <3>1. Len(acc) # 0
      BY <1>7, <1>13
    <3>. QED  BY <1>5, <1>7, <3>1
  <2>2. PICK u : u = [k \in 1..m + 1 |-> IF k = m + 1 THEN q + 1 ELSE f[k]]
    OBVIOUS
  <2>3. PICK v : v = [k \in 1..m + 1 |-> IF k = m + 1 THEN n ELSE g[k]]
    OBVIOUS
  <2>4. ASSUME NEW k \in 1..m PROVE u[k] = f[k] /\ v[k] = g[k] /\ k \in 1..m + 1
    BY <2>2, <2>3
  <2>5. u[m + 1] = q + 1 /\ v[m + 1] = n
    BY <2>2, <2>3
  <2>6. \A k \in 1..m + 1 : k \in 1..m \/ k = m + 1
    OBVIOUS
  <2>7. \A k \in 1..m + 1 : u[k] \in Nat /\ v[k] \in Nat /\ Closed(longer, u[k], v[k])
    <3>1. Closed(longer, q + 1, n)
      BY <1>6, <2>1, Zenon
    <3>. QED  BY <1>8, <2>1, <2>4, <2>5, <2>6, <3>1, Zenon
  <2>8. u \in [1..m + 1 -> Nat] /\ v \in [1..m + 1 -> Nat]
    BY <2>2, <2>3, <2>7
  <2>9. ASSUME NEW j \in 1..m + 1, NEW k \in 1..m + 1, j < k PROVE u[j] < u[k]
    <3>1. j \in 1..m
      BY <2>9
    <3>2. CASE k \in 1..m
      BY <1>9, <2>4, <2>9, <3>1, <3>2, Zenon
    <3>3. CASE k = m + 1
      <4>1. f[j] \in Nat /\ g[j] \in Nat /\ f[j] <= g[j] /\ g[j] < q
        BY <1>8, <3>1, Zenon
      <4>2. f[j] < q + 1
        BY <1>5, <4>1
      <4>. QED  BY <2>4, <2>5, <3>1, <3>3, <4>2, Zenon
    <3>. QED  BY <2>6, <3>2, <3>3
  <2>10. ASSUME NEW x \in Nat, NEW y \in Nat, Closed(longer, x, y)
         PROVE  \E k \in 1..m + 1 : u[k] = x /\ v[k] = y
    <3>1. CASE y = n
      <4>1. x = q + 1
        BY <1>6, <2>10, <3>1, Zenon
      <4>2. m + 1 \in 1..m + 1
        OBVIOUS
      <4>. QED  BY <2>5, <3>1, <4>1, <4>2, Zenon
    <3>2. CASE y # n
      <4>1. PICK k \in 1..m : f[k] = x /\ g[k] = y
        BY <1>6, <1>9, <2>10, <3>2, ZenonT(30)
      <4>. QED  BY <2>4, <4>1, Zenon
    <3>. QED  BY <3>1, <3>2
  <2>11. Found(longer, m + 1, u, v)
    BY <2>7, <2>8, <2>9, <2>10, Zenon DEF Found
  <2>12. PICK more : more = Append(ls, acc)
    OBVIOUS
  <2>13. /\ more \in Seq(Seq(Symbols)) /\ Len(more) = m + 1 /\ more[m + 1] = acc
         /\ \A k \in 1..m : more[k] = ls[k]
    <3>1. /\ Append(ls, acc) \in Seq(Seq(Symbols)) /\ Len(Append(ls, acc)) = Len(ls) + 1
          /\ Append(ls, acc)[Len(ls) + 1] = acc
          /\ \A k \in 1..Len(ls) : Append(ls, acc)[k] = ls[k]
      BY <1>7, <1>9, Appended
    <3>. QED  BY <1>9, <2>12, <3>1, Zenon
  <2>14. acc = SubSeq(longer, q + 1, n)
    <3>1. 1 <= q + 1 /\ n <= n
      BY <1>5
    <3>. QED  BY <1>4, <1>7, <2>1, <3>1, Zenon
  <2>15. Reports(longer, more, m + 1, u, v)
    BY <1>8, <2>4, <2>5, <2>6, <2>13, <2>14, Zenon DEF Reports
  <2>16. m + 1 \in Nat
    OBVIOUS
  <2>. QED  BY <1>3, <1>10, <1>11, <1>13, <2>8, <2>11, <2>12, <2>15, <2>16, Zenon DEF LinesOf
<1>. QED  BY <1>12, <1>13, Zenon

(* The rounds of append's loop.                                            *)
LineState == [acc : Seq(Symbols), start : Nat \ {0}, out : Seq(Seq(Symbols))]
Unread == [acc |-> m_accumulator, start |-> 1, out |-> lines]

LEMMA ScanTyped ==
  ASSUME NEW v \in Seq(Symbols), NEW i \in 1..Len(v), NEW t \in LineState
  PROVE  Lines!Scan(v, t, i) \in LineState
<1>1. t.acc \in Seq(Symbols) /\ t.start \in Nat \ {0} /\ t.out \in Seq(Seq(Symbols))
  BY DEF LineState
<1>2. CASE t.start > i \/ ~Lines!IsEnd(v[i])
  <2>1. Lines!Scan(v, t, i) = t
    BY <1>2, Zenon DEF Lines!Scan
  <2>. QED  BY <2>1, Zenon
<1>3. CASE ~(t.start > i \/ ~Lines!IsEnd(v[i]))
  <2>1. PICK n \in Nat : n = Len(v)
    OBVIOUS
  <2>2. PICK a \in Nat \ {0} : a = t.start
    BY <1>1
  <2>3. SubSeq(v, a, i - 1) \in Seq(Symbols)
    <3>1. a <= i
      BY <1>3, <2>2
    <3>. QED  BY <2>1, <3>1
  <2>4. PICK line \in Seq(Symbols) : line = t.acc \o SubSeq(v, t.start, i - 1)
    BY <1>1, <2>2, <2>3, Concatenated, Zenon
  <2>5. PICK b \in Nat \ {0} : b = Lines!Next_start(v, i)
    <3>1. i + 2 \in Nat \ {0} /\ i + 1 \in Nat \ {0}
      OBVIOUS
    <3>. QED  BY <3>1, Zenon DEF Lines!Next_start
  <2>6. PICK o \in Seq(Seq(Symbols)) : o = IF line = <<>> THEN t.out ELSE Append(t.out, line)
    BY <1>1, Appended, Zenon
  <2>7. PICK e \in Seq(Symbols) : e = <<>>
    BY EmptyTyped, Zenon
  <2>8. Lines!Scan(v, t, i) = [acc |-> e, start |-> b, out |-> o]
    BY <1>3, <2>4, <2>5, <2>6, <2>7, Zenon DEF Lines!Scan
  <2>9. [acc |-> e, start |-> b, out |-> o] \in LineState
    BY DEF LineState
  <2>. QED  BY <2>8, <2>9, Zenon
<1>. QED  BY <1>2, <1>3, Zenon

(* What the rounds do.                                                     *)
LEMMA ScanRuns ==
  ASSUME NEW v \in Seq(Symbols), Unread \in LineState
  PROVE  \E h \in [0..Len(v) -> LineState] :
           /\ h[0] = Unread
           /\ \A i \in 1..Len(v) : h[i] = Lines!Scan(v, h[i - 1], i)
           /\ Lines!Scanned(v) = h[Len(v)]
<1>. DEFINE P(h) == h = [i \in 0..Len(v) |->
                          IF i = 0 THEN Unread ELSE Lines!Scan(v, h[i - 1], i)]
<1>1. PICK n \in Nat : n = Len(v)
  OBVIOUS
<1>2. /\ Unread \in LineState
      /\ \A i \in 1..n, t \in LineState : Lines!Scan(v, t, i) \in LineState
  BY <1>1, ScanTyped, Zenon
<1>3. PICK F : F = [i \in 1..n |-> [t \in LineState |-> Lines!Scan(v, t, i)]]
  OBVIOUS
<1>4. F \in Rounds(LineState, n)
  BY <1>2, <1>3, Zenon DEF Rounds
<1>5. PICK g \in [0..n -> LineState] :
        g[0] = Unread /\ \A i \in 1..n : g[i] = F[i][g[i - 1]]
  <2>1. States(LineState, Unread, n, F) # {}
    BY <1>2, <1>4, Iterates, Zenon
  <2>. QED  BY <2>1, Zenon DEF States
<1>6. ASSUME NEW i \in 0..n
      PROVE  g[i] = IF i = 0 THEN Unread ELSE Lines!Scan(v, g[i - 1], i)
  <2>1. CASE i = 0
    BY <1>5, <2>1
  <2>2. CASE i # 0
    <3>1. i \in 1..n /\ i - 1 \in 0..n
      BY <2>2
    <3>2. g[i - 1] \in LineState
      BY <3>1
    <3>. QED  BY <1>3, <1>5, <2>2, <3>1, <3>2, Zenon
  <2>. QED  BY <2>1, <2>2
<1>7. P(g)
  <2>1. g = [i \in 0..n |-> g[i]]
    OBVIOUS
  <2>. QED  BY <1>1, <1>6, <2>1, Zenon
<1>8. PICK h : h = (CHOOSE x : P(x))
  OBVIOUS
<1>9. P(h)
  <2>. HIDE DEF P
  <2>. QED  BY <1>7, <1>8, Zenon
<1>10. Lines!Scanned(v) = h[n]
  BY <1>1, <1>8, Zenon DEF Lines!Scanned, Lines!Loop, Unread
<1>11. ASSUME NEW i \in 0..n
       PROVE  h[i] = IF i = 0 THEN Unread ELSE Lines!Scan(v, h[i - 1], i)
  BY <1>1, <1>9, Zenon
<1>12. DOMAIN h = 0..n /\ h = [i \in 0..n |-> h[i]]
  BY <1>1, <1>9, Zenon
<1>. HIDE DEF P
<1>13. h[0] = Unread
  <2>1. 0 \in 0..n
    OBVIOUS
  <2>. QED  BY <1>11, <2>1, Zenon
<1>14. ASSUME NEW i \in 1..n PROVE h[i] = Lines!Scan(v, h[i - 1], i)
  <2>1. i \in 0..n /\ i # 0
    OBVIOUS
  <2>. QED  BY <1>11, <2>1, Zenon
<1>15. \A i \in 0..n : h[i] \in LineState
  <2>1. h[0] \in LineState /\ \A i \in 1..n : h[i - 1] \in LineState => h[i] \in LineState
    BY <1>2, <1>13, <1>14, Zenon
  <2>. QED  BY <2>1, StaysIn
<1>16. h \in [0..n -> LineState]
  BY <1>12, <1>15, Zenon
<1>. QED  BY <1>1, <1>10, <1>13, <1>14, <1>16, Zenon

(* After round i: the lines of the text up to there, in state t; the line  *)
(* in hand goes on at start, which is beyond the next byte when that is    *)
(* the "n" of an "r" "n".                                                  *)
InHand(v, t, i) == t.acc \o SubSeq(v, t.start, i)
AfterRound(text, v, n, t, i) ==
  /\ t \in LineState
  /\ LinesOf(text \o SubSeq(v, 1, i), t.out, InHand(v, t, i))
  /\ t.start <= i + 1 \/ (t.start = i + 2 /\ i < n /\ v[i + 1] = "n" /\ t.acc = <<>>)

LEMMA NothingInHand ==
  ASSUME NEW v \in Seq(Symbols), NEW t, t.acc = <<>>, NEW i \in Nat, i <= Len(v),
         NEW a \in Nat, a > i, t.start = a
  PROVE  InHand(v, t, i) = <<>>
<1>1. SubSeq(v, a, i) = <<>>
  OBVIOUS
<1>2. <<>> \o <<>> = <<>>
  OBVIOUS
<1>. QED  BY <1>1, <1>2, Zenon DEF InHand

LEMMA TextGoesOn ==
  ASSUME NEW text \in Seq(Symbols), NEW v \in Seq(Symbols), NEW i \in Nat, i + 1 <= Len(v)
  PROVE  /\ text \o SubSeq(v, 1, i + 1) = Append(text \o SubSeq(v, 1, i), v[i + 1])
         /\ v[i + 1] \in Symbols
<1>1. SubSeq(v, 1, i + 1) = Append(SubSeq(v, 1, i), v[i + 1])
  BY OneFurther
<1>2. SubSeq(v, 1, i) \in Seq(Symbols) /\ v[i + 1] \in Symbols
  OBVIOUS
<1>3. PICK u \in Seq(Symbols) : u = SubSeq(v, 1, i)
  BY <1>2, Zenon
<1>4. PICK c \in Symbols : c = v[i + 1]
  BY <1>2, Zenon
<1>5. text \o Append(u, c) = Append(text \o u, c)
  OBVIOUS
<1>. QED  BY <1>1, <1>3, <1>4, <1>5, Zenon

LEMMA OneRound ==
  ASSUME NEW text \in Seq(Symbols), NEW v \in Seq(Symbols), NEW n \in Nat, n = Len(v),
         NEW i \in Nat, i + 1 <= n, NEW t, AfterRound(text, v, n, t, i)
  PROVE  AfterRound(text, v, n, Lines!Scan(v, t, i + 1), i + 1)
<1>1. /\ t \in LineState
      /\ LinesOf(text \o SubSeq(v, 1, i), t.out, InHand(v, t, i))
      /\ t.start <= i + 1 \/ (t.start = i + 2 /\ i < n /\ v[i + 1] = "n" /\ t.acc = <<>>)
  BY Zenon DEF AfterRound
<1>2. t.acc \in Seq(Symbols) /\ t.start \in Nat \ {0} /\ t.out \in Seq(Seq(Symbols))
  BY <1>1 DEF LineState
<1>3. PICK a \in Nat \ {0} : a = t.start
  BY <1>2, Zenon
<1>4. PICK c \in Symbols : c = v[i + 1]
  BY TextGoesOn, Zenon
<1>5. PICK T : T = text \o SubSeq(v, 1, i)
  OBVIOUS
<1>6. text \o SubSeq(v, 1, i + 1) = Append(T, c)
  BY <1>4, <1>5, TextGoesOn, Zenon
<1>7. Lines!Scan(v, t, i + 1) \in LineState
  <2>1. i + 1 \in 1..Len(v)
    OBVIOUS
  <2>. QED  BY <1>1, <2>1, ScanTyped, Zenon
<1>8. CASE a > i + 1
  <2>1. a = i + 2 /\ c = "n" /\ t.acc = <<>>
    BY <1>1, <1>3, <1>4, <1>8
  <2>2. Lines!Scan(v, t, i + 1) = t
    BY <1>3, <1>8, Zenon DEF Lines!Scan
  <2>3. InHand(v, t, i) = <<>> /\ InHand(v, t, i + 1) = <<>>
    <3>1. a > i /\ a > i + 1 /\ i <= Len(v) /\ i + 1 <= Len(v) /\ i + 1 \in Nat
      BY <1>8
    <3>. QED  BY <1>3, <2>1, <3>1, NothingInHand, Zenon
  <2>4. Lines!IsEnd(c)
    BY <2>1, Zenon DEF Lines!IsEnd
  <2>5. LinesOf(Append(T, c), t.out, <<>>)
    <3>1. LinesOf(T, t.out, <<>>)
      BY <1>1, <1>5, <2>3, Zenon
    <3>. QED  BY <2>4, <3>1, EndReports, Zenon
  <2>6. t.start <= (i + 1) + 1
    BY <1>3, <2>1
  <2>. QED  BY <1>1, <1>6, <2>2, <2>3, <2>5, <2>6, Zenon DEF AfterRound
<1>9. CASE a <= i + 1 /\ ~Lines!IsEnd(c)
  <2>1. Lines!Scan(v, t, i + 1) = t
    BY <1>4, <1>9, Zenon DEF Lines!Scan
  <2>2. InHand(v, t, i + 1) = Append(InHand(v, t, i), c)
    <3>1. SubSeq(v, a, i + 1) = Append(SubSeq(v, a, i), v[i + 1])
      <4>1. 1 <= a /\ i + 1 <= Len(v)
        OBVIOUS
      <4>. QED  BY <1>9, <4>1, OneFurther
    <3>2. SubSeq(v, a, i) \in Seq(Symbols)
      BY <1>9
    <3>3. PICK u \in Seq(Symbols) : u = SubSeq(v, a, i)
      BY <3>2, Zenon
    <3>4. PICK w \in Seq(Symbols) : w = t.acc
      BY <1>2, Zenon
    <3>5. w \o Append(u, c) = Append(w \o u, c)
      OBVIOUS
    <3>. QED  BY <1>3, <1>4, <3>1, <3>3, <3>4, <3>5, Zenon DEF InHand
  <2>3. LinesOf(Append(T, c), t.out, Append(InHand(v, t, i), c))
    BY <1>1, <1>5, <1>9, ByteWaits, Zenon
  <2>4. t.start <= (i + 1) + 1
    BY <1>3, <1>9
  <2>. QED  BY <1>1, <1>6, <2>1, <2>2, <2>3, <2>4, Zenon DEF AfterRound
<1>10. CASE a <= i + 1 /\ Lines!IsEnd(c)
  <2>1. PICK b : b = Lines!Next_start(v, i + 1)
    OBVIOUS
  <2>2. PICK line : line = InHand(v, t, i)
    OBVIOUS
  <2>3. PICK o : o = IF line = <<>> THEN t.out ELSE Append(t.out, line)
    OBVIOUS
  <2>4. PICK r : r = [acc |-> <<>>, start |-> b, out |-> o]
    OBVIOUS
  <2>5. Lines!Scan(v, t, i + 1) = r
    <3>1. ~(t.start > i + 1 \/ ~Lines!IsEnd(v[i + 1]))
      BY <1>3, <1>4, <1>10
    <3>2. line = t.acc \o SubSeq(v, t.start, (i + 1) - 1)
      <4>1. (i + 1) - 1 = i
        OBVIOUS
      <4>. QED  BY <2>2, <4>1, Zenon DEF InHand
    <3>. QED  BY <2>1, <2>3, <2>4, <3>1, <3>2, Zenon DEF Lines!Scan
  <2>6. r.acc = <<>> /\ r.start = b /\ r.out = o
    BY <2>4, Zenon
  <2>7. \/ b = (i + 1) + 1
        \/ b = (i + 1) + 2 /\ i + 1 < n /\ v[(i + 1) + 1] = "n"
    BY <2>1, Zenon DEF Lines!Next_start
  <2>8. b \in Nat /\ b > i + 1
    BY <2>7
  <2>9. InHand(v, r, i + 1) = <<>>
    <3>1. i + 1 \in Nat /\ i + 1 <= Len(v)
      OBVIOUS
    <3>. QED  BY <2>6, <2>8, <3>1, NothingInHand, Zenon
  <2>10. LinesOf(Append(T, c), o, <<>>)
    BY <1>1, <1>5, <1>10, <2>2, <2>3, EndReports, Zenon
  <2>11. \/ r.start <= (i + 1) + 1
         \/ r.start = (i + 1) + 2 /\ i + 1 < n /\ v[(i + 1) + 1] = "n" /\ r.acc = <<>>
    BY <2>6, <2>7
  <2>12. r \in LineState
    BY <1>7, <2>5, Zenon
  <2>. QED  BY <1>6, <2>5, <2>6, <2>9, <2>10, <2>11, <2>12, Zenon DEF AfterRound
<1>11. a > i + 1 \/ a <= i + 1
  OBVIOUS
<1>. QED  BY <1>8, <1>9, <1>10, <1>11, Zenon

(* A read, of any length and cut at any place.                             *)
LEMMA ReadsOn ==
  ASSUME NEW text, LinesOf(text, lines, m_accumulator), lines \in Seq(Seq(Symbols)),
         NEW v \in Seq(Symbols)
  PROVE  LinesOf(text \o v, Lines!Scanned(v).out, Lines!Rest(v, Lines!Scanned(v)))
<1>1. text \in Seq(Symbols) /\ m_accumulator \in Seq(Symbols)
  BY Zenon DEF LinesOf
<1>2. Unread \in LineState /\ Unread.acc = m_accumulator /\ Unread.start = 1 /\ Unread.out = lines
  BY <1>1 DEF Unread, LineState
<1>3. PICK n \in Nat : n = Len(v)
  OBVIOUS
<1>4. PICK h \in [0..n -> LineState] :
        /\ h[0] = Unread
        /\ \A i \in 1..n : h[i] = Lines!Scan(v, h[i - 1], i)
        /\ Lines!Scanned(v) = h[n]
  BY <1>2, <1>3, ScanRuns, Zenon
<1>5. AfterRound(text, v, n, h[0], 0)
  <2>1. SubSeq(v, 1, 0) = <<>> /\ text \o <<>> = text /\ m_accumulator \o <<>> = m_accumulator
    BY <1>1
  <2>2. InHand(v, Unread, 0) = m_accumulator
    BY <1>2, <2>1, Zenon DEF InHand
  <2>3. 1 <= 0 + 1
    OBVIOUS
  <2>. QED  BY <1>2, <1>4, <2>1, <2>2, <2>3, Zenon DEF AfterRound
<1>. DEFINE S == {i \in Nat : i <= n => AfterRound(text, v, n, h[i], i)}
<1>6. 0 \in S
  BY <1>5
<1>7. ASSUME NEW i \in Nat, i \in S PROVE i + 1 \in S
  <2>1. SUFFICES ASSUME i + 1 <= n PROVE AfterRound(text, v, n, h[i + 1], i + 1)
    OBVIOUS
  <2>2. i + 1 \in 1..n /\ (i + 1) - 1 = i /\ i <= n
    BY <2>1
  <2>3. AfterRound(text, v, n, h[i], i)
    BY <1>7, <2>2
  <2>4. h[i + 1] = Lines!Scan(v, h[i], i + 1)
    BY <1>4, <2>2, Zenon
  <2>5. AfterRound(text, v, n, Lines!Scan(v, h[i], i + 1), i + 1)
    BY <1>1, <1>3, <2>1, <2>3, OneRound
  <2>. QED  BY <2>4, <2>5, Zenon
<1>. HIDE DEF S
<1>8. Nat \subseteq S
  BY <1>6, <1>7, SetInduction
<1>9. AfterRound(text, v, n, h[n], n)
  <2>1. n \in S /\ n <= n
    BY <1>8
  <2>. QED  BY <2>1 DEF S
<1>10. SubSeq(v, 1, n) = v
  BY <1>3
<1>. QED  BY <1>3, <1>4, <1>9, <1>10, Zenon DEF AfterRound, InHand, Lines!Rest

LEMMA LinesTyped ==
  ASSUME NEW text, NEW ls, NEW acc, LinesOf(text, ls, acc)
  PROVE  text \in Seq(Symbols) /\ acc \in Seq(Symbols) /\ ls \in Seq(Seq(Symbols))
BY Zenon DEF LinesOf, Reports

LEMMA LinesKept ==
  ASSUME LinesOf(output, lines, m_accumulator), [Lines!Next]_lineVars
  PROVE  LinesOf(output, lines, m_accumulator)'
<1>1. ASSUME NEW k \in 1..MaxRead, NEW v \in [1..k -> Chars], Lines!Read(v)
      PROVE  LinesOf(output, lines, m_accumulator)'
  <2>1. v \in Seq(Symbols)
    <3>1. k \in Nat /\ v \in [1..k -> Symbols]
      BY DEF Symbols
    <3>. QED  BY <3>1, FunctionIsSeq, Zenon
  <2>2. lines \in Seq(Seq(Symbols))
    BY LinesTyped, Zenon
  <2>3. LinesOf(output \o v, Lines!Scanned(v).out, Lines!Rest(v, Lines!Scanned(v)))
    BY <2>1, <2>2, ReadsOn, Zenon
  <2>. QED  BY <1>1, <2>3, Zenon DEF Lines!Read, Lines!append
<1>2. ASSUME Lines!EndOfOutput PROVE LinesOf(output, lines, m_accumulator)'
  <2>1. "n" \in Symbols /\ Lines!IsEnd("n")
    BY Zenon DEF Symbols, Lines!IsEnd
  <2>2. LinesOf(Append(output, "n"),
                IF m_accumulator = <<>> THEN lines ELSE Append(lines, m_accumulator), <<>>)
    BY <2>1, EndReports, Zenon
  <2>. QED  BY <1>2, <2>2, Zenon DEF Lines!EndOfOutput, Lines!flush
<1>3. ASSUME UNCHANGED lineVars PROVE LinesOf(output, lines, m_accumulator)'
  BY <1>3, Zenon DEF lineVars
<1>. QED  BY <1>1, <1>2, <1>3, Zenon DEF Lines!Next

LEMMA LinesCardinality ==
  ASSUME NEW S PROVE Lines!Cardinality(S) = Cardinality(S)
BY Zenon DEF Lines!Cardinality, Cardinality

(* With an end behind it, every maximal run of a text is a line of it.     *)
LEMMA RunsAreLines ==
  ASSUME NEW text \in Seq(Symbols), NEW longer, longer = Append(text, "n"),
         NEW n \in Nat, n = Len(text), NEW x \in Nat, NEW y \in Nat
  PROVE  <<x, y>> \in Lines!Runs(text) <=> Closed(longer, x, y)
<1>1. "n" \in Symbols /\ Lines!IsEnd("n")
  BY Zenon DEF Symbols, Lines!IsEnd
<1>2. /\ longer \in Seq(Symbols) /\ Len(longer) = n + 1 /\ longer[n + 1] = "n"
      /\ \A k \in 1..n : longer[k] = text[k]
  <2>1. Longer(text, "n", n, longer)
    BY <1>1, OneMore, Zenon
  <2>. QED  BY <2>1, Zenon DEF Longer
<1>3. <<x, y>> \in Lines!Runs(text) <=>
        /\ x \in 1..n /\ y \in 1..n /\ x <= y
        /\ \A k \in x..y : ~Lines!IsEnd(text[k])
        /\ x = 1 \/ Lines!IsEnd(text[x - 1])
        /\ y = n \/ Lines!IsEnd(text[y + 1])
  BY DEF Lines!Runs
<1>4. CASE ~(x \in 1..n /\ y \in 1..n /\ x <= y)
  BY <1>2, <1>3, <1>4 DEF Closed
<1>5. CASE x \in 1..n /\ y \in 1..n /\ x <= y
  <2>1. x \in 1..Len(longer) /\ y \in 1..Len(longer) - 1
    BY <1>2, <1>5
  <2>2. \A k \in x..y : longer[k] = text[k]
    BY <1>2, <1>5
  <2>3. x = 1 \/ longer[x - 1] = text[x - 1]
    BY <1>2, <1>5
  <2>4. Lines!IsEnd(longer[y + 1]) <=> (y = n \/ Lines!IsEnd(text[y + 1]))
    <3>1. CASE y = n
      BY <1>1, <1>2, <3>1, Zenon
    <3>2. CASE y # n
      <4>1. longer[y + 1] = text[y + 1]
        BY <1>2, <1>5, <3>2
      <4>. QED  BY <3>2, <4>1, Zenon
    <3>. QED  BY <3>1, <3>2
  <2>. QED  BY <1>3, <1>5, <2>1, <2>2, <2>3, <2>4, Zenon DEF Closed
<1>. QED  BY <1>4, <1>5

LEMMA LinesCut ==
  ASSUME LinesOf(output, lines, m_accumulator) PROVE Lines!CutsDoNotMatter
<1>1. PICK n \in Nat : n = Len(output) /\ output \in Seq(Symbols)
  <2>1. output \in Seq(Symbols)
    BY LinesTyped, Zenon
  <2>. QED  BY <2>1
<1>2. PICK longer : longer = Append(output, "n")
  OBVIOUS
<1>3. "n" \in Symbols /\ Lines!IsEnd("n")
  BY Zenon DEF Symbols, Lines!IsEnd
<1>4. PICK ls : ls = IF m_accumulator = <<>> THEN lines ELSE Append(lines, m_accumulator)
  OBVIOUS
<1>5. LinesOf(longer, ls, <<>>)
  BY <1>2, <1>3, <1>4, EndReports, Zenon
<1>6. PICK m \in Nat : \E f, g \in [1..m -> Nat] :
        Found(longer, m, f, g) /\ Reports(longer, ls, m, f, g)
  BY <1>5, Zenon DEF LinesOf
<1>7. PICK f \in [1..m -> Nat], g \in [1..m -> Nat] :
        Found(longer, m, f, g) /\ Reports(longer, ls, m, f, g)
  BY <1>6, Zenon
<1>8. /\ \A k \in 1..m : Closed(longer, f[k], g[k])
      /\ \A j, k \in 1..m : j < k => f[j] < f[k]
      /\ \A x, y \in Nat : Closed(longer, x, y) => \E k \in 1..m : f[k] = x /\ g[k] = y
  BY <1>7, Zenon DEF Found
<1>9. PICK R : R = Lines!Runs(output)
  OBVIOUS
<1>10. \A x, y \in Nat : <<x, y>> \in R <=> Closed(longer, x, y)
  BY <1>1, <1>2, <1>9, RunsAreLines, Zenon
<1>11. PICK run : run = [k \in 1..m |-> <<f[k], g[k]>>]
  OBVIOUS
<1>12. ASSUME NEW k \in 1..m
       PROVE  run[k] = <<f[k], g[k]>> /\ run[k][1] = f[k] /\ run[k][2] = g[k] /\ run[k] \in R
  <2>1. run[k] = <<f[k], g[k]>>
    BY <1>11
  <2>2. f[k] \in Nat /\ g[k] \in Nat
    BY <1>7
  <2>. QED  BY <1>8, <1>10, <2>1, <2>2
<1>13. run \in [1..m -> R] /\ DOMAIN run = 1..m
  BY <1>11, <1>12
<1>14. \A j, k \in 1..m : j < k => run[j][1] < run[k][1]
  BY <1>8, <1>12, ZenonT(30)
<1>15. \A j, k \in 1..m : run[j] = run[k] => j = k
  <2>1. ASSUME NEW j \in 1..m, NEW k \in 1..m, run[j] = run[k], j # k PROVE FALSE
    <3>1. f[j] = f[k] /\ f[j] \in Nat
      BY <1>7, <1>12, <2>1, Zenon
    <3>2. j < k \/ k < j
      BY <2>1
    <3>. QED  BY <1>8, <3>1, <3>2
  <2>. QED  BY <2>1
<1>16. ASSUME NEW r \in R PROVE \E k \in 1..m : run[k] = r
  <2>1. r = <<r[1], r[2]>> /\ r[1] \in Nat /\ r[2] \in Nat
    BY <1>1, <1>9 DEF Lines!Runs
  <2>2. PICK x \in Nat, y \in Nat : x = r[1] /\ y = r[2]
    BY <2>1, Zenon
  <2>3. r = <<x, y>>
    BY <2>1, <2>2, Zenon
  <2>4. Closed(longer, x, y)
    BY <1>10, <2>3, Zenon
  <2>5. PICK k \in 1..m : f[k] = x /\ g[k] = y
    BY <1>8, <2>4, Zenon
  <2>. QED  BY <1>12, <2>3, <2>5, Zenon
<1>17. Cardinality(R) = m
  <2>1. run \in Bijection(1..m, R)
    BY <1>13, <1>15, <1>16, Zenon DEF Bijection, Injection, Surjection, IsInjective
  <2>2. ExistsBijection(1..m, R)
    BY <2>1, Zenon DEF ExistsBijection
  <2>. QED  BY <2>2, FS_CountingElements, Zenon
<1>18. ls \in Seq(Seq(Symbols)) /\ Len(ls) = m
  BY <1>7, Zenon DEF Reports
<1>19. ASSUME NEW k \in 1..m PROVE ls[k] = SubSeq(output, run[k][1], run[k][2])
  <2>1. ls[k] = SubSeq(longer, f[k], g[k])
    BY <1>7, Zenon DEF Reports
  <2>2. \A x, y \in Nat : 1 <= x /\ y <= n => SubSeq(longer, x, y) = SubSeq(output, x, y)
    <3>1. Longer(output, "n", n, longer)
      BY <1>1, <1>2, <1>3, OneMore, Zenon
    <3>. QED  BY <3>1, Zenon DEF Longer
  <2>3. f[k] \in Nat /\ g[k] \in Nat
    BY <1>7
  <2>4. 1 <= f[k] /\ g[k] <= n
    <3>1. Len(longer) = n + 1
      BY <1>1, <1>2
    <3>. QED  BY <1>8, <2>3, <3>1 DEF Closed
  <2>5. SubSeq(longer, f[k], g[k]) = SubSeq(output, f[k], g[k])
    BY <2>2, <2>3, <2>4, Zenon
  <2>6. run[k][1] = f[k] /\ run[k][2] = g[k]
    BY <1>12
  <2>. QED  BY <2>1, <2>5, <2>6, Zenon
<1>20. ls = [k \in DOMAIN run |-> SubSeq(output, run[k][1], run[k][2])]
  <2>1. ls = [k \in 1..m |-> ls[k]]
    BY <1>18
  <2>. QED  BY <1>13, <1>19, <2>1, Zenon
<1>21. lines \o (IF m_accumulator = <<>> THEN <<>> ELSE <<m_accumulator>>) = ls
  <2>1. lines \in Seq(Seq(Symbols)) /\ m_accumulator \in Seq(Symbols)
    BY LinesTyped, Zenon
  <2>2. lines \o <<>> = lines /\ lines \o <<m_accumulator>> = Append(lines, m_accumulator)
    BY <2>1
  <2>. QED  BY <1>4, <2>2, Zenon
<1>22. run \in [1..Lines!Cardinality(Lines!Runs(output)) -> Lines!Runs(output)]
  BY <1>9, <1>13, <1>17, LinesCardinality, Zenon
<1>. QED  BY <1>13, <1>14, <1>20, <1>21, <1>22, Zenon DEF Lines!CutsDoNotMatter

(* Lines: the lines reported of a child's output, and what waits, are its  *)
(* maximal runs of other bytes, in order, each once, however long it is    *)
(* and wherever it was cut into reads.                                     *)
THEOREM CutsDoNotMatterAlways == UtilitiesSpec => []CutsDoNotMatter
<1>1. UtilitiesInit => LinesOf(output, lines, m_accumulator)
  <2>1. UtilitiesInit => output = <<>> /\ lines = <<>> /\ m_accumulator = <<>>
    BY Zenon DEF UtilitiesInit, Lines!Init
  <2>. QED  BY <2>1, NoLines, Zenon
<1>2. LinesOf(output, lines, m_accumulator) /\ [UtilitiesNext]_utilityVars
        => LinesOf(output, lines, m_accumulator)'
  BY PartSteps, LinesKept
<1>3. LinesOf(output, lines, m_accumulator) => CutsDoNotMatter
  BY LinesCut DEF CutsDoNotMatter
<1>. QED  BY <1>1, <1>2, <1>3, PTL DEF UtilitiesSpec
=============================================================================
