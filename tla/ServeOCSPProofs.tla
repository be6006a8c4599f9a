--------------------------- MODULE ServeOCSPProofs ---------------------------
(***************************************************************************)
(* That the request a conforming client sends is the request Handle is     *)
(* given, by POST and by GET, for every request, every path segment and    *)
(* every limit.                                                            *)
(*                                                                         *)
(* Trying the base64 encodings in turn is unambiguous: two encodings that  *)
(* accept a text give each of its digits the same value, because a         *)
(* character that is in both alphabets is alphanumeric or the same special *)
(* character in both; and the bytes depend on the values alone.            *)
(*                                                                         *)
(* Decoding undoes encoding: four digits are made of three bytes and give  *)
(* them back, the zeros that fill up the last digit are dropped again, and *)
(* the text has exactly the digits and the padding the decoder asks for.   *)
(***************************************************************************)
EXTENDS ServeOCSP, FiniteSetTheorems, TLAPS

Encodings == {Std, RawStd, URL, RawURL}

\* The two alphabets.
LEMMA Alphabets ==
    \A e \in Encodings :
        (e.c62 = Plus /\ e.c63 = Slash) \/ (e.c62 = Minus /\ e.c63 = Underscore)
<1>1. Std.c62 = Plus /\ Std.c63 = Slash
    BY DEF Std
<1>2. RawStd.c62 = Plus /\ RawStd.c63 = Slash
    BY DEF RawStd
<1>3. URL.c62 = Minus /\ URL.c63 = Underscore
    BY DEF URL
<1>4. RawURL.c62 = Minus /\ RawURL.c63 = Underscore
    BY DEF RawURL
<1> QED BY <1>1, <1>2, <1>3, <1>4 DEF Encodings

\* A character in the alphabets of two encodings has one value.
LEMMA ValueAgrees ==
    ASSUME NEW e \in Encodings, NEW f \in Encodings, NEW c,
           InAlphabet(e, c), InAlphabet(f, c)
    PROVE  Value(e, c) = Value(f, c)
BY Alphabets DEF InAlphabet, Value, Plus, Slash, Minus, Underscore

\* Two encodings that accept a text read the same bytes in it.
LEMMA DecodeAgrees ==
    ASSUME NEW text, NEW e \in Encodings, NEW f \in Encodings,
           Accepts(e, text), Accepts(f, text)
    PROVE  Decode(e, text) = Decode(f, text)
<1> DEFINE s == Strip(text)
           n == DigitCount(s)
<1>1. \A i \in 1..n : InAlphabet(e, s[i]) /\ InAlphabet(f, s[i])
    BY DEF Accepts
<1>2. \A i \in 1..n : Value(e, s[i]) = Value(f, s[i])
    BY <1>1, ValueAgrees
<1> HIDE DEF s, n
<1>3. [i \in 1..n |-> Value(e, s[i])] = [i \in 1..n |-> Value(f, s[i])]
    BY <1>2
<1> QED BY <1>3, Zenon DEF Decode, s, n

LEMMA EncodingsListed == \A i \in DOMAIN ocspGetEncodings : ocspGetEncodings[i] \in Encodings
BY DEF ocspGetEncodings, Encodings

\* The first encoding that accepts is one that accepts.
LEMMA FirstAccepts ==
    ASSUME NEW text, Accepting(text) # {}
    PROVE  \E i \in Accepting(text) :
                decodeOCSPGetRequest(text) = Decode(ocspGetEncodings[i], text)
<1>1. Accepting(text) \subseteq 1..4
    BY DEF Accepting, ocspGetEncodings
<1>2. \E i \in Accepting(text) : \A j \in Accepting(text) : i <= j
    <2>1. CASE 1 \in Accepting(text)
        BY <1>1, <2>1
    <2>2. CASE 1 \notin Accepting(text) /\ 2 \in Accepting(text)
        BY <1>1, <2>2
    <2>3. CASE 1 \notin Accepting(text) /\ 2 \notin Accepting(text) /\ 3 \in Accepting(text)
        BY <1>1, <2>3
    <2>4. CASE Accepting(text) \subseteq {4}
        BY <2>4
    <2> QED BY <1>1, <2>1, <2>2, <2>3, <2>4
<1> DEFINE first == CHOOSE i \in Accepting(text) : \A j \in Accepting(text) : i <= j
<1>3. first \in Accepting(text)
    BY <1>2
<1>4. decodeOCSPGetRequest(text) = Decode(ocspGetEncodings[first], text)
    BY DEF decodeOCSPGetRequest
<1> QED BY <1>3, <1>4, Zenon

\* Whatever path segment is decoded, each encoding that accepts it reads in it
\* the bytes that decodeOCSPGetRequest returns.
THEOREM DecodingUnambiguous ==
    \A text : \A i \in Accepting(text) :
        Decode(ocspGetEncodings[i], text) = decodeOCSPGetRequest(text)
<1> SUFFICES ASSUME NEW text, NEW i \in Accepting(text)
             PROVE  Decode(ocspGetEncodings[i], text) = decodeOCSPGetRequest(text)
    OBVIOUS
<1>1. PICK j \in Accepting(text) :
            decodeOCSPGetRequest(text) = Decode(ocspGetEncodings[j], text)
    BY FirstAccepts
<1>2. /\ ocspGetEncodings[i] \in Encodings /\ Accepts(ocspGetEncodings[i], text)
      /\ ocspGetEncodings[j] \in Encodings /\ Accepts(ocspGetEncodings[j], text)
    BY EncodingsListed DEF Accepting
<1> QED BY <1>1, <1>2, DecodeAgrees

\* What Handle is given for a GET request is what was decoded.
HandsOnDecoded ==
    pc = "handle" /\ request.method = "get" => der = decodeOCSPGetRequest(request.text)

\* Handle is given the bytes that every accepting encoding reads in the path.
THEOREM HandleUnambiguous == Spec => []Unambiguous
<1>1. Init => HandsOnDecoded
    BY DEF Init, HandsOnDecoded
<1>2. HandsOnDecoded /\ [Next]_vars => HandsOnDecoded'
    <2> SUFFICES ASSUME HandsOnDecoded, [Next]_vars PROVE HandsOnDecoded'
        OBVIOUS
    <2>1. CASE ReadBody
        BY <2>1 DEF ReadBody, Reading, HandsOnDecoded
    <2>2. CASE DecodeGet
        BY <2>2 DEF DecodeGet, Reading, Give, Reply, HandsOnDecoded
    <2>3. CASE RejectMethod
        BY <2>3 DEF RejectMethod, Reply, HandsOnDecoded
    <2>4. CASE Handle
        BY <2>4 DEF Handle, Reply, HandsOnDecoded
    <2>5. CASE UNCHANGED vars
        BY <2>5 DEF vars, HandsOnDecoded
    <2> QED BY <2>1, <2>2, <2>3, <2>4, <2>5 DEF Next
<1>3. HandsOnDecoded => Unambiguous
    BY DecodingUnambiguous DEF HandsOnDecoded, Unambiguous
<1> QED BY <1>1, <1>2, <1>3, PTL DEF Spec

-----------------------------------------------------------------------------
(* base64 there and back. *)

DerBytes == 0..255

\* What the four digits of three bytes a, b, c are made of.
LEMMA HighDigits ==
    ASSUME NEW a \in DerBytes, NEW b \in DerBytes
    PROVE  /\ ((a * 256 + b) \div 1024) % 64 = a \div 4
           /\ ((a * 256 + b) \div 16) % 64 = 16 * (a % 4) + b \div 16
           /\ ((a * 256 + b) \div 64) % 64 = 4 * (a % 16) + b \div 64
           /\ ((a * 256 + b) \div 256) % 64 = a % 64
<1> USE DEF DerBytes
<1>1. ((a * 256 + b) \div 1024) % 64 = a \div 4
  <2>1. (a * 256 + b) \div 1024 = a \div 4
    OBVIOUS
  <2>2. a \div 4 \in 0..63
    OBVIOUS
  <2> QED BY <2>1, <2>2
<1>2. ((a * 256 + b) \div 16) % 64 = 16 * (a % 4) + b \div 16
  <2>1. (a * 256 + b) \div 16 = 64 * (a \div 4) + (16 * (a % 4) + b \div 16)
    OBVIOUS
  <2>2. 16 * (a % 4) + b \div 16 \in 0..63 /\ a \div 4 \in 0..63
    OBVIOUS
  <2> QED BY <2>1, <2>2
<1>3. ((a * 256 + b) \div 64) % 64 = 4 * (a % 16) + b \div 64
  <2>1. (a * 256 + b) \div 64 = 64 * (a \div 16) + (4 * (a % 16) + b \div 64)
    OBVIOUS
  <2>2. 4 * (a % 16) + b \div 64 \in 0..63 /\ a \div 16 \in 0..15
    OBVIOUS
  <2> QED BY <2>1, <2>2
<1>4. ((a * 256 + b) \div 256) % 64 = a % 64
  <2>1. (a * 256 + b) \div 256 = a
    OBVIOUS
  <2> QED BY <2>1
<1> QED BY <1>1, <1>2, <1>3, <1>4

LEMMA JoinDigits ==
    ASSUME NEW a \in DerBytes, NEW b \in DerBytes, NEW c \in DerBytes
    PROVE  /\ (((a \div 4) * 64 + (16 * (a % 4) + b \div 16)) \div 16) % 256 = a
           /\ (((16 * (a % 4) + b \div 16) * 64 + (4 * (b % 16) + c \div 64)) \div 4) % 256 = b
           /\ (((4 * (b % 16) + c \div 64) * 64 + (c % 64)) \div 1) % 256 = c
<1> USE DEF DerBytes
<1>1. (((a \div 4) * 64 + (16 * (a % 4) + b \div 16)) \div 16) % 256 = a
  <2>1. ((a \div 4) * 64 + (16 * (a % 4) + b \div 16)) \div 16 = a
    OBVIOUS
  <2> QED BY <2>1
<1>2. (((16 * (a % 4) + b \div 16) * 64 + (4 * (b % 16) + c \div 64)) \div 4) % 256 = b
  <2>1. ((16 * (a % 4) + b \div 16) * 64 + (4 * (b % 16) + c \div 64)) \div 4 = 256 * (a % 4) + b
    OBVIOUS
  <2>2. a % 4 \in 0..3
    OBVIOUS
  <2> QED BY <2>1, <2>2
<1>3. (((4 * (b % 16) + c \div 64) * 64 + (c % 64)) \div 1) % 256 = c
  <2>1. (4 * (b % 16) + c \div 64) * 64 + (c % 64) = 256 * (b % 16) + c
    OBVIOUS
  <2>2. b % 16 \in 0..15
    OBVIOUS
  <2>3. (256 * (b % 16) + c) \div 1 = 256 * (b % 16) + c
    BY <2>2
  <2>4. (256 * (b % 16) + c) % 256 = c
    BY <2>2
  <2> QED BY <2>1, <2>3, <2>4
<1> QED BY <1>1, <1>2, <1>3

LEMMA PowersOfTwo == 2^0 = 1 /\ 2^2 = 4 /\ 2^4 = 16 /\ 2^6 = 64 /\ 2^8 = 256 /\ 2^10 = 1024
OBVIOUS

LEMMA ByteAtType == ASSUME NEW d \in Seq(DerBytes), NEW i \in Nat \ {0} PROVE ByteAt(d, i) \in DerBytes
<1>1. 0 \in DerBytes
  BY DEF DerBytes
<1>2. i <= Len(d) => d[i] \in DerBytes
  OBVIOUS
<1> QED BY <1>1, <1>2 DEF ByteAt

LEMMA ThreeCases == ASSUME NEW i \in Nat \ {0}
  PROVE \E q \in Nat : i = 3 * q + 1 \/ i = 3 * q + 2 \/ i = 3 * q + 3
<1> DEFINE q == (i - 1) \div 3
<1>1. q \in Nat /\ (i = 3 * q + 1 \/ i = 3 * q + 2 \/ i = 3 * q + 3)
  OBVIOUS
<1> QED BY <1>1

LEMMA DigitsOfThree ==
    ASSUME NEW d \in Seq(DerBytes), NEW q \in Nat
    PROVE  LET a == ByteAt(d, 3 * q + 1)
               b == ByteAt(d, 3 * q + 2)
               c == ByteAt(d, 3 * q + 3)
           IN  /\ Digit(d, 4 * q + 1) = a \div 4
                    /\ Digit(d, 4 * q + 2) = 16 * (a % 4) + b \div 16
                    /\ Digit(d, 4 * q + 3) = 4 * (b % 16) + c \div 64
                    /\ Digit(d, 4 * q + 4) = c % 64
<1> DEFINE at(i) == ByteAt(d, i)
<1>1. Digit(d, 4 * q + 1) = ((at(3 * q + 1) * 256 + at(3 * q + 2)) \div 1024) % 64
    <2> DEFINE j == 4 * q + 1
               i == 3 * q + 1
    <2>1. j \in Nat /\ i \in Nat /\ (6 * (j - 1)) \div 8 + 1 = i /\ 10 - ((6 * (j - 1)) % 8) = 10
        OBVIOUS
    <2>2. i + 1 = 3 * q + 2
        OBVIOUS
    <2> HIDE DEF i, j
    <2>3. 2^(10 - ((6 * (j - 1)) % 8)) = 1024
        <3> DEFINE s == 10 - ((6 * (j - 1)) % 8)
        <3>1. s = 10
            BY <2>1
        <3> HIDE DEF s
        <3>2. 2^s = 1024
            BY <3>1, PowersOfTwo
        <3> QED BY <3>2 DEF s
    <2>4. Digit(d, j) = ((ByteAt(d, i) * 256 + ByteAt(d, i + 1)) \div 1024) % 64
        BY <2>1, <2>3 DEF Digit
    <2> QED BY <2>2, <2>4 DEF i, j
<1>2. Digit(d, 4 * q + 2) = ((at(3 * q + 1) * 256 + at(3 * q + 2)) \div 16) % 64
    <2> DEFINE j == 4 * q + 2
               i == 3 * q + 1
    <2>1. j \in Nat /\ i \in Nat /\ (6 * (j - 1)) \div 8 + 1 = i /\ 10 - ((6 * (j - 1)) % 8) = 4
        OBVIOUS
    <2>2. i + 1 = 3 * q + 2
        OBVIOUS
    <2> HIDE DEF i, j
    <2>3. 2^(10 - ((6 * (j - 1)) % 8)) = 16
        <3> DEFINE s == 10 - ((6 * (j - 1)) % 8)
        <3>1. s = 4
            BY <2>1
        <3> HIDE DEF s
        <3>2. 2^s = 16
            BY <3>1, PowersOfTwo
        <3> QED BY <3>2 DEF s
    <2>4. Digit(d, j) = ((ByteAt(d, i) * 256 + ByteAt(d, i + 1)) \div 16) % 64
        BY <2>1, <2>3 DEF Digit
    <2> QED BY <2>2, <2>4 DEF i, j
<1>3. Digit(d, 4 * q + 3) = ((at(3 * q + 2) * 256 + at(3 * q + 3)) \div 64) % 64
    <2> DEFINE j == 4 * q + 3
               i == 3 * q + 2
    <2>1. j \in Nat /\ i \in Nat /\ (6 * (j - 1)) \div 8 + 1 = i /\ 10 - ((6 * (j - 1)) % 8) = 6
        OBVIOUS
    <2>2. i + 1 = 3 * q + 3
        OBVIOUS
    <2> HIDE DEF i, j
    <2>3. 2^(10 - ((6 * (j - 1)) % 8)) = 64
        <3> DEFINE s == 10 - ((6 * (j - 1)) % 8)
        <3>1. s = 6
            BY <2>1
        <3> HIDE DEF s
        <3>2. 2^s = 64
            BY <3>1, PowersOfTwo
        <3> QED BY <3>2 DEF s
    <2>4. Digit(d, j) = ((ByteAt(d, i) * 256 + ByteAt(d, i + 1)) \div 64) % 64
        BY <2>1, <2>3 DEF Digit
    <2> QED BY <2>2, <2>4 DEF i, j
<1>4. Digit(d, 4 * q + 4) = ((at(3 * q + 3) * 256 + at(3 * q + 4)) \div 256) % 64
    <2> DEFINE j == 4 * q + 4
               i == 3 * q + 3
    <2>1. j \in Nat /\ i \in Nat /\ (6 * (j - 1)) \div 8 + 1 = i /\ 10 - ((6 * (j - 1)) % 8) = 8
        OBVIOUS
    <2>2. i + 1 = 3 * q + 4
        OBVIOUS
    <2> HIDE DEF i, j
    <2>3. 2^(10 - ((6 * (j - 1)) % 8)) = 256
        <3> DEFINE s == 10 - ((6 * (j - 1)) % 8)
        <3>1. s = 8
            BY <2>1
        <3> HIDE DEF s
        <3>2. 2^s = 256
            BY <3>1, PowersOfTwo
        <3> QED BY <3>2 DEF s
    <2>4. Digit(d, j) = ((ByteAt(d, i) * 256 + ByteAt(d, i + 1)) \div 256) % 64
        BY <2>1, <2>3 DEF Digit
    <2> QED BY <2>2, <2>4 DEF i, j
<1>5. \A i \in {3 * q + 1, 3 * q + 2, 3 * q + 3, 3 * q + 4} : at(i) \in DerBytes
    BY ByteAtType
<1> HIDE DEF at
<1>6. /\ Digit(d, 4 * q + 1) = at(3 * q + 1) \div 4
      /\ Digit(d, 4 * q + 2) = 16 * (at(3 * q + 1) % 4) + at(3 * q + 2) \div 16
      /\ Digit(d, 4 * q + 3) = 4 * (at(3 * q + 2) % 16) + at(3 * q + 3) \div 64
      /\ Digit(d, 4 * q + 4) = at(3 * q + 3) % 64
    BY <1>1, <1>2, <1>3, <1>4, <1>5, HighDigits
<1> QED BY <1>6 DEF at

LEMMA ByteBack ==
    ASSUME NEW d \in Seq(DerBytes), NEW v, NEW i \in Nat \ {0}, NEW n \in Nat,
           8 * i <= 6 * n, \A j \in 1..n : v[j] = Digit(d, j)
    PROVE  Byte(v, i) = ByteAt(d, i)
<1>1. PICK q \in Nat : i = 3 * q + 1 \/ i = 3 * q + 2 \/ i = 3 * q + 3
    BY ThreeCases, Zenon
<1> DEFINE a == ByteAt(d, 3 * q + 1)
           b == ByteAt(d, 3 * q + 2)
           c == ByteAt(d, 3 * q + 3)
<1>2. a \in DerBytes /\ b \in DerBytes /\ c \in DerBytes
    BY ByteAtType
<1>3. /\ Digit(d, 4 * q + 1) = a \div 4
      /\ Digit(d, 4 * q + 2) = 16 * (a % 4) + b \div 16
      /\ Digit(d, 4 * q + 3) = 4 * (b % 16) + c \div 64
      /\ Digit(d, 4 * q + 4) = c % 64
    BY DigitsOfThree
<1>4. CASE i = 3 * q + 1
    <2>1. /\ 4 * q + 1 \in Nat /\ (8 * (i - 1)) \div 6 + 1 = 4 * q + 1
          /\ 4 - ((8 * (i - 1)) % 6) = 4 /\ (4 * q + 1) + 1 = 4 * q + 2
        BY <1>4
    <2>2. v[4 * q + 1] = Digit(d, 4 * q + 1) /\ v[4 * q + 2] = Digit(d, 4 * q + 2)
        BY <1>4
    <2>3. Byte(v, i) = ((v[4 * q + 1] * 64 + v[4 * q + 2]) \div 16) % 256
        <3> DEFINE k == 4 * q + 1
                   e == 4 - ((8 * (i - 1)) % 6)
        <3>1. e = 4 /\ (8 * (i - 1)) \div 6 + 1 = k
            BY <2>1, Zenon
        <3> HIDE DEF k, e
        <3>2. 2^e = 16
            BY <3>1, PowersOfTwo
        <3>3. Byte(v, i) = ((v[k] * 64 + v[k + 1]) \div 16) % 256
            BY <3>1, <3>2 DEF Byte, e
        <3> QED BY <2>1, <3>3 DEF k
    <2> HIDE DEF a, b, c
    <2>4. Byte(v, i) = a
        BY <1>2, <1>3, <2>1, <2>2, <2>3, JoinDigits
    <2> QED BY <1>4, <2>4 DEF a
<1>5. CASE i = 3 * q + 2
    <2>1. /\ 4 * q + 2 \in Nat /\ (8 * (i - 1)) \div 6 + 1 = 4 * q + 2
          /\ 4 - ((8 * (i - 1)) % 6) = 2 /\ (4 * q + 2) + 1 = 4 * q + 3
        BY <1>5
    <2>2. v[4 * q + 2] = Digit(d, 4 * q + 2) /\ v[4 * q + 3] = Digit(d, 4 * q + 3)
        BY <1>5
    <2>3. Byte(v, i) = ((v[4 * q + 2] * 64 + v[4 * q + 3]) \div 4) % 256
        <3> DEFINE k == 4 * q + 2
                   e == 4 - ((8 * (i - 1)) % 6)
        <3>1. e = 2 /\ (8 * (i - 1)) \div 6 + 1 = k
            BY <2>1, Zenon
        <3> HIDE DEF k, e
        <3>2. 2^e = 4
            BY <3>1, PowersOfTwo
        <3>3. Byte(v, i) = ((v[k] * 64 + v[k + 1]) \div 4) % 256
            BY <3>1, <3>2 DEF Byte, e
        <3> QED BY <2>1, <3>3 DEF k
    <2> HIDE DEF a, b, c
    <2>4. Byte(v, i) = b
        BY <1>2, <1>3, <2>1, <2>2, <2>3, JoinDigits
    <2> QED BY <1>5, <2>4 DEF b
<1>6. CASE i = 3 * q + 3
    <2>1. /\ 4 * q + 3 \in Nat /\ (8 * (i - 1)) \div 6 + 1 = 4 * q + 3
          /\ 4 - ((8 * (i - 1)) % 6) = 0 /\ (4 * q + 3) + 1 = 4 * q + 4
        BY <1>6
    <2>2. v[4 * q + 3] = Digit(d, 4 * q + 3) /\ v[4 * q + 4] = Digit(d, 4 * q + 4)
        BY <1>6
    <2>3. Byte(v, i) = ((v[4 * q + 3] * 64 + v[4 * q + 4]) \div 1) % 256
        <3> DEFINE k == 4 * q + 3
                   e == 4 - ((8 * (i - 1)) % 6)
        <3>1. e = 0 /\ (8 * (i - 1)) \div 6 + 1 = k
            BY <2>1, Zenon
        <3> HIDE DEF k, e
        <3>2. 2^e = 1
            BY <3>1, PowersOfTwo
        <3>3. Byte(v, i) = ((v[k] * 64 + v[k + 1]) \div 1) % 256
            BY <3>1, <3>2 DEF Byte, e
        <3> QED BY <2>1, <3>3 DEF k
    <2> HIDE DEF a, b, c
    <2>4. Byte(v, i) = c
        BY <1>2, <1>3, <2>1, <2>2, <2>3, JoinDigits
    <2> QED BY <1>6, <2>4 DEF c
<1> QED BY <1>1, <1>4, <1>5, <1>6
\* Every digit has six bits.
LEMMA DigitType ==
    ASSUME NEW d \in Seq(DerBytes), NEW j \in Nat \ {0}
    PROVE  Digit(d, j) \in 0..63
<1> DEFINE q == (j - 1) \div 4
           a == ByteAt(d, 3 * q + 1)
           b == ByteAt(d, 3 * q + 2)
           c == ByteAt(d, 3 * q + 3)
<1>1. q \in Nat /\ j \in {4 * q + 1, 4 * q + 2, 4 * q + 3, 4 * q + 4}
    OBVIOUS
<1> HIDE DEF q
<1>2. a \in DerBytes /\ b \in DerBytes /\ c \in DerBytes
    BY <1>1, ByteAtType
<1>3. /\ Digit(d, 4 * q + 1) = a \div 4
      /\ Digit(d, 4 * q + 2) = 16 * (a % 4) + b \div 16
      /\ Digit(d, 4 * q + 3) = 4 * (b % 16) + c \div 64
      /\ Digit(d, 4 * q + 4) = c % 64
    BY <1>1, DigitsOfThree
<1> HIDE DEF a, b, c
<1>4. a \div 4 \in 0..63 /\ 16 * (a % 4) + b \div 16 \in 0..63 /\ 4 * (b % 16) + c \div 64 \in 0..63 /\ c % 64 \in 0..63
    BY <1>2 DEF DerBytes
<1> QED BY <1>1, <1>3, <1>4, Zenon

\* The character of a digit is in the alphabet, is neither padding nor a line
\* break, and has the digit as its value.
LEMMA CharBack ==
    ASSUME NEW e \in Encodings, NEW v \in 0..63
    PROVE  /\ InAlphabet(e, Char(e, v))
           /\ Char(e, v) # Equals /\ Char(e, v) # Newline
           /\ Value(e, Char(e, v)) = v
BY Alphabets DEF InAlphabet, Char, Value, Plus, Slash, Minus, Underscore, Equals, Newline

LEMMA IntervalSize == \A n \in Nat : Cardinality(1..n) = n
BY FS_Interval

\* A text without line breaks is left as it is.
LEMMA StripNone ==
    ASSUME NEW m \in Nat, NEW f, f = [i \in 1..m |-> f[i]], \A i \in 1..m : f[i] # Newline
    PROVE  Strip(f) = f
<1> DEFINE kept == {i \in DOMAIN f : f[i] # Newline}
           Nth(k) == CHOOSE i \in kept : Cardinality({j \in kept : j <= i}) = k
<1>1. kept = 1..m
    OBVIOUS
<1> HIDE DEF kept
<1>2. Cardinality(kept) = m
    BY <1>1, IntervalSize
<1>3. \A i \in 1..m : Cardinality({j \in kept : j <= i}) = i
    <2> TAKE i \in 1..m
    <2>1. {j \in kept : j <= i} = 1..i
        BY <1>1
    <2>2. Cardinality(1..i) = i
        BY IntervalSize
    <2> QED BY <2>1, <2>2, Zenon
<1>4. \A k \in 1..m : Nth(k) = k
    BY <1>1, <1>3
<1> HIDE DEF Nth
<1>5. [k \in 1..m |-> f[Nth(k)]] = [k \in 1..m |-> f[k]]
    BY <1>4
<1>6. Strip(f) = [k \in 1..Cardinality(kept) |-> f[Nth(k)]]
    BY DEF Strip, kept, Nth
<1> QED BY <1>2, <1>5, <1>6

\* How a DER request is written out.
LEMMA EncodeShape ==
    ASSUME NEW e \in Encodings, NEW d \in Seq(DerBytes)
    PROVE  LET n   == Digits(d)
               pad == IF e.padded THEN Padding(n) ELSE 0
               w   == Encode(e, d)
           IN  /\ n \in Nat /\ pad \in 0..3
               /\ w = [j \in 1..n + pad |-> w[j]] /\ Len(w) = n + pad
               /\ \A j \in 1..n : /\ InAlphabet(e, w[j]) /\ Value(e, w[j]) = Digit(d, j)
                                  /\ w[j] # Equals /\ w[j] # Newline
               /\ \A j \in n + 1..n + pad : w[j] = Equals
<1> DEFINE n   == Digits(d)
           pad == IF e.padded THEN Padding(n) ELSE 0
           w   == Encode(e, d)
<1>1. n \in Nat
    <2>1. Len(d) \in Nat
        OBVIOUS
    <2> QED BY <2>1 DEF Digits
<1> HIDE DEF n
<1>2. pad \in 0..3
    BY <1>1 DEF Padding
<1> HIDE DEF pad
<1>3. w = [j \in 1..n + pad |-> IF j <= n THEN Char(e, Digit(d, j)) ELSE Equals]
    BY DEF Encode, n, pad
<1> HIDE DEF w
<1>4. w = [j \in 1..n + pad |-> w[j]] /\ Len(w) = n + pad
    <2>1. n + pad \in Nat
        BY <1>1, <1>2
    <2>2. w = [j \in 1..n + pad |-> w[j]] /\ DOMAIN w = 1..n + pad
        BY <1>3
    <2>3. w \in Seq({w[j] : j \in 1..n + pad})
        BY <2>1, <2>2
    <2> QED BY <2>1, <2>2, <2>3
<1>5. ASSUME NEW j \in 1..n
      PROVE  /\ InAlphabet(e, w[j]) /\ Value(e, w[j]) = Digit(d, j)
             /\ w[j] # Equals /\ w[j] # Newline
    <2>1. w[j] = Char(e, Digit(d, j))
        BY <1>1, <1>2, <1>3
    <2>2. Digit(d, j) \in 0..63
        <3>1. j \in Nat \ {0}
            BY <1>1
        <3> QED BY <3>1, DigitType, Zenon
    <2> QED BY <2>1, <2>2, CharBack, Zenon
<1>6. \A j \in n + 1..n + pad : w[j] = Equals
    BY <1>1, <1>2, <1>3
<1> QED BY <1>1, <1>2, <1>4, <1>5, <1>6, Zenon DEF n, pad, w

\* What the decoder sees of it: nothing is skipped, and the digits are counted.
LEMMA EncodeCount ==
    ASSUME NEW e \in Encodings, NEW d \in Seq(DerBytes)
    PROVE  Strip(Encode(e, d)) = Encode(e, d) /\ DigitCount(Encode(e, d)) = Digits(d)
<1> DEFINE n   == Digits(d)
           pad == IF e.padded THEN Padding(n) ELSE 0
           w   == Encode(e, d)
<1>1. /\ n \in Nat /\ pad \in 0..3
      /\ w = [j \in 1..n + pad |-> w[j]]
      /\ \A j \in 1..n : w[j] # Equals /\ w[j] # Newline
      /\ \A j \in n + 1..n + pad : w[j] = Equals
    BY EncodeShape
<1> HIDE DEF n, pad, w
<1>2. \A j \in 1..n + pad : j \in 1..n \/ j \in n + 1..n + pad
    BY <1>1
<1>3. Strip(w) = w
    <2>1. \A j \in 1..n + pad : w[j] # Newline
        <3>1. Equals # Newline
            BY DEF Equals, Newline
        <3> TAKE j \in 1..n + pad
        <3>2. CASE j \in 1..n
            BY <1>1, <3>2, Zenon
        <3>3. CASE j \in n + 1..n + pad
            BY <1>1, <3>1, <3>3, Zenon
        <3> QED BY <1>2, <3>2, <3>3
    <2>2. n + pad \in Nat
        BY <1>1
    <2> DEFINE m == n + pad
    <2> HIDE DEF m
    <2>3. m \in Nat /\ w = [j \in 1..m |-> w[j]] /\ \A j \in 1..m : w[j] # Newline
        BY <1>1, <2>1, <2>2 DEF m
    <2> QED BY <2>3, StripNone
<1>4. {i \in DOMAIN w : w[i] # Equals} = 1..n
    <2>1. DOMAIN w = 1..n + pad
        BY <1>1
    <2>2. \A i \in 1..n : i \in 1..n + pad
        BY <1>1
    <2>3. \A i \in 1..n + pad : w[i] # Equals => i \in 1..n
        BY <1>1, <1>2, Zenon
    <2> QED BY <1>1, <2>1, <2>2, <2>3, Zenon
<1>5. DigitCount(w) = n
    BY <1>1, <1>4, IntervalSize, Zenon DEF DigitCount
<1> QED BY <1>3, <1>5, Zenon DEF w, n

\* A DER request is taken back by the encoding that it was written in.
LEMMA AcceptsEncode ==
    ASSUME NEW e \in Encodings, NEW d \in Seq(DerBytes)
    PROVE  Accepts(e, Encode(e, d))
<1> DEFINE n   == Digits(d)
           pad == IF e.padded THEN Padding(n) ELSE 0
           w   == Encode(e, d)
<1>1. /\ n \in Nat /\ pad \in 0..3
      /\ Len(w) = n + pad
      /\ \A j \in 1..n : InAlphabet(e, w[j])
    BY EncodeShape
<1>2. Strip(w) = w /\ DigitCount(w) = n
    BY EncodeCount
<1>3. n % 4 # 1
    <2>1. Len(d) \in Nat
        OBVIOUS
    <2> QED BY <2>1 DEF Digits
<1> HIDE DEF n, w, pad
<1>4. Len(w) - n = pad
    BY <1>1
<1> QED BY <1>1, <1>2, <1>3, <1>4 DEF Accepts, w, pad

\* And read back as it was.
LEMMA RoundTrip ==
    ASSUME NEW e \in Encodings, NEW d \in Seq(DerBytes)
    PROVE  Decode(e, Encode(e, d)) = d
<1> DEFINE n == Digits(d)
           w == Encode(e, d)
           v == [i \in 1..n |-> Value(e, w[i])]
<1>1. n \in Nat /\ \A j \in 1..n : Value(e, w[j]) = Digit(d, j)
    BY EncodeShape
<1>2. (6 * n) \div 8 = Len(d) /\ 8 * Len(d) <= 6 * n
    <2>1. Len(d) \in Nat
        OBVIOUS
    <2> QED BY <2>1 DEF Digits
<1>3. Decode(e, w) = Bytes(v)
    BY EncodeCount, Zenon DEF Decode
<1> HIDE DEF w, n
<1>4. Len(v) = n
    BY <1>1
<1>5. \A j \in 1..n : v[j] = Digit(d, j)
    BY <1>1
<1> HIDE DEF v
<1>6. Bytes(v) = [i \in 1..Len(d) |-> Byte(v, i)]
    BY <1>2, <1>4 DEF Bytes
<1>7. ASSUME NEW i \in 1..Len(d)
      PROVE  Byte(v, i) = d[i]
    <2>1. i \in Nat \ {0} /\ 8 * i <= 6 * n
        BY <1>1, <1>2
    <2>2. Byte(v, i) = ByteAt(d, i)
        BY <1>1, <1>5, <2>1, ByteBack, Zenon
    <2> QED BY <2>2 DEF ByteAt
<1>8. [i \in 1..Len(d) |-> Byte(v, i)] = [i \in 1..Len(d) |-> d[i]]
    BY <1>7
<1> QED BY <1>3, <1>6, <1>8 DEF w

\* The limit on the path leaves room for the longest request in each encoding.
LEMMA EncodeFits ==
    ASSUME NEW e \in Encodings, NEW d \in Seq(DerBytes)
    PROVE  /\ Len(d) <= MaxRequest => Len(Encode(e, d)) <= maxOCSPGetRequestSize
           /\ d # <<>> => Encode(e, d) # <<>>
<1> DEFINE n   == Digits(d)
           pad == IF e.padded THEN Padding(n) ELSE 0
           w   == Encode(e, d)
           k   == Len(d)
<1>1. n \in Nat /\ pad \in 0..3 /\ Len(w) = n + pad
    BY EncodeShape
<1>2. k \in Nat /\ n = (8 * k + 5) \div 6 /\ MaxRequest \in Nat
    BY SizeAssumption DEF Digits
<1>3. pad <= (4 - (n % 4)) % 4
    BY <1>1 DEF Padding
<1>4. d # <<>> => k > 0
    OBVIOUS
<1> HIDE DEF n, pad, w, k
<1> DEFINE q == (k + 2) \div 3
<1>5. q \in Nat /\ k \in {3 * q, 3 * q - 1, 3 * q - 2}
    BY <1>2
<1> HIDE DEF q
<1>6. n + pad <= 4 * q
    <2>1. CASE k = 3 * q
        BY <1>1, <1>2, <1>3, <1>5, <2>1
    <2>2. CASE k = 3 * q - 1
        BY <1>1, <1>2, <1>3, <1>5, <2>2
    <2>3. CASE k = 3 * q - 2
        BY <1>1, <1>2, <1>3, <1>5, <2>3
    <2> QED BY <1>5, <2>1, <2>2, <2>3
<1>7. k <= MaxRequest => 4 * q <= maxOCSPGetRequestSize
    BY <1>2 DEF maxOCSPGetRequestSize, q
<1>8. maxOCSPGetRequestSize \in Int
    BY <1>2 DEF maxOCSPGetRequestSize
<1>9. k <= MaxRequest => Len(w) <= maxOCSPGetRequestSize
    BY <1>1, <1>5, <1>6, <1>7, <1>8
<1>10. d # <<>> => w # <<>>
    BY <1>1, <1>2, <1>4
<1> QED BY <1>9, <1>10 DEF w, k

-----------------------------------------------------------------------------
(* Delivery: what a conforming client sends is what Handle is given. *)

LEMMA EncodingIndex == \A e \in Encodings : \E i \in DOMAIN ocspGetEncodings : ocspGetEncodings[i] = e
<1>1. DOMAIN ocspGetEncodings = 1..4
    BY DEF ocspGetEncodings
<1>2. /\ ocspGetEncodings[1] = Std /\ ocspGetEncodings[2] = RawStd
      /\ ocspGetEncodings[3] = URL /\ ocspGetEncodings[4] = RawURL
    BY DEF ocspGetEncodings
<1> QED BY <1>1, <1>2 DEF Encodings

\* Whichever encoding a client writes a request in, decodeOCSPGetRequest reads
\* the request back; up to the limit on requests, it accepts it.
THEOREM GetMeans ==
    ASSUME NEW e \in Encodings, NEW d \in Seq(DerBytes), d # <<>>
    PROVE  /\ decodeOCSPGetRequest(Encode(e, d)) = d
           /\ Len(d) <= MaxRequest => Decodable(Encode(e, d))
<1>1. PICK i \in DOMAIN ocspGetEncodings : ocspGetEncodings[i] = e
    BY EncodingIndex
<1>2. i \in Accepting(Encode(e, d))
    BY <1>1, AcceptsEncode DEF Accepting
<1>3. decodeOCSPGetRequest(Encode(e, d)) = d
    BY <1>1, <1>2, DecodingUnambiguous, RoundTrip
<1> QED BY <1>2, <1>3, EncodeFits DEF Decodable

\* What is read of a body: all of it, or more than the limit.
LEMMA BodyRead ==
    ASSUME NEW d \in Seq(DerBytes)
    PROVE  /\ Len(d) <= MaxRequest => LimitReader(d, MaxRequest + 1) = d
           /\ Len(LimitReader(d, MaxRequest + 1)) <= MaxRequest => Len(d) <= MaxRequest
<1>1. MaxRequest \in Nat /\ Len(d) \in Nat
    BY SizeAssumption
<1>2. CASE Len(d) <= MaxRequest + 1
    <2>1. LimitReader(d, MaxRequest + 1) = SubSeq(d, 1, Len(d))
        BY <1>2 DEF LimitReader
    <2>2. SubSeq(d, 1, Len(d)) = d
        OBVIOUS
    <2> QED BY <2>1, <2>2
<1>3. CASE Len(d) > MaxRequest + 1
    <2>1. LimitReader(d, MaxRequest + 1) = SubSeq(d, 1, MaxRequest + 1)
        BY <1>1, <1>3 DEF LimitReader
    <2>2. Len(SubSeq(d, 1, MaxRequest + 1)) = MaxRequest + 1
        BY <1>1, <1>3
    <2> QED BY <1>1, <1>3, <2>1, <2>2
<1> QED BY <1>1, <1>2, <1>3

\* How a conforming client sends its request.
Sent ==
    request.conforming =>
        /\ request.der \in Seq(DerBytes)
        /\ \/ request.method = "post"
           \/ /\ request.method = "get" /\ request.der # <<>>
              /\ \E e \in Encodings : request.text = Encode(e, request.der)

DeliveryInv ==
    /\ Sent
    /\ pc \in {"read", "handle"} => recorded = <<>>
    /\ HandledWhole
    /\ WithinLimitHandled

LEMMA InitDelivery == Init => DeliveryInv
<1> SUFFICES ASSUME Init PROVE DeliveryInv
    OBVIOUS
<1>1. Ders \subseteq Seq(DerBytes)
    BY SizeAssumption DEF DerBytes
<1>2. Sent
    <2>1. CASE \E d \in Ders, c \in BOOLEAN : request = Request("post", <<>>, d, c)
        BY <1>1, <2>1 DEF Request, Sent
    <2>2. CASE \E d \in Ders \ {<<>>}, e \in {Std, RawStd, URL, RawURL} :
                    request = Request("get", Encode(e, d), d, TRUE)
        BY <1>1, <2>2 DEF Request, Sent, Encodings
    <2>3. CASE ~request.conforming
        BY <2>3 DEF Sent
    <2> QED BY <2>1, <2>2, <2>3 DEF Init, Request
<1> QED BY <1>2 DEF Init, DeliveryInv, HandledWhole, WithinLimitHandled

LEMMA NextDelivery == DeliveryInv /\ [Next]_vars => DeliveryInv'
<1> SUFFICES ASSUME DeliveryInv, [Next]_vars PROVE DeliveryInv'
    OBVIOUS
<1> USE DEF DeliveryInv
<1>1. CASE ReadBody
    <2>1. Sent'
        BY <1>1 DEF ReadBody, Sent
    <2>2. (pc' = "done" /\ request.conforming) => Len(request.der) > MaxRequest
        BY <1>1, BodyRead, SizeAssumption DEF ReadBody, BreaksWithin, Give, Reading, Reply, Sent
    <2>3. (pc' = "handle" /\ request.conforming) => der' = request.der
        BY <1>1, BodyRead DEF ReadBody, Give, Reading, Reply, Sent
    <2> QED BY <1>1, <2>1, <2>2, <2>3, SizeAssumption
            DEF ReadBody, Reading, Give, Reply, HandledWhole, WithinLimitHandled, Sent
<1>2. CASE DecodeGet
    <2>1. Sent'
        BY <1>2 DEF DecodeGet, Sent
    <2>2. request.conforming =>
              /\ decodeOCSPGetRequest(request.text) = request.der
              /\ Len(request.der) <= MaxRequest => Decodable(request.text)
        BY <1>2, GetMeans DEF DecodeGet, Reading, Sent
    <2> QED BY <1>2, <2>1, <2>2 DEF DecodeGet, Reading, Give, Reply, HandledWhole, WithinLimitHandled
<1>3. CASE RejectMethod
    BY <1>3 DEF RejectMethod, Reading, Reply, Sent, HandledWhole, WithinLimitHandled
<1>4. CASE Handle
    <2>1. Len(recorded') = 1
        BY <1>4 DEF Handle
    <2> QED BY <1>4, <2>1 DEF Handle, Reply, Sent, HandledWhole, WithinLimitHandled
<1>5. CASE UNCHANGED vars
    BY <1>5 DEF vars, Sent, HandledWhole, WithinLimitHandled
<1> QED BY <1>1, <1>2, <1>3, <1>4, <1>5 DEF Next

\* Handle is given exactly the request that the client meant, for every request
\* and every limit: ReadBody cuts nothing off, and the GET path comes back
\* through base64 as it was, in whichever of the four encodings it was written.
THEOREM AlwaysHandledWhole == Spec => []HandledWhole
<1>1. DeliveryInv => HandledWhole
    BY DEF DeliveryInv
<1> QED BY <1>1, InitDelivery, NextDelivery, PTL DEF Spec

\* Every conforming request up to the limit gets to Handle and is counted once:
\* maxOCSPGetRequestSize has room for the longest of them in each encoding.
THEOREM AlwaysWithinLimitHandled == Spec => []WithinLimitHandled
<1>1. DeliveryInv => WithinLimitHandled
    BY DEF DeliveryInv
<1> QED BY <1>1, InitDelivery, NextDelivery, PTL DEF Spec
=============================================================================
