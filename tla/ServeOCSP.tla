------------------------------ MODULE ServeOCSP ------------------------------
(***************************************************************************)
(* From an HTTP request to the DER that Responder.Handle is given, and     *)
(* back to an HTTP status: ServeOCSP and decodeOCSPGetRequest of           *)
(* internal/server/handler.go, with the base64 decoder they call.          *)
(*                                                                         *)
(* A body and a DER request are sequences of bytes.  A GET path segment,   *)
(* already percent-decoded, is a sequence of characters: 0..61 are the     *)
(* alphanumerics, by their value in base64, then the six below.            *)
(***************************************************************************)
EXTENDS Integers, Sequences, FiniteSets

CONSTANTS MaxRequest,  \* maxOCSPRequestSize: 10240 in the code
          Texts,       \* path segments that any client may send
          Ders         \* DER requests that conforming clients send

Plus == 62
Slash == 63
Minus == 64
Underscore == 65
Equals == 66
Newline == 67

ASSUME SizeAssumption ==
    /\ MaxRequest \in Nat
    /\ Texts \subseteq Seq(0..Newline)
    /\ Ders \subseteq Seq(0..255)

VARIABLES request,     \* the HTTP request
          pc,          \* where the handler is
          der,         \* requestDER
          maxAge,      \* whether Cache-Control is set on the reply
          code,        \* the HTTP status; 0 before there is one
          recorded     \* the status labels RecordRequest was called with

vars == <<request, pc, der, maxAge, code, recorded>>

-----------------------------------------------------------------------------
(* encoding/base64, as the handler uses it. *)

Std == [c62 |-> Plus, c63 |-> Slash, padded |-> TRUE]
RawStd == [c62 |-> Plus, c63 |-> Slash, padded |-> FALSE]
URL == [c62 |-> Minus, c63 |-> Underscore, padded |-> TRUE]
RawURL == [c62 |-> Minus, c63 |-> Underscore, padded |-> FALSE]

InAlphabet(e, c) == c \in 0..61 \cup {e.c62, e.c63}

Value(e, c) == CASE c = e.c62 -> 62 [] c = e.c63 -> 63 [] OTHER -> c

Padding(digits) == (4 - (digits % 4)) % 4

\* The decoder skips line breaks, wherever they are: the other characters, in
\* their order.
Strip(text) ==
    LET kept == {i \in DOMAIN text : text[i] # Newline}
        Nth(k) == CHOOSE i \in kept : Cardinality({j \in kept : j <= i}) = k
    IN  [k \in 1..Cardinality(kept) |-> text[Nth(k)]]

\* How many digits come before the padding.
DigitCount(s) == Cardinality({i \in DOMAIN s : s[i] # Equals})

\* Digits of the alphabet, no single one left over, then the exact padding.
Accepts(e, text) ==
    LET s == Strip(text)
        n == DigitCount(s)
    IN  /\ \A i \in 1..n : InAlphabet(e, s[i])
        /\ n % 4 # 1
        /\ Len(s) - n = IF e.padded THEN Padding(n) ELSE 0

\* Six bits to a digit, eight to a byte: the i-th byte begins in the digit
\* where the bits before it end.
Byte(v, i) ==
    LET bit == 8 * (i - 1)
        k   == bit \div 6 + 1
    IN  ((v[k] * 64 + v[k + 1]) \div 2^(4 - (bit % 6))) % 256

\* Bits left over are dropped.
Bytes(v) == [i \in 1..(6 * Len(v)) \div 8 |-> Byte(v, i)]

Decode(e, text) ==
    LET s == Strip(text)
    IN  Bytes([i \in 1..DigitCount(s) |-> Value(e, s[i])])

\* The reference: the text a client makes of a DER request.  Zeros fill up the
\* last digit.
ByteAt(bytes, i) == IF i <= Len(bytes) THEN bytes[i] ELSE 0

Digit(bytes, j) ==
    LET bit == 6 * (j - 1)
        i   == bit \div 8 + 1
    IN  ((ByteAt(bytes, i) * 256 + ByteAt(bytes, i + 1)) \div 2^(10 - (bit % 8))) % 64

Char(e, v) == CASE v = 62 -> e.c62 [] v = 63 -> e.c63 [] OTHER -> v

Digits(bytes) == (8 * Len(bytes) + 5) \div 6

Encode(e, bytes) ==
    LET n == Digits(bytes)
    IN  [j \in 1..n + (IF e.padded THEN Padding(n) ELSE 0) |->
            IF j <= n THEN Char(e, Digit(bytes, j)) ELSE Equals]

-----------------------------------------------------------------------------
(* decodeOCSPGetRequest *)

\* Mutant: one of them is an encoding with another order of its alphabet.
encodingsReordered == <<Std, RawStd, [URL EXCEPT !.c62 = Underscore, !.c63 = Plus], RawURL>>

ocspGetEncodings == <<Std, RawStd, URL, RawURL>>

\* Mutant: the unpadded length.
rawEncodedLen == (8 * MaxRequest + 5) \div 6

\* base64.StdEncoding.EncodedLen(maxOCSPRequestSize)
maxOCSPGetRequestSize == ((MaxRequest + 2) \div 3) * 4

Accepting(text) == {i \in DOMAIN ocspGetEncodings : Accepts(ocspGetEncodings[i], text)}

Decodable(text) ==
    /\ text # <<>>
    /\ Len(text) <= maxOCSPGetRequestSize
    /\ Accepting(text) # {}

\* The first encoding that takes the text.
decodeOCSPGetRequest(text) ==
    LET first == CHOOSE i \in Accepting(text) : \A j \in Accepting(text) : i <= j
    IN  Decode(ocspGetEncodings[first], text)

-----------------------------------------------------------------------------
(* ServeOCSP *)

\* `der` is what the client means, `conforming` whether the request carries it
\* as the protocol says.  The body of a POST that does not breaks off: `der` is
\* what comes of it.  The routes let HEAD through to the handler too.
Request(method, text, body, conforming) ==
    [method |-> method, text |-> text, der |-> body, conforming |-> conforming]

Init ==
    /\ \/ \E d \in Ders, c \in BOOLEAN : request = Request("post", <<>>, d, c)
       \/ \E d \in Ders \ {<<>>}, e \in {Std, RawStd, URL, RawURL} :
             request = Request("get", Encode(e, d), d, TRUE)
       \/ \E t \in Texts : request = Request("get", t, <<>>, FALSE)
       \/ request = Request("head", <<>>, <<>>, FALSE)
    /\ pc = "read"
    /\ der = <<>>
    /\ maxAge = FALSE
    /\ code = 0
    /\ recorded = <<>>

Reply(c) == pc' = "done" /\ code' = c

Reading(method) == pc = "read" /\ request.method = method

Give(bytes) == pc' = "handle" /\ der' = bytes

LimitReader(s, n) == SubSeq(s, 1, IF Len(s) <= n THEN Len(s) ELSE n)

\* A body that breaks off fails the read, unless the limit was reached before.
\* At the limit itself the last bytes may come with the error or ahead of it.
BreaksWithin(n) == ~request.conforming /\ Len(request.der) <= n

\* Mutant: io.LimitReader(req.Body, maxOCSPRequestSize)
ReadBodyToLimit ==
    /\ Reading("post")
    /\ UNCHANGED <<request, maxAge, recorded>>
    /\ \/ BreaksWithin(MaxRequest) /\ Reply(500) /\ UNCHANGED der
       \/ /\ ~BreaksWithin(MaxRequest - 1)
          /\ Give(LimitReader(request.der, MaxRequest))
          /\ UNCHANGED code

\* One byte more than the limit is read, to tell a body that is too long.
ReadBody ==
    LET body == LimitReader(request.der, MaxRequest + 1)
    IN  /\ Reading("post")
        /\ UNCHANGED <<request, maxAge, recorded>>
        /\ \/ BreaksWithin(MaxRequest + 1) /\ Reply(500) /\ UNCHANGED der
           \/ /\ ~BreaksWithin(MaxRequest) /\ Len(body) > MaxRequest
              /\ Reply(413) /\ UNCHANGED der
           \/ /\ ~BreaksWithin(MaxRequest) /\ Len(body) <= MaxRequest
              /\ Give(body) /\ UNCHANGED code

DecodeGet ==
    /\ Reading("get")
    /\ UNCHANGED <<request, recorded>>
    /\ \/ ~Decodable(request.text) /\ Reply(400) /\ UNCHANGED <<der, maxAge>>
       \/ /\ Decodable(request.text)
          /\ Give(decodeOCSPGetRequest(request.text))
          /\ maxAge' = TRUE
          /\ UNCHANGED code

RejectMethod == Reading("head") /\ Reply(405) /\ UNCHANGED <<request, der, maxAge, recorded>>

\* Handle returns an error, or a response whose status parseOCSPStatus reads.
Handle ==
    /\ pc = "handle"
    /\ \E label \in {"error", "good", "revoked", "unknown"} :
          /\ recorded' = Append(recorded, label)
          /\ Reply(IF label = "error" THEN 400 ELSE 200)
    /\ UNCHANGED <<request, der, maxAge>>

Next == ReadBody \/ DecodeGet \/ RejectMethod \/ Handle

Spec == Init /\ [][Next]_vars

-----------------------------------------------------------------------------
(* Properties. *)

\* Trying the encodings in turn is unambiguous: whichever of them accept a
\* path segment, Handle is given the bytes that each of them reads in it.
Unambiguous ==
    pc = "handle" /\ request.method = "get" =>
        \A i \in Accepting(request.text) : Decode(ocspGetEncodings[i], request.text) = der

\* Handle is given exactly the request that the client meant, by POST and in
\* each of the four encodings of GET: nothing is cut off, at the size limit
\* least of all.
HandledWhole == pc = "handle" /\ request.conforming => der = request.der

\* Every request up to the limit gets to Handle, and is counted once, whatever
\* the method and the encoding: the limit on the path is never the tighter one.
WithinLimitHandled ==
    pc = "done" /\ request.conforming /\ Len(request.der) <= MaxRequest =>
        Len(recorded) = 1
=============================================================================
