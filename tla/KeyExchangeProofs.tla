------------------------- MODULE KeyExchangeProofs --------------------------
(***************************************************************************)
(* Proofs about KeyExchange: the key a client takes is the server's, and   *)
(* no message goes out in the clear without being asked for, for any       *)
(* configurations of the two ends.                                         *)
(***************************************************************************)
EXTENDS KeyExchange, SequenceTheorems, TLAPS

-----------------------------------------------------------------------------
(* Messages                                                                *)

LEMMA MinIs ==
    ASSUME NEW S \in SUBSET Int, NEW m \in S, \A y \in S : m <= y
    PROVE  Min(S) = m
<1>1. Min(S) \in S /\ \A y \in S : Min(S) <= y
  BY DEF Min
<1>2. m <= Min(S) /\ Min(S) <= m
  BY <1>1
<1>3. m \in Int /\ Min(S) \in Int
  BY <1>1
<1> QED
  BY <1>2, <1>3

LEMMA MaxIs ==
    ASSUME NEW S \in SUBSET Int, NEW m \in S, \A y \in S : m >= y
    PROVE  Max(S) = m
<1>1. Max(S) \in S /\ \A y \in S : Max(S) >= y
  BY DEF Max
<1>2. m >= Max(S) /\ Max(S) >= m
  BY <1>1
<1>3. m \in Int /\ Max(S) \in Int
  BY <1>1
<1> QED
  BY <1>2, <1>3

\* The length of an answer with an envelope, as bounds.
LEMMA Long ==
    ASSUME NEW s, Len(s) = 12
    PROVE  Len(s) \in Nat /\ 5 <= Len(s) /\ 12 <= Len(s) /\ \A n \in 0 .. 11 : n <= Len(s)
<1>1. \A l : l = 12 => l \in Nat /\ 5 <= l /\ 12 <= l /\ \A n \in 0 .. 11 : n <= l
  OBVIOUS
<1> QED
  BY <1>1, Zenon

\* The units of the headers of a request or an answer.
IsHead(m, word, x, n) ==
    /\ m[1] = <<word, x>> /\ m[2] = CRLF
    /\ m[3] = <<"Content-Length", n>> /\ m[4] = CRLF /\ m[5] = CRLF

\* Behind the headers, its first five units, a message has its body.
IsMessage(m, word, x, body) ==
    /\ \E U : m \in Seq(U)
    /\ Len(m) = 5 + Len(body)
    /\ IsHead(m, word, x, Len(body))
    /\ \A i \in 1 .. Len(body) : m[5 + i] = body[i]

LEMMA Framed ==
    ASSUME NEW word, NEW x, NEW T, NEW body \in Seq(T)
    PROVE  IsMessage(Headers(<<word, x>>, Len(body)) \o body, word, x, body)
<1> DEFINE U == T \cup {<<word, x>>, CRLF, <<"Content-Length", Len(body)>>}
           head == Headers(<<word, x>>, Len(body))
<1>1. head \in Seq(U) /\ Len(head) = 5
  BY DEF Headers
<1>2. /\ head[1] = <<word, x>> /\ head[2] = CRLF
      /\ head[3] = <<"Content-Length", Len(body)>>
      /\ head[4] = CRLF /\ head[5] = CRLF
  BY DEF Headers
<1>3. body \in Seq(U)
  OBVIOUS
<1> HIDE DEF U, head
<1>4. /\ head \o body \in Seq(U) /\ Len(head \o body) = 5 + Len(body)
      /\ \A i \in 1 .. 5 + Len(body) :
            (head \o body)[i] = IF i <= 5 THEN head[i] ELSE body[i - 5]
  <2>1. /\ head \o body \in Seq(U) /\ Len(head \o body) = Len(head) + Len(body)
        /\ \A i \in 1 .. Len(head) + Len(body) :
              (head \o body)[i] = IF i <= Len(head) THEN head[i] ELSE body[i - Len(head)]
    BY <1>1, <1>3, ConcatProperties, Zenon
  <2> QED
    BY <1>1, <2>1, Zenon
<1>5. Len(body) \in Nat
  OBVIOUS
<1>6. \A i \in 1 .. Len(body) : (head \o body)[5 + i] = body[i]
  BY <1>4, <1>5
<1>7. IsMessage(head \o body, word, x, body)
  <2>1. IsHead(head \o body, word, x, Len(body))
    BY <1>2, <1>4 DEF IsHead
  <2> QED
    BY <1>4, <1>5, <1>6, <2>1 DEF IsMessage
<1> QED
  BY <1>7 DEF head

\* What send_http_post and write_http_response write.
LEMMA FramedBoth ==
    ASSUME NEW x, NEW T, NEW body \in Seq(T)
    PROVE  /\ IsMessage(http_post(x, body), "POST", x, body)
           /\ IsMessage(http_response(x, body), "HTTP/1.1", x, body)
<1>1. \A word : IsMessage(Headers(<<word, x>>, Len(body)) \o body, word, x, body)
  BY Framed
<1> QED
  BY <1>1, Zenon DEF http_post, http_response

\* The headers end with the fifth unit,
LEMMA HeadersEnd ==
    ASSUME NEW m, NEW word, NEW x, NEW n, Len(m) \in Nat, 5 <= Len(m), IsHead(m, word, x, n)
    PROVE  header_end(m) = 5
<1> DEFINE ends == {i \in 2 .. Len(m) : m[i - 1] = CRLF /\ m[i] = CRLF}
<1>1. ends \in SUBSET Int
  OBVIOUS
<1>2. 5 \in ends
  BY DEF IsHead
<1>3. m[1] # CRLF /\ m[3] # CRLF
  BY DEF IsHead, CRLF
<1>4. 2 \notin ends /\ 3 \notin ends /\ 4 \notin ends
  BY <1>3
<1>5. \A y \in ends : 5 <= y
  BY <1>4
<1>6. header_end(m) = Min(ends)
  BY <1>2 DEF header_end
<1> HIDE DEF ends
<1> QED
  BY <1>1, <1>2, <1>5, <1>6, MinIs

\* and a part of them does not end.
LEMMA HeadersCut ==
    ASSUME NEW m, NEW word, NEW x, NEW n, NEW d, Len(d) \in 0 .. 4, IsHead(m, word, x, n),
           \A i \in 1 .. Len(d) : d[i] = m[i]
    PROVE  header_end(d) = 0
<1>1. m[1] # CRLF /\ m[3] # CRLF
  BY DEF IsHead, CRLF
<1>2. \A i \in 2 .. Len(d) : ~(d[i - 1] = CRLF /\ d[i] = CRLF)
  <2> SUFFICES ASSUME NEW i \in 2 .. Len(d) PROVE ~(d[i - 1] = CRLF /\ d[i] = CRLF)
    OBVIOUS
  <2>1. i - 1 \in 1 .. Len(d) /\ i \in 1 .. Len(d) /\ (i = 2 \/ i = 3 \/ i = 4)
    OBVIOUS
  <2> QED
    BY <1>1, <2>1
<1> QED
  BY <1>2 DEF header_end

\* The Content-Length is the one of the third unit.
LEMMA LengthSaid ==
    ASSUME NEW m, NEW word, NEW x, NEW n, Len(m) \in Nat, 5 <= Len(m),
           IsHead(m, word, x, n), word # "Content-Length"
    PROVE  content_length(m) = n
<1>1. header_end(m) = 5
  BY HeadersEnd
<1> DEFINE lines == {i \in 1 .. 5 : m[i][1] = "Content-Length"}
<1>2. /\ m[1][1] # "Content-Length" /\ m[2][1] # "Content-Length"
      /\ m[4][1] # "Content-Length" /\ m[5][1] # "Content-Length"
      /\ m[3][1] = "Content-Length" /\ m[3][2] = n
  BY DEF IsHead, CRLF
<1>3. lines = {3}
  BY <1>2
<1>4. Max({3}) = 3
  BY MaxIs
<1>5. content_length(m) = IF lines = {} THEN 0 ELSE m[Max(lines)][2]
  BY <1>1 DEF content_length
<1> HIDE DEF lines
<1> QED
  BY <1>2, <1>3, <1>4, <1>5

LineNames == <<"sid", "sender_id", "timestamp_secs", "nonce", "signature_hex", "context",
               "body_hex">>

\* An envelope with a line less has no body,
LEMMA ParsedShort ==
    ASSUME NEW t, DOMAIN t \subseteq 1 .. 6, \A i \in DOMAIN t : t[i][1] = LineNames[i]
    PROVE  parse_envelope(t) = InvalidEnvelope
<1>1. \A i \in DOMAIN t : t[i][1] # "body_hex"
  BY DEF LineNames
<1> QED
  BY <1>1 DEF parse_envelope, EnvelopeLine

\* and one with all of them is what they say.
LEMMA ParsedLines ==
    ASSUME NEW t, DOMAIN t = 1 .. 7, \A i \in 1 .. 7 : t[i][1] = LineNames[i],
           parse_envelope(t) # InvalidEnvelope
    PROVE  parse_envelope(t) =
              [sid |-> trim(t[1][2]), sender_id |-> trim(t[2][2]),
               timestamp_secs |-> t[3][2], nonce |-> t[4][2], signature |-> t[5][2],
               context |-> t[6][2], body |-> t[7][2]]
<1> DEFINE at(name) == Max({i \in DOMAIN t : t[i][1] = name})
<1>1. ASSUME NEW j \in 1 .. 7 PROVE at(LineNames[j]) = j
  <2> DEFINE S == {i \in DOMAIN t : t[i][1] = LineNames[j]}
  <2>1. \A i \in 1 .. 7 : LineNames[i] = LineNames[j] => i = j
    BY DEF LineNames
  <2>2. S = {j}
    BY <2>1
  <2>3. Max({j}) = j
    <3>1. {j} \in SUBSET Int /\ j \in {j} /\ \A y \in {j} : j >= y
      OBVIOUS
    <3> QED
      BY <3>1, MaxIs, Zenon
  <2> QED
    BY <2>2, <2>3
<1>2. /\ at("sid") = 1 /\ at("sender_id") = 2 /\ at("timestamp_secs") = 3
      /\ at("nonce") = 4 /\ at("signature_hex") = 5 /\ at("context") = 6
      /\ at("body_hex") = 7
  <2> HIDE DEF at
  <2> QED
    BY <1>1 DEF LineNames
<1> QED
  BY <1>2 DEF parse_envelope

-----------------------------------------------------------------------------
(* A whole message                                                         *)

\* What parse_envelope makes of a serialized envelope.
Trimmed(R) ==
    [sid |-> trim(R.sid), sender_id |-> trim(R.sender_id),
     timestamp_secs |-> R.timestamp_secs, nonce |-> R.nonce,
     signature |-> R.signature, context |-> R.context, body |-> R.body]

\* An envelope as text is seven lines.
LEMMA SevenLines ==
    ASSUME NEW R
    PROVE  /\ \E T : serialize_envelope(R) \in Seq(T)
           /\ Len(serialize_envelope(R)) = 7
           /\ \A i \in 1 .. 7 : serialize_envelope(R)[i][1] = LineNames[i]
<1> DEFINE T == {<<"sid", R.sid>>, <<"sender_id", R.sender_id>>,
                 <<"timestamp_secs", R.timestamp_secs>>, <<"nonce", R.nonce>>,
                 <<"signature_hex", R.signature>>, <<"context", R.context>>,
                 <<"body_hex", R.body>>}
<1>1. serialize_envelope(R) \in Seq(T) /\ Len(serialize_envelope(R)) = 7
  BY DEF serialize_envelope
<1>2. \A i \in 1 .. 7 : serialize_envelope(R)[i][1] = LineNames[i]
  BY DEF serialize_envelope, LineNames
<1> QED
  BY <1>1, <1>2

\* The five units of the headers and the seven lines of an envelope.
Twelve(m, word, x, R) ==
    /\ \E U : m \in Seq(U)
    /\ Len(m) = 12
    /\ IsHead(m, word, x, 7)
    /\ \A i \in 1 .. 7 : m[5 + i] = serialize_envelope(R)[i]

LEMMA EnvelopeMessages ==
    ASSUME NEW x, NEW R
    PROVE  /\ Twelve(http_post(x, serialize_envelope(R)), "POST", x, R)
           /\ Twelve(http_response(x, serialize_envelope(R)), "HTTP/1.1", x, R)
<1> DEFINE L == serialize_envelope(R)
<1>1. PICK T : L \in Seq(T)
  BY SevenLines
<1>2. Len(L) = 7
  BY SevenLines
<1> HIDE DEF L
<1>3. /\ IsMessage(http_post(x, L), "POST", x, L)
      /\ IsMessage(http_response(x, L), "HTTP/1.1", x, L)
  BY <1>1, FramedBoth
<1>4. ASSUME NEW m, NEW word, IsMessage(m, word, x, L) PROVE Twelve(m, word, x, R)
  BY <1>2, <1>4 DEF IsMessage, Twelve, L
<1> QED
  BY <1>3, <1>4, Zenon DEF L

\* An envelope is not the error of parse_envelope.
LEMMA EnvelopeIsNoError ==
    ASSUME NEW a, NEW b, NEW c, NEW d, NEW f, NEW g, NEW h
    PROVE  [sid |-> a, sender_id |-> b, timestamp_secs |-> c, nonce |-> d,
            signature |-> f, context |-> g, body |-> h] # InvalidEnvelope
<1> DEFINE e == [sid |-> a, sender_id |-> b, timestamp_secs |-> c, nonce |-> d,
                 signature |-> f, context |-> g, body |-> h]
<1>1. "sid" \in DOMAIN e
  OBVIOUS
<1>2. "sid" \notin DOMAIN InvalidEnvelope
  BY DEF InvalidEnvelope
<1> HIDE DEF e
<1>3. e # InvalidEnvelope
  BY <1>1, <1>2, Zenon
<1> QED
  BY <1>3 DEF e

\* The lines of an envelope are parsed to it, trimmed.
LEMMA ParsedBack ==
    ASSUME NEW R, NEW t, DOMAIN t = 1 .. 7, R.body # NotHex,
           \A i \in 1 .. 7 : t[i] = serialize_envelope(R)[i]
    PROVE  parse_envelope(t) = Trimmed(R) /\ parse_envelope(t) # InvalidEnvelope
<1>1. /\ t[1] = <<"sid", R.sid>> /\ t[2] = <<"sender_id", R.sender_id>>
      /\ t[3] = <<"timestamp_secs", R.timestamp_secs>> /\ t[4] = <<"nonce", R.nonce>>
      /\ t[5] = <<"signature_hex", R.signature>> /\ t[6] = <<"context", R.context>>
      /\ t[7] = <<"body_hex", R.body>>
  BY DEF serialize_envelope
<1>2. \A i \in 1 .. 7 : t[i][1] = LineNames[i]
  BY <1>1 DEF LineNames
<1>3. EnvelopeLine \subseteq {t[i][1] : i \in DOMAIN t}
  BY <1>1 DEF EnvelopeLine
<1>4. <<"body_hex", NotHex>> \notin Range(t)
  <2> SUFFICES ASSUME NEW i \in 1 .. 7, t[i] = <<"body_hex", NotHex>> PROVE FALSE
    BY DEF Range
  <2>1. i = 7
    BY <1>2 DEF LineNames
  <2> QED
    BY <1>1, <2>1
<1> DEFINE value(name) == t[Max({i \in DOMAIN t : t[i][1] = name})][2]
           parsed == [sid |-> trim(value("sid")), sender_id |-> trim(value("sender_id")),
              timestamp_secs |-> value("timestamp_secs"), nonce |-> value("nonce"),
              signature |-> value("signature_hex"), context |-> value("context"),
              body |-> value("body_hex")]
<1>5. parse_envelope(t) = parsed
  BY <1>3, <1>4 DEF parse_envelope
<1>6. parsed # InvalidEnvelope
  <2> HIDE DEF value
  <2> QED
    BY EnvelopeIsNoError, ZenonT(40)
<1>7. parse_envelope(t) # InvalidEnvelope
  BY <1>5, <1>6
<1>8. parse_envelope(t) =
              [sid |-> trim(t[1][2]), sender_id |-> trim(t[2][2]),
               timestamp_secs |-> t[3][2], nonce |-> t[4][2], signature |-> t[5][2],
               context |-> t[6][2], body |-> t[7][2]]
  BY <1>2, <1>7, ParsedLines
<1> HIDE DEF parsed
<1> QED
  BY <1>1, <1>7, <1>8 DEF Trimmed

\* read_http_request and send_http_post find the envelope in a whole message.
LEMMA WholeMessage ==
    ASSUME NEW m, NEW word, NEW x, NEW R, Twelve(m, word, x, R), word # "Content-Length",
           R.body # NotHex
    PROVE  /\ header_end(m) = 5 /\ is_request(m)
           /\ parse_envelope(request_body(m)) = Trimmed(R)
           /\ parse_envelope(response_body(m)) = Trimmed(R)
           /\ Trimmed(R) # InvalidEnvelope
<1>1. PICK U : m \in Seq(U)
  BY DEF Twelve
<1>2. Len(m) \in Nat /\ 5 <= Len(m) /\ 12 <= Len(m)
  BY Long DEF Twelve
<1>3. IsHead(m, word, x, 7)
  BY DEF Twelve
<1>4. header_end(m) = 5
  BY <1>2, <1>3, HeadersEnd
<1>5. content_length(m) = 7
  BY <1>2, <1>3, LengthSaid
<1>6. is_request(m)
  <2>1. header_end(m) > 0 /\ Len(m) >= header_end(m) + content_length(m)
    BY <1>2, <1>4, <1>5
  <2> QED
    BY <2>1 DEF is_request
<1> DEFINE t == SubSeq(m, 6, 12)
<1>7. request_body(m) = t
  <2>1. header_end(m) + 1 = 6 /\ header_end(m) + content_length(m) = 12
    BY <1>4, <1>5
  <2>2. ~(Len(m) < 12)
    BY <1>2
  <2> QED
    BY <2>1, <2>2, Zenon DEF request_body
<1>8. response_body(m) = t
  <2>1. header_end(m) + 1 = 6 /\ Len(m) = 12
    BY <1>4 DEF Twelve
  <2> QED
    BY <2>1, Zenon DEF response_body
<1>9. DOMAIN t = 1 .. 7 /\ \A i \in 1 .. 7 : t[i] = m[5 + i]
  BY <1>1, <1>2
<1>10. \A i \in 1 .. 7 : t[i] = serialize_envelope(R)[i]
  BY <1>9, Zenon DEF Twelve
<1> HIDE DEF t
<1>11. parse_envelope(t) = Trimmed(R) /\ parse_envelope(t) # InvalidEnvelope
  BY <1>9, <1>10, ParsedBack
<1> QED
  BY <1>4, <1>6, <1>7, <1>8, <1>11, Zenon

\* A part of it is not yet a request.
LEMMA PartOfMessage ==
    ASSUME NEW m, NEW word, NEW x, NEW R, Twelve(m, word, x, R), word # "Content-Length",
           NEW k \in 0 .. 11
    PROVE  ~is_request(SubSeq(m, 1, k))
<1> DEFINE d == SubSeq(m, 1, k)
<1>1. PICK U : m \in Seq(U)
  BY DEF Twelve
<1>2. k <= Len(m) /\ Len(m) \in Nat
  BY Long DEF Twelve
<1>3. Len(d) = k /\ \A i \in 1 .. k : d[i] = m[i]
  BY <1>1, <1>2
<1>4. IsHead(m, word, x, 7)
  BY DEF Twelve
<1> HIDE DEF d
<1>5. CASE k <= 4
  <2>1. Len(d) \in 0 .. 4 /\ \A i \in 1 .. Len(d) : d[i] = m[i]
    BY <1>3, <1>5
  <2>2. header_end(d) = 0
    BY <1>4, <2>1, HeadersCut
  <2> QED
    BY <2>2 DEF is_request, d
<1>6. CASE k >= 5
  <2>1. IsHead(d, word, x, 7)
    BY <1>3, <1>4, <1>6 DEF IsHead
  <2>2. Len(d) \in Nat /\ 5 <= Len(d) /\ Len(d) < 12
    BY <1>3, <1>6
  <2>3. header_end(d) = 5 /\ content_length(d) = 7
    BY <2>1, <2>2, HeadersEnd, LengthSaid
  <2> QED
    BY <2>2, <2>3 DEF is_request, d
<1> QED
  BY <1>5, <1>6

-----------------------------------------------------------------------------
(* What a client makes of an answer that may be cut                        *)

\* What may be there of an answer at the end of the stream.
Delivered(reply) == {reply} \cup Cuts(reply)

\* A client gets the headers, and nothing that it parses, of an answer
\* that only says what is wrong.
LEMMA ErrorIsNoEnvelope ==
    ASSUME NEW status, NEW what, what # "body_hex", NEW d,
           d \in Delivered(http_response(status, << <<what>> >>)), header_end(d) # 0
    PROVE  parse_envelope(response_body(d)) = InvalidEnvelope
<1> DEFINE L == << <<what>> >>
           M == http_response(status, L)
<1>1. L \in Seq({<<what>>}) /\ Len(L) = 1 /\ L[1] = <<what>>
  OBVIOUS
<1> HIDE DEF L
<1>m. IsMessage(M, "HTTP/1.1", status, L)
  <2>1. L \in Seq({<<what>>})
    BY <1>1
  <2> QED
    BY <2>1, FramedBoth
<1> HIDE DEF M
<1>2. PICK U : M \in Seq(U)
  BY <1>m DEF IsMessage
<1>3. IsHead(M, "HTTP/1.1", status, Len(L)) /\ Len(M) = 6 /\ M[6] = <<what>>
  <2>1. /\ Len(M) = 5 + Len(L)
        /\ IsHead(M, "HTTP/1.1", status, Len(L))
        /\ \A i \in 1 .. Len(L) : M[5 + i] = L[i]
    BY <1>m DEF IsMessage
  <2> QED
    BY <1>1, <2>1
<1> HIDE DEF M
<1>4. ASSUME NEW n \in 0 .. 6, d \in Seq(U), Len(d) = n, \A i \in 1 .. n : d[i] = M[i]
      PROVE  parse_envelope(response_body(d)) = InvalidEnvelope
  <2>1. 5 <= n
    <3> SUFFICES ASSUME n \in 0 .. 4 PROVE FALSE
      OBVIOUS
    <3>1. Len(d) \in 0 .. 4 /\ \A i \in 1 .. Len(d) : d[i] = M[i]
      BY <1>4, Zenon
    <3>2. header_end(d) = 0
      BY <1>3, <3>1, HeadersCut
    <3> QED
      BY <3>2
  <2>2. IsHead(d, "HTTP/1.1", status, Len(L))
    BY <1>3, <1>4, <2>1 DEF IsHead
  <2>3. header_end(d) = 5
    BY <1>4, <2>1, <2>2, HeadersEnd
  <2> DEFINE t == response_body(d)
  <2>4. t = SubSeq(d, 6, n)
    BY <1>4, <2>3 DEF response_body
  <2>5. t \in Seq(U) /\ Len(t) = n - 5 /\ \A i \in 1 .. n - 5 : t[i] = d[5 + i]
    BY <1>4, <2>1, <2>4
  <2>6. DOMAIN t = 1 .. n - 5
    BY <2>5
  <2> HIDE DEF t
  <2>7. \A i \in DOMAIN t : t[i] = <<what>>
    <3> SUFFICES ASSUME NEW i \in 1 .. n - 5 PROVE t[i] = <<what>>
      BY <2>6
    <3>1. i = 1 /\ n = 6
      BY <2>1
    <3> QED
      BY <1>3, <1>4, <2>5, <3>1
  <2>8. \A i \in DOMAIN t : t[i][1] # "body_hex"
    BY <2>7
  <2> QED
    BY <2>8 DEF parse_envelope, EnvelopeLine, t
<1>5. CASE d = M
  BY <1>2, <1>3, <1>4, <1>5
<1>6. ASSUME NEW n \in 0 .. 5, d = SubSeq(M, 1, n)
      PROVE  parse_envelope(response_body(d)) = InvalidEnvelope
  <2>1. n <= Len(M)
    <3>1. \A l : l = 6 => n <= l
      OBVIOUS
    <3> QED
      BY <1>3, <3>1, Zenon
  <2>2. /\ SubSeq(M, 1, n) \in Seq(U) /\ Len(SubSeq(M, 1, n)) = n
        /\ \A i \in 1 .. n : SubSeq(M, 1, n)[i] = M[i]
    BY <1>2, <2>1
  <2>3. n \in 0 .. 6
    OBVIOUS
  <2> QED
    BY <1>4, <1>6, <2>2, <2>3
<1>7. Last(M)[1] # "body_hex"
  BY <1>3 DEF Last
<1>8. d = M \/ \E n \in 0 .. 5 : d = SubSeq(M, 1, n)
  <2>1. d = M \/ d \in Cuts(M)
    BY DEF Delivered, M, L
  <2>2. Len(M) - 1 = 5
    BY <1>3
  <2>3. d \in Cuts(M) => \E n \in 0 .. Len(M) - 1 : d = SubSeq(M, 1, n)
    BY <1>7 DEF Cuts
  <2> QED
    BY <2>1, <2>2, <2>3
<1> QED
  BY <1>5, <1>6, <1>8

\* Of an answer with an envelope a client gets nothing that it parses, or the
\* envelope, of which only the body may have changed on the way.
LEMMA AnswerIsEnvelope ==
    ASSUME NEW status, NEW R, NEW d, d \in Delivered(http_response(status, serialize_envelope(R))),
           header_end(d) # 0, parse_envelope(response_body(d)) # InvalidEnvelope
    PROVE  \E body : parse_envelope(response_body(d)) =
              [sid |-> trim(R.sid), sender_id |-> trim(R.sender_id),
               timestamp_secs |-> R.timestamp_secs, nonce |-> R.nonce,
               signature |-> R.signature, context |-> R.context, body |-> body]
<1> DEFINE L == serialize_envelope(R)
           T == {<<"sid", R.sid>>, <<"sender_id", R.sender_id>>,
                 <<"timestamp_secs", R.timestamp_secs>>, <<"nonce", R.nonce>>,
                 <<"signature_hex", R.signature>>, <<"context", R.context>>,
                 <<"body_hex", R.body>>}
           M == http_response(status, L)
<1>1. L \in Seq(T) /\ Len(L) = 7
  BY DEF serialize_envelope
<1>2. /\ L[1] = <<"sid", R.sid>> /\ L[2] = <<"sender_id", R.sender_id>>
      /\ L[3] = <<"timestamp_secs", R.timestamp_secs>> /\ L[4] = <<"nonce", R.nonce>>
      /\ L[5] = <<"signature_hex", R.signature>> /\ L[6] = <<"context", R.context>>
      /\ L[7] = <<"body_hex", R.body>>
  BY DEF serialize_envelope
<1> HIDE DEF L, T
<1>m. IsMessage(M, "HTTP/1.1", status, L)
  <2>1. L \in Seq(T)
    BY <1>1
  <2> QED
    BY <2>1, FramedBoth
<1> HIDE DEF M
<1>3. PICK U : M \in Seq(U)
  BY <1>m DEF IsMessage
<1>4. IsHead(M, "HTTP/1.1", status, Len(L)) /\ Len(M) = 12 /\ \A i \in 1 .. 7 : M[5 + i] = L[i]
  <2>1. /\ Len(M) = 5 + Len(L)
        /\ IsHead(M, "HTTP/1.1", status, Len(L))
        /\ \A i \in 1 .. Len(L) : M[5 + i] = L[i]
    BY <1>m DEF IsMessage
  <2> QED
    BY <1>1, <2>1
<1> HIDE DEF M
<1>5. \A i \in 1 .. 7 : L[i][1] = LineNames[i]
  BY <1>2 DEF LineNames
\* the last line is there, with some body
<1>6. ASSUME NEW V, NEW c \in Seq(V), NEW body, c[12] = <<"body_hex", body>>, Len(c) = 12,
             \A i \in 1 .. 11 : c[i] = M[i], d = c
      PROVE  parse_envelope(response_body(d)) =
              [sid |-> trim(R.sid), sender_id |-> trim(R.sender_id),
               timestamp_secs |-> R.timestamp_secs, nonce |-> R.nonce,
               signature |-> R.signature, context |-> R.context, body |-> body]
  <2>1. header_end(d) = 5
    <3>1. IsHead(d, "HTTP/1.1", status, Len(L))
      BY <1>4, <1>6 DEF IsHead
    <3>2. Len(d) \in Nat /\ 5 <= Len(d)
      BY <1>6, Long, Zenon
    <3> QED
      BY <1>6, <3>1, <3>2, HeadersEnd, Zenon
  <2> DEFINE t == response_body(d)
  <2>2. t = SubSeq(d, 6, 12)
    <3>1. Len(d) = 12 /\ 5 + 1 = 6
      BY <1>6
    <3> QED
      BY <2>1, <3>1, Zenon DEF response_body
  <2>3. t \in Seq(V) /\ Len(t) = 7 /\ \A i \in 1 .. 7 : t[i] = d[5 + i]
    <3>1. 12 <= Len(c) /\ d = c
      BY <1>6, Long, Zenon
    <3>2. t = SubSeq(c, 6, 12)
      BY <2>2, <3>1, Zenon
    <3>3. /\ SubSeq(c, 6, 12) \in Seq(V) /\ Len(SubSeq(c, 6, 12)) = 7
          /\ \A i \in 1 .. 7 : SubSeq(c, 6, 12)[i] = c[5 + i]
      BY <3>1, c \in Seq(V)
    <3> QED
      BY <3>1, <3>2, <3>3, Zenon
  <2>4. DOMAIN t = 1 .. 7
    BY <2>3
  <2> HIDE DEF t
  <2>5. (\A i \in 1 .. 6 : t[i] = L[i]) /\ t[7] = <<"body_hex", body>>
    BY <1>4, <1>6, <2>3
  <2>6. \A i \in 1 .. 7 : t[i][1] = LineNames[i]
    BY <1>5, <2>5 DEF LineNames
  <2>7. parse_envelope(t) # InvalidEnvelope
    BY DEF t
  <2>8. parse_envelope(t) =
              [sid |-> trim(t[1][2]), sender_id |-> trim(t[2][2]),
               timestamp_secs |-> t[3][2], nonce |-> t[4][2], signature |-> t[5][2],
               context |-> t[6][2], body |-> t[7][2]]
    BY <2>4, <2>6, <2>7, ParsedLines
  <2> QED
    BY <1>2, <2>5, <2>8 DEF t
<1>7. CASE d = M
  <2>1. M[12] = <<"body_hex", R.body>>
    BY <1>2, <1>4
  <2> QED
    BY <1>3, <1>4, <1>6, <1>7, <2>1
<1>8. ASSUME NEW n \in 0 .. 11, d = SubSeq(M, 1, n) PROVE FALSE
  <2>1. d \in Seq(U) /\ Len(d) = n /\ \A i \in 1 .. n : d[i] = M[i]
    <3>1. n <= Len(M)
      BY <1>4, Long
    <3>2. /\ SubSeq(M, 1, n) \in Seq(U) /\ Len(SubSeq(M, 1, n)) = n
          /\ \A i \in 1 .. n : SubSeq(M, 1, n)[i] = M[i]
      BY <1>3, <3>1
    <3> QED
      BY <1>8, <3>2
  <2>2. CASE n <= 4
    <3>1. Len(d) \in 0 .. 4
      BY <2>1, <2>2
    <3> QED
      <4>1. \A i \in 1 .. Len(d) : d[i] = M[i]
        BY <2>1, Zenon
      <4>2. IsHead(M, "HTTP/1.1", status, Len(L))
        BY <1>4
      <4>3. header_end(d) = 0
        BY <3>1, <4>1, <4>2, HeadersCut
      <4> QED
        BY <4>3
  <2>3. CASE n >= 5
    <3>1. header_end(d) = 5
      <4>1. IsHead(d, "HTTP/1.1", status, Len(L))
        BY <1>4, <2>1, <2>3 DEF IsHead
      <4> QED
        BY <2>1, <2>3, <4>1, HeadersEnd
    <3> DEFINE t == response_body(d)
    <3>2. t = SubSeq(d, 6, n)
      BY <2>1, <3>1 DEF response_body
    <3>3. t \in Seq(U) /\ Len(t) = n - 5 /\ \A i \in 1 .. n - 5 : t[i] = d[5 + i]
      BY <2>1, <2>3, <3>2
    <3>4. DOMAIN t = 1 .. n - 5
      BY <3>3
    <3> HIDE DEF t
    <3>5. \A i \in DOMAIN t : t[i][1] = LineNames[i]
      <4> SUFFICES ASSUME NEW i \in 1 .. n - 5 PROVE t[i][1] = LineNames[i]
        BY <3>4
      <4>1. i \in 1 .. 7 /\ 5 + i \in 1 .. n
        BY <2>3
      <4>2. t[i] = L[i]
        BY <1>4, <2>1, <3>3, <4>1
      <4> QED
        BY <1>5, <4>1, <4>2
    <3> QED
      BY <3>4, <3>5, ParsedShort DEF t
  <2> QED
    BY <2>2, <2>3
<1>9. ASSUME NEW body, d = Append(Front(M), <<"body_hex", body>>)
      PROVE  \E b : parse_envelope(response_body(d)) =
              [sid |-> trim(R.sid), sender_id |-> trim(R.sender_id),
               timestamp_secs |-> R.timestamp_secs, nonce |-> R.nonce,
               signature |-> R.signature, context |-> R.context, body |-> b]
  <2> DEFINE V == U \cup {<<"body_hex", body>>}
  <2>1. M \in Seq(V)
    BY <1>3
  <2>2. /\ Front(M) \in Seq(V) /\ Len(Front(M)) = 11
        /\ \A i \in 1 .. 11 : Front(M)[i] = M[i]
    <3>1. 11 <= Len(M)
      BY <1>4, Long
    <3>2. /\ SubSeq(M, 1, 11) \in Seq(V) /\ Len(SubSeq(M, 1, 11)) = 11
          /\ \A i \in 1 .. 11 : SubSeq(M, 1, 11)[i] = M[i]
      BY <2>1, <3>1
    <3>3. Front(M) = SubSeq(M, 1, 11)
      BY <1>4 DEF Front
    <3> QED
      BY <3>2, <3>3
  <2>3. /\ d \in Seq(V) /\ Len(d) = 12 /\ d[12] = <<"body_hex", body>>
        /\ \A i \in 1 .. 11 : d[i] = M[i]
    <3>1. <<"body_hex", body>> \in V
      OBVIOUS
    <3> HIDE DEF V
    <3> QED
      <4>1. /\ Append(Front(M), <<"body_hex", body>>) \in Seq(V)
            /\ Len(Append(Front(M), <<"body_hex", body>>)) = Len(Front(M)) + 1
            /\ \A i \in 1 .. Len(Front(M)) : Append(Front(M), <<"body_hex", body>>)[i] = Front(M)[i]
            /\ Append(Front(M), <<"body_hex", body>>)[Len(Front(M)) + 1] = <<"body_hex", body>>
        <5>1. Front(M) \in Seq(V)
          BY <2>2
        <5> QED
          BY <3>1, <5>1, AppendProperties
      <4> QED
        BY <1>9, <2>2, <4>1
  <2> QED
    BY <1>6, <2>3
<1>10. d = M \/ (\E n \in 0 .. 11 : d = SubSeq(M, 1, n))
       \/ \E body : d = Append(Front(M), <<"body_hex", body>>)
  BY <1>4 DEF Delivered, Cuts, M, L
<1> QED
  BY <1>7, <1>8, <1>9, <1>10

-----------------------------------------------------------------------------
(* What a client accepts                                                   *)

\* A response that verifies with a sid and a token was signed with them, and
\* says what was signed.
LEMMA SignedAsSaid ==
    ASSUME NEW S, NEW path, NEW code, NEW said, NEW token, NEW sid, NEW e, NEW body,
           e = [sid |-> trim(sign_http_response(S, path, code, said).sid),
                sender_id |-> trim(sign_http_response(S, path, code, said).sender_id),
                timestamp_secs |-> sign_http_response(S, path, code, said).timestamp_secs,
                nonce |-> sign_http_response(S, path, code, said).nonce,
                signature |-> sign_http_response(S, path, code, said).signature,
                context |-> sign_http_response(S, path, code, said).context,
                body |-> body],
           verify_envelope(e, token, sid)
    PROVE  token = S.sid_token /\ sid = S.sid /\ e.body = said
           /\ e.context = HttpResponse(code, path)
<1>1. e.signature = [hex |-> TRUE, key |-> S.sid_token,
                     payload |-> <<S.sid, S.participant_id, 0, 0,
                                   HttpResponse(code, path), said>>]
  BY DEF sign_http_response, sign_envelope, hmac_signature_hex, canonical_payload
<1>2. e.signature = [hex |-> TRUE, key |-> token,
                     payload |-> <<e.sid, e.sender_id, e.timestamp_secs, e.nonce,
                                   e.context, e.body>>]
  BY DEF verify_envelope, hmac_signature_hex, canonical_payload
<1>3. token = S.sid_token
  BY <1>1, <1>2
<1>4. <<e.sid, e.sender_id, e.timestamp_secs, e.nonce, e.context, e.body>>
        = <<S.sid, S.participant_id, 0, 0, HttpResponse(code, path), said>>
  BY <1>1, <1>2
<1>5. e.sid = S.sid /\ e.context = HttpResponse(code, path) /\ e.body = said
  BY <1>4
<1> QED
  BY <1>3, <1>5 DEF verify_envelope

\* An answer of handle_http_connection that verifies, whole or cut, comes from
\* a server with this sid and token, and carries its key when it is the
\* answer to a request for it.
LEMMA VerifiedAnswer ==
    ASSUME NEW S, NEW path, NEW asked, NEW Port, NEW Key, NEW d, NEW token, NEW sid,
           d \in Delivered(handle_http_connection(S, path, asked, Port, Key)),
           header_end(d) # 0, parse_envelope(response_body(d)) # InvalidEnvelope,
           verify_envelope(parse_envelope(response_body(d)), token, sid)
    PROVE  /\ token = S.sid_token /\ sid = S.sid
           /\ expect_http_response_context(parse_envelope(response_body(d)), 200,
                                           PATH_GET_PUBLIC_KEY)
              => parse_envelope(response_body(d)).body.public_key = S.public_key
<1> DEFINE e == parse_envelope(response_body(d))
           reply == handle_http_connection(S, path, asked, Port, Key)
<1>1. ASSUME NEW status, NEW what, what # "body_hex",
             reply = http_response(status, << <<what>> >>)
      PROVE  FALSE
  BY <1>1, ErrorIsNoEnvelope
<1>2. ASSUME NEW p, NEW code, NEW said,
             reply = http_response(200, serialize_envelope(sign_http_response(S, p, code, said)))
      PROVE  token = S.sid_token /\ sid = S.sid /\ e.body = said
             /\ e.context = HttpResponse(code, p)
  <2> DEFINE R == sign_http_response(S, p, code, said)
  <2>1. d \in Delivered(http_response(200, serialize_envelope(R)))
    BY <1>2
  <2>2. \E body : e =
              [sid |-> trim(R.sid), sender_id |-> trim(R.sender_id),
               timestamp_secs |-> R.timestamp_secs, nonce |-> R.nonce,
               signature |-> R.signature, context |-> R.context, body |-> body]
    <3> HIDE DEF R
    <3> QED
      BY <2>1, AnswerIsEnvelope
  <2> HIDE DEF e
  <2> QED
    BY <2>2, SignedAsSaid DEF e
<1>3. CASE reply = http_response(200, serialize_envelope(get_public_key_response(S)))
  <2> DEFINE said == [sid |-> S.sid, participant_id |-> S.participant_id,
                      public_key |-> S.public_key]
  <2>1. get_public_key_response(S) = sign_http_response(S, PATH_GET_PUBLIC_KEY, 200, said)
    BY DEF get_public_key_response
  <2>2. token = S.sid_token /\ sid = S.sid /\ e.body = said
    BY <1>2, <1>3, <2>1
  <2> QED
    BY <2>2
<1>4. CASE reply = http_response(200, serialize_envelope(publish_response(S, asked)))
  <2> DEFINE said == [status |-> "accepted", participant_id |-> asked.body.participant_id]
  <2>1. publish_response(S, asked)
          = sign_http_response(S, PATH_PUBLISH_PARTICIPANT, 202, said)
    BY DEF publish_response
  <2>2. token = S.sid_token /\ sid = S.sid
        /\ e.context = HttpResponse(202, PATH_PUBLISH_PARTICIPANT)
    BY <1>2, <1>4, <2>1
  <2>3. HttpResponse(202, PATH_PUBLISH_PARTICIPANT) # HttpResponse(200, PATH_GET_PUBLIC_KEY)
    BY DEF HttpResponse
  <2> QED
    BY <2>2, <2>3 DEF expect_http_response_context
<1> HIDE DEF reply, e
<1>5. \/ reply = http_response(400, << <<"invalid envelope">> >>)
      \/ reply = http_response(401, << <<"verification failed">> >>)
      \/ reply = http_response(404, << <<"not found">> >>)
      \/ reply = http_response(200, serialize_envelope(get_public_key_response(S)))
      \/ reply = http_response(200, serialize_envelope(publish_response(S, asked)))
  <2> DEFINE invalid == http_response(400, << <<"invalid envelope">> >>)
             refused == http_response(401, << <<"verification failed">> >>)
             unknown == http_response(404, << <<"not found">> >>)
             key == http_response(200, serialize_envelope(get_public_key_response(S)))
             accepted == http_response(200, serialize_envelope(publish_response(S, asked)))
  <2>1. reply =
          IF asked = InvalidEnvelope THEN invalid
          ELSE IF path = PATH_GET_PUBLIC_KEY THEN
              IF accepts_get_public_key_request(S, asked) THEN key ELSE refused
          ELSE IF path = PATH_PUBLISH_PARTICIPANT THEN
              IF accepts_publish_request(S, asked, Port, Key) THEN accepted ELSE refused
          ELSE unknown
    BY Zenon DEF reply, handle_http_connection
  <2> HIDE DEF invalid, refused, unknown, key, accepted
  <2>2. reply \in {invalid, refused, unknown, key, accepted}
    BY <2>1, Zenon
  <2> QED
    BY <2>2, Zenon DEF invalid, refused, unknown, key, accepted
<1>6. /\ "invalid envelope" # "body_hex" /\ "verification failed" # "body_hex"
      /\ "not found" # "body_hex"
  OBVIOUS
<1>7. /\ reply # http_response(400, << <<"invalid envelope">> >>)
      /\ reply # http_response(401, << <<"verification failed">> >>)
      /\ reply # http_response(404, << <<"not found">> >>)
  <2>1. reply # http_response(400, << <<"invalid envelope">> >>)
    BY <1>1, <1>6, ZenonT(40)
  <2>2. reply # http_response(401, << <<"verification failed">> >>)
    BY <1>1, <1>6, ZenonT(40)
  <2>3. reply # http_response(404, << <<"not found">> >>)
    BY <1>1, <1>6, ZenonT(40)
  <2> QED
    BY <2>1, <2>2, <2>3, Zenon
<1>8. \/ reply = http_response(200, serialize_envelope(get_public_key_response(S)))
      \/ reply = http_response(200, serialize_envelope(publish_response(S, asked)))
  BY <1>5, <1>7, Zenon
<1> QED
  BY <1>3, <1>4, <1>8, Zenon DEF e

-----------------------------------------------------------------------------
(* The inductive invariants                                                *)

Place == {"start", "exit", "ready", "wait", "read", "done"}

Shape ==
    /\ pc \in [Role -> Place] /\ asks \in {"get", "publish"}
    /\ config = [r \in Role |-> config[r]] /\ security = [r \in Role |-> security[r]]

\* A process is past its start.
Running(r) == pc[r] \notin {"start", "exit"}

\* The server has said nothing before it is done, and then what it said was
\* its answer, whole or cut, or an alert, or nothing.
DownIsAnswer ==
    /\ pc["server"] # "done" => down = <<>>
    /\ \/ down = <<>> \/ down = << <<"alert">> >>
       \/ down \in Delivered(answer(parse_envelope(request_body(data))))

\* There is a result when the client is done, and one that is no error only
\* when the server is, too.
ResultIsLast ==
    /\ result # None => pc["client"] = "done"
    /\ result \notin {None, "Err"} => pc["server"] = "done"

KeyInv == Shape /\ DownIsAnswer /\ ResultIsLast /\ KeyIsServers

\* A running process has the configuration and the TLS set-up of its sources.
Loaded ==
    /\ given = [r \in Role |-> given[r]]
    /\ \A r \in Role : given[r] \in DOMAIN Sources[r]
    /\ \A r \in Role : Running(r) =>
          /\ config[r] = app_config(Sources[r][given[r]])
          /\ security[r] = build_transport_security(config[r])
          /\ security[r] # None

\* Who sends in the clear has no TLS, and a connection in the clear joins two
\* that have none.
ClearIsPlain ==
    /\ clear \subseteq Role
    /\ \A r \in clear : Running(r) /\ ~security[r].tls
    /\ channel = "clear" => \A r \in Role : Running(r) /\ ~security[r].tls

PlainInv == Shape /\ Loaded /\ ClearIsPlain

-----------------------------------------------------------------------------
(* The key is the server's                                                 *)

LEMMA KeyInit == Init => KeyInv
<1> SUFFICES ASSUME Init PROVE KeyInv
  OBVIOUS
<1>1. Shape
  BY DEF Init, Shape, Place
<1>2. DownIsAnswer
  BY DEF Init, DownIsAnswer
<1>3. ResultIsLast /\ KeyIsServers
  BY DEF Init, ResultIsLast, KeyIsServers
<1> QED
  BY <1>1, <1>2, <1>3 DEF KeyInv

\* What a client makes of what the server said is an error or the key of a
\* server of its group.
LEMMA OutcomeIsServers ==
    ASSUME Shape, DownIsAnswer, outcome(parse_envelope(response_body(down))) # "Err"
    PROVE  /\ SameGroup
           /\ outcome(parse_envelope(response_body(down))) =
                IF asks = "get" THEN PublicKey["server"] ELSE "Ok"
<1> DEFINE e == parse_envelope(response_body(down))
           S == service("server")
           C == service("client")
<1>1. header_end(down) # 0 /\ e # InvalidEnvelope
  BY DEF outcome
<1>2. verify_envelope(e, config["client"].sid_token, config["client"].sid)
  BY DEF outcome, accepts_public_key_response, service
<1>3. down \in Delivered(answer(parse_envelope(request_body(data))))
  <2>1. header_end(<<>>) = 0
    BY DEF header_end
  <2>2. header_end(<< <<"alert">> >>) = 0
    BY DEF header_end
  <2> QED
    BY <1>1, <2>1, <2>2 DEF DownIsAnswer
<1>4. /\ config["client"].sid_token = S.sid_token /\ config["client"].sid = S.sid
      /\ expect_http_response_context(e, 200, PATH_GET_PUBLIC_KEY)
           => e.body.public_key = S.public_key
  <2> HIDE DEF S
  <2>1. PICK path, asked, Port, Key :
           answer(parse_envelope(request_body(data)))
             = handle_http_connection(S, path, asked, Port, Key)
    BY DEF answer, S
  <2> QED
    BY <1>1, <1>2, <1>3, <2>1, VerifiedAnswer
<1>5. S.sid = config["server"].sid /\ S.sid_token = config["server"].sid_token
      /\ S.public_key = PublicKey["server"]
  BY DEF service
<1>6. SameGroup
  BY <1>4, <1>5 DEF SameGroup
<1>7. CASE asks = "publish"
  BY <1>6, <1>7 DEF outcome
<1>8. CASE asks # "publish"
  <2>1. expect_http_response_context(e, 200, PATH_GET_PUBLIC_KEY)
    BY <1>8 DEF outcome, accepts_public_key_response
  <2>2. outcome(e) = e.body.public_key
    BY <1>8 DEF outcome
  <2> QED
    BY <1>4, <1>5, <1>6, <1>8, <2>1, <2>2 DEF Shape
<1> QED
  BY <1>7, <1>8

LEMMA ShapeStep == Shape /\ [Next]_vars => Shape'
<1> SUFFICES ASSUME Shape, [Next]_vars PROVE Shape'
  OBVIOUS
<1> USE DEF Shape, Place, Role
<1>1. ASSUME NEW r \in Role, Start(r) PROVE Shape'
  BY <1>1 DEF Start
<1>2. ASSUME NEW r \in Role, StartFails(r) PROVE Shape'
  BY <1>2 DEF StartFails, fixed, loaded
<1>3. CASE Hear
  BY <1>3 DEF Hear, loaded
<1>4. CASE ConnectFails
  BY <1>4 DEF ConnectFails, fixed, loaded
<1>5. CASE Connect
  <2>1. UNCHANGED <<config, security>> /\ asks' \in {"get", "publish"}
    BY <1>5 DEF Connect, loaded
  <2>2. pc' \in [Role -> Place]
    BY <1>5 DEF Connect
  <2> QED
    BY <2>1, <2>2
<1>6. CASE ServerStep \/ ServerDies
  BY <1>6 DEF ServerStep, HandshakeFails, ServerReads, ServerAnswers, ServerRefuses,
              ServerTimeout, ServerDies, Close, fixed, loaded
<1>7. CASE ClientGivesUp \/ ClientReads
  BY <1>7 DEF ClientGivesUp, ClientReads, fixed, loaded
<1>8. CASE UNCHANGED vars
  BY <1>8 DEF vars
<1> QED
  BY <1>1, <1>2, <1>3, <1>4, <1>5, <1>6, <1>7, <1>8 DEF Next

LEMMA DownStep == Shape /\ DownIsAnswer /\ [Next]_vars => DownIsAnswer'
<1> SUFFICES ASSUME Shape, DownIsAnswer, [Next]_vars PROVE DownIsAnswer'
  OBVIOUS
\* steps that the server's side takes no part in
<1>1. ASSUME UNCHANGED <<down, data>>, config'["server"] = config["server"],
             pc'["server"] # "done" => pc["server"] # "done"
      PROVE  DownIsAnswer'
  <2>1. ASSUME NEW e PROVE answer(e)' = answer(e)
    BY <1>1 DEF answer, service
  <2> QED
    BY <1>1 DEF DownIsAnswer, answer, service
<1>2. ASSUME down = <<>>, down' = <<>>
      PROVE  DownIsAnswer'
  BY <1>2 DEF DownIsAnswer
<1>3. ASSUME NEW r \in Role, Start(r) PROVE DownIsAnswer'
  <2>1. CASE r = "server"
    BY <1>2, <1>3, <2>1 DEF Start, DownIsAnswer
  <2>2. CASE r = "client"
    BY <1>1, <1>3, <2>2 DEF Start, Shape, Role
  <2> QED
    BY <2>1, <2>2 DEF Role
<1>4. ASSUME NEW r \in Role, StartFails(r) PROVE DownIsAnswer'
  BY <1>1, <1>4 DEF StartFails, fixed, loaded, Shape, Role
<1>5. CASE Hear \/ ConnectFails \/ ClientGivesUp \/ ClientReads
  BY <1>1, <1>5 DEF Hear, ConnectFails, ClientGivesUp, ClientReads, fixed, loaded, Shape, Role
<1>6. CASE Connect
  <2>1. pc["server"] = "ready" /\ UNCHANGED down
    BY <1>6 DEF Connect, Reaches
  <2> QED
    BY <1>2, <2>1 DEF DownIsAnswer
<1>7. CASE ServerReads
  BY <1>2, <1>7 DEF ServerReads, DownIsAnswer
<1>8. CASE ServerRefuses \/ ServerTimeout
  <2>1. down = <<>> /\ down' = <<>>
    BY <1>8 DEF ServerRefuses, ServerTimeout, DownIsAnswer
  <2> QED
    BY <1>2, <2>1
<1>9. CASE HandshakeFails
  BY <1>9 DEF HandshakeFails, Close, DownIsAnswer, Shape, Role
<1>10. CASE ServerAnswers \/ ServerDies
  <2>1. down' \in Delivered(answer(parse_envelope(request_body(data))))
    BY <1>10 DEF ServerAnswers, ServerDies, Delivered
  <2>2. UNCHANGED <<config, data>> /\ pc'["server"] = "done"
    BY <1>10 DEF ServerAnswers, ServerDies, Close, fixed, loaded, Shape, Role
  <2> QED
    BY <2>1, <2>2 DEF DownIsAnswer, answer, service
<1>11. CASE UNCHANGED vars
  BY <1>1, <1>11 DEF vars
<1> QED
  BY <1>3, <1>4, <1>5, <1>6, <1>7, <1>8, <1>9, <1>10, <1>11 DEF Next, ServerStep

LEMMA ResultStep == KeyInv /\ [Next]_vars => ResultIsLast' /\ KeyIsServers'
<1> SUFFICES ASSUME KeyInv, [Next]_vars PROVE ResultIsLast' /\ KeyIsServers'
  OBVIOUS
<1> USE DEF KeyInv
\* there is no result yet
<1>1. ASSUME result' = None PROVE ResultIsLast' /\ KeyIsServers'
  BY <1>1 DEF ResultIsLast, KeyIsServers
\* the client ends with an error
<1>2. ASSUME result' = "Err", pc'["client"] = "done" PROVE ResultIsLast' /\ KeyIsServers'
  BY <1>2 DEF ResultIsLast, KeyIsServers
\* a result stays with what it depends on
<1>3. ASSUME UNCHANGED <<result, config, asks>>,
             pc["client"] = "done" => pc'["client"] = "done",
             pc["server"] = "done" => pc'["server"] = "done"
      PROVE  ResultIsLast' /\ KeyIsServers'
  BY <1>3 DEF ResultIsLast, KeyIsServers, SameGroup
<1>4. ASSUME NEW r \in Role, Start(r) PROVE ResultIsLast' /\ KeyIsServers'
  <2>1. pc[r] = "start" /\ UNCHANGED result
    BY <1>4 DEF Start
  <2>2. CASE result = None
    BY <1>1, <2>1, <2>2
  <2>3. CASE result # None
    <3>1. pc["client"] = "done" /\ r # "client"
      BY <2>1, <2>3 DEF ResultIsLast
    <3>2. pc'["client"] = "done"
      BY <1>4, <3>1 DEF Start, Shape, Role
    <3>3. result = "Err"
      BY <2>1, <2>3, <3>1 DEF ResultIsLast, Role
    <3> QED
      BY <1>2, <2>1, <3>2, <3>3
  <2> QED
    BY <2>2, <2>3
<1>5. ASSUME NEW r \in Role, StartFails(r) PROVE ResultIsLast' /\ KeyIsServers'
  BY <1>3, <1>5 DEF StartFails, fixed, loaded, Shape, Role
<1>6. CASE Hear
  BY <1>3, <1>6 DEF Hear, loaded
<1>7. CASE ConnectFails \/ ClientGivesUp
  BY <1>2, <1>7 DEF ConnectFails, ClientGivesUp, Shape, Role
<1>8. CASE Connect
  <2>1. pc["client"] = "ready"
    BY <1>8 DEF Connect
  <2>2. result = None
    BY <2>1 DEF ResultIsLast
  <2>3. result' = result \/ (result' = "Err" /\ pc'["client"] = "done")
    BY <1>8 DEF Connect, Role
  <2> QED
    BY <1>1, <1>2, <2>2, <2>3
<1>9. CASE ServerStep \/ ServerDies
  BY <1>3, <1>9 DEF ServerStep, HandshakeFails, ServerReads, ServerAnswers, ServerRefuses,
              ServerTimeout, ServerDies, Close, fixed, loaded, Shape, Role
<1>10. CASE ClientReads
  <2>1. /\ result' = outcome(parse_envelope(response_body(down)))
        /\ pc'["client"] = "done" /\ pc'["server"] = "done"
        /\ UNCHANGED <<config, asks>>
    BY <1>10 DEF ClientReads, fixed, loaded, Shape, Role
  <2>2. CASE result' = "Err"
    BY <1>2, <2>1, <2>2
  <2>3. CASE result' # "Err"
    <3>1. SameGroup /\ result' = IF asks = "get" THEN PublicKey["server"] ELSE "Ok"
      BY <2>1, <2>3, OutcomeIsServers
    <3> QED
      BY <2>1, <3>1 DEF ResultIsLast, KeyIsServers, SameGroup
  <2> QED
    BY <2>2, <2>3
<1>11. CASE UNCHANGED vars
  BY <1>3, <1>11 DEF vars
<1> QED
  BY <1>4, <1>5, <1>6, <1>7, <1>8, <1>9, <1>10, <1>11 DEF Next

\* For any configurations of the two ends, any keys and any bytes the network
\* delivers of an answer, request_public_key returns the key of the server it
\* reached, and that only when both have the same sid and token, or an error.
THEOREM KeyComesFromServer == Spec => []KeyIsServers
<1>1. KeyInv /\ [Next]_vars => KeyInv'
  BY ShapeStep, DownStep, ResultStep DEF KeyInv
<1>2. KeyInv => KeyIsServers
  BY DEF KeyInv
<1> QED
  BY KeyInit, <1>1, <1>2, PTL DEF Spec

-----------------------------------------------------------------------------
(* No plaintext that was not asked for                                     *)

\* resolve_bool says yes only when a source does.
LEMMA PlaintextAsked ==
    ASSUME NEW s, s = [args |-> s.args, env |-> s.env, file |-> s.file],
           resolve_bool(s, "insecure_no_tls")
    PROVE  AskedForPlaintext(s)
<1> DEFINE o == "insecure_no_tls"
           file == read_config_file(s)
           t == [s EXCEPT !.args = <<>>]
           v == resolve(t, o, LAMBDA w : parse_bool(w) # None)
           given3 == << <<>>, s.env, file>>
           hits == {i \in 1 .. 3 : o \in DOMAIN given3[i] /\ parse_bool(given3[i][o]) # None}
<1>1. CASE o \in DOMAIN s.args
  BY <1>1 DEF AskedForPlaintext
<1>2. CASE o \notin DOMAIN s.args
  <2>1. v # None /\ parse_bool(v)
    BY <1>2 DEF resolve_bool
  <2>2. t.args = <<>> /\ t.env = s.env /\ t.file = s.file
    OBVIOUS
  <2>3. read_config_file(t) = file
    BY <2>2 DEF read_config_file
  <2>4. v = IF hits = {} THEN None ELSE given3[Min(hits)][o]
    BY <2>2, <2>3 DEF resolve
  <2> HIDE DEF v, file
  <2>5. hits # {} /\ v = given3[Min(hits)][o]
    BY <2>1, <2>4
  <2>6. 1 \notin hits
    OBVIOUS
  <2>7. CASE 2 \in hits
    <3>1. Min(hits) = 2
      <4>1. hits \in SUBSET Int /\ \A y \in hits : 2 <= y
        BY <2>6
      <4> HIDE DEF hits
      <4> QED
        BY <2>7, <4>1, MinIs
    <3>2. v = s.env[o] /\ o \in DOMAIN s.env
      BY <2>5, <2>7, <3>1
    <3>3. parse_bool(s.env[o]) = TRUE
      BY <2>1, <2>7, <3>2 DEF parse_bool
    <3> QED
      BY <3>2, <3>3 DEF AskedForPlaintext
  <2>8. CASE 2 \notin hits
    <3>1. hits = {3}
      BY <2>5, <2>6, <2>8
    <3>2. Min({3}) = 3
      BY MinIs
    <3>3. v = file[o] /\ o \in DOMAIN file /\ parse_bool(file[o]) # None
      <4>1. 3 \in hits
        BY <3>1
      <4>2. v = given3[3][o]
        BY <2>5, <3>1, <3>2
      <4> QED
        BY <4>1, <4>2
    <3>4. parse_bool(file[o]) = TRUE
      BY <2>1, <3>3 DEF parse_bool
    <3>5. ~(o \in DOMAIN s.env /\ parse_bool(s.env[o]) = FALSE)
      <4>1. o \in DOMAIN s.env => parse_bool(s.env[o]) = None
        <5>1. given3[2] = s.env /\ 2 \in 1 .. 3
          OBVIOUS
        <5> HIDE DEF given3
        <5> QED
          BY <2>8, <5>1
      <4>2. None # FALSE
        BY NoneAssumption, Zenon
      <4> QED
        BY <4>1, <4>2, Zenon
    <3> QED
      BY <3>3, <3>4, <3>5 DEF AskedForPlaintext, file
  <2> QED
    BY <2>7, <2>8
<1> QED
  BY <1>1, <1>2

LEMMA PlainInit == Init => PlainInv
<1> SUFFICES ASSUME Init PROVE PlainInv
  OBVIOUS
<1>1. Shape
  BY DEF Init, Shape, Place
<1>2. Loaded
  BY DEF Init, Loaded, Running, Role
<1>3. ClearIsPlain
  BY DEF Init, ClearIsPlain
<1> QED
  BY <1>1, <1>2, <1>3 DEF PlainInv

LEMMA LoadedStep == Shape /\ Loaded /\ [Next]_vars => Loaded'
<1> SUFFICES ASSUME Shape, Loaded, [Next]_vars PROVE Loaded'
  OBVIOUS
<1>1. ASSUME UNCHANGED loaded, \A r \in Role : Running(r)' => Running(r)
      PROVE  Loaded'
  BY <1>1 DEF Loaded, loaded
<1>2. ASSUME NEW r \in Role, Start(r) PROVE Loaded'
  <2> DEFINE s == Sources[r][given[r]]
             c == app_config(s)
  <2>1. /\ config' = [config EXCEPT ![r] = c]
        /\ security' = [security EXCEPT ![r] = build_transport_security(c)]
        /\ pc' = [pc EXCEPT ![r] = "ready"] /\ UNCHANGED given
    BY <1>2 DEF Start
  <2>2. build_transport_security(c) # None
    BY <1>2 DEF Start, Starts
  <2> HIDE DEF c
  <2>3. ASSUME NEW q \in Role, Running(q)'
        PROVE  /\ config'[q] = app_config(Sources[q][given[q]])
               /\ security'[q] = build_transport_security(config'[q])
               /\ security'[q] # None
    <3>1. CASE q = r
      BY <2>1, <2>2, <3>1 DEF Shape, c
    <3>2. CASE q # r
      BY <2>1, <2>3, <3>2 DEF Shape, Loaded, Running
    <3> QED
      BY <3>1, <3>2
  <2> QED
    BY <2>1, <2>3 DEF Loaded
<1>3. ASSUME NEW r \in Role, StartFails(r) PROVE Loaded'
  BY <1>1, <1>3 DEF StartFails, fixed, Shape, Running
<1>4. CASE Hear
  BY <1>1, <1>4 DEF Hear, Running
<1>5. CASE ConnectFails \/ ClientGivesUp \/ ClientReads
  <2>1. UNCHANGED loaded /\ pc["client"] \in {"ready", "wait"}
        /\ pc' = [pc EXCEPT !["client"] = "done"]
    BY <1>5 DEF ConnectFails, ClientGivesUp, ClientReads, fixed
  <2> QED
    BY <1>1, <2>1 DEF Shape, Running
<1>6. CASE Connect
  <2>1. UNCHANGED loaded /\ pc["client"] = "ready" /\ pc["server"] = "ready"
    BY <1>6 DEF Connect, Reaches
  <2> QED
    BY <1>1, <2>1 DEF Running, Role
<1>7. CASE ServerStep \/ ServerDies
  <2>1. UNCHANGED loaded /\ pc["server"] = "read"
        /\ (pc' = pc \/ pc' = [pc EXCEPT !["server"] = "done"])
    BY <1>7 DEF ServerStep, HandshakeFails, ServerReads, ServerAnswers, ServerRefuses,
                ServerTimeout, ServerDies, Close, fixed
  <2> QED
    BY <1>1, <2>1 DEF Shape, Running
<1>8. CASE UNCHANGED vars
  BY <1>1, <1>8 DEF vars, loaded, Running
<1> QED
  BY <1>2, <1>3, <1>4, <1>5, <1>6, <1>7, <1>8 DEF Next

LEMMA ClearStep == PlainInv /\ [Next]_vars => ClearIsPlain'
<1> SUFFICES ASSUME PlainInv, [Next]_vars PROVE ClearIsPlain'
  OBVIOUS
<1> USE DEF PlainInv
\* no one else talks in the clear
<1>1. ASSUME UNCHANGED <<clear, channel>>,
             \A r \in Role : Running(r) => Running(r)' /\ security'[r] = security[r]
      PROVE  ClearIsPlain'
  BY <1>1 DEF ClearIsPlain
<1>2. ASSUME NEW r \in Role, Start(r) PROVE ClearIsPlain'
  <2>1. UNCHANGED <<clear, channel>> /\ ~Running(r)
    BY <1>2 DEF Start, Running
  <2>2. \A q \in Role : Running(q) => Running(q)' /\ security'[q] = security[q]
    BY <1>2, <2>1 DEF Start, Shape, Running
  <2> QED
    BY <1>1, <2>1, <2>2
<1>3. ASSUME NEW r \in Role, StartFails(r) PROVE ClearIsPlain'
  BY <1>1, <1>3 DEF StartFails, fixed, loaded, Shape, Running
<1>4. CASE Hear
  BY <1>1, <1>4 DEF Hear, loaded, Running
<1>5. CASE ConnectFails \/ ClientGivesUp \/ ClientReads
  <2>1. UNCHANGED <<clear, channel, security>> /\ pc' = [pc EXCEPT !["client"] = "done"]
    BY <1>5 DEF ConnectFails, ClientGivesUp, ClientReads, fixed, loaded
  <2> QED
    BY <1>1, <2>1 DEF Shape, Running
<1>6. CASE Connect
  <2>1. UNCHANGED security /\ pc["client"] = "ready" /\ pc["server"] = "ready"
    BY <1>6 DEF Connect, Reaches, loaded
  <2>2. \A r \in Role : Running(r)'
    BY <1>6 DEF Connect, Running, Role
  <2>3. \/ ~security["client"].tls /\ clear' = clear \cup {"client"}
             /\ channel' = IF security["server"].tls THEN "foreign" ELSE "clear"
        \/ UNCHANGED clear /\ channel' \in {"foreign", "tls"}
    BY <1>6 DEF Connect
  <2> QED
    BY <2>1, <2>2, <2>3 DEF ClearIsPlain, Role
<1>7. CASE ServerStep \/ ServerDies
  <2>1. UNCHANGED <<channel, security>>
        /\ (pc' = pc \/ pc' = [pc EXCEPT !["server"] = "done"])
    BY <1>7 DEF ServerStep, HandshakeFails, ServerReads, ServerAnswers, ServerRefuses,
                ServerTimeout, ServerDies, Close, fixed, loaded
  <2>2. clear' = clear \/ (channel = "clear" /\ clear' = clear \cup {"server"})
    BY <1>7 DEF ServerStep, HandshakeFails, ServerReads, ServerAnswers, ServerRefuses,
                ServerTimeout, ServerDies
  <2>3. \A r \in Role : Running(r) => Running(r)'
    BY <2>1 DEF Shape, Running
  <2> QED
    BY <2>1, <2>2, <2>3 DEF ClearIsPlain, Role
<1>8. CASE UNCHANGED vars
  BY <1>1, <1>8 DEF vars, Running
<1> QED
  BY <1>2, <1>3, <1>4, <1>5, <1>6, <1>7, <1>8 DEF Next

\* For any sources and any peer, a process whose arguments, environment and
\* file do not turn TLS off sends no HTTP message in the clear.
THEOREM PlaintextIsAskedFor == Spec => []NoSilentPlaintext
<1>1. PlainInv /\ [Next]_vars => PlainInv'
  BY ShapeStep, LoadedStep, ClearStep DEF PlainInv
<1>2. PlainInv => NoSilentPlaintext
  <2> SUFFICES ASSUME PlainInv, NEW r \in clear
               PROVE  AskedForPlaintext(Sources[r][given[r]])
    BY DEF NoSilentPlaintext
  <2> DEFINE s == Sources[r][given[r]]
  <2>1. r \in Role /\ Running(r) /\ ~security[r].tls
    BY DEF PlainInv, ClearIsPlain
  <2>2. /\ security[r] = build_transport_security(app_config(s))
        /\ security[r] # None /\ given[r] \in DOMAIN Sources[r]
    BY <2>1 DEF PlainInv, Loaded
  <2>3. app_config(s).insecure_no_tls
    <3> DEFINE c == app_config(s)
    <3> HIDE DEF c
    <3>1. security[r] = build_transport_security(c) /\ security[r] # None /\ ~security[r].tls
      BY <2>1, <2>2 DEF c
    <3>2. c.insecure_no_tls
      BY <3>1 DEF build_transport_security
    <3> QED
      BY <3>2 DEF c
  <2>4. resolve_bool(s, "insecure_no_tls")
    BY <2>3 DEF app_config
  <2>5. s = [args |-> s.args, env |-> s.env, file |-> s.file]
    BY <2>1, <2>2, SourcesAssumption
  <2> HIDE DEF s
  <2>6. AskedForPlaintext(s)
    BY <2>4, <2>5, PlaintextAsked
  <2> QED
    BY <2>6 DEF s
<1> QED
  BY PlainInit, <1>1, <1>2, PTL DEF Spec

-----------------------------------------------------------------------------
(* The exchange succeeds                                                   *)

\* A running process was started with sources that let it; the server has
\* read nothing before it is connected; what the client has heard has no
\* blanks around its id.
Begun ==
    /\ \A r \in Role : Running(r) => Starts(r, Sources[r][given[r]])
    /\ pc["server"] \in {"start", "exit", "ready"} => data = <<>>
    /\ \A a \in registry : a.participant_id = trim(a.participant_id)

\* Of the message m the first units were read, the others are on their way.
Parted(m, read, rest) ==
    \E k \in 0 .. Len(m) : read = SubSeq(m, 1, k) /\ rest = SubSeq(m, k + 1, Len(m))

\* The client has asked the endpoint e and its request is on its way, or was
\* answered and the client makes of the answer what it makes of it.
Exchange(e) ==
    /\ e.port = parse_port(config["server"].http_listen_addr)
    /\ \/ pc["client"] = "wait" /\ pc["server"] = "read"
          /\ Parted(request(e, asks), data, up)
       \/ /\ pc["client"] \in {"wait", "done"} /\ pc["server"] = "done"
          /\ data = request(e, asks)
          /\ down = answer(parse_envelope(request_body(data)))
          /\ pc["client"] = "done" => result = outcome(parse_envelope(response_body(down)))

\* A connection between two that speak the same language, with which nothing
\* has interfered, was refused in the handshake or carries an exchange.
Sent ==
    channel \in {"clear", "tls"} /\ ~faulty =>
        \/ data = <<>> /\ pc["client"] = "done" /\ pc["server"] = "done"
        \/ \E e \in endpoints : Exchange(e)

SentInv == Shape /\ DownIsAnswer /\ Loaded /\ Begun /\ Sent

LEMMA SentInit == Init => SentInv
<1> SUFFICES ASSUME Init PROVE SentInv
  OBVIOUS
<1>1. Shape /\ DownIsAnswer
  BY KeyInit DEF KeyInv
<1>2. Loaded
  BY PlainInit DEF PlainInv
<1>3. Begun
  BY DEF Init, Begun, Running, Role
<1>4. Sent
  BY DEF Init, Sent
<1> QED
  BY <1>1, <1>2, <1>3, <1>4 DEF SentInv

LEMMA BegunStep == Shape /\ Begun /\ [Next]_vars => Begun'
<1> SUFFICES ASSUME Shape, Begun, [Next]_vars PROVE Begun'
  OBVIOUS
\* nothing new
<1>1. ASSUME UNCHANGED <<given, registry>>, \A r \in Role : Running(r)' => Running(r),
             \/ UNCHANGED data /\ (pc'["server"] \in {"start", "exit", "ready"}
                                   => pc["server"] \in {"start", "exit", "ready"})
             \/ pc'["server"] \notin {"start", "exit", "ready"}
      PROVE  Begun'
  BY <1>1 DEF Begun
<1>2. ASSUME NEW r \in Role, Start(r) PROVE Begun'
  <2>1. /\ Starts(r, Sources[r][given[r]]) /\ pc[r] = "start"
        /\ pc' = [pc EXCEPT ![r] = "ready"] /\ UNCHANGED <<given, registry, data>>
    BY <1>2 DEF Start
  <2>2. ASSUME NEW q \in Role, Running(q)' PROVE Starts(q, Sources[q][given[q]])
    BY <2>1, <2>2 DEF Shape, Begun, Running
  <2>3. pc["server"] \in {"start", "exit", "ready"} \/ pc'["server"] = pc["server"]
    BY <2>1 DEF Shape, Role
  <2> QED
    BY <2>1, <2>2, <2>3 DEF Begun
<1>3. ASSUME NEW r \in Role, StartFails(r) PROVE Begun'
  BY <1>1, <1>3 DEF StartFails, fixed, loaded, Shape, Running, Role
<1>4. CASE Hear
  <2>1. \A a \in registry' : a.participant_id = trim(a.participant_id)
    BY <1>4 DEF Hear, parse_announcement_payload, trim, Plain
  <2> QED
    BY <1>4, <2>1 DEF Hear, loaded, Begun, Running
<1>5. CASE ConnectFails \/ ClientGivesUp \/ ClientReads
  <2>1. UNCHANGED <<given, registry, data>> /\ pc["client"] \in {"ready", "wait"}
        /\ pc' = [pc EXCEPT !["client"] = "done"]
    BY <1>5 DEF ConnectFails, ClientGivesUp, ClientReads, fixed, loaded
  <2> QED
    BY <1>1, <2>1 DEF Shape, Running, Role
<1>6. CASE Connect
  <2>1. UNCHANGED <<given, registry>> /\ pc["client"] = "ready" /\ pc["server"] = "ready"
    BY <1>6 DEF Connect, Reaches, loaded
  <2>2. pc'["server"] \in {"read", "done"}
    BY <1>6 DEF Connect, Role
  <2> QED
    BY <1>1, <2>1, <2>2 DEF Running, Role
<1>7. CASE ServerStep \/ ServerDies
  <2>1. UNCHANGED <<given, registry>> /\ pc["server"] = "read"
        /\ (pc' = pc \/ pc' = [pc EXCEPT !["server"] = "done"])
    BY <1>7 DEF ServerStep, HandshakeFails, ServerReads, ServerAnswers, ServerRefuses,
                ServerTimeout, ServerDies, Close, fixed, loaded
  <2> QED
    BY <1>1, <2>1 DEF Shape, Running, Role
<1>8. CASE UNCHANGED vars
  BY <1>1, <1>8 DEF vars, Running
<1> QED
  BY <1>2, <1>3, <1>4, <1>5, <1>6, <1>7, <1>8 DEF Next

\* What is left of a sequence behind its first j elements.
LEMMA RestOf ==
    ASSUME NEW U, NEW s \in Seq(U), NEW j \in 0 .. Len(s)
    PROVE  /\ SubSeq(s, j + 1, Len(s)) \in Seq(U)
           /\ Len(SubSeq(s, j + 1, Len(s))) = Len(s) - j
           /\ \A i \in 1 .. Len(s) - j : SubSeq(s, j + 1, Len(s))[i] = s[j + i]
  OBVIOUS

\* One more read gives the first units of the message again.
LEMMA ReadsOn ==
    ASSUME NEW U, NEW m \in Seq(U), NEW k \in 0 .. Len(m),
           NEW n \in 1 .. Len(SubSeq(m, k + 1, Len(m)))
    PROVE  LET rest == SubSeq(m, k + 1, Len(m))
           IN  /\ k + n \in 0 .. Len(m)
               /\ SubSeq(m, 1, k) \o SubSeq(rest, 1, n) = SubSeq(m, 1, k + n)
               /\ SubSeq(rest, n + 1, Len(rest)) = SubSeq(m, k + n + 1, Len(m))
<1> DEFINE rest == SubSeq(m, k + 1, Len(m))
           a == SubSeq(m, 1, k)
           b == SubSeq(rest, 1, n)
<1>1. /\ rest \in Seq(U) /\ Len(rest) = Len(m) - k
      /\ \A i \in 1 .. Len(m) - k : rest[i] = m[k + i]
  OBVIOUS
<1>2. n \in 1 .. Len(m) - k /\ k + n \in 0 .. Len(m)
  BY <1>1
<1>3. a \in Seq(U) /\ Len(a) = k /\ \A i \in 1 .. k : a[i] = m[i]
  OBVIOUS
<1> HIDE DEF rest, a
<1>4. b \in Seq(U) /\ Len(b) = n /\ \A i \in 1 .. n : b[i] = m[k + i]
  BY <1>1, <1>2
<1> HIDE DEF b
<1>5. /\ a \o b \in Seq(U) /\ Len(a \o b) = Len(a) + Len(b)
      /\ \A i \in 1 .. Len(a) + Len(b) :
            (a \o b)[i] = IF i <= Len(a) THEN a[i] ELSE b[i - Len(a)]
  BY <1>3, <1>4, ConcatProperties, Zenon
<1>6. a \o b = SubSeq(m, 1, k + n)
  <2> DEFINE c == SubSeq(m, 1, k + n)
  <2>1. c \in Seq(U) /\ Len(c) = k + n /\ \A i \in 1 .. k + n : c[i] = m[i]
    BY <1>2
  <2> HIDE DEF c
  <2>2. Len(a \o b) = k + n
    BY <1>3, <1>4, <1>5
  <2>3. \A i \in 1 .. k + n : (a \o b)[i] = m[i]
    <3> SUFFICES ASSUME NEW i \in 1 .. k + n PROVE (a \o b)[i] = m[i]
      OBVIOUS
    <3>1. (a \o b)[i] = IF i <= k THEN a[i] ELSE b[i - k]
      BY <1>3, <1>4, <1>5
    <3>2. CASE i <= k
      BY <1>3, <3>1, <3>2
    <3>3. CASE ~(i <= k)
      <4>1. i - k \in 1 .. n /\ k + (i - k) = i
        BY <3>3
      <4> QED
        BY <1>4, <3>1, <3>3, <4>1
    <3> QED
      BY <3>2, <3>3
  <2>4. a \o b = c
    BY <1>5, <2>1, <2>2, <2>3, SeqEqual
  <2> QED
    BY <2>4 DEF c
<1>7. SubSeq(rest, n + 1, Len(rest)) = SubSeq(m, k + n + 1, Len(m))
  <2> DEFINE p == SubSeq(rest, n + 1, Len(rest))
             q == SubSeq(m, k + n + 1, Len(m))
  <2>1. /\ p \in Seq(U) /\ Len(p) = Len(m) - k - n
        /\ \A i \in 1 .. Len(m) - k - n : p[i] = m[k + n + i]
    <3>1. n \in 0 .. Len(rest) /\ Len(rest) - n = Len(m) - k - n
      BY <1>1, <1>2
    <3>2. /\ p \in Seq(U) /\ Len(p) = Len(rest) - n
          /\ \A i \in 1 .. Len(rest) - n : p[i] = rest[n + i]
      BY <1>1, <3>1, RestOf, Zenon
    <3>3. ASSUME NEW i \in 1 .. Len(m) - k - n PROVE p[i] = m[k + n + i]
      <4>1. n + i \in 1 .. Len(m) - k /\ k + (n + i) = k + n + i
        BY <1>2
      <4>2. p[i] = rest[n + i] /\ rest[n + i] = m[k + (n + i)]
        BY <1>1, <3>1, <3>2, <4>1, ZenonT(40)
      <4> QED
        BY <4>1, <4>2, Zenon
    <3> QED
      BY <3>1, <3>2, <3>3, Zenon
  <2>2. /\ q \in Seq(U) /\ Len(q) = Len(m) - k - n
        /\ \A i \in 1 .. Len(m) - k - n : q[i] = m[k + n + i]
    <3>1. Len(m) - (k + n) = Len(m) - k - n
      OBVIOUS
    <3> QED
      BY <1>2, <3>1, RestOf
  <2> HIDE DEF p, q
  <2>3. p = q
    BY <2>1, <2>2, SeqEqual
  <2> QED
    BY <2>3 DEF p, q
<1> QED
  BY <1>2, <1>6, <1>7 DEF rest, a, b

\* A request is a message with an envelope.
LEMMA RequestIsMessage ==
    ASSUME NEW e, NEW what
    PROVE  \E x, R : Twelve(request(e, what), "POST", x, R)
<1>1. \A x, R : Twelve(http_post(x, serialize_envelope(R)), "POST", x, R)
  BY EnvelopeMessages
<1>2. \E x, R : request(e, what) = http_post(x, serialize_envelope(R))
  BY DEF request
<1> QED
  BY <1>1, <1>2

\* The client connects: its request is on its way, or the handshake failed.
LEMMA SentConnect ==
    ASSUME SentInv, Connect PROVE Sent'
<1> USE DEF SentInv
<1>1. PICK e \in endpoints :
        /\ Reaches(e)
        /\ \/ channel' = "foreign"
           \/ up' = request(e, asks') /\ pc' = [client |-> "wait", server |-> "read"]
           \/ pc' = [r \in Role |-> "done"]
  BY DEF Connect
<1>2. /\ pc["server"] = "ready" /\ e.port = parse_port(config["server"].http_listen_addr)
      /\ UNCHANGED <<loaded, registry, data>> /\ data = <<>>
  BY <1>1 DEF Reaches, Connect, Begun
<1>3. e \in endpoints' /\ request(e, asks)' = request(e, asks')
  BY <1>2 DEF endpoints, request, service, loaded
<1>4. CASE channel' = "foreign"
  BY <1>4 DEF Sent
<1>5. CASE pc' = [r \in Role |-> "done"]
  BY <1>2, <1>5 DEF Sent, Role
<1>6. CASE up' = request(e, asks') /\ pc' = [client |-> "wait", server |-> "read"]
  <2> DEFINE m == request(e, asks')
  <2>1. PICK x, R : Twelve(m, "POST", x, R)
    BY RequestIsMessage
  <2> HIDE DEF m
  <2>2. PICK U : m \in Seq(U)
    BY <2>1 DEF Twelve
  <2>3. 0 \in 0 .. Len(m) /\ SubSeq(m, 1, 0) = <<>> /\ SubSeq(m, 0 + 1, Len(m)) = m
    BY <2>2
  <2>4. data' = SubSeq(m, 1, 0) /\ up' = SubSeq(m, 0 + 1, Len(m))
    BY <1>2, <1>6, <2>3 DEF m
  <2>5. Parted(m, data', up')
    BY <2>3, <2>4 DEF Parted
  <2>6. Parted(request(e, asks)', data', up')
    BY <1>3, <2>5 DEF m
  <2>7. Exchange(e)'
    BY <1>2, <1>6, <2>6 DEF Exchange, loaded
  <2> QED
    BY <1>3, <2>7 DEF Sent
<1> QED
  BY <1>1, <1>4, <1>5, <1>6

\* One read of the server leaves less of the request on its way.
LEMMA SentReads ==
    ASSUME SentInv, ServerReads PROVE Sent'
<1> USE DEF SentInv
<1> SUFFICES ASSUME channel' \in {"clear", "tls"} /\ ~faulty' PROVE Sent'
  BY DEF Sent
<1>1. /\ pc["server"] = "read" /\ UNCHANGED <<fixed, pc, channel, down, result, faulty>>
  BY DEF ServerReads
<1>2. PICK e \in endpoints : Exchange(e)
  BY <1>1 DEF Sent
<1> DEFINE m == request(e, asks)
<1>3. /\ e.port = parse_port(config["server"].http_listen_addr)
      /\ pc["client"] = "wait" /\ Parted(m, data, up)
  BY <1>1, <1>2 DEF Exchange
<1>4. e \in endpoints' /\ request(e, asks)' = m
  BY <1>1 DEF endpoints, request, service, fixed, loaded
<1>5. PICK x, R : Twelve(m, "POST", x, R)
  BY RequestIsMessage
<1> HIDE DEF m
<1>6. PICK U : m \in Seq(U)
  BY <1>5 DEF Twelve
<1>7. PICK k \in 0 .. Len(m) : data = SubSeq(m, 1, k) /\ up = SubSeq(m, k + 1, Len(m))
  BY <1>3 DEF Parted
<1>8. PICK n \in 1 .. Len(up) : /\ data' = data \o SubSeq(up, 1, n)
                               /\ up' = SubSeq(up, n + 1, Len(up))
  BY DEF ServerReads
<1>9. /\ k + n \in 0 .. Len(m) /\ data' = SubSeq(m, 1, k + n)
      /\ up' = SubSeq(m, k + n + 1, Len(m))
  <2>1. n \in 1 .. Len(SubSeq(m, k + 1, Len(m)))
    BY <1>7, <1>8
  <2> QED
    BY <1>6, <1>7, <1>8, <2>1, ReadsOn
<1>10. Parted(m, data', up')
  BY <1>9 DEF Parted
<1>11. Parted(request(e, asks)', data', up')
  BY <1>4, <1>10
<1>12. Exchange(e)'
  BY <1>1, <1>3, <1>11 DEF Exchange, fixed, loaded
<1> QED
  BY <1>4, <1>12 DEF Sent

\* The server answers the request when it has all of it.
LEMMA SentAnswers ==
    ASSUME SentInv, ServerAnswers PROVE Sent'
<1> USE DEF SentInv
<1> SUFFICES ASSUME channel' \in {"clear", "tls"} /\ ~faulty' PROVE Sent'
  BY DEF Sent
<1>1. /\ pc["server"] = "read" /\ is_request(data)
      /\ down' = answer(parse_envelope(request_body(data)))
      /\ pc' = [pc EXCEPT !["server"] = "done"]
      /\ UNCHANGED <<fixed, channel, data, result, faulty>>
  BY DEF ServerAnswers, Close
<1>2. PICK e \in endpoints : Exchange(e)
  BY <1>1 DEF Sent
<1> DEFINE m == request(e, asks)
<1>3. /\ e.port = parse_port(config["server"].http_listen_addr)
      /\ pc["client"] = "wait" /\ Parted(m, data, up)
  BY <1>1, <1>2 DEF Exchange
<1>4. e \in endpoints' /\ request(e, asks)' = m
  BY <1>1 DEF endpoints, request, service, fixed, loaded
<1>5. PICK x, R : Twelve(m, "POST", x, R)
  BY RequestIsMessage
<1> HIDE DEF m
<1>6. PICK U : m \in Seq(U)
  BY <1>5 DEF Twelve
<1>7. PICK k \in 0 .. Len(m) : data = SubSeq(m, 1, k)
  BY <1>3 DEF Parted
<1>8. data = m
  <2>1. CASE k = Len(m)
    BY <1>6, <1>7, <2>1
  <2>2. CASE k # Len(m)
    <3>1. k \in 0 .. 11
      <4>1. \A l : l = 12 /\ k \in 0 .. l /\ k # l => k \in 0 .. 11
        OBVIOUS
      <4> QED
        BY <1>5, <2>2, <4>1 DEF Twelve
    <3>2. ~is_request(SubSeq(m, 1, k))
      BY <1>5, <3>1, PartOfMessage
    <3> QED
      BY <1>1, <1>7, <3>2
  <2> QED
    BY <2>1, <2>2
<1>9. down' = answer(parse_envelope(request_body(data)))'
  BY <1>1 DEF answer, service, fixed, loaded
<1>10. pc'["client"] = "wait" /\ pc'["server"] = "done"
  BY <1>1, <1>3 DEF Shape, Role
<1>11. Exchange(e)'
  BY <1>1, <1>3, <1>4, <1>8, <1>9, <1>10 DEF Exchange, fixed, loaded
<1> QED
  BY <1>4, <1>11 DEF Sent

\* The client makes of the answer what it makes of it.
LEMMA SentRead ==
    ASSUME SentInv, ClientReads PROVE Sent'
<1> USE DEF SentInv
<1> SUFFICES ASSUME channel' \in {"clear", "tls"} /\ ~faulty' PROVE Sent'
  BY DEF Sent
<1>1. /\ pc["client"] = "wait" /\ pc["server"] = "done"
      /\ result' = outcome(parse_envelope(response_body(down)))
      /\ pc' = [pc EXCEPT !["client"] = "done"]
      /\ UNCHANGED <<fixed, channel, up, down, data, faulty>>
  BY DEF ClientReads
<1>2. PICK e \in endpoints : Exchange(e)
  BY <1>1 DEF Sent
<1>3. /\ e.port = parse_port(config["server"].http_listen_addr)
      /\ data = request(e, asks) /\ down = answer(parse_envelope(request_body(data)))
  BY <1>1, <1>2 DEF Exchange
<1>4. e \in endpoints' /\ request(e, asks)' = request(e, asks)
  BY <1>1 DEF endpoints, request, service, fixed, loaded
<1>5. answer(parse_envelope(request_body(data)))' = answer(parse_envelope(request_body(data)))
  BY <1>1 DEF answer, service, fixed, loaded
<1>6. outcome(parse_envelope(response_body(down)))' = outcome(parse_envelope(response_body(down)))
  BY <1>1 DEF outcome, service, fixed, loaded
<1>7. pc'["client"] = "done" /\ pc'["server"] = "done"
  BY <1>1 DEF Shape, Role
<1>8. Exchange(e)'
  BY <1>1, <1>3, <1>4, <1>5, <1>6, <1>7 DEF Exchange, fixed, loaded
<1> QED
  BY <1>4, <1>8 DEF Sent

LEMMA SentStep == SentInv /\ [Next]_vars => Sent'
<1> SUFFICES ASSUME SentInv, [Next]_vars PROVE Sent'
  OBVIOUS
<1> USE DEF SentInv
\* there is no undisturbed connection, or its ends are past this step
<1>1. ASSUME UNCHANGED <<channel, faulty>>, \E r \in Role : pc[r] \in {"start", "ready"}
      PROVE  Sent'
  BY <1>1 DEF Sent, Exchange, Role
<1>2. ASSUME NEW r \in Role, Start(r) \/ StartFails(r) PROVE Sent'
  BY <1>1, <1>2 DEF Start, StartFails
<1>3. CASE Hear \/ ConnectFails
  BY <1>1, <1>3 DEF Hear, ConnectFails, Role
<1>4. CASE HandshakeFails
  BY <1>4 DEF HandshakeFails, Close, Sent
<1>5. CASE ServerRefuses
  <2>1. pc["server"] = "read" /\ pc["client"] = "done" /\ UNCHANGED <<channel, faulty>>
    BY <1>5 DEF ServerRefuses, Close
  <2> QED
    BY <2>1 DEF Sent, Exchange
<1>6. CASE ServerTimeout
  BY <1>6 DEF ServerTimeout, Close, Sent
<1>7. CASE ServerDies \/ ClientGivesUp
  BY <1>7 DEF ServerDies, ClientGivesUp, Sent
<1>8. CASE UNCHANGED vars
  <2>1. endpoints' = endpoints /\ UNCHANGED <<channel, faulty, data, pc>>
    BY <1>8 DEF vars, endpoints
  <2>2. ASSUME NEW e PROVE Exchange(e)' = Exchange(e)
    BY <1>8 DEF vars, Exchange, request, answer, outcome, service
  <2> QED
    BY <2>1, <2>2 DEF Sent
<1> QED
  BY <1>2, <1>3, <1>4, <1>5, <1>6, <1>7, <1>8, SentConnect, SentReads, SentAnswers, SentRead
     DEF Next, ServerStep

-----------------------------------------------------------------------------
(* What the configuration has                                              *)

LEMMA MinIn ==
    ASSUME NEW S \in SUBSET (1 .. 7), S # {}
    PROVE  Min(S) \in S
<1>1. \E m \in S : \A y \in S : m <= y
  <2>1. ASSUME NEW m \in S, \A i \in 1 .. 7 : i < m => i \notin S
        PROVE  \A y \in S : m <= y
    BY <2>1
  <2>2. CASE 1 \in S
    BY <2>1, <2>2
  <2>3. CASE 1 \notin S /\ 2 \in S
    BY <2>1, <2>3
  <2>4. CASE 1 \notin S /\ 2 \notin S /\ 3 \in S
    BY <2>1, <2>4
  <2>5. CASE 1 \notin S /\ 2 \notin S /\ 3 \notin S
    <3>1. S \subseteq 4 .. 7
      BY <2>5
    <3>2. CASE 4 \in S
      BY <3>1, <3>2
    <3>3. CASE 4 \notin S /\ 5 \in S
      BY <3>1, <3>3
    <3>4. CASE 4 \notin S /\ 5 \notin S /\ 6 \in S
      BY <3>1, <3>4
    <3>5. CASE 4 \notin S /\ 5 \notin S /\ 6 \notin S
      <4>1. \A y \in S : y = 7
        BY <3>1, <3>5
      <4>2. 7 \in S
        BY <4>1
      <4> QED
        BY <4>1, <4>2
    <3> QED
      BY <3>2, <3>3, <3>4, <3>5
  <2> QED
    BY <2>2, <2>3, <2>4, <2>5
<1> QED
  BY <1>1 DEF Min

\* The sources of a process, as the assumption has them.
HasTexts(s) ==
    /\ s = [args |-> s.args, env |-> s.env, file |-> s.file]
    /\ \A o \in DOMAIN s.args : IsText(s.args[o])
    /\ \A o \in DOMAIN s.env : IsText(s.env[o])

LEMMA PlainIsText == ASSUME NEW t PROVE IsText(Plain(t))
  BY DEF IsText, Plain

\* What a source has of an option is a text.
LEMMA ResolvedText ==
    ASSUME NEW s, HasTexts(s), NEW o, resolve_string(s, o) # None
    PROVE  IsText(resolve_string(s, o))
<1> DEFINE file == read_config_file(s)
           given3 == <<s.args, s.env, file>>
           hits == {i \in 1 .. 3 : o \in DOMAIN given3[i] /\ TRUE}
<1>1. resolve_string(s, o) = IF hits = {} THEN None ELSE given3[Min(hits)][o]
  BY DEF resolve_string, resolve
<1>2. o \in DOMAIN file => IsText(file[o])
  <2> SUFFICES ASSUME o \in DOMAIN file PROVE IsText(file[o])
    OBVIOUS
  <2>1. file = <<>> \/ file = parse_config_key_values(s.file.lines)
    BY DEF read_config_file
  <2>2. file # <<>>
    OBVIOUS
  <2>3. \E v : file[o] = trim(v)
    BY <2>1, <2>2 DEF parse_config_key_values
  <2> QED
    BY <2>3, PlainIsText DEF trim
<1> HIDE DEF file
<1>3. \A i \in 1 .. 3 : o \in DOMAIN given3[i] => IsText(given3[i][o])
  <2>1. given3[1] = s.args /\ given3[2] = s.env /\ given3[3] = file
    OBVIOUS
  <2> HIDE DEF given3
  <2>2. \A i \in 1 .. 3 : i = 1 \/ i = 2 \/ i = 3
    OBVIOUS
  <2> QED
    BY <1>2, <2>1, <2>2, Zenon DEF HasTexts
<1>4. hits # {}
  BY <1>1
<1>5. hits \in SUBSET (1 .. 7)
  OBVIOUS
<1>6. Min(hits) \in hits
  <2> HIDE DEF hits
  <2> QED
    BY <1>4, <1>5, MinIn
<1> HIDE DEF given3
<1> QED
  BY <1>1, <1>3, <1>4, <1>6

\* A configuration without an error has a sid and a token without blanks.
LEMMA TrimmedNames ==
    ASSUME NEW s, config_error(s, FALSE) = "Ok"
    PROVE  /\ app_config(s).sid = trim(app_config(s).sid)
           /\ app_config(s).sid_token = trim(app_config(s).sid_token)
<1> DEFINE sid == resolve_string(s, "sid")
           token == resolve_string(s, "sid_token")
           checks ==
          << <<s.file.given /\ ~s.file.readable, "ConfigFileReadFailed">>,
             <<FALSE /\ sid = None /\ token = None, "Absent">>,
             <<sid = None, "MissingSid">>,
             <<sid # None /\ normalize_non_empty(sid) = None, "InvalidSid">>,
             <<token = None, "MissingSidToken">>,
             <<token # None /\ normalize_non_empty(token) = None, "InvalidSidToken">>,
             <<resolve_u64(s, "sync_interval_secs") = 0, "InvalidSyncInterval">> >>
           failed == {i \in DOMAIN checks : checks[i][1]}
<1>1. config_error(s, FALSE) = IF failed = {} THEN "Ok" ELSE checks[Min(failed)][2]
  BY DEF config_error
<1> HIDE DEF sid, token
<1>2. DOMAIN checks = 1 .. 7 /\ \A i \in 1 .. 7 : checks[i][2] # "Ok"
  OBVIOUS
<1>3. /\ checks[3][1] = (sid = None)
      /\ checks[4][1] = (sid # None /\ normalize_non_empty(sid) = None)
      /\ checks[5][1] = (token = None)
      /\ checks[6][1] = (token # None /\ normalize_non_empty(token) = None)
  OBVIOUS
<1> HIDE DEF checks
<1>4. failed = {}
  <2> SUFFICES ASSUME failed # {} PROVE FALSE
    OBVIOUS
  <2>1. failed \in SUBSET (1 .. 7)
    BY <1>2
  <2> HIDE DEF failed
  <2>2. Min(failed) \in 1 .. 7
    BY <2>1, MinIn
  <2> QED
    BY <1>1, <1>2, <2>2
<1>5. ~checks[3][1] /\ ~checks[4][1] /\ ~checks[5][1] /\ ~checks[6][1]
  BY <1>2, <1>4
<1>6. /\ sid # None /\ normalize_non_empty(sid) # None
      /\ token # None /\ normalize_non_empty(token) # None
  BY <1>3, <1>5
<1>7. normalize_non_empty(sid) = Plain(sid.text) /\ normalize_non_empty(token) = Plain(token.text)
  BY <1>6 DEF normalize_non_empty, trim
<1>8. app_config(s).sid = normalize_non_empty(sid)
      /\ app_config(s).sid_token = normalize_non_empty(token)
  BY DEF app_config, sid, token
<1> QED
  BY <1>7, <1>8 DEF trim, Plain

\* The participant id is a text.
LEMMA ParticipantText ==
    ASSUME NEW s, HasTexts(s)
    PROVE  IsText(app_config(s).participant_id)
<1> DEFINE p == resolve_string(s, "participant_id")
           host == IF "HOSTNAME" \in DOMAIN s.env THEN s.env["HOSTNAME"]
                   ELSE Plain("unknown-participant")
<1>1. app_config(s).participant_id = IF p = None THEN host ELSE p
  BY DEF app_config, or_default
<1>2. p # None => IsText(p)
  BY ResolvedText
<1>3. IsText(host)
  <2>1. IsText(Plain("unknown-participant"))
    BY PlainIsText
  <2>2. "HOSTNAME" \in DOMAIN s.env => IsText(s.env["HOSTNAME"])
    BY DEF HasTexts
  <2> QED
    BY <2>1, <2>2
<1> HIDE DEF p, host
<1> QED
  BY <1>1, <1>2, <1>3

\* The endpoints a client may ask have ids without blanks.
LEMMA EndpointTrimmed ==
    ASSUME Begun, NEW e \in endpoints
    PROVE  e.participant_id = trim(e.participant_id)
<1>1. CASE e \in registry
  BY <1>1 DEF Begun
<1>2. CASE e \notin registry
  <2>1. PICK t : e = parse_bootstrap_peer(t) /\ e # None
    BY <1>2 DEF endpoints
  <2>2. e.participant_id = Plain(PeerText[t].id)
    BY <2>1 DEF parse_bootstrap_peer
  <2> QED
    BY <2>2 DEF trim, Plain
<1> QED
  BY <1>1, <1>2

-----------------------------------------------------------------------------
(* The exchange                                                            *)

\* A signed envelope without blanks around its names arrives as it was and
\* verifies.
LEMMA SignedVerifies ==
    ASSUME NEW sid, NEW token, NEW sender, NEW ctx, NEW body, NEW E,
           E = sign_envelope(sid, token, sender, 0, 0, ctx, body),
           sid = trim(sid), sender = trim(sender)
    PROVE  /\ Trimmed(E) = E /\ verify_envelope(E, token, sid)
           /\ E.context = ctx /\ E.body = body
<1>1. /\ E.sid = sid /\ E.sender_id = sender /\ E.timestamp_secs = 0 /\ E.nonce = 0
      /\ E.context = ctx /\ E.body = body
      /\ E.signature = hmac_signature_hex(token, <<sid, sender, 0, 0, ctx, body>>)
  BY DEF sign_envelope, canonical_payload
<1>2. canonical_payload(E) = <<sid, sender, 0, 0, ctx, body>>
  BY <1>1 DEF canonical_payload
<1>3. E.signature.hex
  BY <1>1 DEF hmac_signature_hex
<1>4. E = [sid |-> E.sid, sender_id |-> E.sender_id, timestamp_secs |-> E.timestamp_secs,
           nonce |-> E.nonce, signature |-> E.signature, context |-> E.context,
           body |-> E.body]
  BY DEF sign_envelope
<1>5. Trimmed(E) = E
  BY <1>1, <1>4 DEF Trimmed
<1> QED
  BY <1>1, <1>2, <1>3, <1>5 DEF verify_envelope

\* The bodies of envelopes are the hexadecimal form of something.
LEMMA BodiesAreHex ==
    ASSUME NEW a, NEW b, NEW c, NEW d
    PROVE  /\ [request |-> a] # NotHex
           /\ [participant_id |-> a, address |-> b, port |-> c, public_key |-> d] # NotHex
           /\ [sid |-> a, participant_id |-> b, public_key |-> c] # NotHex
           /\ [status |-> a, participant_id |-> b] # NotHex
<1>1. /\ "request" \in DOMAIN [request |-> a]
      /\ "port" \in DOMAIN [participant_id |-> a, address |-> b, port |-> c, public_key |-> d]
      /\ "sid" \in DOMAIN [sid |-> a, participant_id |-> b, public_key |-> c]
      /\ "status" \in DOMAIN [status |-> a, participant_id |-> b]
  OBVIOUS
<1>2. /\ "request" \notin DOMAIN NotHex /\ "port" \notin DOMAIN NotHex
      /\ "sid" \notin DOMAIN NotHex /\ "status" \notin DOMAIN NotHex
  BY DEF NotHex
<1> QED
  BY <1>1, <1>2, Zenon

\* Two services of a group, and an endpoint, with texts as the code has them.
OneGroup(C, S, e) ==
    /\ C.sid = S.sid /\ C.sid_token = S.sid_token
    /\ S.sid = trim(S.sid) /\ S.participant_id = trim(S.participant_id)
    /\ e.participant_id = trim(e.participant_id)

\* The server has the envelope of a request as the client signed it, and the
\* client that of the answer as the server did.
LEMMA RequestArrives ==
    ASSUME NEW C, NEW S, NEW e, OneGroup(C, S, e), NEW path, NEW body, body # NotHex, NEW E,
           E = sign_http_request(C, path, e.participant_id, body),
           NEW m, m = http_post(path, serialize_envelope(E))
    PROVE  /\ request_path(m) = path
           /\ parse_envelope(request_body(m)) = E /\ E # InvalidEnvelope
           /\ verify_envelope(E, S.sid_token, S.sid)
           /\ E.context = HttpRequest("POST", path) /\ E.body = body
<1>1. /\ Trimmed(E) = E /\ verify_envelope(E, S.sid_token, S.sid)
      /\ E.context = HttpRequest("POST", path) /\ E.body = body
  BY SignedVerifies DEF sign_http_request, OneGroup
<1>2. Twelve(m, "POST", path, E)
  BY EnvelopeMessages
<1>3. parse_envelope(request_body(m)) = Trimmed(E) /\ Trimmed(E) # InvalidEnvelope
  <2>1. E.body # NotHex /\ "POST" # "Content-Length"
    BY <1>1
  <2> QED
    BY <1>2, <2>1, WholeMessage
<1>4. request_path(m) = path
  BY <1>2 DEF Twelve, IsHead, request_path
<1> QED
  BY <1>1, <1>3, <1>4

LEMMA AnswerArrives ==
    ASSUME NEW C, NEW S, NEW e, OneGroup(C, S, e), NEW path, NEW code, NEW body, body # NotHex,
           NEW R, R = sign_http_response(S, path, code, body),
           NEW m, m = http_response(200, serialize_envelope(R))
    PROVE  /\ header_end(m) # 0
           /\ parse_envelope(response_body(m)) = R /\ R # InvalidEnvelope
           /\ verify_envelope(R, C.sid_token, C.sid)
           /\ R.context = HttpResponse(code, path) /\ R.body = body
<1>1. /\ Trimmed(R) = R /\ verify_envelope(R, C.sid_token, C.sid)
      /\ R.context = HttpResponse(code, path) /\ R.body = body
  BY SignedVerifies DEF sign_http_response, OneGroup
<1>2. Twelve(m, "HTTP/1.1", 200, R)
  BY EnvelopeMessages
<1>3. /\ header_end(m) = 5
      /\ parse_envelope(response_body(m)) = Trimmed(R) /\ Trimmed(R) # InvalidEnvelope
  <2>1. R.body # NotHex /\ "HTTP/1.1" # "Content-Length"
    BY <1>1
  <2> QED
    BY <1>2, <2>1, WholeMessage
<1> QED
  BY <1>1, <1>3

\* handle_http_connection answers a request for a key with the server's,
LEMMA GetSucceeds ==
    ASSUME NEW C, NEW S, NEW e, OneGroup(C, S, e), NEW Port, NEW Key, NEW m, NEW d,
           m = http_post(PATH_GET_PUBLIC_KEY,
                 serialize_envelope(build_get_public_key_request(C, e.participant_id))),
           d = handle_http_connection(S, request_path(m), parse_envelope(request_body(m)),
                                      Port, Key)
    PROVE  /\ header_end(d) # 0 /\ parse_envelope(response_body(d)) # InvalidEnvelope
           /\ accepts_public_key_response(C, parse_envelope(response_body(d)))
           /\ parse_envelope(response_body(d)).body.public_key = S.public_key
<1> DEFINE asked == [request |-> "public_key"]
           E == sign_http_request(C, PATH_GET_PUBLIC_KEY, e.participant_id, asked)
           said == [sid |-> S.sid, participant_id |-> S.participant_id,
                    public_key |-> S.public_key]
           R == sign_http_response(S, PATH_GET_PUBLIC_KEY, 200, said)
<1>1. build_get_public_key_request(C, e.participant_id) = E /\ get_public_key_response(S) = R
  BY DEF build_get_public_key_request, get_public_key_response
<1>2. asked # NotHex /\ said # NotHex
  BY BodiesAreHex
<1>3. /\ {"sid", "participant_id", "public_key"} \subseteq DOMAIN said
      /\ said.public_key = S.public_key
  OBVIOUS
<1> HIDE DEF asked, said
<1>4. /\ request_path(m) = PATH_GET_PUBLIC_KEY
      /\ parse_envelope(request_body(m)) = E /\ E # InvalidEnvelope
      /\ verify_envelope(E, S.sid_token, S.sid)
      /\ E.context = HttpRequest("POST", PATH_GET_PUBLIC_KEY)
  <2> HIDE DEF E
  <2> QED
    BY <1>1, <1>2, RequestArrives DEF E
<1> HIDE DEF E, R
<1>5. d = http_response(200, serialize_envelope(R))
  <2>1. accepts_get_public_key_request(S, E)
    BY <1>4 DEF accepts_get_public_key_request, expect_http_request_context
  <2>2. d = http_response(200, serialize_envelope(get_public_key_response(S)))
    BY <1>4, <2>1, Zenon DEF handle_http_connection
  <2> QED
    BY <1>1, <2>2, Zenon
<1>6. /\ header_end(d) # 0
      /\ parse_envelope(response_body(d)) = R /\ R # InvalidEnvelope
      /\ verify_envelope(R, C.sid_token, C.sid)
      /\ R.context = HttpResponse(200, PATH_GET_PUBLIC_KEY) /\ R.body = said
  BY <1>2, <1>5, AnswerArrives DEF R
<1> QED
  BY <1>3, <1>6 DEF accepts_public_key_response, expect_http_response_context

\* and accepts a participant with a port and a key.
LEMMA PublishSucceeds ==
    ASSUME NEW C, NEW S, NEW e, OneGroup(C, S, e), NEW Port, NEW Key, NEW m, NEW d,
           NEW asked, asked # NotHex, parse_publish_request(asked, Port),
           asked.public_key \in Key,
           m = http_post(PATH_PUBLISH_PARTICIPANT,
                 serialize_envelope(build_publish_request(C, e.participant_id, asked))),
           d = handle_http_connection(S, request_path(m), parse_envelope(request_body(m)),
                                      Port, Key)
    PROVE  /\ header_end(d) # 0 /\ parse_envelope(response_body(d)) # InvalidEnvelope
           /\ verify_envelope(parse_envelope(response_body(d)), C.sid_token, C.sid)
           /\ expect_http_response_context(parse_envelope(response_body(d)), 202,
                                           PATH_PUBLISH_PARTICIPANT)
<1> DEFINE E == sign_http_request(C, PATH_PUBLISH_PARTICIPANT, e.participant_id, asked)
           said == [status |-> "accepted", participant_id |-> E.body.participant_id]
           R == sign_http_response(S, PATH_PUBLISH_PARTICIPANT, 202, said)
<1>1. build_publish_request(C, e.participant_id, asked) = E /\ publish_response(S, E) = R
  BY DEF build_publish_request, publish_response
<1>2. said # NotHex
  <2> HIDE DEF E
  <2> QED
    BY BodiesAreHex
<1> HIDE DEF said
<1>3. /\ request_path(m) = PATH_PUBLISH_PARTICIPANT
      /\ parse_envelope(request_body(m)) = E /\ E # InvalidEnvelope
      /\ verify_envelope(E, S.sid_token, S.sid)
      /\ E.context = HttpRequest("POST", PATH_PUBLISH_PARTICIPANT) /\ E.body = asked
  <2>1. m = http_post(PATH_PUBLISH_PARTICIPANT, serialize_envelope(E))
    BY <1>1
  <2> HIDE DEF E
  <2> QED
    BY <2>1, RequestArrives DEF E
<1> HIDE DEF E, R
<1>4. PATH_PUBLISH_PARTICIPANT # PATH_GET_PUBLIC_KEY
  BY DEF PATH_PUBLISH_PARTICIPANT, PATH_GET_PUBLIC_KEY
<1>5. d = http_response(200, serialize_envelope(R))
  <2>1. accepts_publish_request(S, E, Port, Key)
    BY <1>3 DEF accepts_publish_request, expect_http_request_context
  <2>2. d = handle_http_connection(S, PATH_PUBLISH_PARTICIPANT, E, Port, Key)
    BY <1>3
  <2>3. d = http_response(200, serialize_envelope(publish_response(S, E)))
    BY <1>3, <1>4, <2>1, <2>2, Zenon DEF handle_http_connection
  <2> QED
    BY <1>1, <2>3, Zenon
<1>6. /\ header_end(d) # 0
      /\ parse_envelope(response_body(d)) = R /\ R # InvalidEnvelope
      /\ verify_envelope(R, C.sid_token, C.sid)
      /\ R.context = HttpResponse(202, PATH_PUBLISH_PARTICIPANT)
  BY <1>2, <1>5, AnswerArrives DEF R
<1> QED
  BY <1>6 DEF expect_http_response_context

\* What the two ends have, when they are of one group and the server's id has
\* no blanks around it.
LEMMA ConfiguredGroup ==
    ASSUME SentInv, NEW e \in endpoints, Running("client"), Running("server"), SameGroup,
           ~config["server"].participant_id.padded
    PROVE  OneGroup(service("client"), service("server"), e)
<1> USE DEF SentInv
<1> DEFINE c == Sources["client"][given["client"]]
           s == Sources["server"][given["server"]]
<1>1. /\ given["client"] \in DOMAIN Sources["client"] /\ config["client"] = app_config(c)
      /\ given["server"] \in DOMAIN Sources["server"] /\ config["server"] = app_config(s)
  BY DEF Loaded, Role
<1>2. config_error(c, FALSE) = "Ok" /\ config_error(s, FALSE) = "Ok"
  BY DEF Begun, Starts, Role
<1>3. HasTexts(s)
  BY <1>1, SourcesAssumption DEF HasTexts, Role
<1> HIDE DEF c, s
<1>4. /\ config["client"].sid = trim(config["client"].sid)
      /\ config["client"].sid_token = trim(config["client"].sid_token)
  BY <1>1, <1>2, TrimmedNames
<1>5. /\ config["server"].sid = trim(config["server"].sid)
      /\ config["server"].sid_token = trim(config["server"].sid_token)
  BY <1>1, <1>2, TrimmedNames
<1>6. /\ config["client"].sid = config["server"].sid
      /\ config["client"].sid_token = config["server"].sid_token
  BY <1>4, <1>5 DEF SameGroup, trim
<1>7. config["server"].participant_id = trim(config["server"].participant_id)
  <2> DEFINE p == config["server"].participant_id
  <2>1. IsText(p)
    BY <1>1, <1>3, ParticipantText
  <2> HIDE DEF p
  <2>2. ~p.padded
    BY DEF p
  <2>3. p.padded = FALSE
    BY <2>1, <2>2, Zenon DEF IsText
  <2>4. p = trim(p)
    BY <2>1, <2>3 DEF IsText, trim, Plain
  <2> QED
    BY <2>4 DEF p
<1>8. e.participant_id = trim(e.participant_id)
  BY EndpointTrimmed
<1> QED
  BY <1>5, <1>6, <1>7, <1>8 DEF OneGroup, service

\* The address the server listens at has a port, and the table knows it.
LEMMA ServerHasPort ==
    ASSUME SentInv, Running("server")
    PROVE  parse_port(config["server"].http_listen_addr)
             \in {a.port : a \in Range(Address)} \ {NoPort}
<1> USE DEF SentInv
<1> DEFINE s == Sources["server"][given["server"]]
           l == config["server"].http_listen_addr
<1>1. given["server"] \in DOMAIN Sources["server"] /\ config["server"] = app_config(s)
  BY DEF Loaded, Role
<1>2. config_error(s, FALSE) = "Ok" /\ HasPorts(app_config(s))
  BY DEF Begun, Starts, Role
<1>3. l.text \in DOMAIN Address
  BY <1>1, <1>2, AddressAssumption
<1>4. parse_port(l) # NoPort
  BY <1>1, <1>2 DEF HasPorts
<1> HIDE DEF l
<1>5. Address[l.text] \in Range(Address) /\ parse_port(l) = Address[l.text].port
  BY <1>3 DEF Range, parse_port
<1> QED
  BY <1>4, <1>5 DEF l

LEMMA ExchangeGood ==
    ASSUME SentInv, pc["client"] = "done", data # <<>>, ~faulty, channel = "clear",
           SameGroup, ~config["server"].participant_id.padded
    PROVE  result \notin {None, "Err"}
<1> USE DEF SentInv
<1>1. PICK e \in endpoints : Exchange(e)
  BY DEF Sent
<1> DEFINE C == service("client")
           S == service("server")
           P == {a.port : a \in Range(Address)} \ {NoPort}
           K == Range(PublicKey)
           d == handle_http_connection(S, request_path(data),
                                       parse_envelope(request_body(data)), P, K)
<1>2. /\ e.port = parse_port(config["server"].http_listen_addr) /\ pc["server"] = "done"
      /\ data = request(e, asks) /\ down = d
      /\ result = outcome(parse_envelope(response_body(down)))
  BY <1>1 DEF Exchange, answer
<1>3. Running("client") /\ Running("server")
  BY <1>2 DEF Running
<1>4. OneGroup(C, S, e)
  BY <1>3, ConfiguredGroup
<1>5. e.port \in P
  BY <1>2, <1>3, ServerHasPort
<1>6. /\ C.sid = config["client"].sid /\ C.sid_token = config["client"].sid_token
      /\ S.public_key = PublicKey["server"]
  BY DEF service
<1>7. PublicKey["client"] \in K
  BY ResultAssumption DEF Range, Role
<1> DEFINE r == parse_envelope(response_body(down))
<1>8. channel # "tls"
  OBVIOUS
<1>9. CASE asks = "get"
  <2>1. data = http_post(PATH_GET_PUBLIC_KEY,
                 serialize_envelope(build_get_public_key_request(C, e.participant_id)))
    BY <1>2, <1>9 DEF request
  <2> HIDE DEF C, S, P, K
  <2>2. /\ header_end(down) # 0 /\ r # InvalidEnvelope
        /\ accepts_public_key_response(C, r)
        /\ r.body.public_key = S.public_key
    <3>1. down = handle_http_connection(S, request_path(data),
                                        parse_envelope(request_body(data)), P, K)
      BY <1>2
    <3> QED
      BY <1>4, <2>1, <3>1, GetSucceeds
  <2>3. outcome(r) = S.public_key
    <3> HIDE DEF r
    <3> QED
      BY <1>8, <1>9, <2>2 DEF outcome, C
  <2> QED
    BY <1>2, <1>6, <2>3, ResultAssumption DEF Role
<1>10. CASE asks # "get"
  <2>1. data = http_post(PATH_PUBLISH_PARTICIPANT,
                 serialize_envelope(build_publish_request(C, e.participant_id,
                   [participant_id |-> e.participant_id, address |-> e.address,
                    port |-> e.port, public_key |-> PublicKey["client"]])))
    BY <1>2, <1>10 DEF request
  <2> HIDE DEF C, S, P, K
  <2>2. /\ header_end(down) # 0 /\ r # InvalidEnvelope
        /\ verify_envelope(r, C.sid_token, C.sid)
        /\ expect_http_response_context(r, 202, PATH_PUBLISH_PARTICIPANT)
    <3> DEFINE asked == [participant_id |-> e.participant_id, address |-> e.address,
                         port |-> e.port, public_key |-> PublicKey["client"]]
    <3>1. down = handle_http_connection(S, request_path(data),
                                        parse_envelope(request_body(data)), P, K)
      BY <1>2
    <3>2. parse_publish_request(asked, P) /\ asked.public_key \in K
      BY <1>5, <1>7 DEF parse_publish_request
    <3>3. asked # NotHex
      BY BodiesAreHex
    <3>4. data = http_post(PATH_PUBLISH_PARTICIPANT,
                   serialize_envelope(build_publish_request(C, e.participant_id, asked)))
      BY <2>1
    <3> HIDE DEF asked
    <3> QED
      BY <1>4, <3>1, <3>2, <3>3, <3>4, PublishSucceeds, SMTT(30)
  <2>3. asks = "publish"
    BY <1>10 DEF Shape
  <2>4. outcome(r) = "Ok"
    <3> HIDE DEF r
    <3> QED
      BY <1>6, <1>8, <2>2, <2>3 DEF outcome
  <2> QED
    BY <1>2, <2>4, ResultAssumption
<1> QED
  BY <1>9, <1>10

\* For any configurations without TLS, keys and pieces the bytes are read in,
\* two processes of a group whose connection stays up exchange the key: the
\* client of src/src/runtime.rs ends neither with an error nor without a result.
THEOREM GroupExchangesKeys == Spec => []ExchangeSucceeds
<1>1. SentInv /\ [Next]_vars => SentInv'
  BY ShapeStep, DownStep, LoadedStep, BegunStep, SentStep DEF SentInv
<1>2. SentInv => ExchangeSucceeds
  BY ExchangeGood DEF ExchangeSucceeds
<1> QED
  BY SentInit, <1>1, <1>2, PTL DEF Spec

-----------------------------------------------------------------------------
(* What the client has heard                                               *)

\* The participant in the client's registry is the server as it is configured.
\* It is of the client's group, and there are no blanks around its id.
Heard ==
    \A a \in registry : LET c == config["server"] IN
        /\ config["client"].sid = c.sid /\ config["client"].sid_token = c.sid_token
        /\ c.participant_id = trim(c.participant_id)
        /\ a = [participant_id |-> c.participant_id,
                address |-> trim(advertised_address(c.http_listen_addr, c.participant_id)),
                port |-> parse_port(c.http_listen_addr)]

HeardInv == Heard /\ (registry # {} => \A r \in Role : pc[r] # "start")

\* An envelope that verifies once it was written and parsed was signed with
\* that token for that sid, and by someone without blanks around the id.
LEMMA VerifiedSender ==
    ASSUME NEW sid, NEW token, NEW sender, NEW ctx, NEW body, NEW E,
           E = sign_envelope(sid, token, sender, 0, 0, ctx, body),
           NEW mytoken, NEW mysid, verify_envelope(Trimmed(E), mytoken, mysid)
    PROVE  /\ sid = mysid /\ token = mytoken /\ sender = trim(sender)
           /\ Trimmed(E).body = body
<1>1. /\ E.sid = sid /\ E.sender_id = sender /\ E.timestamp_secs = 0 /\ E.nonce = 0
      /\ E.context = ctx /\ E.body = body
      /\ E.signature = hmac_signature_hex(token, <<sid, sender, 0, 0, ctx, body>>)
  BY DEF sign_envelope, canonical_payload
<1> DEFINE T == Trimmed(E)
<1>2. /\ T.sid = trim(sid) /\ T.sender_id = trim(sender) /\ T.timestamp_secs = 0
      /\ T.nonce = 0 /\ T.context = ctx /\ T.body = body /\ T.signature = E.signature
  BY <1>1 DEF Trimmed
<1>3. canonical_payload(T) = <<trim(sid), trim(sender), 0, 0, ctx, body>>
  BY <1>2 DEF canonical_payload
<1>4. /\ hmac_signature_hex(token, <<sid, sender, 0, 0, ctx, body>>)
            = hmac_signature_hex(mytoken, <<trim(sid), trim(sender), 0, 0, ctx, body>>)
      /\ trim(sid) = mysid
  BY <1>1, <1>2, <1>3 DEF verify_envelope
<1>5. /\ token = mytoken
      /\ <<sid, sender, 0, 0, ctx, body>> = <<trim(sid), trim(sender), 0, 0, ctx, body>>
  BY <1>4 DEF hmac_signature_hex
<1>6. sid = trim(sid) /\ sender = trim(sender)
  BY <1>5
<1> QED
  BY <1>2, <1>4, <1>5, <1>6

\* handle_udp_announcements takes the datagram for what the server wrote.
LEMMA HearsServer ==
    ASSUME Hear PROVE Heard'
<1> DEFINE c == config["server"]
           place == advertised_address(c.http_listen_addr, c.participant_id)
           port == parse_port(c.http_listen_addr)
           body == [sid |-> c.sid, participant_id |-> c.participant_id, address |-> place,
                    port |-> port, public_key |-> PublicKey["server"]]
           E == sign_envelope(c.sid, c.sid_token, c.participant_id, 0, 0, UdpAnnouncement, body)
           e == parse_envelope(announcement)
           a == parse_announcement_payload(e.body)
<1>1. /\ verify_envelope(e, config["client"].sid_token, config["client"].sid)
      /\ registry' = {[participant_id |-> a.participant_id, address |-> a.address,
                       port |-> a.port]}
      /\ UNCHANGED config
  BY DEF Hear, accepts_announcement, loaded
<1>2. announcement = serialize_envelope(E)
  BY DEF announcement
<1>3. E.body = body
  BY DEF sign_envelope
<1>4. body # NotHex
  <2>1. "sid" \in DOMAIN body /\ "sid" \notin DOMAIN NotHex
    BY DEF NotHex
  <2> HIDE DEF body
  <2> QED
    BY <2>1, Zenon
<1>b. /\ body.participant_id = c.participant_id /\ body.address = place /\ body.port = port
  OBVIOUS
<1> HIDE DEF c, place, port, body
<1>5. e = Trimmed(E)
  <2> HIDE DEF E
  <2>1. DOMAIN serialize_envelope(E) = 1 .. 7
    BY DEF serialize_envelope
  <2> QED
    BY <1>2, <1>3, <1>4, <2>1, ParsedBack
<1>6. /\ c.sid = config["client"].sid /\ c.sid_token = config["client"].sid_token
      /\ c.participant_id = trim(c.participant_id) /\ e.body = body
  <2> HIDE DEF e
  <2> QED
    BY <1>1, <1>5, VerifiedSender
<1>7. /\ a.participant_id = c.participant_id /\ a.address = trim(place) /\ a.port = port
  BY <1>b, <1>6 DEF parse_announcement_payload
<1> HIDE DEF a
<1>8. registry' = {[participant_id |-> c.participant_id, address |-> trim(place), port |-> port]}
  BY <1>1, <1>7
<1> QED
  BY <1>1, <1>6, <1>8 DEF Heard, c, place, port

LEMMA HeardStep == Shape /\ HeardInv /\ [Next]_vars => HeardInv'
<1> SUFFICES ASSUME Shape, HeardInv, [Next]_vars PROVE HeardInv'
  OBVIOUS
<1>1. ASSUME UNCHANGED <<config, registry>>, \A r \in Role : pc'[r] = "start" => pc[r] = "start"
      PROVE  HeardInv'
  BY <1>1 DEF HeardInv, Heard
<1>2. ASSUME NEW r \in Role, Start(r) PROVE HeardInv'
  <2>1. registry = {} /\ registry' = registry
    BY <1>2 DEF Start, HeardInv
  <2> QED
    BY <2>1 DEF HeardInv, Heard
<1>3. ASSUME NEW r \in Role, StartFails(r) PROVE HeardInv'
  BY <1>1, <1>3 DEF StartFails, fixed, loaded, Shape
<1>4. CASE Hear
  <2>1. \A r \in Role : pc'[r] # "start"
    BY <1>4 DEF Hear
  <2> QED
    BY <1>4, <2>1, HearsServer DEF HeardInv
<1>5. CASE ConnectFails \/ ClientGivesUp \/ ClientReads
  BY <1>1, <1>5 DEF ConnectFails, ClientGivesUp, ClientReads, fixed, loaded, Shape, Role
<1>6. CASE Connect
  <2>1. UNCHANGED <<config, registry>> /\ \A r \in Role : pc[r] = "ready" /\ pc'[r] # "start"
    BY <1>6 DEF Connect, Reaches, loaded, Role
  <2> QED
    BY <1>1, <2>1
<1>7. CASE ServerStep \/ ServerDies
  <2>1. UNCHANGED <<config, registry>>
        /\ (pc' = pc \/ pc' = [pc EXCEPT !["server"] = "done"])
    BY <1>7 DEF ServerStep, HandshakeFails, ServerReads, ServerAnswers, ServerRefuses,
                ServerTimeout, ServerDies, Close, fixed, loaded
  <2> QED
    BY <1>1, <2>1 DEF Shape, Role
<1>8. CASE UNCHANGED vars
  BY <1>1, <1>8 DEF vars
<1> QED
  BY <1>2, <1>3, <1>4, <1>5, <1>6, <1>7, <1>8 DEF Next

\* serialize_envelope, parse_envelope and the trimming in between: whatever the
\* two configurations are, a client that has a participant in its registry has
\* it as the server is configured, with the port it listens on, and only of its
\* own sid and token.  A server with blanks around its participant id is never
\* heard, because it signs them and the parser drops them.
THEOREM HeardFromGroup == Spec => []Heard
<1>1. Init => Shape /\ HeardInv
  <2>1. Init => HeardInv
    BY DEF Init, HeardInv, Heard
  <2> QED
    BY <2>1, KeyInit DEF KeyInv
<1>2. HeardInv => Heard
  BY DEF HeardInv
<1> QED
  BY <1>1, <1>2, ShapeStep, HeardStep, PTL DEF Spec
=============================================================================
