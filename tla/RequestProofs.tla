---------------------------- MODULE RequestProofs ----------------------------
(***************************************************************************)
(* The parser understands every well-formed request, and of one that is cut*)
(* it accepts only what is a prefix of it: RequestInvariant is inductive,  *)
(* and the properties follow, for all characters and requests.             *)
(***************************************************************************)
EXTENDS TextProofs

-----------------------------------------------------------------------------
(* The text of a request.                                                  *)

\* The fields of a request have their types, and are well-formed.
LEMMA FormedRequest ==
    ASSUME NEW r \in Requests
    PROVE  /\ {r.method, r.dir, r.name, r.info, r.query, r.gap, r.version} \subseteq Text
           /\ r.headers \in Seq(Text \X Text) /\ r.chunked \in BOOLEAN
           /\ r.data \in Seq(Text) /\ r.sizes \in Seq(Text)
           /\ StartLineFormed(r) /\ TargetFormed(r) /\ HeadersFormed(r) /\ ChunksFormed(r)
<1>1. r \in Message /\ StartLineFormed(r) /\ TargetFormed(r) /\ HeadersFormed(r)
      /\ ChunksFormed(r)
  BY RequestAssumption
<1> QED
  BY <1>1 DEF Message

\* The URL begins with a slash, and has no character that ends it.
LEMMA URLFormed ==
    ASSUME NEW r \in Requests
    PROVE  /\ URL(r) \in Text /\ URL(r) # <<>> /\ URL(r)[1] = "/"
           /\ Free(URL(r), {SP}) /\ Free(URL(r), {CR})
           /\ URL(r) = r.dir \o (r.name \o (r.info \o QueryText(r))) /\ QueryText(r) \in Text
<1> DEFINE q == QueryText(r)
           iq == r.info \o q
           niq == r.name \o iq
<1>1. /\ {r.dir, r.name, r.info, r.query} \subseteq Text
      /\ \A s \in {r.dir, r.name, r.info, r.query} : Free(s, {SP, CR, LF})
      /\ r.dir # <<>> /\ r.dir[1] = "/"
  BY FormedRequest DEF StartLineFormed, TargetFormed
<1>2. q \in Text /\ Free(q, {SP, CR, LF})
  <2>1. CASE r.query = <<>>
    BY <2>1, <1>1 DEF QueryText
  <2>2. CASE r.query # <<>>
    <3>1. q = <<"?">> \o r.query
      BY <2>2 DEF QueryText
    <3>2. Free(<<"?">>, {SP, CR, LF}) /\ <<"?">> \in Text
      <4>1. <<"?">> \in Text /\ Len(<<"?">>) = 1 /\ <<"?">>[1] = "?"
        BY OneText, CharTyped
      <4>2. \A i \in DOMAIN <<"?">> : i = 1
        BY <4>1, TextFacts
      <4>3. "?" \notin {SP, CR, LF}
        BY DEF SP, CR, LF
      <4> QED
        BY <4>1, <4>2, <4>3, Zenon DEF Free
    <3> HIDE DEF q
    <3> QED
      BY <1>1, <3>1, <3>2, ConcatText, FreeConcat
  <2> QED
    BY <2>1, <2>2
<1> HIDE DEF q
<1>3. iq \in Text /\ Free(iq, {SP, CR, LF})
  BY <1>1, <1>2, ConcatText, FreeConcat
<1> HIDE DEF iq
<1>4. niq \in Text /\ Free(niq, {SP, CR, LF})
  BY <1>1, <1>3, ConcatText, FreeConcat
<1> HIDE DEF niq
<1>5. r.dir \o niq \in Text /\ Free(r.dir \o niq, {SP, CR, LF})
  BY <1>1, <1>4, ConcatText, FreeConcat
<1>6. URL(r) = r.dir \o niq
  <2>1. (r.dir \o r.name) \o r.info = r.dir \o (r.name \o r.info)
    <3>1. Same((r.dir \o r.name) \o r.info, r.dir \o (r.name \o r.info))
      BY <1>1, AssocSame, Zenon
    <3> QED
      BY <3>1, Zenon DEF Same
  <2>2. r.name \o r.info \in Text
    BY <1>1, ConcatText
  <2>3. (r.dir \o (r.name \o r.info)) \o q = r.dir \o ((r.name \o r.info) \o q)
    <3> DEFINE ni == r.name \o r.info
    <3>1. ni \in Text /\ r.dir \in Text
      BY <1>1, <2>2
    <3> HIDE DEF ni
    <3>2. Same((r.dir \o ni) \o q, r.dir \o (ni \o q))
      BY <1>2, <3>1, AssocSame, Zenon
    <3> QED
      BY <3>2, Zenon DEF ni, Same
  <2>4. (r.name \o r.info) \o q = niq
    <3>1. Same((r.name \o r.info) \o q, r.name \o (r.info \o q))
      BY <1>1, <1>2, AssocSame, Zenon
    <3> QED
      BY <3>1, Zenon DEF Same, niq, iq
  <2>5. URL(r) = ((r.dir \o r.name) \o r.info) \o q
    BY DEF URL, q
  <2> QED
    BY <2>1, <2>3, <2>4, <2>5, Zenon
<1>7. (r.dir \o niq)[1] = "/" /\ r.dir \o niq # <<>>
  BY <1>1, <1>4, FirstOf
<1>8. Free(URL(r), {SP, CR, LF})
  BY <1>5, <1>6, Zenon
<1>9. Free(URL(r), {SP}) /\ Free(URL(r), {CR})
  BY <1>8 DEF Free
<1> QED
  BY <1>2, <1>5, <1>6, <1>7, <1>9, Zenon DEF niq, iq, q

\* The headers, the chunks and the body of a request are texts.
LEMMA TextsTyped ==
    ASSUME NEW r \in Requests
    PROVE  /\ HeaderTexts(r) \in Seq(Text) /\ Len(HeaderTexts(r)) = Len(r.headers)
           /\ \A i \in 1..Len(r.headers) : HeaderTexts(r)[i] = HeaderText(r.headers[i])
           /\ r.chunked => /\ ChunkTexts(r) \in Seq(Text) /\ Len(ChunkTexts(r)) = Len(r.data)
                           /\ \A i \in 1..Len(r.data) :
                                 ChunkTexts(r)[i] = ChunkText(r.sizes[i], r.data[i])
           /\ ChunkText(<<"0">>, <<>>) \in Text /\ BodyText(r) \in Text
           /\ Len(r.headers) \in Nat /\ Len(r.data) \in Nat
<1>1. r.headers \in Seq(Text \X Text) /\ r.data \in Seq(Text) /\ r.sizes \in Seq(Text)
      /\ r.chunked \in BOOLEAN
  BY FormedRequest
<1>2. /\ Len(r.headers) \in Nat /\ DOMAIN r.headers = 1..Len(r.headers)
      /\ Len(r.data) \in Nat /\ DOMAIN r.data = 1..Len(r.data)
      /\ \A i \in 1..Len(r.headers) : r.headers[i] \in Text \X Text
      /\ \A i \in 1..Len(r.data) : r.data[i] \in Text
      /\ r.chunked => \A i \in 1..Len(r.data) : r.sizes[i] \in Text
  <2>1. r.chunked => Len(r.sizes) = Len(r.data)
    BY FormedRequest DEF ChunksFormed
  <2> QED
    BY <1>1, <2>1
<1>3. /\ <<":", SP>> \in Text /\ <<CR, LF>> \in Text /\ <<"0">> \in Text
  BY TwoText, OneText, CharTyped
<1>4. \A h \in Text \X Text : HeaderText(h) \in Text
  <2>1. SUFFICES ASSUME NEW h \in Text \X Text PROVE HeaderText(h) \in Text
    OBVIOUS
  <2>2. h[1] \o <<":", SP>> \in Text /\ h[2] \in Text
    BY <1>3, ConcatText
  <2>3. h[1] \o <<":", SP>> \o h[2] \in Text
    BY <2>2, ConcatText
  <2>4. h[1] \o <<":", SP>> \o h[2] \o <<CR, LF>> \in Text
    BY <1>3, <2>3, ConcatText
  <2> QED
    BY <2>4 DEF HeaderText
<1>5. \A s, d \in Text : ChunkText(s, d) \in Text
  <2>1. SUFFICES ASSUME NEW s \in Text, NEW d \in Text PROVE ChunkText(s, d) \in Text
    OBVIOUS
  <2>2. s \o <<CR, LF>> \in Text
    BY <1>3, ConcatText
  <2>3. s \o <<CR, LF>> \o d \in Text
    BY <2>2, ConcatText
  <2>4. s \o <<CR, LF>> \o d \o <<CR, LF>> \in Text
    BY <1>3, <2>3, ConcatText
  <2> QED
    BY <2>4 DEF ChunkText
<1>6. /\ HeaderTexts(r) \in Seq(Text) /\ Len(HeaderTexts(r)) = Len(r.headers)
      /\ \A i \in 1..Len(r.headers) : HeaderTexts(r)[i] = HeaderText(r.headers[i])
  <2>1. \A i \in 1..Len(r.headers) : HeaderText(r.headers[i]) \in Text
    BY <1>2, <1>4
  <2>2. HeaderTexts(r) = [i \in 1..Len(r.headers) |-> HeaderText(r.headers[i])]
    BY <1>2 DEF HeaderTexts
  <2> QED
    BY <1>2, <2>1, <2>2
<1>7. r.chunked => /\ ChunkTexts(r) \in Seq(Text) /\ Len(ChunkTexts(r)) = Len(r.data)
                   /\ \A i \in 1..Len(r.data) :
                         ChunkTexts(r)[i] = ChunkText(r.sizes[i], r.data[i])
  <2>1. r.chunked => \A i \in 1..Len(r.data) : ChunkText(r.sizes[i], r.data[i]) \in Text
    BY <1>2, <1>5
  <2>2. ChunkTexts(r) = [i \in 1..Len(r.data) |-> ChunkText(r.sizes[i], r.data[i])]
    BY <1>2 DEF ChunkTexts
  <2> QED
    BY <1>2, <2>1, <2>2
<1>8. ChunkText(<<"0">>, <<>>) \in Text
  BY <1>3, <1>5, EmptyText
<1>9. BodyText(r) \in Text
  <2>1. CASE r.chunked
    <3>1. FlattenSeq(ChunkTexts(r)) \in Text
      BY <1>7, <2>1, FlattenTyped
    <3> QED
      BY <3>1, <2>1, <1>8, ConcatText DEF BodyText
  <2>2. CASE ~r.chunked
    BY <2>2, <1>1, FlattenTyped DEF BodyText
  <2> QED
    BY <2>1, <2>2
<1> QED
  BY <1>2, <1>6, <1>7, <1>8, <1>9

(* What follows the headers: one header and what follows it, at last the   *)
(* empty line and the body.                                                *)
LEMMA AfterHeaderParts ==
    ASSUME request \in Requests
    PROVE  /\ \A i \in 0..Len(request.headers) : AfterHeader(i) \in Text
           /\ \A i \in 1..Len(request.headers) :
                Same(AfterHeader(i - 1), HeaderText(request.headers[i]) \o AfterHeader(i))
           /\ Same(AfterHeader(Len(request.headers)), <<CR, LF>> \o BodyText(request))
           /\ AfterHeader(0) = FlattenSeq(HeaderTexts(request)) \o <<CR, LF>> \o BodyText(request)
<1> DEFINE s == HeaderTexts(request)
           F(i) == FlattenSeq(SubSeq(s, i, Len(s)))
           b == BodyText(request)
           n == <<CR, LF>>
<1>1. /\ s \in Seq(Text) /\ Len(s) = Len(request.headers) /\ b \in Text /\ Len(s) \in Nat
      /\ \A i \in 1..Len(request.headers) : s[i] = HeaderText(request.headers[i])
      /\ n \in Text
  BY TextsTyped, TwoText, CharTyped
<1>2. \A i : AfterHeader(i) = (F(i + 1) \o n) \o b
  BY <1>1 DEF AfterHeader
<1> HIDE DEF b, n, s
<1>3. \A i \in 0..Len(s) : F(i + 1) \in Text
  <2>1. SUFFICES ASSUME NEW i \in 0..Len(s) PROVE F(i + 1) \in Text
    OBVIOUS
  <2>2. \A j \in (i + 1)..Len(s) : s[j] \in Text
    BY <1>1
  <2>3. SubSeq(s, i + 1, Len(s)) \in Seq(Text)
    BY <1>1, <2>2, SubSeqProperties
  <2> QED
    BY <2>3, FlattenTyped
<1>4. \A i \in 0..Len(s) : AfterHeader(i) \in Text
  <2>1. SUFFICES ASSUME NEW i \in 0..Len(s) PROVE AfterHeader(i) \in Text
    OBVIOUS
  <2>2. F(i + 1) \in Text
    BY <1>3
  <2> HIDE DEF F
  <2>3. F(i + 1) \o n \in Text
    BY <1>1, <2>2, ConcatText
  <2> QED
    BY <1>1, <1>2, <2>3, ConcatText
<1>5. ASSUME NEW i \in 1..Len(s) PROVE Same(AfterHeader(i - 1), s[i] \o AfterHeader(i))
  <2>1. F(i) = s[i] \o F(i + 1)
    BY <1>1, FlattenFrom
  <2>2. s[i] \in Text /\ F(i + 1) \in Text
    <3>1. i \in 0..Len(s)
      BY <1>1
    <3> HIDE DEF F
    <3> QED
      BY <1>1, <1>3, <3>1
  <2>3. i - 1 + 1 = i
    BY <1>1
  <2> DEFINE f == F(i + 1)
             x == s[i]
  <2> HIDE DEF f, x
  <2>4. x \in Text /\ f \in Text
    BY <2>2 DEF f, x
  <2>5. f \o n \in Text
    BY <1>1, <2>4, ConcatText
  <2>6. (x \o f) \o n = x \o (f \o n)
    <3>1. Same((x \o f) \o n, x \o (f \o n))
      BY <1>1, <2>4, AssocSame, Zenon
    <3> QED
      BY <3>1, Zenon DEF Same
  <2>7. (x \o (f \o n)) \o b = x \o ((f \o n) \o b)
    <3> DEFINE fn == f \o n
    <3>1. fn \in Text
      BY <2>5
    <3> HIDE DEF fn
    <3>2. Same((x \o fn) \o b, x \o (fn \o b))
      BY <1>1, <2>4, <3>1, AssocSame, Zenon
    <3> QED
      BY <3>2, Zenon DEF fn, Same
  <2>8. AfterHeader(i - 1) = ((x \o f) \o n) \o b
    BY <1>2, <2>1, <2>3, Zenon DEF f, x
  <2>9. AfterHeader(i) = (f \o n) \o b
    BY <1>2, Zenon DEF f
  <2>10. AfterHeader(i - 1) = x \o AfterHeader(i)
    BY <2>6, <2>7, <2>8, <2>9, Zenon
  <2> QED
    BY <2>10, Zenon DEF Same, x
<1>6. Same(AfterHeader(Len(s)), n \o b)
  <2>1. SubSeq(s, Len(s) + 1, Len(s)) = <<>>
    BY <1>1, SubSeqEmpty
  <2>2. F(Len(s) + 1) = <<>>
    BY <2>1, FlattenEmpty
  <2>3. <<>> \o n = n
    BY <1>1, EmptyText
  <2> HIDE DEF F
  <2> QED
    BY <1>2, <2>2, <2>3, Zenon DEF Same
<1>7. AfterHeader(0) = FlattenSeq(s) \o n \o b
  <2>1. F(1) = FlattenSeq(s)
    BY <1>1, SubSeqFull
  <2>2. 0 + 1 = 1
    OBVIOUS
  <2> HIDE DEF F
  <2> QED
    BY <1>2, <2>1, <2>2, Zenon
<1>8. \A i \in 1..Len(request.headers) :
         Same(AfterHeader(i - 1), HeaderText(request.headers[i]) \o AfterHeader(i))
  BY <1>1, <1>5, Zenon
<1> QED
  BY <1>1, <1>4, <1>6, <1>7, <1>8, Zenon DEF s, n, b

-----------------------------------------------------------------------------
(* The start line.                                                         *)

\* The spaces but one between two words of the start line.
Gap == Tail(request.gap)

\* What is sent from the version on.
LineText == request.version \o (<<CR>> \o (<<LF>> \o AfterHeader(0)))

\* What is sent from the URL on.
URLText == URL(request) \o (<<SP>> \o (Gap \o LineText))

\* The text of a request, as the parser takes it apart.
LEMMA RequestParts ==
    ASSUME request \in Requests
    PROVE  /\ Gap \in Text /\ Spaces(Gap) /\ LineText \in Text /\ URLText \in Text
           /\ AfterHeader(0) \in Text
           /\ Same(RequestText(request), request.method \o (<<SP>> \o (Gap \o URLText)))
           /\ Len(request.method \o request.gap) = Len(request.method) + 1 + Len(Gap)
           /\ Len(RequestText(request)) = Len(request.method) + 1 + Len(Gap) + Len(URLText)
<1> DEFINE m == request.method
           g == request.gap
           u == URL(request)
           v == request.version
           n == <<CR, LF>>
           f == FlattenSeq(HeaderTexts(request))
           b == BodyText(request)
           nl == <<CR>> \o (<<LF>> \o AfterHeader(0))
<1>1. /\ m \in Text /\ g \in Text /\ v \in Text /\ g # <<>> /\ \A i \in DOMAIN g : g[i] = SP
  BY FormedRequest DEF StartLineFormed
<1>2. u \in Text
  BY URLFormed
<1>3. n \in Text /\ \A t \in Text : n \o t = <<CR>> \o (<<LF>> \o t)
  BY CharTyped, TwoText, TwoConcat
<1>4. f \in Text /\ b \in Text
  BY TextsTyped, FlattenTyped
<1>5. AfterHeader(0) \in Text /\ AfterHeader(0) = f \o n \o b
  <2>1. 0 \in 0..Len(request.headers)
    BY TextsTyped
  <2> QED
    BY <2>1, AfterHeaderParts
<1> HIDE DEF m, u, v, n, f, b
<1>6. nl \in Text /\ n \o AfterHeader(0) = nl
  <2>1. n \o AfterHeader(0) \in Text
    BY <1>3, <1>5, ConcatText
  <2>2. n \o AfterHeader(0) = nl
    BY <1>3, <1>5
  <2> QED
    BY <2>1, <2>2, Zenon
<1> HIDE DEF nl
<1>7. LineText \in Text /\ LineText = v \o nl
  <2>1. v \o nl \in Text
    BY <1>1, <1>6, ConcatText
  <2>2. LineText = v \o nl
    BY Zenon DEF LineText, v, nl
  <2> QED
    BY <2>1, <2>2, Zenon
<1>8. Gap \in Text /\ g = <<SP>> \o Gap /\ Len(g) = 1 + Len(Gap) /\ Spaces(Gap)
  <2>1. Head(g) \in Char /\ Gap \in Seq(Char) /\ Len(Gap) = Len(g) - 1
        /\ \A i \in 1..Len(Gap) : Gap[i] = g[i + 1]
    BY <1>1, HeadTailProperties DEF Gap, Text
  <2>2. Len(g) \in Nat /\ Len(g) # 0 /\ DOMAIN g = 1..Len(g)
    BY <1>1, TextFacts, EmptyText
  <2>3. SubSeq(g, 1, Len(g)) = <<g[1]>> \o SubSeq(g, 1 + 1, Len(g))
    <3>1. 1 \in 1..Len(g) /\ Len(g) \in 1..Len(g)
      BY <2>2
    <3> QED
      BY <3>1, <1>1, SubSeqRecursiveFirst DEF Text
  <2>4. SubSeq(g, 1, Len(g)) = g /\ Tail(g) = SubSeq(g, 2, Len(g)) /\ 1 + 1 = 2
    BY <1>1, SubSeqFull, TailIsSubSeq DEF Text
  <2>5. 1 \in DOMAIN g
    BY <2>2
  <2>6. g[1] = SP
    BY <1>1, <2>5
  <2>7. g = <<SP>> \o Gap
    BY <2>3, <2>4, <2>6, Zenon DEF Gap, g
  <2>8. Gap \in Text
    BY <2>1 DEF Text
  <2>9. Spaces(Gap)
    <3>1. \A i \in DOMAIN Gap : i \in 1..Len(Gap) /\ i + 1 \in DOMAIN g
      BY <2>1, <2>2, <2>8, TextFacts
    <3> QED
      BY <1>1, <2>1, <3>1 DEF Spaces
  <2>10. Len(g) = 1 + Len(Gap)
    BY <2>1, <2>2
  <2> QED
    BY <2>7, <2>8, <2>9, <2>10
<1>9. \A t \in Text : g \o t = <<SP>> \o (Gap \o t)
  <2>1. SUFFICES ASSUME NEW t \in Text PROVE g \o t = <<SP>> \o (Gap \o t)
    OBVIOUS
  <2>2. <<SP>> \in Text /\ Gap \in Text
    BY <1>8, CharTyped, OneText
  <2>3. (<<SP>> \o Gap) \o t = <<SP>> \o (Gap \o t)
    BY <2>2, Assoc
  <2> QED
    BY <1>8, <2>3, Zenon
<1> HIDE DEF g
<1>10. Gap \o LineText \in Text /\ g \o LineText = <<SP>> \o (Gap \o LineText)
  BY <1>7, <1>8, <1>9, ConcatText
<1>11. URLText \in Text /\ URLText = u \o (g \o LineText)
  <2>1. g \o LineText \in Text
    BY <1>1, <1>7, ConcatText
  <2>2. u \o (g \o LineText) \in Text
    BY <1>2, <2>1, ConcatText
  <2>3. URLText = u \o (g \o LineText)
    BY <1>10, Zenon DEF URLText, u
  <2> QED
    BY <2>2, <2>3, Zenon
<1>12. Same(RequestText(request), m \o (g \o URLText))
  <2>1. Texts({m, g, u, v, n, f, b})
    BY <1>1, <1>2, <1>3, <1>4 DEF Texts
  <2>2. Same(m \o g \o u \o g \o v \o n \o f \o n \o b,
             m \o (g \o (u \o (g \o (v \o (n \o (f \o n \o b)))))))
    BY <2>1, Regroup
  <2>3. RequestText(request) = m \o g \o u \o g \o v \o n \o f \o n \o b
    BY Zenon DEF RequestText, m, g, u, v, n, f, b
  <2>4. m \o (g \o (u \o (g \o (v \o (n \o (f \o n \o b)))))) = m \o (g \o URLText)
    BY <1>5, <1>6, <1>7, <1>11, Zenon
  <2> QED
    BY <2>2, <2>3, <2>4, Zenon DEF Same
<1>13. g \o URLText = <<SP>> \o (Gap \o URLText)
  BY <1>9, <1>11
<1>14. Same(RequestText(request), m \o (<<SP>> \o (Gap \o URLText)))
  BY <1>12, <1>13, Zenon DEF Same
<1>15. Len(m \o g) = Len(m) + 1 + Len(Gap) /\ Len(m) \in Nat /\ Len(Gap) \in Nat
  BY <1>1, <1>8, ConcatText, TextFacts
<1>16. Len(RequestText(request)) = Len(m) + 1 + Len(Gap) + Len(URLText)
  <2>1. g \o URLText \in Text /\ Len(g \o URLText) = Len(g) + Len(URLText)
    BY <1>1, <1>11, ConcatText
  <2> DEFINE gu == g \o URLText
  <2>2. gu \in Text
    BY <2>1
  <2> HIDE DEF gu
  <2>3. Len(m \o gu) = Len(m) + Len(gu)
    BY <1>1, <2>2, ConcatText
  <2>4. RequestText(request) = m \o gu
    BY <1>12, Zenon DEF Same, gu
  <2>5. Len(RequestText(request)) = Len(m) + Len(gu)
    BY <2>3, <2>4, Zenon
  <2>6. Len(gu) = 1 + Len(Gap) + Len(URLText) /\ Len(URLText) \in Nat
    BY <2>1, <1>8, <1>11, TextFacts DEF gu
  <2> QED
    BY <2>5, <2>6, <1>15
<1> QED
  BY <1>5, <1>7, <1>8, <1>11, <1>14, <1>15, <1>16, Zenon DEF m, g

\* What ParseStartLine takes the URL from.
Rest(a) == SkipSpaces(After(a, SP))

\* What ParseStartLine takes the version from.
Line(a) == SkipSpaces(After(Rest(a), SP))

\* The start line has been read as it was sent.
StartLineCame(a, w) ==
    /\ Before(a, SP) = request.method /\ Before(Rest(a), SP) = URL(request)
    /\ Before(Line(a), CR) = request.version
    /\ Same(After(Line(a), LF) \o w, AfterHeader(0))

(* What the parser makes of the start line of a text of which a has come:  *)
(* all of it; or a method or a version that is refused; or nothing but the *)
(* version is left.                                                        *)
LEMMA StartLineRead ==
    ASSUME request \in Requests, NEW a \in Text, NEW w \in Text, a # <<>>,
           Same(a \o w, RequestText(request))
    PROVE  \/ /\ Before(Rest(a), SP) = <<>>
              /\ Len(RequestText(request)) - Len(w) =< Len(request.method \o request.gap)
           \/ /\ Before(Rest(a), SP) # <<>>
              /\ \/ StartLineCame(a, w)
                 \/ /\ w # <<>>
                    /\ \/ Before(a, SP) \notin Methods
                       \/ Before(Line(a), CR) # HTTPVersion
                       \/ After(Line(a), LF) \in VersionOnly
<1>0. /\ request.method \in Text /\ request.version \in Text
      /\ Free(request.method, {SP, CR, LF}) /\ Free(request.version, {SP, CR, LF})
      /\ request.version # <<>>
  BY FormedRequest DEF StartLineFormed
<1>1. /\ Gap \in Text /\ Spaces(Gap) /\ LineText \in Text /\ URLText \in Text
      /\ AfterHeader(0) \in Text
  BY RequestParts
<1>2. /\ Same(a \o w, request.method \o (<<SP>> \o (Gap \o URLText)))
      /\ Gap \o URLText \in Text /\ Gap \o LineText \in Text
  <2>1. Same(RequestText(request), request.method \o (<<SP>> \o (Gap \o URLText)))
    BY RequestParts
  <2> QED
    BY <2>1, <1>1, ConcatText DEF Same
<1>3. /\ URL(request) \in Text /\ URL(request) # <<>> /\ URL(request)[1] = "/"
      /\ Free(URL(request), {SP}) /\ Free(URL(request), {CR})
  BY URLFormed
<1>4. URLText # <<>> /\ URLText[1] = "/" /\ URLText[1] # SP
  <2> DEFINE sgl == <<SP>> \o (Gap \o LineText)
  <2>1. sgl \in Text
    BY <1>2, CharTyped, OneText, ConcatText
  <2>2. URLText = URL(request) \o sgl
    BY Zenon DEF URLText
  <2> HIDE DEF sgl
  <2>3. (URL(request) \o sgl)[1] = URL(request)[1] /\ URL(request) \o sgl # <<>>
    BY <1>3, <2>1, FirstOf
  <2>4. "/" # SP
    BY DEF SP
  <2> QED
    BY <1>3, <2>2, <2>3, <2>4, Zenon
<1>5. LineText # <<>> /\ LineText[1] # SP
  <2> DEFINE cla == <<CR>> \o (<<LF>> \o AfterHeader(0))
  <2>1. cla \in Text
    BY <1>1, CharTyped, OneText, ConcatText
  <2>2. LineText = request.version \o cla
    BY Zenon DEF LineText
  <2> HIDE DEF cla
  <2>3. (request.version \o cla)[1] = request.version[1] /\ request.version \o cla # <<>>
    BY <1>0, <2>1, FirstOf
  <2>4. request.version[1] # SP
    BY <1>0, FirstFree
  <2> QED
    BY <2>2, <2>3, <2>4, Zenon
<1>6. /\ After(a, SP) \in Text /\ Rest(a) \in Text /\ After(Rest(a), SP) \in Text
      /\ Line(a) \in Text
  BY PartsTyped DEF Rest, Line
<1>7. HTTPVersion = <<"V">> /\ HTTPVersion \notin Methods /\ HTTPVersion # <<>>
  BY DEF HTTPVersion, Methods
<1>8. \/ Before(a, SP) = request.method /\ Same(After(a, SP) \o w, Gap \o URLText)
      \/ /\ w # <<>> /\ Before(a, SP) = a /\ After(a, SP) = a /\ SkipSpaces(a) = a
         /\ Before(a, CR) = a /\ a[1] # SP
  BY <1>0, <1>2, MethodCut
<1>9. CASE /\ w # <<>> /\ Before(a, SP) = a /\ After(a, SP) = a /\ SkipSpaces(a) = a
           /\ Before(a, CR) = a /\ a[1] # SP
  <2>1. Rest(a) = a /\ Line(a) = a
    BY <1>9 DEF Rest, Line
  <2> QED
    BY <1>7, <1>9, <2>1
<1>10. CASE Before(a, SP) = request.method /\ Same(After(a, SP) \o w, Gap \o URLText)
  <2>1. \/ Same(Rest(a) \o w, URLText)
        \/ Rest(a) = <<>> /\ Len(w) > Len(URLText)
    BY <1>1, <1>4, <1>6, <1>10, SkipCut DEF Rest
  <2>2. ASSUME Rest(a) = <<>>
        PROVE  /\ Before(Rest(a), SP) = <<>>
               /\ Len(RequestText(request)) - Len(w) =< Len(request.method \o request.gap)
    <3>1. Before(<<>>, SP) = <<>>
      <4>1. Free(<<>>, {SP})
        BY DEF Free
      <4> QED
        BY <4>1, EmptyText, NotFound
    <3>2. Len(w) >= Len(URLText)
      <4>1. <<>> \o w = w
        BY EmptyText
      <4>2. Same(Rest(a) \o w, URLText) => w = URLText
        BY <2>2, <4>1, Zenon DEF Same
      <4>3. Len(w) \in Nat /\ Len(URLText) \in Nat
        BY <1>1, TextFacts
      <4> QED
        BY <2>1, <4>2, <4>3
    <3>3. /\ Len(request.method \o request.gap) = Len(request.method) + 1 + Len(Gap)
          /\ Len(RequestText(request)) = Len(request.method) + 1 + Len(Gap) + Len(URLText)
      BY RequestParts
    <3>4. Len(request.method) \in Nat /\ Len(Gap) \in Nat /\ Len(URLText) \in Nat /\ Len(w) \in Nat
      BY <1>0, <1>1, TextFacts
    <3> QED
      BY <2>2, <3>1, <3>2, <3>3, <3>4
  <2>3. CASE Rest(a) # <<>> /\ Same(Rest(a) \o w, URLText)
    <3>1. Same(Rest(a) \o w, URL(request) \o (<<SP>> \o (Gap \o LineText)))
      BY <2>3, Zenon DEF Same, URLText
    <3>2. \/ Before(Rest(a), SP) = URL(request) /\ Same(After(Rest(a), SP) \o w, Gap \o LineText)
          \/ /\ w # <<>> /\ Before(Rest(a), SP) = Rest(a)
             /\ SkipSpaces(After(Rest(a), SP)) = Rest(a)
             /\ Before(Rest(a), CR) = Rest(a) /\ Rest(a)[1] = "/"
      BY <1>2, <1>3, <1>6, <2>3, <3>1, URLCut
    <3>3. CASE /\ w # <<>> /\ Before(Rest(a), SP) = Rest(a)
               /\ SkipSpaces(After(Rest(a), SP)) = Rest(a)
               /\ Before(Rest(a), CR) = Rest(a) /\ Rest(a)[1] = "/"
      <4>1. Line(a) = Rest(a)
        BY <3>3 DEF Line
      <4>2. HTTPVersion[1] # "/"
        BY <1>7
      <4> QED
        BY <2>3, <3>3, <4>1, <4>2, Zenon
    <3>4. CASE Before(Rest(a), SP) = URL(request) /\ Same(After(Rest(a), SP) \o w, Gap \o LineText)
      <4>1. \/ Same(Line(a) \o w, LineText)
            \/ Line(a) = <<>> /\ Len(w) > Len(LineText)
        BY <1>1, <1>5, <1>6, <3>4, SkipCut DEF Line
      <4>2. CASE Line(a) = <<>> /\ Len(w) > Len(LineText)
        <5>1. Before(<<>>, CR) = <<>>
          <6>1. Free(<<>>, {CR})
            BY DEF Free
          <6> QED
            BY <6>1, EmptyText, NotFound
        <5>2. w # <<>>
          BY <1>1, <4>2, WireLeft
        <5> QED
          BY <1>3, <1>7, <3>4, <4>2, <5>1, <5>2
      <4>3. CASE Same(Line(a) \o w, LineText)
        <5>1. Same(Line(a) \o w, request.version \o (<<CR>> \o (<<LF>> \o AfterHeader(0))))
          BY <4>3, Zenon DEF Same, LineText
        <5>2. \/ Before(Line(a), CR) = request.version
                 /\ Same(After(Line(a), LF) \o w, AfterHeader(0))
              \/ /\ w # <<>> /\ After(Line(a), LF) = Line(a)
                 /\ Before(Line(a), CR) # HTTPVersion \/ Line(a) \in VersionOnly
          BY <1>0, <1>1, <1>6, <5>1, VersionCut
        <5> QED
          BY <1>3, <1>10, <3>4, <5>2 DEF StartLineCame
      <4> QED
        BY <4>1, <4>2, <4>3
    <3> QED
      BY <3>2, <3>3, <3>4
  <2> QED
    BY <2>1, <2>2, <2>3
<1> QED
  BY <1>8, <1>9, <1>10

\* What parseFilenamesAndCGI must find of a path.
PathRead(p) ==
    \/ /\ request.name = <<>> /\ request.info = <<>>
       /\ Find(p, ".") = 0 /\ Unslashed(p) = Unslashed(request.dir)
    \/ FileFound(p, request.dir, request.name, request.info)

(* The target is taken apart into the query, the directory, the file and   *)
(* what follows it, as they were sent.                                     *)
LEMMA TargetRead ==
    ASSUME request \in Requests
    PROVE  Query(URL(request)) = request.query /\ PathRead(PathOf(URL(request)))
<1> DEFINE d == request.dir
           n == request.name
           i == request.info
           q == request.query
           u == URL(request)
           ni == n \o i
           b == d \o ni
<1>1. d \in Text /\ n \in Text /\ i \in Text /\ q \in Text
  BY FormedRequest
<1>2. /\ d # <<>> /\ d[1] = "/" /\ Free(d, {"."})
      /\ n = <<>> => i = <<>>
      /\ n # <<>> => ~Free(n, {"."}) /\ Free(n, {"/"}) /\ Last(d) = "/"
      /\ i # <<>> => i[1] = "/"
      /\ n \o q # <<>> => Last(u) # "/"
      /\ Len(d) > 1 /\ Last(d) = "/" => d[Len(d) - 1] # "/"
  BY FormedRequest DEF TargetFormed
<1>3. Free(d, {"?"}) /\ Free(n, {"?"}) /\ Free(i, {"?"})
  BY FormedRequest DEF StartLineFormed
<1>4. /\ u = d \o (n \o (i \o QueryText(request)))
      /\ QueryText(request) = IF q = <<>> THEN <<>> ELSE <<"?">> \o q
      /\ QueryText(request) \in Text
  BY URLFormed DEF QueryText
<1> HIDE DEF d, n, i, q, u
<1>5. ni \in Text /\ Free(ni, {"?"})
  BY <1>1, <1>3, ConcatText, FreeConcat
<1>6. b \in Text /\ Free(b, {"?"}) /\ b # <<>>
  <2> HIDE DEF ni
  <2>1. b \in Text /\ Free(b, {"?"})
    BY <1>1, <1>3, <1>5, ConcatText, FreeConcat
  <2>2. b # <<>>
    BY <1>1, <1>2, <1>5, FirstOf
  <2> QED
    BY <2>1, <2>2
<1>7. u = b \o QueryText(request)
  <2> DEFINE t == QueryText(request)
             it == i \o t
  <2>1. t \in Text
    BY <1>4
  <2> HIDE DEF t
  <2>2. Same(ni \o t, n \o it)
    BY <1>1, <2>1, AssocSame, Zenon
  <2> HIDE DEF it, ni
  <2>3. Same((d \o ni) \o t, d \o (ni \o t))
    BY <1>1, <1>5, <2>1, AssocSame, Zenon
  <2> QED
    BY <1>4, <2>2, <2>3, Zenon DEF t, it, Same
<1>8. CASE n # <<>>
  <2>1. Last(u) # "/"
    BY <1>1, <1>2, <1>8, NotBoth
  <2> HIDE DEF b
  <2>2. Query(u) = q /\ PathOf(u) = b
    BY <1>1, <1>4, <1>6, <1>7, <2>1, QueryRead
  <2>3. Same(b, d \o (n \o i))
    BY Zenon DEF b, Same
  <2>4. FileFound(b, d, n, i)
    <3>1. Free(d, {"."}) /\ ~Free(n, {"."}) /\ Free(n, {"/"}) /\ Last(d) = "/" /\ d # <<>>
      BY <1>2, <1>8
    <3>2. i # <<>> => i[1] = "/"
      BY <1>2
    <3> QED
      BY <1>1, <2>3, <3>1, <3>2, FileRead
  <2>5. PathRead(b)
    BY <2>4, Zenon DEF PathRead, d, n, i
  <2> QED
    BY <2>2, <2>5, Zenon DEF u, q
<1>9. CASE n = <<>>
  <2>1. b = d /\ i = <<>>
    BY <1>1, <1>2, <1>9, EmptyText
  <2> HIDE DEF b
  <2>2. CASE q # <<>>
    <3>1. Last(u) # "/"
      BY <1>1, <1>2, <2>2, NotBoth
    <3>2. Query(u) = q /\ PathOf(u) = b
      BY <1>1, <1>4, <1>6, <1>7, <3>1, QueryRead
    <3>3. Find(b, ".") = 0 /\ Unslashed(b) = Unslashed(d)
      BY <1>2, <1>6, <2>1, NotFound
    <3> QED
      BY <1>9, <2>1, <3>2, <3>3, Zenon DEF PathRead, u, q, n, i, d
  <2>3. CASE q = <<>>
    <3>1. u = d
      BY <1>1, <1>4, <1>7, <2>1, <2>3, EmptyText
    <3>2. /\ Trimmed(d) \in Text /\ Before(Trimmed(d), "?") = Trimmed(d)
          /\ \/ Trimmed(d) = d
             \/ Last(d) = "/" /\ Trimmed(d) = Front(d)
      <4>1. CASE Last(d) = "/"
        <5>1. Trimmed(d) = Front(d)
          BY <4>1 DEF Trimmed
        <5>2. Front(d) \in Text /\ Free(Front(d), {"?"})
          BY <1>1, <1>2, <1>3, FrontFacts
        <5> QED
          BY <4>1, <5>1, <5>2, NotFound
      <4>2. CASE Last(d) # "/"
        <5>1. Trimmed(d) = d
          BY <4>2 DEF Trimmed
        <5> QED
          BY <1>1, <1>3, <5>1, NotFound
      <4> QED
        BY <4>1, <4>2
    <3>3. Query(u) = q
      BY <2>3, <3>1, <3>2, Zenon DEF Query
    <3>4. PathOf(u) = IF Trimmed(d) = <<>> THEN DefaultTarget ELSE Trimmed(d)
      BY <3>1, <3>2, Zenon DEF PathOf
    <3>5. PathOf(u) \in Text
      BY <3>2, <3>4, CharTyped, OneText DEF DefaultTarget
    <3> DEFINE p == PathOf(u)
    <3>6. p \in Text /\ p = IF Trimmed(d) = <<>> THEN DefaultTarget ELSE Trimmed(d)
      BY <3>4, <3>5, Zenon
    <3> HIDE DEF p
    <3>7. \/ p = d
          \/ Last(d) = "/" /\ p = IF Front(d) = <<>> THEN DefaultTarget ELSE Front(d)
      <4>1. CASE Trimmed(d) = d
        BY <1>2, <3>6, <4>1, Zenon
      <4>2. CASE Last(d) = "/" /\ Trimmed(d) = Front(d)
        BY <3>6, <4>2, Zenon
      <4> QED
        BY <3>2, <4>1, <4>2
    <3>8. Find(p, ".") = 0 /\ Unslashed(p) = Unslashed(d)
      <4>1. d # <<>> /\ d[1] = "/" /\ Free(d, {"."})
            /\ (Len(d) > 1 /\ Last(d) = "/" => d[Len(d) - 1] # "/")
        BY <1>2
      <4> QED
        BY <1>1, <3>6, <3>7, <4>1, DirRead
    <3> QED
      BY <1>9, <2>1, <3>3, <3>8, Zenon DEF PathRead, u, q, n, i, d, p
  <2> QED
    BY <2>2, <2>3
<1> QED
  BY <1>8, <1>9

-----------------------------------------------------------------------------
(* Types.                                                                  *)

\* A request is a text.
LEMMA RequestTyped ==
    ASSUME request \in Requests
    PROVE  RequestText(request) \in Text
<1> DEFINE gu == Gap \o URLText
           x == <<SP>> \o gu
<1>1. /\ Gap \in Text /\ URLText \in Text
      /\ Same(RequestText(request), request.method \o (<<SP>> \o (Gap \o URLText)))
  BY RequestParts
<1>2. request.method \in Text /\ <<SP>> \in Text
  BY FormedRequest, OneText, CharTyped
<1>3. gu \in Text
  BY <1>1, ConcatText
<1> HIDE DEF gu
<1>4. x \in Text
  BY <1>2, <1>3, ConcatText
<1> HIDE DEF x
<1>5. request.method \o x \in Text
  BY <1>2, <1>4, ConcatText
<1> QED
  BY <1>1, <1>5, Zenon DEF Same, x, gu

\* Reading the start line keeps the types.
LEMMA StartLineTyped ==
    ASSUME TypeOK, ParseStartLine
    PROVE  TypeOK'
<1>1. PICK rest : /\ rest = SkipSpaces(After(m_request, SP))
                  /\ \/ /\ Before(rest, SP) = <<>> /\ pc' = "dead"
                        /\ UNCHANGED <<m_request, startLine, m_status>>
                     \/ /\ Before(rest, SP) # <<>> /\ pc' = "headers"
                        /\ m_method' = Before(m_request, SP)
                        /\ m_version' = Before(SkipSpaces(After(rest, SP)), CR)
                        /\ m_request' = After(SkipSpaces(After(rest, SP)), LF)
                        /\ \E target \in {Trimmed(Before(rest, SP))} :
                           \E path \in {Before(target, "?")} :
                              /\ m_query' = (IF path = target THEN <<>> ELSE After(target, "?"))
                              /\ SetPath(IF path = <<>> THEN m_target ELSE path)
  BY DEF ParseStartLine
<1>2. m_request \in Text /\ m_target \in Text
  BY DEF TypeOK
<1>3. rest \in Text
  BY <1>1, <1>2, PartsTyped
<1>4. UNCHANGED <<request, wire, m_headers, m_body, chunked_size, new_body>>
  BY DEF ParseStartLine, decoding
<1>5. CASE /\ pc' = "dead" /\ UNCHANGED <<m_request, startLine, m_status>>
  BY <1>4, <1>5 DEF TypeOK, startLine
<1>6. CASE /\ Before(rest, SP) # <<>> /\ pc' = "headers"
           /\ m_method' = Before(m_request, SP)
           /\ m_version' = Before(SkipSpaces(After(rest, SP)), CR)
           /\ m_request' = After(SkipSpaces(After(rest, SP)), LF)
           /\ \E target \in {Trimmed(Before(rest, SP))} :
              \E path \in {Before(target, "?")} :
                 /\ m_query' = (IF path = target THEN <<>> ELSE After(target, "?"))
                 /\ SetPath(IF path = <<>> THEN m_target ELSE path)
  <2>1. PICK target, path :
           /\ target = Trimmed(Before(rest, SP)) /\ path = Before(target, "?")
           /\ m_query' = (IF path = target THEN <<>> ELSE After(target, "?"))
           /\ SetPath(IF path = <<>> THEN m_target ELSE path)
    BY <1>6
  <2>2. m_method' \in Text /\ m_version' \in Text /\ m_request' \in Text
    BY <1>2, <1>3, <1>6, PartsTyped
  <2>3. target \in Text
    BY <1>3, <1>6, <2>1, PartsTyped, TrimmedTyped
  <2>4. path \in Text /\ m_query' \in Text
    BY <2>1, <2>3, PartsTyped, EmptyText
  <2>5. PICK p \in Text : SetPath(p)
    BY <1>2, <2>1, <2>4
  <2>6. m_target' \in Text /\ m_filename' \in Text /\ m_cgi_path' \in Text
        /\ m_status' \in {m_status, 400}
    <3>1. CASE m_target' = p /\ UNCHANGED <<m_filename, m_cgi_path, m_status>>
      BY <3>1 DEF TypeOK
    <3>2. CASE /\ Find(p, ".") # 0
               /\ m_target' = SubSeq(SubSeq(p, 1, FileEnd(p)), 1, FindLast(SubSeq(p, 1, FileEnd(p)), "/"))
               /\ m_filename' = Erase(SubSeq(p, 1, FileEnd(p)), FindLast(SubSeq(p, 1, FileEnd(p)), "/"))
               /\ m_cgi_path' = Erase(p, FileEnd(p)) /\ UNCHANGED m_status
      <4>1. /\ SubSeq(SubSeq(p, 1, FileEnd(p)), 1, FindLast(SubSeq(p, 1, FileEnd(p)), "/")) \in Text
            /\ Erase(SubSeq(p, 1, FileEnd(p)), FindLast(SubSeq(p, 1, FileEnd(p)), "/")) \in Text
            /\ Erase(p, FileEnd(p)) \in Text
        BY <3>2, PathTyped
      <4> QED
        BY <3>2, <4>1, Zenon
    <3>3. CASE m_target' = p /\ m_status' = 400 /\ UNCHANGED <<m_filename, m_cgi_path>>
      BY <3>3 DEF TypeOK
    <3> QED
      BY <2>5, <3>1, <3>2, <3>3, Zenon DEF SetPath
  <2> QED
    BY <1>4, <1>6, <2>2, <2>4, <2>6 DEF TypeOK
<1> QED
  BY <1>1, <1>5, <1>6

\* Reading a header keeps the types.
LEMMA HeaderTyped ==
    ASSUME TypeOK, ParseHeader
    PROVE  TypeOK'
<1>1. PICK rest : /\ rest = Erase(m_request, Find(m_request, ":") + 1)
                  /\ m_headers' = Added(Before(m_request, ":"), Value(rest))
                  /\ m_request' = After(rest, LF)
  BY DEF ParseHeader
<1>2. m_request \in Text /\ \A k \in DOMAIN m_headers : k \in Text /\ m_headers[k] \in Text
  BY DEF TypeOK
<1>3. Find(m_request, ":") + 1 \in Nat
  <2>1. m_request \in Text
    BY <1>2
  <2>2. Find(m_request, ":") \in 0..Len(m_request) /\ Len(m_request) \in Nat
    BY <2>1, FindFirst, TextFacts
  <2> QED
    BY <2>2
<1>4. rest \in Text
  BY <1>1, <1>2, <1>3, EraseTyped
<1>5. Before(m_request, ":") \in Text /\ Value(rest) \in Text /\ m_request' \in Text
  BY <1>1, <1>2, <1>4, PartsTyped DEF Value
<1>6. \A k \in DOMAIN m_headers' : k \in Text /\ m_headers'[k] \in Text
  BY <1>1, <1>2, <1>5 DEF Added
<1> QED
  BY <1>5, <1>6 DEF TypeOK, ParseHeader, startLine, decoding

\* The end of the headers keeps the types.
LEMMA EndTyped ==
    ASSUME TypeOK, EndHeaders
    PROVE  TypeOK'
<1>1. m_request \in Text /\ chunked_size \in Nat
  BY DEF TypeOK
<1>2. m_request' \in Text /\ m_body' \in Text
  BY <1>1, EraseTyped DEF EndHeaders
<1>3. chunked_size' \in Nat /\ pc' \in {"decode", "check"}
  BY <1>1, <1>2, Sizes DEF EndHeaders
<1> QED
  BY <1>2, <1>3 DEF TypeOK, EndHeaders, startLine

\* Reading a chunk keeps the types.
LEMMA DecodeTyped ==
    ASSUME TypeOK, DecodeChunk
    PROVE  TypeOK'
<1>1. m_body \in Text /\ chunked_size \in Nat /\ new_body \in Text
  BY DEF TypeOK
<1>2. PICK rest : /\ rest = After(m_body, LF)
                  /\ new_body' = new_body \o Take(rest, chunked_size)
                  /\ m_body' = NextChunk(rest, chunked_size)
  BY DEF DecodeChunk
<1>3. rest \in Text
  BY <1>1, <1>2, PartsTyped
<1>4. Take(rest, chunked_size) \in Text
  BY <1>1, <1>3, TakeTyped
<1>5. new_body' \in Text
  BY <1>1, <1>2, <1>4, ConcatText
<1>6. Erase(rest, chunked_size + 1) \in Text
  BY <1>1, <1>3, EraseTyped
<1>7. m_body' \in Text
  BY <1>2, <1>6, PartsTyped DEF NextChunk
<1>8. chunked_size' \in Nat
  BY <1>1, <1>7, Sizes DEF DecodeChunk
<1> QED
  BY <1>5, <1>7, <1>8 DEF TypeOK, DecodeChunk, startLine

\* A segment keeps the types.
LEMMA ReceiveTyped ==
    ASSUME TypeOK, Receive
    PROVE  TypeOK'
<1>1. m_request \in Text /\ wire \in Text
  BY DEF TypeOK
<1>2. PICK n \in 1..Len(wire) : /\ m_request' = m_request \o SubSeq(wire, 1, n)
                                /\ wire' = Erase(wire, n)
  BY DEF Receive
<1>3. SubSeq(wire, 1, n) = Take(wire, n) /\ n \in Nat
  BY <1>1, TextFacts DEF Take
<1>4. m_request' \in Text /\ wire' \in Text
  BY <1>1, <1>2, <1>3, TakeTyped, EraseTyped, ConcatText
<1> QED
  BY <1>4 DEF TypeOK, Receive, startLine, decoding

\* At first everything has its type.
LEMMA InitTyped ==
    ASSUME Init
    PROVE  TypeOK
<1>1. request \in Requests /\ wire \in Text
  BY RequestTyped DEF Init
<1>2. <<>> \in Text /\ DefaultTarget \in Text
  BY EmptyText, OneText, CharTyped DEF DefaultTarget
<1> QED
  BY <1>1, <1>2 DEF Init, TypeOK

(* Every field of the request, of the parser and of the decoder has its    *)
(* type, whatever of the request has come.                                 *)
THEOREM TypeCorrect == Spec => []TypeOK
<1>1. ASSUME TypeOK, [Next]_vars
      PROVE  TypeOK'
  <2>1. CASE Parse
    BY <1>1, <2>1 DEF TypeOK, Parse, startLine, decoding
  <2>2. CASE EndDecode
    BY <1>1, <2>2 DEF TypeOK, EndDecode, startLine, decoding
  <2>3. CASE ErrorChecking
    <3>1. CheckedStatus \in {200, 400, 405, 417, 418, 505}
      BY DEF CheckedStatus
    <3> QED
      BY <1>1, <2>3, <3>1, EmptyText DEF TypeOK, ErrorChecking, startLine, decoding
  <2>4. CASE UNCHANGED vars
    BY <1>1, <2>4 DEF TypeOK, vars, startLine, decoding
  <2> QED
    BY <1>1, <2>1, <2>2, <2>3, <2>4, ReceiveTyped, StartLineTyped, HeaderTyped, EndTyped,
       DecodeTyped DEF Next, Thread
<1> QED
  BY <1>1, InitTyped, PTL DEF Spec

-----------------------------------------------------------------------------
(* The headers.                                                            *)

\* The names and values of the headers, and what they are free of.
LEMMA HeaderParts ==
    ASSUME request \in Requests
    PROVE  /\ N \in Nat /\ DOMAIN request.headers = 1..N
           /\ \A i \in 1..N : /\ request.headers[i] \in Text \X Text
                              /\ Key(i) \in Text /\ Val(i) \in Text /\ Key(i) # <<>>
                              /\ Free(Key(i), {":", CR, LF}) /\ Free(Val(i), {CR, LF})
<1>1. request.headers \in Seq(Text \X Text) /\ HeadersFormed(request)
  BY FormedRequest
<1>2. N \in Nat /\ DOMAIN request.headers = 1..N
  BY <1>1 DEF N
<1>3. ASSUME NEW i \in 1..N
      PROVE  /\ request.headers[i] \in Text \X Text
             /\ Key(i) \in Text /\ Val(i) \in Text /\ Key(i) # <<>>
             /\ Free(Key(i), {":", CR, LF}) /\ Free(Val(i), {CR, LF})
  <2>1. request.headers[i] \in Text \X Text
    BY <1>1, <1>2, <1>3
  <2> QED
    BY <1>1, <1>2, <2>1 DEF HeadersFormed, Key, Val
<1> QED
  BY <1>2, <1>3

\* What is left of the text after i headers, as the parser takes it apart.
LEMMA HeaderNext ==
    ASSUME request \in Requests, NEW i \in 1..N
    PROVE  /\ AfterHeader(i) \in Text /\ AfterHeader(i - 1) \in Text
           /\ Same(AfterHeader(i - 1), Key(i) \o (<<":">> \o (<<SP>> \o
                    (Val(i) \o (<<CR>> \o (<<LF>> \o AfterHeader(i)))))))
           /\ Len(AfterHeader(i - 1)) = Len(Key(i)) + 4 + Len(Val(i)) + Len(AfterHeader(i))
           /\ AfterHeader(i - 1) # <<>> /\ AfterHeader(i - 1)[1] # CR
<1> DEFINE k == Key(i)
           v == Val(i)
           t == AfterHeader(i)
           l == v \o (<<CR>> \o (<<LF>> \o t))
           sl == <<SP>> \o l
           csl == <<":">> \o sl
<1>1. k \in Text /\ v \in Text /\ request.headers[i] = <<k, v>> /\ k # <<>> /\ Free(k, {":", CR, LF})
  <2>1. request.headers[i] \in Text \X Text /\ Key(i) # <<>> /\ Free(Key(i), {":", CR, LF})
    BY HeaderParts
  <2> QED
    BY <2>1 DEF Key, Val
<1>2. t \in Text /\ AfterHeader(i - 1) \in Text
  <2>1. i \in 0..Len(request.headers) /\ i - 1 \in 0..Len(request.headers)
    BY HeaderParts DEF N
  <2> QED
    BY <2>1, AfterHeaderParts
<1>3. Same(AfterHeader(i - 1), HeaderText(request.headers[i]) \o t)
  BY AfterHeaderParts DEF N
<1> HIDE DEF k, v, t
<1>4. Same(HeaderText(<<k, v>>) \o t, k \o csl)
  BY <1>1, <1>2, HeaderLine
<1>5. AfterHeader(i - 1) = k \o csl
  BY <1>1, <1>3, <1>4, Zenon DEF Same
<1>6. l \in Text /\ Len(l) = Len(v) + 2 + Len(t)
  BY <1>1, <1>2, LineLength
<1> HIDE DEF l
<1>7. /\ <<SP>> \in Text /\ <<":">> \in Text /\ Len(<<SP>>) = 1 /\ Len(<<":">>) = 1
  BY CharTyped, OneText
<1>8. sl \in Text /\ Len(sl) = 1 + Len(l)
  BY <1>6, <1>7, ConcatText
<1> HIDE DEF sl
<1>9. csl \in Text /\ Len(csl) = 1 + Len(sl)
  BY <1>7, <1>8, ConcatText
<1> HIDE DEF csl
<1>10. Len(k \o csl) = Len(k) + Len(csl) /\ Len(k) \in Nat /\ Len(v) \in Nat /\ Len(t) \in Nat
  BY <1>1, <1>2, <1>9, ConcatText, TextFacts
<1>11. Len(AfterHeader(i - 1)) = Len(k) + 4 + Len(v) + Len(t)
  <2>1. Len(AfterHeader(i - 1)) = Len(k) + Len(csl)
    BY <1>5, <1>10, Zenon
  <2> QED
    BY <1>6, <1>8, <1>9, <1>10, <2>1
<1>12. AfterHeader(i - 1) # <<>> /\ AfterHeader(i - 1)[1] # CR
  <2>1. (k \o csl)[1] = k[1] /\ k \o csl # <<>>
    BY <1>1, <1>9, FirstOf
  <2>2. k[1] # CR
    <3>1. k[1] \notin {":", CR, LF}
      BY <1>1, FirstFree
    <3> QED
      BY <3>1
  <2> QED
    BY <1>5, <2>1, <2>2, Zenon
<1>13. Same(AfterHeader(i - 1), k \o (<<":">> \o (<<SP>> \o (v \o (<<CR>> \o (<<LF>> \o t))))))
  BY <1>5, Zenon DEF Same, csl, sl, l
<1> QED
  BY <1>2, <1>11, <1>12, <1>13, Zenon DEF k, v, t

(* The headers that follow are shorter.                                    *)
LEMMA Shorter ==
    ASSUME request \in Requests, NEW n \in 0..N, NEW i \in n..N
    PROVE  Len(AfterHeader(i)) =< Len(AfterHeader(n))
<1> DEFINE T == {m \in Nat : n + m =< N => Len(AfterHeader(n + m)) =< Len(AfterHeader(n))}
<1>1. N \in Nat /\ \A j \in 0..N : Len(AfterHeader(j)) \in Nat
  <2>1. N \in Nat
    BY HeaderParts
  <2>2. \A j \in 0..N : AfterHeader(j) \in Text
    BY AfterHeaderParts DEF N
  <2> QED
    BY <2>1, <2>2, TextFacts
<1>2. 0 \in T
  <2>1. n + 0 = n
    BY <1>1
  <2> QED
    BY <1>1, <2>1
<1>3. ASSUME NEW m \in T PROVE m + 1 \in T
  <2>1. SUFFICES ASSUME n + (m + 1) =< N PROVE Len(AfterHeader(n + (m + 1))) =< Len(AfterHeader(n))
    OBVIOUS
  <2>2. PICK j \in 1..N : j = n + (m + 1) /\ j - 1 = n + m
    BY <1>1, <2>1
  <2>3. Len(AfterHeader(j - 1)) = Len(Key(j)) + 4 + Len(Val(j)) + Len(AfterHeader(j))
    BY HeaderNext
  <2>4. Len(Key(j)) \in Nat /\ Len(Val(j)) \in Nat
    <3>1. Key(j) \in Text /\ Val(j) \in Text
      BY HeaderParts
    <3> QED
      BY <3>1, TextFacts
  <2>5. Len(AfterHeader(j - 1)) =< Len(AfterHeader(n))
    BY <1>1, <1>3, <2>1, <2>2
  <2>6. Len(AfterHeader(j)) \in Nat /\ Len(AfterHeader(n)) \in Nat
    BY <1>1, <2>2
  <2>7. Len(AfterHeader(j)) =< Len(AfterHeader(n))
    BY <2>3, <2>4, <2>5, <2>6
  <2> QED
    BY <2>2, <2>7
<1>4. T = Nat
  <2>1. T \in SUBSET Nat
    OBVIOUS
  <2> HIDE DEF T
  <2> QED
    BY <1>2, <1>3, <2>1, Induction
<1>5. PICK m \in Nat : i = n + m
  <2>1. i - n \in Nat /\ i = n + (i - n)
    BY <1>1
  <2> QED
    BY <2>1
<1>6. m \in T
  BY <1>4
<1>7. n + m =< N
  BY <1>1, <1>5
<1> QED
  BY <1>5, <1>6, <1>7

(* Header i has not come at all when that of a lower number has not.       *)
LEMMA NotCame ==
    ASSUME request \in Requests, NEW n \in 0..N, NEW i \in 1..N, i > n,
           wire \in Text, Len(wire) >= Len(AfterHeader(n))
    PROVE  ~NameCame(i) /\ ~LineCame(i)
<1>1. N \in Nat
  BY HeaderParts
<1>2. i - 1 \in n..N
  BY <1>1
<1>3. Len(AfterHeader(i - 1)) =< Len(AfterHeader(n))
  BY <1>2, Shorter
<1>4. /\ Len(AfterHeader(i - 1)) = Len(Key(i)) + 4 + Len(Val(i)) + Len(AfterHeader(i))
      /\ AfterHeader(i) \in Text
  BY HeaderNext
<1>5. Len(Val(i) \o <<CR, LF>>) = Len(Val(i)) + 2 /\ Val(i) \in Text /\ Key(i) \in Text
  <2>1. <<CR, LF>> \in Text /\ Len(<<CR, LF>>) = 2
    BY TwoText, CharTyped
  <2> DEFINE n2 == <<CR, LF>>
  <2>2. Val(i) \in Text /\ Key(i) \in Text
    BY HeaderParts
  <2> HIDE DEF n2
  <2>3. Len(Val(i) \o n2) = Len(Val(i)) + Len(n2)
    BY <2>1, <2>2, ConcatText DEF n2
  <2> QED
    BY <2>1, <2>2, <2>3 DEF n2
<1>6. /\ Len(Val(i)) \in Nat /\ Len(Key(i)) \in Nat /\ Len(AfterHeader(i)) \in Nat
      /\ Len(wire) \in Nat
  BY <1>4, <1>5, TextFacts
<1>7. AfterHeader(n) \in Text
  BY AfterHeaderParts DEF N
<1>8. Len(AfterHeader(n)) \in Nat
  BY <1>7, TextFacts
<1>9. Len(wire) > Len(Val(i)) + 2 + Len(AfterHeader(i))
  BY <1>3, <1>4, <1>6, <1>8
<1>10. ~(Len(wire) =< Len(Val(i) \o <<CR, LF>>) + Len(AfterHeader(i)))
  BY <1>5, <1>6, <1>9
<1>11. ~(Len(wire) =< Len(AfterHeader(i)))
  BY <1>6, <1>9
<1> QED
  BY <1>10, <1>11 DEF NameCame, LineCame, Val

-----------------------------------------------------------------------------

\* What does not change with the request.
LEMMA Static ==
    ASSUME UNCHANGED request
    PROVE  /\ N' = N /\ Sent' = Sent
           /\ \A i : Key(i)' = Key(i) /\ Val(i)' = Val(i)
           /\ \A i : SentValue(Key(i))' = SentValue(Key(i))
           /\ \A i : AfterHeader(i)' = AfterHeader(i)
<1>1. N' = N /\ Sent' = Sent /\ \A i : Key(i)' = Key(i) /\ Val(i)' = Val(i)
  BY DEF N, Sent, Key, Val
<1>2. \A i : SentValue(Key(i))' = SentValue(Key(i))
  BY DEF SentValue, SelectInSeq, Key
<1>3. \A i : AfterHeader(i)' = AfterHeader(i)
  BY DEF AfterHeader
<1> QED
  BY <1>1, <1>2, <1>3

\* What has come of the headers changes with the wire only.
LEMMA StaticWire ==
    ASSUME UNCHANGED <<request, wire>>
    PROVE  \A i : (LineCame(i)' <=> LineCame(i)) /\ (NameCame(i)' <=> NameCame(i))
BY DEF LineCame, NameCame, AfterHeader

(* Of the headers with one name there is a first, which has the value that *)
(* is meant.                                                               *)
LEMMA FirstHeader ==
    ASSUME request \in Requests, NEW i \in 1..N
    PROVE  \E f \in 1..i : /\ Key(f) = Key(i) /\ SentValue(Key(i)) = Val(f)
                           /\ \A j \in 1..(f - 1) : Key(j) # Key(i)
<1> DEFINE I == {j \in 1..Len(request.headers) : request.headers[j][1] = Key(i)}
<1>0. N \in Nat /\ Len(request.headers) = N
  BY HeaderParts DEF N
<1>1. SentValue(Key(i)) = request.headers[IF I # {} THEN Min(I) ELSE 0][2]
  BY DEF SentValue, SelectInSeq
<1>2. I \in SUBSET Nat /\ i \in I
  BY <1>0 DEF Key
<1>3. Min(I) \in I /\ \A m \in I : Min(I) =< m
  BY <1>2, Least
<1>4. /\ Min(I) \in 1..i /\ Key(Min(I)) = Key(i) /\ SentValue(Key(i)) = Val(Min(I))
      /\ \A j \in 1..(Min(I) - 1) : Key(j) # Key(i)
  <2>1. Min(I) \in 1..i /\ Key(Min(I)) = Key(i)
    BY <1>0, <1>2, <1>3 DEF Key
  <2>2. SentValue(Key(i)) = Val(Min(I))
    BY <1>1, <1>2 DEF Val
  <2>3. ASSUME NEW j \in 1..(Min(I) - 1), Key(j) = Key(i) PROVE FALSE
    <3>1. j \in I
      BY <1>0, <2>1, <2>3 DEF Key
    <3>2. Min(I) =< j
      BY <1>3, <3>1
    <3> QED
      BY <2>1, <3>2
  <2> QED
    BY <2>1, <2>2, <2>3
<1> HIDE DEF I
<1> QED
  BY <1>4

\* The value that is meant is a text.
LEMMA SentValueTyped ==
    ASSUME request \in Requests, NEW i \in 1..N
    PROVE  SentValue(Key(i)) \in Text
<1>1. PICK f \in 1..i : SentValue(Key(i)) = Val(f)
  BY FirstHeader
<1>2. f \in 1..N
  BY HeaderParts
<1> QED
  BY <1>1, <1>2, HeaderParts

\* A header that is the first of its name has the value sent.
LEMMA FirstIsSent ==
    ASSUME request \in Requests, NEW i \in 1..N, \A j \in 1..(i - 1) : Key(j) # Key(i)
    PROVE  SentValue(Key(i)) = Val(i)
<1>1. PICK f \in 1..i : Key(f) = Key(i) /\ SentValue(Key(i)) = Val(f)
  BY FirstHeader
<1>2. f = i
  BY <1>1
<1> QED
  BY <1>1, <1>2

\* What comes first of two headers with one name is kept.
LEMMA AddedFacts ==
    ASSUME TypeOK, NEW k, NEW v
    PROVE  /\ DOMAIN Added(k, v) = DOMAIN m_headers \cup {k}
           /\ \A l \in DOMAIN m_headers : Added(k, v)[l] = m_headers[l]
           /\ k \notin DOMAIN m_headers => Added(k, v)[k] = v
BY DEF Added

\* Headers that have been read stay as they are.
LEMMA HeadersStay ==
    ASSUME TypeOK, ParseHeader
    PROVE  \A l \in DOMAIN m_headers : l \in DOMAIN m_headers' /\ m_headers'[l] = m_headers[l]
<1>1. PICK k, v : m_headers' = Added(k, v)
  BY DEF ParseHeader
<1>2. DOMAIN Added(k, v) = DOMAIN m_headers \cup {k}
  BY AddedFacts
<1>3. \A l \in DOMAIN m_headers : Added(k, v)[l] = m_headers[l]
  BY DEF Added
<1> QED
  BY <1>1, <1>2, <1>3

\* A header that has come is added, or one with its name was there.
LEMMA HeaderWholeStep ==
    ASSUME TypeOK, ParseHeader, NEW n \in 0..(N - 1), OnHeader(n),
           HeaderWhole(m_request, wire, Key(n + 1), Val(n + 1), AfterHeader(n + 1))
    PROVE  OnHeader(n + 1)'
<1>1. /\ m_headers' = Added(Before(m_request, ":"), Value(HeaderRest(m_request)))
      /\ m_request' = After(HeaderRest(m_request), LF)
      /\ UNCHANGED <<request, wire>>
  BY DEF ParseHeader, HeaderRest
<1>2. m_headers' = Added(Key(n + 1), Val(n + 1))
  BY <1>1 DEF HeaderWhole
<1>3. Same(m_request' \o wire, AfterHeader(n + 1))
  BY <1>1, Zenon DEF HeaderWhole
<1>4. request \in Requests /\ N \in Nat /\ n + 1 \in 1..N
  BY HeaderParts DEF TypeOK
<1>5. DOMAIN m_headers = {Key(i) : i \in 1..n} /\ HeadersRead(n)
  BY DEF OnHeader
<1>6. DOMAIN m_headers' = {Key(i) : i \in 1..(n + 1)}
  <2>1. DOMAIN m_headers' = DOMAIN m_headers \cup {Key(n + 1)}
    BY <1>2, AddedFacts
  <2>2. 1..(n + 1) = (1..n) \cup {n + 1}
    BY <1>4
  <2> QED
    BY <1>5, <2>1, <2>2
<1>7. ASSUME NEW i \in 1..(n + 1)
      PROVE  Key(i) \in DOMAIN m_headers' /\ m_headers'[Key(i)] = SentValue(Key(i))
  <2>1. Key(i) \in DOMAIN m_headers'
    BY <1>6
  <2>2. CASE Key(i) \in DOMAIN m_headers
    <3>1. PICK j \in 1..n : Key(i) = Key(j)
      BY <1>5, <2>2
    <3>2. m_headers[Key(i)] = SentValue(Key(i))
      BY <1>5, <3>1 DEF HeadersRead
    <3> QED
      BY <2>1, <2>2, <3>2, HeadersStay
  <2>3. CASE Key(i) \notin DOMAIN m_headers
    <3>1. i = n + 1
      BY <1>4, <1>5, <2>3
    <3>2. \A j \in 1..(n + 1 - 1) : Key(j) # Key(n + 1)
      BY <1>4, <1>5, <2>3, <3>1
    <3>3. SentValue(Key(n + 1)) = Val(n + 1)
      BY <1>4, <3>2, FirstIsSent
    <3> QED
      BY <1>2, <2>1, <2>3, <3>1, <3>3, AddedFacts
  <2> QED
    BY <2>2, <2>3
<1>8. HeadersRead(n + 1)'
  BY <1>1, <1>7, Static DEF HeadersRead
<1>9. Same(m_request \o wire, AfterHeader(n + 1))'
  BY <1>1, <1>3, Static, Zenon DEF Same
<1>10. (DOMAIN m_headers)' = {Key(i)' : i \in 1..(n + 1)}
  BY <1>1, <1>6, Static
<1>11. n + 1 \in 0..N'
  BY <1>1, <1>4, Static
<1> QED
  BY <1>8, <1>9, <1>10, <1>11 DEF OnHeader

\* A header that is cut is added as far as it has come.
LEMMA HeaderCutStep ==
    ASSUME TypeOK, ParseHeader, NEW n \in 0..(N - 1), OnHeader(n),
           HeaderCut(m_request, wire, Key(n + 1), Val(n + 1), AfterHeader(n + 1))
    PROVE  CutHeader(n)'
<1>1. /\ m_headers' = Added(Before(m_request, ":"), Value(HeaderRest(m_request)))
      /\ m_request' = After(HeaderRest(m_request), LF)
      /\ UNCHANGED <<request, wire>>
  BY DEF ParseHeader, HeaderRest
<1>2. request \in Requests /\ N \in Nat /\ n + 1 \in 1..N
  BY HeaderParts DEF TypeOK
<1>3. DOMAIN m_headers = {Key(i) : i \in 1..n} /\ HeadersRead(n)
  BY DEF OnHeader
<1>4. LineCut(m_request') /\ ~LineCame(n + 1)
  <2>1. LineCut(m_request')
    BY <1>1, Zenon DEF HeaderCut
  <2>2. Len(wire) > Len(AfterHeader(n + 1)) /\ Len(wire) \in Nat /\ Len(AfterHeader(n + 1)) \in Nat
    <3>1. wire \in Text /\ AfterHeader(n + 1) \in Text
      BY <1>2, HeaderNext DEF TypeOK
    <3> QED
      BY <3>1, TextFacts DEF HeaderCut
  <2> QED
    BY <2>1, <2>2 DEF LineCame
<1>5. HeadersRead(n)'
  <2>1. \A i \in 1..n : Key(i) \in DOMAIN m_headers' /\ m_headers'[Key(i)] = SentValue(Key(i))
    BY <1>3, HeadersStay DEF HeadersRead
  <2> QED
    BY <1>1, <2>1, Static DEF HeadersRead
<1>6. ASSUME NameCame(n + 1)
      PROVE  /\ Key(n + 1) \in DOMAIN m_headers'
             /\ IsPrefix(m_headers'[Key(n + 1)], SentValue(Key(n + 1)))
  <2>1. Before(m_request, ":") = Key(n + 1) /\ IsPrefix(Value(HeaderRest(m_request)), Val(n + 1))
    <3>1. Len(Val(n + 1) \o <<CR, LF>>) = Len(Val(n + 1)) + 2
      <4>1. <<CR, LF>> \in Text /\ Len(<<CR, LF>>) = 2 /\ Val(n + 1) \in Text
        BY <1>2, TwoText, CharTyped, HeaderParts
      <4> DEFINE n2 == <<CR, LF>>
      <4> HIDE DEF n2
      <4>2. Len(Val(n + 1) \o n2) = Len(Val(n + 1)) + Len(n2)
        BY <4>1, ConcatText DEF n2
      <4> QED
        BY <4>1, <4>2 DEF n2
    <3>2. Len(wire) =< Len(Val(n + 1)) + 2 + Len(AfterHeader(n + 1))
      BY <1>6, <3>1, Zenon DEF NameCame, Val
    <3> QED
      BY <3>2 DEF HeaderCut
  <2>2. Key(n + 1) \in DOMAIN m_headers'
    BY <1>1, <2>1, AddedFacts
  <2>3. CASE Key(n + 1) \in DOMAIN m_headers
    <3>1. PICK j \in 1..n : Key(n + 1) = Key(j)
      BY <1>3, <2>3
    <3>2. m_headers[Key(n + 1)] = SentValue(Key(n + 1))
      BY <1>3, <3>1 DEF HeadersRead
    <3>3. m_headers'[Key(n + 1)] = SentValue(Key(n + 1))
      BY <2>3, <3>2, HeadersStay
    <3> QED
      BY <1>2, <2>2, <3>3, SentValueTyped, PrefixSelf
  <2>4. CASE Key(n + 1) \notin DOMAIN m_headers
    <3>1. \A j \in 1..(n + 1 - 1) : Key(j) # Key(n + 1)
      BY <1>2, <1>3, <2>4
    <3>2. SentValue(Key(n + 1)) = Val(n + 1)
      BY <1>2, <3>1, FirstIsSent
    <3>3. m_headers'[Key(n + 1)] = Value(HeaderRest(m_request))
      BY <1>1, <2>1, <2>4, AddedFacts
    <3> QED
      BY <2>1, <2>2, <3>2, <3>3
  <2> QED
    BY <2>3, <2>4
<1>7. n \in 0..(N' - 1)
  BY <1>1, Static
<1>8. LineCut(m_request)' /\ ~LineCame(n + 1)'
  BY <1>1, <1>4, StaticWire DEF LineCut
<1>9. NameCame(n + 1)' => /\ Key(n + 1)' \in DOMAIN m_headers'
                          /\ IsPrefix(m_headers'[Key(n + 1)'], SentValue(Key(n + 1))')
  BY <1>1, <1>6, Static, StaticWire
<1> QED
  BY <1>5, <1>7, <1>8, <1>9 DEF CutHeader

\* What is left of a line that is cut makes no header that was sent.
LEMMA CutStays ==
    ASSUME TypeOK, ParseHeader, NEW n, CutHeader(n)
    PROVE  CutHeader(n)'
<1>1. /\ m_request' = After(HeaderRest(m_request), LF)
      /\ UNCHANGED <<request, wire>>
  BY DEF ParseHeader, HeaderRest
<1>2. LineCut(m_request')
  <2>1. m_request \in Text /\ LineCut(m_request)
    BY DEF TypeOK, CutHeader
  <2>2. Find(m_request, ":") + 1 \in Nat
    <3>1. Find(m_request, ":") \in 0..Len(m_request) /\ Len(m_request) \in Nat
      BY <2>1, FindFirst, TextFacts
    <3> QED
      BY <3>1
  <2>3. HeaderRest(m_request) \in Text
    BY <2>1, <2>2, EraseTyped DEF HeaderRest
  <2>4. LineCut(HeaderRest(m_request))
    BY <2>1, <2>2, LineCutFacts DEF HeaderRest
  <2>5. After(HeaderRest(m_request), LF) = HeaderRest(m_request)
    BY <2>3, <2>4, LineCutFacts
  <2> QED
    BY <1>1, <2>4, <2>5, Zenon
<1>3. HeadersRead(n)'
  <2>1. \A i \in 1..n : Key(i) \in DOMAIN m_headers' /\ m_headers'[Key(i)] = SentValue(Key(i))
    BY HeadersStay DEF HeadersRead, CutHeader
  <2> QED
    BY <1>1, <2>1, Static DEF HeadersRead
<1>4. n \in 0..(N' - 1)
  BY <1>1, Static DEF CutHeader
<1>5. LineCut(m_request)' /\ ~LineCame(n + 1)'
  BY <1>1, <1>2, StaticWire DEF LineCut, CutHeader
<1>6. NameCame(n + 1)' => /\ Key(n + 1)' \in DOMAIN m_headers'
                          /\ IsPrefix(m_headers'[Key(n + 1)'], SentValue(Key(n + 1))')
  <2>1. NameCame(n + 1) => /\ Key(n + 1) \in DOMAIN m_headers'
                           /\ IsPrefix(m_headers'[Key(n + 1)], SentValue(Key(n + 1)))
    BY HeadersStay DEF CutHeader
  <2> QED
    BY <1>1, <2>1, Static, StaticWire
<1> QED
  BY <1>3, <1>4, <1>5, <1>6 DEF CutHeader

\* The empty line and the body follow the last header.
LEMMA AfterHeaders ==
    ASSUME request \in Requests
    PROVE  /\ Same(AfterHeader(N), <<CR>> \o (<<LF>> \o BodyText(request)))
           /\ BodyText(request) \in Text /\ <<LF>> \o BodyText(request) \in Text
<1>1. BodyText(request) \in Text
  BY TextsTyped
<1>2. <<CR, LF>> \o BodyText(request) = <<CR>> \o (<<LF>> \o BodyText(request))
  BY <1>1, CharTyped, TwoConcat
<1>3. Same(AfterHeader(N), <<CR, LF>> \o BodyText(request))
  BY AfterHeaderParts DEF N
<1>4. <<LF>> \in Text
  BY CharTyped, OneText
<1> QED
  BY <1>1, <1>2, <1>3, <1>4, ConcatText, Zenon DEF Same

\* Where a header is expected, the loop ends at the end of the headers or of
\* what has come.
LEMMA AtEnd ==
    ASSUME TypeOK, NEW n \in 0..N, OnHeader(n)
    PROVE  /\ n = N => AtEndOfHeaders
           /\ n # N /\ AtEndOfHeaders => m_request = <<>>
<1>1. m_request \in Text /\ wire \in Text /\ request \in Requests /\ N \in Nat
  BY HeaderParts DEF TypeOK
<1>2. ASSUME n = N PROVE AtEndOfHeaders
  <2>1. Same(m_request \o wire, <<CR>> \o (<<LF>> \o BodyText(request)))
    BY <1>1, <1>2, AfterHeaders, Zenon DEF OnHeader, Same
  <2> DEFINE lb == <<LF>> \o BodyText(request)
  <2>2. lb \in Text /\ CR \in Char
    BY <1>1, AfterHeaders, CharTyped
  <2>3. Same(m_request \o wire, <<CR>> \o lb)
    BY <2>1
  <2> HIDE DEF lb
  <2>4. m_request = <<>> \/ (m_request # <<>> /\ m_request[1] = CR)
    BY <1>1, <2>2, <2>3, FirstCut
  <2>5. Take(m_request, 1) = <<>> \/ Take(m_request, 1) = <<CR>>
    BY <1>1, <2>4, TakeOne
  <2> QED
    BY <2>5 DEF AtEndOfHeaders
<1>3. ASSUME n # N, AtEndOfHeaders, m_request # <<>> PROVE FALSE
  <2>1. PICK j \in 1..N : j - 1 = n
    <3>1. n + 1 \in 1..N /\ n + 1 - 1 = n
      BY <1>1, <1>3
    <3> QED
      BY <3>1
  <2>2. AfterHeader(n)[1] # CR /\ AfterHeader(n) \in Text
    <3>1. AfterHeader(j - 1)[1] # CR /\ AfterHeader(j - 1) \in Text
      BY <1>1, HeaderNext
    <3> QED
      BY <2>1, <3>1, Zenon
  <2>3. m_request \o wire = AfterHeader(n)
    BY DEF OnHeader, Same
  <2>4. (m_request \o wire)[1] = m_request[1]
    BY <1>1, <1>3, FirstOf
  <2>5. m_request[1] # CR
    BY <2>2, <2>3, <2>4, Zenon
  <2>6. Take(m_request, 1) = <<m_request[1]>> /\ Take(m_request, 1) # <<>>
    BY <1>1, <1>3, TakeOne
  <2>7. Take(m_request, 1) = <<CR>>
    BY <1>3, <2>6 DEF AtEndOfHeaders
  <2> QED
    BY <2>5, <2>6, <2>7
<1> QED
  BY <1>2, <1>3

\* One turn of the loop that reads the headers.
LEMMA HeaderStep ==
    ASSUME TypeOK, ParseHeader, NEW n \in 0..N, OnHeader(n) \/ CutHeader(n)
    PROVE  \E m \in 0..N : OnHeader(m)' \/ CutHeader(m)'
<1>1. m_request \in Text /\ wire \in Text /\ request \in Requests /\ N \in Nat
  BY HeaderParts DEF TypeOK
<1>2. CASE CutHeader(n)
  BY <1>2, CutStays
<1>3. CASE OnHeader(n)
  <2>1. n # N
    BY <1>3, AtEnd DEF ParseHeader
  <2>2. n \in 0..(N - 1) /\ n + 1 \in 1..N /\ n + 1 - 1 = n /\ n + 1 \in 0..N
    BY <1>1, <2>1
  <2>3. /\ AfterHeader(n + 1) \in Text
        /\ Same(AfterHeader(n), Key(n + 1) \o (<<":">> \o (<<SP>> \o
                    (Val(n + 1) \o (<<CR>> \o (<<LF>> \o AfterHeader(n + 1)))))))
    <3>1. PICK j \in 1..N : j = n + 1 /\ j - 1 = n
      BY <2>2
    <3>2. /\ AfterHeader(j) \in Text
          /\ Same(AfterHeader(j - 1), Key(j) \o (<<":">> \o (<<SP>> \o
                    (Val(j) \o (<<CR>> \o (<<LF>> \o AfterHeader(j)))))))
      BY <1>1, HeaderNext
    <3> QED
      BY <3>1, <3>2, Zenon
  <2>4. Same(m_request \o wire, Key(n + 1) \o (<<":">> \o (<<SP>> \o
                    (Val(n + 1) \o (<<CR>> \o (<<LF>> \o AfterHeader(n + 1)))))))
    BY <1>3, <2>3, Zenon DEF OnHeader, Same
  <2>5. /\ Key(n + 1) \in Text /\ Val(n + 1) \in Text
        /\ Free(Key(n + 1), {":", CR, LF}) /\ Free(Val(n + 1), {CR, LF})
    BY <1>1, <2>2, HeaderParts
  <2>6. AfterHeader(n + 1) \in Text
    BY <2>3
  <2>7. \/ HeaderWhole(m_request, wire, Key(n + 1), Val(n + 1), AfterHeader(n + 1))
        \/ HeaderCut(m_request, wire, Key(n + 1), Val(n + 1), AfterHeader(n + 1))
    BY <1>1, <2>4, <2>5, <2>6, HeaderRead
  <2>8. OnHeader(n + 1)' \/ CutHeader(n)'
    BY <1>3, <2>2, <2>7, HeaderWholeStep, HeaderCutStep
  <2> QED
    BY <2>2, <2>8
<1> QED
  BY <1>2, <1>3

(* Headers that have been read, and no other of which the line has come,   *)
(* are all that is kept.                                                   *)
LEMMA ReadIsKept ==
    ASSUME TypeOK, NEW n \in 0..N, HeadersRead(n),
           \A i \in 1..N : i > n => ~LineCame(i),
           \A i \in 1..N : i > n /\ NameCame(i) =>
               Key(i) \in DOMAIN m_headers /\ IsPrefix(m_headers[Key(i)], SentValue(Key(i)))
    PROVE  HeadersKept
<1>1. request \in Requests /\ N \in Nat /\ DOMAIN request.headers = 1..N
  BY HeaderParts DEF TypeOK
<1>2. SUFFICES ASSUME NEW i \in 1..N
               PROVE  /\ NameCame(i) => /\ Key(i) \in DOMAIN m_headers
                                        /\ IsPrefix(m_headers[Key(i)], SentValue(Key(i)))
                      /\ LineCame(i) => m_headers[Key(i)] = SentValue(Key(i))
  BY <1>1 DEF HeadersKept
<1>3. CASE i =< n
  <2>1. Key(i) \in DOMAIN m_headers /\ m_headers[Key(i)] = SentValue(Key(i))
    BY <1>3 DEF HeadersRead
  <2>2. SentValue(Key(i)) \in Text
    BY <1>1, SentValueTyped
  <2>3. IsPrefix(SentValue(Key(i)), SentValue(Key(i)))
    BY <2>2, PrefixSelf
  <2> QED
    BY <2>1, <2>3
<1>4. CASE i > n
  BY <1>4
<1> QED
  BY <1>1, <1>3, <1>4

\* The headers kept of a request that is cut in them.
LEMMA CutKept ==
    ASSUME TypeOK, NEW n \in 0..(N - 1), CutHeader(n)
    PROVE  HeadersKept /\ wire # <<>>
<1>1. request \in Requests /\ N \in Nat /\ wire \in Text /\ n \in 0..N /\ n + 1 \in 1..N
  BY HeaderParts DEF TypeOK
<1>2. /\ HeadersRead(n) /\ ~LineCame(n + 1)
      /\ NameCame(n + 1) => /\ Key(n + 1) \in DOMAIN m_headers
                            /\ IsPrefix(m_headers[Key(n + 1)], SentValue(Key(n + 1)))
  BY DEF CutHeader
<1>3. AfterHeader(n + 1) \in Text
  BY <1>1, HeaderNext
<1>4. Len(wire) > Len(AfterHeader(n + 1)) /\ Len(wire) \in Nat /\ Len(AfterHeader(n + 1)) \in Nat
  BY <1>1, <1>2, <1>3, TextFacts DEF LineCame
<1>5. ASSUME NEW i \in 1..N, i > n + 1 PROVE ~NameCame(i) /\ ~LineCame(i)
  <2>1. n + 1 \in 0..N /\ Len(wire) >= Len(AfterHeader(n + 1))
    BY <1>1, <1>4
  <2> QED
    BY <1>1, <1>5, <2>1, NotCame
<1>6. \A i \in 1..N : i > n => i = n + 1 \/ i > n + 1
  BY <1>1
<1>7. wire # <<>>
  BY <1>1, <1>3, <1>4, WireLeft
<1>8. \A i \in 1..N : i > n => ~LineCame(i)
  BY <1>2, <1>5, <1>6
<1>9. \A i \in 1..N : i > n /\ NameCame(i) =>
               Key(i) \in DOMAIN m_headers /\ IsPrefix(m_headers[Key(i)], SentValue(Key(i)))
  BY <1>2, <1>5, <1>6
<1> QED
  BY <1>1, <1>2, <1>7, <1>8, <1>9, ReadIsKept

\* Every header has been read, and nothing else.
HeadersWhole == DOMAIN m_headers = Sent /\ HeadersRead(N)

\* What has come of the body, or nothing, where the loop ends.
BodyCame(b) ==
    \/ b = <<>> /\ wire # <<>>
    \/ Same(b \o wire, BodyText(request)) /\ HeadersWhole

\* After the last header the body is left, or the cut is before it.
LEMMA LastHeader ==
    ASSUME TypeOK, OnHeader(N)
    PROVE  HeadersKept /\ BodyCame(Erase(m_request, 2))
<1>1. m_request \in Text /\ wire \in Text /\ request \in Requests /\ N \in Nat
  BY HeaderParts DEF TypeOK
<1>2. HeadersKept
  <2>1. N \in 0..N /\ HeadersRead(N) /\ \A i \in 1..N : ~(i > N)
    BY <1>1 DEF OnHeader
  <2> QED
    BY <2>1, ReadIsKept
<1>3. HeadersWhole
  <2>1. Sent = {Key(i) : i \in 1..N}
    BY <1>1, HeaderParts DEF Sent, Key
  <2> QED
    BY <2>1 DEF OnHeader, HeadersWhole
<1> DEFINE b == BodyText(request)
           lb == <<LF>> \o b
<1>4. b \in Text /\ lb \in Text /\ Same(m_request \o wire, <<CR>> \o lb)
  BY <1>1, AfterHeaders, Zenon DEF OnHeader, Same
<1> HIDE DEF b
<1>5. CR \in Char /\ LF \in Char
  BY CharTyped
<1> DEFINE x == Erase(m_request, 1)
<1>6. x \in Text
  BY <1>1, EraseTyped
<1>7. CASE m_request = <<>> /\ Len(wire) > Len(lb)
  <2>1. wire # <<>>
    BY <1>1, <1>4, <1>7, WireLeft
  <2>2. Erase(m_request, 2) = <<>>
    <3>1. Len(m_request) = 0
      BY <1>1, <1>7, EmptyText
    <3> QED
      BY <1>1, <3>1, EraseTwo
  <2> QED
    BY <1>2, <2>1, <2>2 DEF BodyCame
<1>8. CASE m_request # <<>> /\ Same(x \o wire, lb)
  <2>1. Len(m_request) \in Nat /\ Len(m_request) >= 1
    <3>1. Len(m_request) # 0 /\ Len(m_request) \in Nat
      BY <1>1, <1>8, EmptyText, TextFacts
    <3> QED
      BY <3>1
  <2>2. Erase(x, 1) = Erase(m_request, 2) /\ Len(x) = Len(m_request) - 1
    <3>1. Erase(Erase(m_request, 1), 1) = Erase(m_request, 1 + 1) /\ Len(Erase(m_request, 1)) = Len(m_request) - 1
      BY <1>1, <2>1, EraseErase, EraseTyped
    <3>2. 1 + 1 = 2
      OBVIOUS
    <3> QED
      BY <3>1, <3>2
  <2>3. Same(x \o wire, <<LF>> \o b)
    BY <1>8
  <2> HIDE DEF x, lb
  <2>4. \/ Same(Erase(x, 1) \o wire, b)
        \/ x = <<>> /\ Len(wire) > Len(b)
    BY <1>1, <1>4, <1>5, <1>6, <2>3, FirstCut
  <2>5. CASE Same(Erase(x, 1) \o wire, b)
    BY <1>2, <1>3, <2>2, <2>5 DEF BodyCame, b
  <2>6. CASE x = <<>> /\ Len(wire) > Len(b)
    <3>1. wire # <<>>
      BY <1>1, <1>4, <2>6, WireLeft
    <3>2. Len(m_request) =< 2
      <4>1. Len(x) = 0
        BY <1>6, <2>6, EmptyText
      <4> QED
        BY <2>1, <2>2, <4>1 DEF x
    <3>3. Erase(m_request, 2) = <<>>
      BY <1>1, <3>2, EraseTwo
    <3> QED
      BY <1>2, <3>1, <3>3 DEF BodyCame
  <2> QED
    BY <2>4, <2>5, <2>6
<1>9. \/ m_request = <<>> /\ Len(wire) > Len(lb)
      \/ m_request # <<>> /\ Same(x \o wire, lb)
  <2> HIDE DEF lb
  <2> QED
    BY <1>1, <1>4, <1>5, FirstCut
<1> QED
  BY <1>7, <1>8, <1>9

(* Where the loop ends the headers are kept, and the body is left or the   *)
(* cut is before it.                                                       *)
LEMMA HeadersEnd ==
    ASSUME TypeOK, AtEndOfHeaders, NEW n \in 0..N, OnHeader(n) \/ CutHeader(n)
    PROVE  HeadersKept /\ BodyCame(Erase(m_request, 2))
<1>1. m_request \in Text /\ wire \in Text /\ request \in Requests /\ N \in Nat
  BY HeaderParts DEF TypeOK
<1>2. CASE CutHeader(n)
  <2>1. n \in 0..(N - 1)
    BY <1>2 DEF CutHeader
  <2>2. HeadersKept /\ wire # <<>>
    BY <1>2, <2>1, CutKept
  <2>3. LineCut(m_request)
    BY <1>2 DEF CutHeader
  <2>4. Len(m_request) =< 2
    <3>1. CASE m_request = <<>>
      <4>1. Len(m_request) = 0
        BY <1>1, <3>1, EmptyText
      <4> QED
        BY <4>1
    <3>2. CASE m_request # <<>>
      <4>1. Take(m_request, 1) = <<m_request[1]>> /\ Take(m_request, 1) # <<>>
        BY <1>1, <3>2, TakeOne
      <4>2. <<m_request[1]>> = <<CR>>
        BY <4>1 DEF AtEndOfHeaders
      <4>3. m_request[1] = CR
        BY <4>2
      <4>4. Len(m_request) = 1
        BY <1>1, <2>3, <3>2, <4>3, LineCutFacts
      <4> QED
        BY <4>4
    <3> QED
      BY <3>1, <3>2
  <2>5. Erase(m_request, 2) = <<>>
    BY <1>1, <2>4, EraseTwo
  <2> QED
    BY <2>2, <2>5 DEF BodyCame
<1>3. CASE OnHeader(n) /\ n = N
  BY <1>3, LastHeader
<1>4. CASE OnHeader(n) /\ n # N
  <2>1. m_request = <<>>
    BY <1>4, AtEnd
  <2>2. AfterHeader(n) \in Text /\ AfterHeader(n) # <<>>
    <3>1. PICK j \in 1..N : j - 1 = n
      <4>1. n + 1 \in 1..N /\ n + 1 - 1 = n
        BY <1>1, <1>4
      <4> QED
        BY <4>1
    <3>2. AfterHeader(j - 1) # <<>> /\ AfterHeader(j - 1) \in Text
      BY <1>1, HeaderNext
    <3> QED
      BY <3>1, <3>2, Zenon
  <2>3. wire = AfterHeader(n)
    <3>1. m_request \o wire = wire
      BY <1>1, <2>1, EmptyText
    <3> QED
      BY <1>4, <3>1, Zenon DEF OnHeader, Same
  <2>4. \A i \in 1..N : i > n => ~NameCame(i) /\ ~LineCame(i)
    <3>1. Len(wire) >= Len(AfterHeader(n))
      BY <1>1, <2>2, <2>3, TextFacts
    <3> QED
      BY <1>1, <3>1, NotCame
  <2>5. HeadersKept
    BY <1>4, <2>4, ReadIsKept DEF OnHeader
  <2>6. Erase(m_request, 2) = <<>>
    <3>1. Len(m_request) = 0
      BY <1>1, <2>1, EmptyText
    <3>2. Len(m_request) =< 2
      BY <3>1
    <3> QED
      BY <1>1, <3>2, EraseTwo
  <2> QED
    BY <2>2, <2>3, <2>5, <2>6 DEF BodyCame
<1> QED
  BY <1>2, <1>3, <1>4

-----------------------------------------------------------------------------
(* The chunks.                                                             *)

(* What follows the chunks: one chunk and what follows it, at last the     *)
(* last chunk.                                                             *)
LEMMA AfterChunkParts ==
    ASSUME request \in Requests, request.chunked
    PROVE  /\ D \in Nat /\ \A i \in 0..D : AfterChunk(i) \in Text
           /\ \A i \in 1..D :
                Same(AfterChunk(i - 1), ChunkText(request.sizes[i], request.data[i]) \o AfterChunk(i))
           /\ AfterChunk(D) = Last0
           /\ AfterChunk(0) = BodyText(request)
<1> DEFINE s == ChunkTexts(request)
           F(i) == FlattenSeq(SubSeq(s, i, Len(s)))
           b == Last0
<1>1. /\ s \in Seq(Text) /\ Len(s) = D /\ b \in Text /\ Len(s) \in Nat
      /\ \A i \in 1..D : s[i] = ChunkText(request.sizes[i], request.data[i])
  BY TextsTyped, LastChunk DEF D
<1>2. \A i : AfterChunk(i) = F(i + 1) \o b
  BY <1>1 DEF AfterChunk, D
<1>8. BodyText(request) = FlattenSeq(s) \o b
  BY DEF BodyText, Last0
<1> HIDE DEF b, s
<1>3. \A i \in 0..Len(s) : F(i + 1) \in Text
  <2>1. SUFFICES ASSUME NEW i \in 0..Len(s) PROVE F(i + 1) \in Text
    OBVIOUS
  <2>2. \A j \in (i + 1)..Len(s) : s[j] \in Text
    BY <1>1
  <2>3. SubSeq(s, i + 1, Len(s)) \in Seq(Text)
    BY <1>1, <2>2, SubSeqProperties
  <2> QED
    BY <2>3, FlattenTyped
<1>4. \A i \in 0..Len(s) : AfterChunk(i) \in Text
  <2>1. SUFFICES ASSUME NEW i \in 0..Len(s) PROVE AfterChunk(i) \in Text
    OBVIOUS
  <2>2. F(i + 1) \in Text
    BY <1>3
  <2> HIDE DEF F
  <2>3. F(i + 1) \o b \in Text
    BY <1>1, <2>2, ConcatText
  <2> QED
    BY <1>2, <2>3
<1>5. ASSUME NEW i \in 1..Len(s) PROVE Same(AfterChunk(i - 1), s[i] \o AfterChunk(i))
  <2>1. F(i) = s[i] \o F(i + 1)
    BY <1>1, FlattenFrom
  <2>2. s[i] \in Text /\ F(i + 1) \in Text
    <3>1. i \in 0..Len(s)
      BY <1>1
    <3> HIDE DEF F
    <3> QED
      BY <1>1, <1>3, <3>1
  <2>3. i - 1 + 1 = i
    BY <1>1
  <2> DEFINE f == F(i + 1)
             x == s[i]
  <2> HIDE DEF f, x
  <2>4. Same((x \o f) \o b, x \o (f \o b))
    <3>1. Texts({x, f, b})
      BY <1>1, <2>2 DEF Texts, f, x
    <3> QED
      BY <3>1, Moved
  <2>8. AfterChunk(i - 1) = (x \o f) \o b
    BY <1>2, <2>1, <2>3, Zenon DEF f, x
  <2>9. AfterChunk(i) = f \o b
    BY <1>2, Zenon DEF f
  <2> QED
    BY <2>4, <2>8, <2>9, Zenon DEF Same, x
<1>6. AfterChunk(Len(s)) = b
  <2>1. SubSeq(s, Len(s) + 1, Len(s)) = <<>>
    BY <1>1, SubSeqEmpty
  <2>2. F(Len(s) + 1) = <<>>
    BY <2>1, FlattenEmpty
  <2>3. <<>> \o b = b
    BY <1>1, EmptyText
  <2> HIDE DEF F
  <2> QED
    BY <1>2, <2>2, <2>3, Zenon
<1>7. AfterChunk(0) = FlattenSeq(s) \o b
  <2>1. F(1) = FlattenSeq(s)
    BY <1>1, SubSeqFull
  <2>2. 0 + 1 = 1
    OBVIOUS
  <2> HIDE DEF F
  <2> QED
    BY <1>2, <2>1, <2>2, Zenon
<1>9. \A i \in 1..D : Same(AfterChunk(i - 1), ChunkText(request.sizes[i], request.data[i]) \o AfterChunk(i))
  BY <1>1, <1>5, Zenon
<1>10. D \in Nat /\ \A i \in 0..D : AfterChunk(i) \in Text
  BY <1>1, <1>4
<1>11. AfterChunk(D) = b
  BY <1>1, <1>6, Zenon
<1> QED
  BY <1>7, <1>8, <1>9, <1>10, <1>11, Zenon DEF b

(* The size of a chunk is the length of its data, in digits without a      *)
(* leading zero.                                                           *)
LEMMA ChunkFacts ==
    ASSUME request \in Requests, request.chunked, NEW i \in 1..D
    PROVE  /\ request.sizes[i] \in Text /\ request.data[i] \in Text
           /\ request.sizes[i] # <<>> /\ request.sizes[i][1] # "0"
           /\ \A k \in DOMAIN request.sizes[i] : request.sizes[i][k] \in ToSet(Digits)
           /\ HexNumber(request.sizes[i]) = Len(request.data[i])
           /\ Len(request.data[i]) \in Nat /\ Len(request.data[i]) >= 1
<1>1. request.data \in Seq(Text) /\ request.sizes \in Seq(Text) /\ ChunksFormed(request)
  BY FormedRequest
<1>2. i \in DOMAIN request.data /\ request.data[i] \in Text
  BY <1>1 DEF D
<1>3. /\ Len(request.sizes) = Len(request.data)
      /\ request.sizes[i] # <<>> /\ request.sizes[i][1] # "0"
      /\ \A k \in DOMAIN request.sizes[i] : request.sizes[i][k] \in ToSet(Digits)
      /\ HexNumber(request.sizes[i]) = Len(request.data[i])
      /\ Len(request.data[i]) \in 1..(MaxSize - 1)
  BY <1>1, <1>2 DEF ChunksFormed
<1>4. request.sizes[i] \in Text
  BY <1>1, <1>3 DEF D
<1>5. Len(request.data[i]) \in Nat
  BY <1>2, TextFacts
<1>6. Len(request.data[i]) >= 1
  BY <1>3, <1>5
<1> QED
  BY <1>2, <1>3, <1>4, <1>5, <1>6

\* What follows a chunk, as the decoder takes it apart.
LEMMA ChunkNext ==
    ASSUME request \in Requests, request.chunked, NEW i \in 1..D
    PROVE  /\ AfterChunk(i) \in Text /\ AfterChunk(i - 1) \in Text
           /\ Same(AfterChunk(i - 1), request.sizes[i] \o (<<CR>> \o (<<LF>> \o
                    (request.data[i] \o (<<CR>> \o (<<LF>> \o AfterChunk(i)))))))
<1>1. i \in 0..D /\ i - 1 \in 0..D
  BY AfterChunkParts
<1>2. AfterChunk(i) \in Text /\ AfterChunk(i - 1) \in Text
  BY <1>1, AfterChunkParts
<1>3. request.sizes[i] \in Text /\ request.data[i] \in Text
  BY ChunkFacts
<1>4. Same(AfterChunk(i - 1), ChunkText(request.sizes[i], request.data[i]) \o AfterChunk(i))
  BY AfterChunkParts
<1>5. Same(ChunkText(request.sizes[i], request.data[i]) \o AfterChunk(i), request.sizes[i] \o (<<CR>> \o (<<LF>> \o
                    (request.data[i] \o (<<CR>> \o (<<LF>> \o AfterChunk(i)))))))
  BY <1>2, <1>3, ChunkLine
<1> QED
  BY <1>2, <1>4, <1>5, Zenon DEF Same

\* A chunk begins with its size.
LEMMA ChunkBegins ==
    ASSUME request \in Requests, request.chunked, NEW n \in 0..D
    PROVE  AfterChunk(n) \in Text /\ AfterChunk(n) # <<>> /\ AfterChunk(n)[1] # CR
<1>1. D \in Nat
  BY AfterChunkParts
<1>2. CASE n = D
  <2>1. AfterChunk(n) = Last0 /\ Last0 \in Text
    BY <1>2, AfterChunkParts, LastChunk
  <2> DEFINE x == <<CR>> \o (<<LF>> \o <<CR, LF>>)
             z == <<"0">>
  <2>2. x \in Text /\ z \in Text
    BY LastChunk, LineTyped
  <2>3. z # <<>> /\ z[1] # CR
    BY DEF CR
  <2>4. Same(Last0, z \o x)
    BY LastChunk
  <2> HIDE DEF x, z
  <2>5. (z \o x)[1] = z[1] /\ z \o x # <<>>
    BY <2>2, <2>3, FirstOf
  <2> QED
    BY <2>1, <2>3, <2>4, <2>5, Zenon DEF Same
<1>3. CASE n # D
  <2>1. PICK i \in 1..D : i - 1 = n
    <3>1. n + 1 \in 1..D /\ n + 1 - 1 = n
      BY <1>1, <1>3
    <3> QED
      BY <3>1
  <2> DEFINE s == request.sizes[i]
             d == request.data[i]
             u == d \o (<<CR>> \o (<<LF>> \o AfterChunk(i)))
             x == <<CR>> \o (<<LF>> \o u)
  <2>2. /\ s \in Text /\ d \in Text /\ s # <<>>
        /\ \A k \in DOMAIN s : s[k] \in ToSet(Digits)
    BY ChunkFacts
  <2>3. AfterChunk(i) \in Text /\ AfterChunk(i - 1) \in Text /\ Same(AfterChunk(i - 1), s \o x)
    BY ChunkNext
  <2>4. u \in Text
    BY <2>2, <2>3, LineLength
  <2> HIDE DEF u
  <2>5. x \in Text
    BY <2>4, LineTyped
  <2> HIDE DEF x
  <2>6. (s \o x)[1] = s[1] /\ s \o x # <<>>
    BY <2>2, <2>5, FirstOf
  <2>7. s[1] # CR
    <3>1. Free(s, {CR, LF})
      BY <2>2, DigitsFree
    <3>2. s[1] \notin {CR, LF}
      BY <2>2, <3>1, FirstFree
    <3> QED
      BY <3>2
  <2> HIDE DEF s, d
  <2>8. AfterChunk(i - 1) # <<>> /\ AfterChunk(i - 1)[1] # CR
    BY <2>3, <2>6, <2>7, Zenon DEF Same
  <2> QED
    BY <2>1, <2>3, <2>8, Zenon
<1> QED
  BY <1>2, <1>3

\* A body begins with a size that is read.
LEMMA BodyBegins ==
    ASSUME request \in Requests, request.chunked, NEW n \in 0..D,
           NEW b \in Text, NEW w \in Text, b # <<>>, Same(b \o w, AfterChunk(n)), NEW old \in Nat
    PROVE  b[1] # CR /\ ReadSize(b, old) = HexNumber(Before(b, CR))
<1>1. AfterChunk(n)[1] # CR
  BY ChunkBegins
<1>2. (b \o w)[1] = b[1]
  BY FirstOf
<1>3. b[1] # CR
  BY <1>1, <1>2, Zenon DEF Same
<1> QED
  BY <1>3, SizeRead

\* The size is zero before the last chunk, and before no other.
LEMMA SizeOnChunk ==
    ASSUME TypeOK, request.chunked, NEW n \in 0..D, OnChunk(n)
    PROVE  /\ n # D => chunked_size >= 1
           /\ n = D => chunked_size = 0
<1>1. /\ request \in Requests /\ m_body \in Text /\ wire \in Text /\ D \in Nat
      /\ m_body # <<>> /\ chunked_size = HexNumber(Before(m_body, CR))
      /\ Same(m_body \o wire, AfterChunk(n))
  BY AfterChunkParts DEF TypeOK, OnChunk
<1>2. ASSUME n # D PROVE chunked_size >= 1
  <2>1. PICK i \in 1..D : i - 1 = n
    <3>1. n + 1 \in 1..D /\ n + 1 - 1 = n
      BY <1>1, <1>2
    <3> QED
      BY <3>1
  <2> DEFINE s == request.sizes[i]
             d == request.data[i]
             u == d \o (<<CR>> \o (<<LF>> \o AfterChunk(i)))
  <2>2. /\ s \in Text /\ d \in Text /\ s # <<>> /\ s[1] # "0"
        /\ \A k \in DOMAIN s : s[k] \in ToSet(Digits)
        /\ HexNumber(s) = Len(d) /\ Len(d) >= 1
    BY <1>1, ChunkFacts
  <2>3. AfterChunk(i) \in Text /\ Same(AfterChunk(i - 1), s \o (<<CR>> \o (<<LF>> \o u)))
    BY <1>1, ChunkNext
  <2>4. u \in Text
    BY <2>2, <2>3, LineLength
  <2> HIDE DEF u, s, d
  <2>5. Same(m_body \o wire, s \o (<<CR>> \o (<<LF>> \o u)))
    BY <1>1, <2>1, <2>3, Zenon DEF Same
  <2>6. \/ Before(m_body, CR) = s
        \/ HexNumber(Before(m_body, CR)) >= 1
    <3>1. \/ Before(m_body, CR) = s /\ Same(After(m_body, LF) \o wire, u)
          \/ /\ wire # <<>> /\ After(m_body, LF) = m_body
             /\ HexNumber(Before(m_body, CR)) >= 1 /\ Len(m_body) =< HexNumber(Before(m_body, CR)) + 1
      BY <1>1, <2>2, <2>4, <2>5, SizeCut
    <3> QED
      BY <3>1, Zenon
  <2> QED
    BY <1>1, <2>2, <2>6
<1>3. ASSUME n = D PROVE chunked_size = 0
  <2> DEFINE z == <<"0">>
             x == <<LF>> \o <<CR, LF>>
  <2>1. z \in Text /\ Len(z) = 1 /\ x \in Text /\ CR \in Char /\ Same(Last0, z \o (<<CR>> \o x))
    <3>1. CR \in Char /\ LF \in Char /\ "0" \in Char
      BY CharTyped
    <3>2. <<LF>> \in Text /\ <<CR, LF>> \in Text
      BY <3>1, OneText, LastChunk
    <3>3. x \in Text
      BY <3>2, ConcatText
    <3> QED
      BY <3>1, <3>3, OneText, LastChunk
  <2>2. Free(z, {CR})
    <3>1. Len(z) = 1 /\ z[1] # CR /\ DOMAIN z = 1..1
      BY DEF CR
    <3>2. \A k \in 1..1 : k = 1
      OBVIOUS
    <3> HIDE DEF z
    <3> QED
      BY <3>1, <3>2 DEF Free
  <2>h. HexNumber(z) = 0
    BY HexZero
  <2> HIDE DEF z, x
  <2>3. Same(m_body \o wire, z \o (<<CR>> \o x))
    BY <1>1, <1>3, <2>1, AfterChunkParts, Zenon DEF Same
  <2>4. \/ Before(m_body, CR) = z
        \/ Free(m_body, {CR}) /\ \E u \in Text : Same(z, m_body \o u)
    <3>1. \/ /\ Find(m_body, CR) = Len(z) + 1 /\ Before(m_body, CR) = z
             /\ Same(m_body, z \o (<<CR>> \o After(m_body, CR)))
             /\ Same(After(m_body, CR) \o wire, x) /\ Len(wire) =< Len(x)
          \/ /\ Free(m_body, {CR}) /\ Len(wire) > Len(x)
             /\ \E u \in Text : Same(z, m_body \o u) /\ Same(wire, u \o (<<CR>> \o x))
      BY <1>1, <2>1, <2>2, <2>3, SplitCut
    <3> QED
      BY <3>1, Zenon
  <2>5. CASE Free(m_body, {CR}) /\ \E u \in Text : Same(z, m_body \o u)
    <3>1. PICK u \in Text : Same(z, m_body \o u)
      BY <2>5
    <3>2. z = m_body \o u
      BY <3>1 DEF Same
    <3>3. Len(m_body \o u) = Len(m_body) + Len(u) /\ Len(m_body) \in Nat /\ Len(u) \in Nat
      BY <1>1, ConcatText, TextFacts
    <3>4. Len(m_body) # 0
      BY <1>1, EmptyText
    <3>5. Len(u) = 0
      BY <2>1, <3>2, <3>3, <3>4
    <3>6. u = <<>>
      BY <3>5, EmptyText
    <3>7. m_body \o <<>> = m_body
      BY <1>1, EmptyText
    <3>8. m_body = z
      BY <3>2, <3>6, <3>7, Zenon
    <3>9. Before(m_body, CR) = m_body
      BY <1>1, <2>5, NotFound
    <3> QED
      BY <1>1, <2>h, <3>8, <3>9, Zenon
  <2> QED
    BY <1>1, <2>4, <2>5, <2>h, Zenon
<1> QED
  BY <1>2, <1>3

\* The body that is meant does not change with the request.
LEMMA StaticBody ==
    ASSUME UNCHANGED request
    PROVE  /\ D' = D /\ UNCHANGED <<request.data, request.chunked, ToDecode, SentBody>>
           /\ \A i : AfterChunk(i)' = AfterChunk(i)
<1>1. D' = D /\ UNCHANGED <<request.data, request.chunked>>
  BY DEF D
<1>2. \A i : AfterChunk(i)' = AfterChunk(i)
  BY DEF AfterChunk
<1>3. UNCHANGED ToDecode
  BY DEF ToDecode, Sent, SentValue, SelectInSeq
<1>4. UNCHANGED SentBody
  BY <1>3 DEF SentBody
<1> QED
  BY <1>1, <1>2, <1>3, <1>4

\* The decoder reads an empty line, and the size stays.
LEMMA GetsStuck ==
    ASSUME TypeOK, DecodeChunk, m_body' = <<>>, wire # <<>>
    PROVE  Stuck'
<1>1. chunked_size \in Nat /\ chunked_size > 0 /\ chunked_size' = ReadSize(m_body', chunked_size)
      /\ wire' = wire
  BY DEF TypeOK, DecodeChunk
<1>2. ReadSize(<<>>, chunked_size) = chunked_size
  BY <1>1, EmptyText, SizeRead
<1> QED
  BY <1>1, <1>2 DEF Stuck

(* A chunk that has come is added to the data, and the next is read or the *)
(* cut is reached.                                                         *)
LEMMA ChunkRead ==
    ASSUME TypeOK, DecodeChunk, request.chunked, NEW i \in 1..D, OnChunk(i - 1),
           Take(After(m_body, LF), chunked_size) = request.data[i],
           Same(m_body' \o wire, AfterChunk(i)), m_body' \in Text
    PROVE  Stuck' \/ OnChunk(i)'
<1>1. /\ request \in Requests /\ wire \in Text /\ D \in Nat /\ i \in 0..D
      /\ chunked_size \in Nat /\ UNCHANGED <<request, wire>>
      /\ chunked_size' = ReadSize(m_body', chunked_size)
      /\ new_body' = new_body \o Take(After(m_body, LF), chunked_size)
      /\ new_body = FlattenSeq(SubSeq(request.data, 1, i - 1))
  <2>1. request \in Requests /\ wire \in Text /\ chunked_size \in Nat
    BY DEF TypeOK
  <2>2. D \in Nat /\ i \in 0..D
    <3>1. D \in Nat
      BY <2>1, AfterChunkParts
    <3> QED
      BY <3>1
  <2>3. /\ UNCHANGED <<request, wire>> /\ chunked_size' = ReadSize(m_body', chunked_size)
        /\ new_body' = new_body \o Take(After(m_body, LF), chunked_size)
    BY DEF DecodeChunk
  <2>4. new_body = FlattenSeq(SubSeq(request.data, 1, i - 1))
    BY Zenon DEF OnChunk
  <2> QED
    BY <2>1, <2>2, <2>3, <2>4
<1>2. CASE m_body' = <<>>
  <2>1. m_body' \o wire = wire
    BY <1>1, <1>2, EmptyText
  <2>2. wire # <<>>
    <3>1. AfterChunk(i) # <<>>
      BY <1>1, ChunkBegins
    <3>2. wire = AfterChunk(i)
      BY <2>1, Zenon DEF Same
    <3> QED
      BY <3>1, <3>2
  <2> QED
    BY <1>2, <2>2, GetsStuck
<1>3. CASE m_body' # <<>>
  <2>1. chunked_size' = HexNumber(Before(m_body', CR))
    BY <1>1, <1>3, BodyBegins
  <2>2. new_body' = FlattenSeq(SubSeq(request.data, 1, i))
    <3>1. request.data \in Seq(Text) /\ i \in 1..Len(request.data)
      BY <1>1, FormedRequest DEF D
    <3>2. FlattenSeq(SubSeq(request.data, 1, i))
            = FlattenSeq(SubSeq(request.data, 1, i - 1)) \o request.data[i]
      BY <3>1, FlattenFrom
    <3> QED
      BY <1>1, <3>2, Zenon
  <2>3. (Same(m_body \o wire, AfterChunk(i)))'
    BY <1>1, StaticBody, Zenon DEF Same
  <2>4. i \in 0..D' /\ UNCHANGED request.data
    BY <1>1, StaticBody
  <2>5. (new_body = FlattenSeq(SubSeq(request.data, 1, i)))'
    BY <1>1, <2>2
  <2>6. (chunked_size = HexNumber(Before(m_body, CR)))'
    BY <2>1 DEF Before, Find, SelectInSeq
  <2> QED
    BY <1>3, <2>3, <2>4, <2>5, <2>6 DEF OnChunk
<1> QED
  BY <1>2, <1>3

(* A turn of the decoder reads one chunk that has come, or reaches the     *)
(* cut.                                                                    *)
LEMMA ChunkStep ==
    ASSUME TypeOK, DecodeChunk, request.chunked, Stuck \/ \E n \in 0..D : OnChunk(n)
    PROVE  Stuck' \/ \E n \in 0..D : OnChunk(n)'
<1>1. /\ request \in Requests /\ wire \in Text /\ D \in Nat /\ m_body \in Text
      /\ chunked_size \in Nat /\ chunked_size > 0
      /\ m_body' = NextChunk(After(m_body, LF), chunked_size)
  BY AfterChunkParts DEF TypeOK, DecodeChunk
<1>2. m_body' \in Text
  BY DecodeTyped DEF TypeOK
<1>3. CASE Stuck
  <2>1. m_body' = <<>> /\ wire # <<>>
    BY <1>1, <1>3, NothingLeft DEF Stuck
  <2> QED
    BY <2>1, GetsStuck
<1>4. ASSUME NEW n \in 0..D, OnChunk(n) PROVE Stuck' \/ \E m \in 0..D : OnChunk(m)'
  <2>1. n # D
    BY <1>1, <1>4, SizeOnChunk
  <2>2. PICK i \in 1..D : i - 1 = n
    <3>1. n + 1 \in 1..D /\ n + 1 - 1 = n
      BY <1>1, <2>1
    <3> QED
      BY <3>1
  <2>3. OnChunk(i - 1)
    BY <1>4, <2>2, Zenon
  <2> DEFINE s == request.sizes[i]
             d == request.data[i]
             u == d \o (<<CR>> \o (<<LF>> \o AfterChunk(i)))
             rest == After(m_body, LF)
  <2>4. /\ s \in Text /\ d \in Text /\ s # <<>> /\ s[1] # "0"
        /\ \A k \in DOMAIN s : s[k] \in ToSet(Digits)
        /\ HexNumber(s) = Len(d)
    BY <1>1, ChunkFacts
  <2>5. AfterChunk(i) \in Text /\ Same(AfterChunk(i - 1), s \o (<<CR>> \o (<<LF>> \o u)))
    BY <1>1, ChunkNext
  <2>6. u \in Text /\ rest \in Text
    BY <1>1, <2>4, <2>5, LineLength, PartsTyped
  <2>7. AfterChunk(i) # <<>>
    <3>1. i \in 0..D
      BY <1>1
    <3> QED
      BY <1>1, <3>1, ChunkBegins
  <2> HIDE DEF u, s, d, rest
  <2>8. m_body # <<>> /\ chunked_size = HexNumber(Before(m_body, CR))
        /\ Same(m_body \o wire, s \o (<<CR>> \o (<<LF>> \o u)))
    <3>1. m_body # <<>> /\ chunked_size = HexNumber(Before(m_body, CR))
          /\ Same(m_body \o wire, AfterChunk(i - 1))
      BY <2>3 DEF OnChunk
    <3> QED
      BY <2>5, <3>1, Zenon DEF Same
  <2>9. \/ Before(m_body, CR) = s /\ Same(rest \o wire, u)
        \/ /\ wire # <<>> /\ rest = m_body
           /\ Len(m_body) =< HexNumber(Before(m_body, CR)) + 1
    <3>1. \/ Before(m_body, CR) = s /\ Same(After(m_body, LF) \o wire, u)
          \/ /\ wire # <<>> /\ After(m_body, LF) = m_body
             /\ HexNumber(Before(m_body, CR)) >= 1 /\ Len(m_body) =< HexNumber(Before(m_body, CR)) + 1
      BY <1>1, <2>4, <2>6, <2>8, SizeCut
    <3> QED
      BY <3>1, Zenon DEF rest
  <2>10. CASE /\ wire # <<>> /\ rest = m_body
              /\ Len(m_body) =< HexNumber(Before(m_body, CR)) + 1
    <3>1. Erase(m_body, chunked_size + 1) = <<>>
      <4>1. chunked_size + 1 \in Nat /\ chunked_size + 1 >= Len(m_body)
        BY <1>1, <2>8, <2>10, TextFacts
      <4> QED
        BY <1>1, <4>1, EraseTyped
    <3>2. m_body' = <<>>
      <4>1. m_body' = NextChunk(m_body, chunked_size)
        BY <1>1, <2>10 DEF rest
      <4>2. After(<<>>, LF) = <<>>
        BY <1>1, NothingLeft
      <4> QED
        BY <3>1, <4>1, <4>2, Zenon DEF NextChunk
    <3> QED
      BY <2>10, <3>2, GetsStuck
  <2>11. CASE Before(m_body, CR) = s /\ Same(rest \o wire, u)
    <3>1. chunked_size = Len(d)
      BY <2>4, <2>8, <2>11
    <3>2. Same(rest \o wire, d \o (<<CR>> \o (<<LF>> \o AfterChunk(i))))
      BY <2>11 DEF u
    <3>3. \/ NextChunk(rest, Len(d)) = <<>> /\ wire # <<>>
          \/ Take(rest, Len(d)) = d /\ Same(NextChunk(rest, Len(d)) \o wire, AfterChunk(i))
      BY <1>1, <2>4, <2>5, <2>6, <2>7, <3>2, DataRead
    <3>4. m_body' = NextChunk(rest, Len(d))
      BY <1>1, <3>1, Zenon DEF rest
    <3>5. CASE NextChunk(rest, Len(d)) = <<>> /\ wire # <<>>
      BY <3>4, <3>5, GetsStuck
    <3>6. CASE Take(rest, Len(d)) = d /\ Same(NextChunk(rest, Len(d)) \o wire, AfterChunk(i))
      <4>1. Take(After(m_body, LF), chunked_size) = request.data[i]
        BY <3>1, <3>6, Zenon DEF rest, d
      <4>2. Same(m_body' \o wire, AfterChunk(i))
        BY <3>4, <3>6, Zenon
      <4>3. Stuck' \/ OnChunk(i)'
        BY <1>2, <2>3, <4>1, <4>2, ChunkRead
      <4>4. i \in 0..D
        BY <1>1
      <4> QED
        BY <4>3, <4>4
    <3> QED
      BY <3>3, <3>5, <3>6
  <2> QED
    BY <2>9, <2>10, <2>11
<1> QED
  BY <1>3, <1>4

-----------------------------------------------------------------------------
(* The body.                                                               *)

\* The last chunk has been read.
LEMMA BodyDecoded ==
    ASSUME TypeOK, EndDecode, ToDecode, Stuck \/ \E n \in 0..D : OnChunk(n)
    PROVE  BodyKept'
<1>1. /\ request \in Requests /\ request.chunked /\ D \in Nat /\ request.data \in Seq(Text)
      /\ chunked_size = 0
  <2>1. request \in Requests /\ request.chunked /\ chunked_size = 0
    BY DEF TypeOK, ToDecode, EndDecode
  <2> QED
    BY <2>1, AfterChunkParts, FormedRequest
<1>2. PICK n \in 0..D : OnChunk(n)
  BY <1>1 DEF Stuck
<1>3. n = D
  <2>1. n # D => chunked_size >= 1
    BY <1>1, <1>2, SizeOnChunk
  <2> QED
    BY <1>1, <2>1
<1>4. new_body = SentBody
  <2>1. new_body = FlattenSeq(SubSeq(request.data, 1, D))
    BY <1>2, <1>3, Zenon DEF OnChunk
  <2>2. SubSeq(request.data, 1, D) = request.data
    BY <1>1, SubSeqFull DEF D
  <2> QED
    BY <2>1, <2>2 DEF SentBody
<1>5. m_body' = SentBody /\ UNCHANGED request /\ SentBody \in Text
  BY <1>4 DEF EndDecode, TypeOK
<1>6. SentBody' = SentBody
  BY <1>5, StaticBody
<1>7. IsPrefix(SentBody, SentBody)
  BY <1>5, PrefixSelf
<1>8. IsPrefix(m_body', SentBody')
  BY <1>5, <1>6, <1>7, Zenon
<1>9. IsPrefix(m_body, SentBody)' /\ (m_body = SentBody)'
  BY <1>5, <1>6, <1>8, Zenon DEF IsPrefix
<1> QED
  BY <1>9, Zenon DEF BodyKept

\* A text that says that it is in chunks is in chunks.
LEMMA SaidInChunks ==
    ASSUME request \in Requests, ContentEncoding \in Sent, SentValue(ContentEncoding) = Chunked
    PROVE  ToDecode
<1>1. PICK i \in 1..N : Key(i) = ContentEncoding
  BY HeaderParts DEF Sent, Key
<1>2. PICK f \in 1..i : Key(f) = Key(i) /\ SentValue(Key(i)) = Val(f)
  BY FirstHeader
<1>3. f \in 1..N
  BY HeaderParts
<1>4. request.headers[f] \in Text \X Text /\ f \in DOMAIN request.headers
  BY <1>3, HeaderParts
<1>5. request.headers[f][1] = ContentEncoding /\ request.headers[f][2] = Chunked
  BY <1>1, <1>2 DEF Key, Val
<1>6. request.headers[f] = <<ContentEncoding, Chunked>>
  BY <1>4, <1>5
<1>7. request.chunked
  BY <1>4, <1>6, FormedRequest DEF HeadersFormed
<1> QED
  BY <1>7 DEF ToDecode

\* The headers read say that the body is in chunks if it is to be decoded.
LEMMA ChunkedIsSaid ==
    ASSUME request \in Requests, HeadersWhole
    PROVE  IsChunked(m_headers) <=> ToDecode
<1>1. DOMAIN m_headers = Sent
  BY DEF HeadersWhole
<1>2. ASSUME ContentEncoding \in Sent
      PROVE  m_headers[ContentEncoding] = SentValue(ContentEncoding)
  <2>1. PICK i \in 1..N : Key(i) = ContentEncoding
    BY <1>2, HeaderParts DEF Sent, Key
  <2> QED
    BY <2>1 DEF HeadersWhole, HeadersRead
<1> QED
  BY <1>1, <1>2, SaidInChunks DEF IsChunked, ToDecode

\* The body where the headers end, before it is decoded.
LEMMA BodyReady ==
    ASSUME TypeOK, EndHeaders, BodyCame(Erase(m_request, 2)), new_body = <<>>, pc' = "decode"
    PROVE  ToDecode' /\ DOMAIN m_headers' = Sent' /\ OnChunk(0)'
<1> DEFINE b == Erase(m_request, 2)
<1>1. /\ request \in Requests /\ wire \in Text /\ b \in Text /\ chunked_size \in Nat
      /\ UNCHANGED <<request, wire, m_headers, new_body>>
      /\ m_body' = b /\ b # <<>> /\ IsChunked(m_headers)
      /\ chunked_size' = ReadSize(b, chunked_size)
  <2>1. m_request \in Text
    BY DEF TypeOK
  <2>2. b \in Text
    BY <2>1, EraseTyped
  <2> QED
    BY <2>2 DEF TypeOK, EndHeaders
<1>2. Same(b \o wire, BodyText(request)) /\ HeadersWhole
  BY <1>1 DEF BodyCame
<1> HIDE DEF b
<1>3. ToDecode /\ request.chunked
  BY <1>1, <1>2, ChunkedIsSaid DEF ToDecode
<1>4. D \in Nat /\ 0 \in 0..D /\ AfterChunk(0) = BodyText(request)
  <2>1. D \in Nat /\ AfterChunk(0) = BodyText(request)
    BY <1>1, <1>3, AfterChunkParts
  <2> QED
    BY <2>1
<1>5. Same(b \o wire, AfterChunk(0))
  BY <1>2, <1>4, Zenon DEF Same
<1>6. chunked_size' = HexNumber(Before(b, CR))
  <2>1. ReadSize(b, chunked_size) = HexNumber(Before(b, CR))
    BY <1>1, <1>3, <1>4, <1>5, BodyBegins
  <2> QED
    BY <1>1, <2>1
<1>7. /\ D' = D /\ ToDecode' = ToDecode /\ AfterChunk(0)' = AfterChunk(0)
      /\ Sent' = Sent
  BY <1>1, Static, StaticBody
<1>8. (0 \in 0..D)' /\ (m_body # <<>>)'
  BY <1>1, <1>4, <1>7
<1>9. Same(m_body \o wire, AfterChunk(0))'
  BY <1>1, <1>5, <1>7, Zenon DEF Same
<1>10. (chunked_size = HexNumber(Before(m_body, CR)))'
  BY <1>1, <1>6 DEF Before, Find, SelectInSeq
<1>11. (new_body = FlattenSeq(SubSeq(request.data, 1, 0)))'
  <2>1. SubSeq(request.data', 1, 0) = <<>>
    BY SubSeqEmpty
  <2> QED
    BY <1>1, <2>1, FlattenEmpty
<1>12. OnChunk(0)'
  BY <1>8, <1>9, <1>10, <1>11, Zenon DEF OnChunk
<1> QED
  BY <1>1, <1>2, <1>3, <1>7, <1>12 DEF HeadersWhole

\* The body where the headers end, if it is not decoded.
LEMMA BodyLeft ==
    ASSUME TypeOK, EndHeaders, BodyCame(Erase(m_request, 2)), pc' = "check"
    PROVE  BodyKept' /\ (wire' = <<>> => DOMAIN m_headers' = Sent')
<1> DEFINE b == Erase(m_request, 2)
<1>1. /\ request \in Requests /\ wire \in Text /\ b \in Text
      /\ UNCHANGED <<request, wire, m_headers>>
      /\ m_body' = b /\ (IsChunked(m_headers) => b = <<>>)
  <2>1. m_request \in Text
    BY DEF TypeOK
  <2>2. b \in Text
    BY <2>1, EraseTyped
  <2> QED
    BY <2>2 DEF TypeOK, EndHeaders
<1>2. \/ b = <<>> /\ wire # <<>>
      \/ Same(b \o wire, BodyText(request)) /\ HeadersWhole
  BY DEF BodyCame
<1> HIDE DEF b
<1>3. SentBody \in Text /\ BodyText(request) \in Text
  <2>1. BodyText(request) \in Text /\ FlattenSeq(request.data) \in Text
    BY <1>1, TextsTyped, FormedRequest, FlattenTyped
  <2> QED
    BY <2>1 DEF SentBody
<1>4. SentBody' = SentBody /\ ToDecode' = ToDecode /\ Sent' = Sent
  BY <1>1, Static, StaticBody
<1>5. IsPrefix(b, SentBody) /\ (wire = <<>> => b = SentBody) /\ (ToDecode => b \in {<<>>, SentBody})
  <2>1. CASE b = <<>> /\ wire # <<>>
    <3>1. IsPrefix(<<>>, <<>> \o SentBody) /\ <<>> \o SentBody = SentBody
      BY <1>3, EmptyText, PrefixOf
    <3> QED
      BY <2>1, <3>1
  <2>2. CASE Same(b \o wire, BodyText(request)) /\ HeadersWhole
    <3>1. CASE ToDecode
      <4>1. b = <<>>
        BY <1>1, <2>2, <3>1, ChunkedIsSaid
      <4>2. wire # <<>>
        <5>1. BodyText(request) # <<>>
          <6>1. request.chunked
            BY <3>1 DEF ToDecode
          <6>2. D \in Nat /\ AfterChunk(0) = BodyText(request)
            BY <1>1, <6>1, AfterChunkParts
          <6>3. 0 \in 0..D
            BY <6>2
          <6>4. AfterChunk(0) # <<>>
            BY <1>1, <6>1, <6>3, ChunkBegins
          <6> QED
            BY <6>2, <6>4
        <5>2. b \o wire = wire
          BY <1>1, <4>1, EmptyText
        <5> QED
          BY <2>2, <5>1, <5>2, Zenon DEF Same
      <4> QED
        BY <2>1, <4>1, <4>2
    <3>2. CASE ~ToDecode
      <4>1. SentBody = BodyText(request)
        BY <3>2 DEF SentBody
      <4>2. IsPrefix(b, b \o wire)
        BY <1>1, PrefixOf
      <4>3. IsPrefix(b, SentBody)
        BY <2>2, <4>1, <4>2, Zenon DEF Same
      <4>4. wire = <<>> => b = SentBody
        <5>1. wire = <<>> => b \o wire = b
          BY <1>1, EmptyText
        <5> QED
          BY <2>2, <4>1, <5>1, Zenon DEF Same
      <4> QED
        BY <3>2, <4>3, <4>4
    <3> QED
      BY <3>1, <3>2
  <2> QED
    BY <1>2, <2>1, <2>2
<1>6. BodyKept'
  <2>1. IsPrefix(m_body, SentBody)'
    BY <1>1, <1>4, <1>5, Zenon DEF IsPrefix
  <2>2. (wire = <<>> => m_body = SentBody)'
    BY <1>1, <1>4, <1>5
  <2>3. (ToDecode => m_body \in {<<>>, SentBody})'
    BY <1>1, <1>4, <1>5
  <2> QED
    BY <2>1, <2>2, <2>3, Zenon DEF BodyKept
<1>7. wire' = <<>> => DOMAIN m_headers' = Sent'
  BY <1>1, <1>2, <1>4 DEF HeadersWhole
<1> QED
  BY <1>6, <1>7

-----------------------------------------------------------------------------
(* The step of the start line.                                             *)

(* The step of ParseStartLine, in terms of what it takes the text apart    *)
(* into.                                                                   *)
LEMMA StartLineParts ==
    ASSUME TypeOK, ParseStartLine
    PROVE  \/ pc' = "dead" /\ Before(Rest(m_request), SP) = <<>>
           \/ /\ Before(Rest(m_request), SP) # <<>> /\ pc' = "headers"
              /\ m_method' = Before(m_request, SP)
              /\ m_version' = Before(Line(m_request), CR)
              /\ m_request' = After(Line(m_request), LF)
              /\ m_query' = Query(Before(Rest(m_request), SP))
              /\ m_target = DefaultTarget => SetPath(PathOf(Before(Rest(m_request), SP)))
<1>1. PICK rest : /\ rest = SkipSpaces(After(m_request, SP))
                  /\ \/ /\ Before(rest, SP) = <<>> /\ pc' = "dead"
                     \/ /\ Before(rest, SP) # <<>> /\ pc' = "headers"
                        /\ m_method' = Before(m_request, SP)
                        /\ m_version' = Before(SkipSpaces(After(rest, SP)), CR)
                        /\ m_request' = After(SkipSpaces(After(rest, SP)), LF)
                        /\ \E target \in {Trimmed(Before(rest, SP))} :
                           \E path \in {Before(target, "?")} :
                              /\ m_query' = (IF path = target THEN <<>> ELSE After(target, "?"))
                              /\ SetPath(IF path = <<>> THEN m_target ELSE path)
  BY DEF ParseStartLine
<1>2. rest = Rest(m_request) /\ Line(m_request) = SkipSpaces(After(rest, SP))
  BY <1>1 DEF Rest, Line
<1>3. CASE Before(rest, SP) = <<>> /\ pc' = "dead"
  BY <1>2, <1>3
<1>4. CASE /\ Before(rest, SP) # <<>> /\ pc' = "headers"
           /\ m_method' = Before(m_request, SP)
           /\ m_version' = Before(SkipSpaces(After(rest, SP)), CR)
           /\ m_request' = After(SkipSpaces(After(rest, SP)), LF)
           /\ \E target \in {Trimmed(Before(rest, SP))} :
              \E path \in {Before(target, "?")} :
                 /\ m_query' = (IF path = target THEN <<>> ELSE After(target, "?"))
                 /\ SetPath(IF path = <<>> THEN m_target ELSE path)
  <2> DEFINE url == Before(rest, SP)
             path == Before(Trimmed(url), "?")
  <2>1. /\ m_query' = (IF path = Trimmed(url) THEN <<>> ELSE After(Trimmed(url), "?"))
        /\ SetPath(IF path = <<>> THEN m_target ELSE path)
    BY <1>4
  <2>2. m_query' = Query(url)
    BY <2>1 DEF Query
  <2>3. ASSUME m_target = DefaultTarget PROVE SetPath(PathOf(url))
    <3>1. PathOf(url) = IF path = <<>> THEN m_target ELSE path
      BY <2>3 DEF PathOf
    <3> HIDE DEF path, url
    <3> QED
      BY <2>1, <3>1, Zenon
  <2> QED
    BY <1>2, <1>4, <2>2, <2>3
<1> QED
  BY <1>1, <1>3, <1>4

\* The file and what follows it, of a target that has come.
LEMMA TargetKept ==
    ASSUME TypeOK, Unread, UNCHANGED request, m_query' = Query(URL(request)),
           SetPath(PathOf(URL(request)))
    PROVE  \/ m_status' = 400
           \/ /\ m_status' = 200 /\ m_query' = request.query /\ Unslashed(m_target') = SentTarget
              /\ m_filename' = request.name /\ m_cgi_path' = request.info
<1> DEFINE p == PathOf(URL(request))
           file == SubSeq(p, 1, FileEnd(p))
<1>1. request \in Requests /\ m_status = 200 /\ m_filename = <<>> /\ m_cgi_path = <<>>
  BY DEF TypeOK, Unread
<1>2. m_query' = request.query /\ PathRead(p)
  BY <1>1, TargetRead
<1> HIDE DEF p
<1>3. SentTarget = Unslashed(request.dir)
  BY DEF SentTarget, Unslashed
<1>4. \/ /\ Find(p, ".") = 0
         /\ m_target' = p
         /\ UNCHANGED <<m_filename, m_cgi_path, m_status>>
      \/ /\ Find(p, ".") # 0 /\ Find(p, ".") = FindLast(p, ".")
         /\ m_target' = SubSeq(file, 1, FindLast(file, "/"))
         /\ m_filename' = Erase(file, FindLast(file, "/"))
         /\ m_cgi_path' = Erase(p, FileEnd(p))
         /\ UNCHANGED m_status
      \/ m_status' = 400
  BY DEF SetPath, p
<1>5. CASE /\ request.name = <<>> /\ request.info = <<>>
           /\ Find(p, ".") = 0 /\ Unslashed(p) = Unslashed(request.dir)
  BY <1>1, <1>2, <1>3, <1>4, <1>5
<1>6. CASE FileFound(p, request.dir, request.name, request.info)
  <2>1. /\ Find(p, ".") # 0
        /\ SubSeq(file, 1, FindLast(file, "/")) = request.dir
        /\ Erase(file, FindLast(file, "/")) = request.name
        /\ Erase(p, FileEnd(p)) = request.info
    BY <1>6 DEF FileFound
  <2> HIDE DEF file
  <2>2. CASE /\ Find(p, ".") # 0 /\ Find(p, ".") = FindLast(p, ".")
             /\ m_target' = SubSeq(file, 1, FindLast(file, "/"))
             /\ m_filename' = Erase(file, FindLast(file, "/"))
             /\ m_cgi_path' = Erase(p, FileEnd(p))
             /\ UNCHANGED m_status
    <3>1. m_target' = request.dir /\ m_filename' = request.name /\ m_cgi_path' = request.info
      BY <2>1, <2>2, Zenon
    <3>2. Unslashed(m_target') = SentTarget
      BY <1>3, <3>1, Zenon
    <3> QED
      BY <1>1, <1>2, <2>2, <3>1, <3>2
  <2> QED
    BY <1>4, <2>1, <2>2, Zenon
<1> QED
  BY <1>2, <1>5, <1>6 DEF PathRead

(* The start line: an exception without a target, a refusal, or everything *)
(* as it was sent.                                                         *)
LEMMA StartLineStep ==
    ASSUME TypeOK, ParseStartLine, Unread, m_request # <<>>
    PROVE  \/ pc' = "dead" /\ DeadWithoutTarget'
           \/ /\ pc' = "headers" /\ UNCHANGED new_body
              /\ \/ m_status' = 400 \/ Refused' \/ NoHost'
                 \/ m_status' = 200 /\ StartLineKept' /\ OnHeader(0)'
<1>1. /\ request \in Requests /\ m_request \in Text /\ wire \in Text
      /\ UNCHANGED <<request, wire, m_headers, new_body>>
  BY DEF TypeOK, ParseStartLine, decoding
<1>2. /\ Same(m_request \o wire, RequestText(request)) /\ m_target = DefaultTarget
      /\ DOMAIN m_headers = {}
  BY DEF Unread
<1>3. \/ /\ Before(Rest(m_request), SP) = <<>>
         /\ Len(RequestText(request)) - Len(wire) =< Len(request.method \o request.gap)
      \/ /\ Before(Rest(m_request), SP) # <<>>
         /\ \/ StartLineCame(m_request, wire)
            \/ /\ wire # <<>>
               /\ \/ Before(m_request, SP) \notin Methods
                  \/ Before(Line(m_request), CR) # HTTPVersion
                  \/ After(Line(m_request), LF) \in VersionOnly
  BY <1>1, <1>2, StartLineRead
<1>4. \/ pc' = "dead" /\ Before(Rest(m_request), SP) = <<>>
      \/ /\ Before(Rest(m_request), SP) # <<>> /\ pc' = "headers"
         /\ m_method' = Before(m_request, SP)
         /\ m_version' = Before(Line(m_request), CR)
         /\ m_request' = After(Line(m_request), LF)
         /\ m_query' = Query(Before(Rest(m_request), SP))
         /\ SetPath(PathOf(Before(Rest(m_request), SP)))
  BY <1>2, StartLineParts
<1>5. CASE pc' = "dead" /\ Before(Rest(m_request), SP) = <<>>
  <2>1. Len(RequestText(request)) - Len(wire) =< Len(request.method \o request.gap)
    BY <1>3, <1>5
  <2>2. RequestText(request)' = RequestText(request)
    BY <1>1 DEF RequestText
  <2>3. (Len(RequestText(request)) - Len(wire) =< Len(request.method \o request.gap))'
    BY <1>1, <2>1, <2>2
  <2> QED
    BY <1>5, <2>3 DEF DeadWithoutTarget
<1>6. CASE /\ Before(Rest(m_request), SP) # <<>> /\ pc' = "headers"
           /\ m_method' = Before(m_request, SP)
           /\ m_version' = Before(Line(m_request), CR)
           /\ m_request' = After(Line(m_request), LF)
           /\ m_query' = Query(Before(Rest(m_request), SP))
           /\ SetPath(PathOf(Before(Rest(m_request), SP)))
  <2>1. CASE StartLineCame(m_request, wire)
    <3>1. /\ m_method' = request.method /\ m_version' = request.version
          /\ Same(m_request' \o wire, AfterHeader(0))
          /\ Before(Rest(m_request), SP) = URL(request)
      BY <1>6, <2>1, Zenon DEF StartLineCame
    <3>2. m_query' = Query(URL(request)) /\ SetPath(PathOf(URL(request)))
      BY <1>6, <3>1, Zenon
    <3>3. \/ m_status' = 400
          \/ /\ m_status' = 200 /\ m_query' = request.query /\ Unslashed(m_target') = SentTarget
             /\ m_filename' = request.name /\ m_cgi_path' = request.info
      BY <1>1, <3>2, TargetKept
    <3>4. SentTarget' = SentTarget /\ RouteTarget' = Unslashed(m_target')
      BY <1>1 DEF SentTarget, RouteTarget, Unslashed
    <3>5. m_status' # 400 => StartLineKept'
      BY <1>1, <3>1, <3>3, <3>4 DEF StartLineKept
    <3>6. OnHeader(0)'
      <4>1. AfterHeader(0)' = AfterHeader(0) /\ N' \in Nat
        BY <1>1, Static, HeaderParts
      <4>2. Same(m_request \o wire, AfterHeader(0))'
        BY <1>1, <3>1, <4>1, Zenon DEF Same
      <4>3. (DOMAIN m_headers = {Key(i) : i \in 1..0})' /\ HeadersRead(0)'
        BY <1>1, <1>2 DEF HeadersRead
      <4>4. (0 \in 0..N)'
        BY <4>1
      <4> QED
        BY <4>2, <4>3, <4>4, Zenon DEF OnHeader
    <3> QED
      BY <1>1, <1>6, <3>3, <3>5, <3>6
  <2>2. CASE /\ wire # <<>>
             /\ \/ Before(m_request, SP) \notin Methods
                \/ Before(Line(m_request), CR) # HTTPVersion
    BY <1>1, <1>6, <2>2 DEF Refused
  <2>3. CASE wire # <<>> /\ After(Line(m_request), LF) \in VersionOnly
    <3>1. m_request' \in VersionOnly /\ VersionOnly' = VersionOnly
      BY <1>6, <2>3 DEF VersionOnly
    <3> QED
      BY <1>1, <1>2, <1>6, <2>3, <3>1 DEF NoHost
  <2> QED
    BY <1>3, <1>6, <2>1, <2>2, <2>3
<1> QED
  BY <1>4, <1>5, <1>6

-----------------------------------------------------------------------------
(* A request without headers.                                              *)

\* The version alone is read as one header, and then the headers end.
LEMMA VersionFacts ==
    ASSUME NEW s \in VersionOnly \cap Text
    PROVE  Free(s, {":"}) /\ Erase(s, 1) \in {<<>>, <<CR>>}
<1> DEFINE v == <<"V">>
           c == <<CR>>
<1>1. s = v \/ s = v \o c
  BY DEF VersionOnly, HTTPVersion
<1>2. v \in Seq({"V", CR}) /\ c \in Seq({"V", CR}) /\ Len(v) = 1 /\ Len(c) = 1 /\ v[1] = "V" /\ c[1] = CR
  OBVIOUS
<1>3. "V" # ":" /\ CR # ":"
  BY DEF CR
<1>4. CR \in Char /\ Len(s) \in Nat /\ c \in Text /\ DOMAIN s = 1..Len(s)
  BY CharTyped, OneText, TextFacts
<1> HIDE DEF v, c
<1>5. CASE s = v
  <2>1. Erase(s, 1) = <<>>
    BY <1>2, <1>5, EraseTyped
  <2>2. Free(s, {":"})
    <3>1. \A i \in 1..1 : s[i] = "V"
      BY <1>2, <1>5
    <3> QED
      BY <1>2, <1>3, <1>4, <1>5, <3>1 DEF Free
  <2> QED
    BY <2>1, <2>2
<1>6. CASE s = v \o c
  <2>1. /\ Len(v \o c) = 1 + 1
        /\ \A i \in 1..(1 + 1) : (v \o c)[i] = IF i <= 1 THEN v[i] ELSE c[i - 1]
    <3>1. v \in Seq({"V", CR}) /\ c \in Seq({"V", CR}) /\ Len(v) = 1 /\ Len(c) = 1
      BY <1>2
    <3>2. /\ Len(v \o c) = Len(v) + Len(c)
          /\ \A i \in 1..(Len(v) + Len(c)) :
                (v \o c)[i] = IF i <= Len(v) THEN v[i] ELSE c[i - Len(v)]
      BY <3>1, ConcatProperties
    <3> QED
      BY <3>1, <3>2
  <2>2. Len(s) = 2 /\ s[1] = "V" /\ s[2] = CR
    BY <1>2, <1>6, <2>1
  <2>3. Free(s, {":"})
    <3>1. \A i \in 1..2 : i = 1 \/ i = 2
      OBVIOUS
    <3> QED
      BY <1>3, <1>4, <2>2, <3>1 DEF Free
  <2>4. Erase(s, 1) \in Text /\ Len(Erase(s, 1)) = 1 /\ Erase(s, 1)[1] = CR
    <3>1. /\ Erase(s, 1) \in Text /\ Len(Erase(s, 1)) = Len(s) - 1
          /\ \A i \in 1..Len(Erase(s, 1)) : Erase(s, 1)[i] = s[1 + i]
      <4>1. s \in Text /\ 1 \in Nat /\ 1 =< Len(s)
        BY <2>2
      <4> QED
        BY <4>1, EraseTyped
    <3>2. 1 \in 1..Len(Erase(s, 1)) /\ 1 + 1 = 2
      <4>1. Len(s) = 2 /\ Len(Erase(s, 1)) = Len(s) - 1
        BY <2>2, <3>1, Zenon
      <4> QED
        BY <4>1
    <3>3. Erase(s, 1)[1] = s[1 + 1]
      BY <3>1, <3>2
    <3> QED
      BY <2>2, <3>1, <3>2, <3>3
  <2>5. Erase(s, 1) = c
    <3>1. \A i \in 1..1 : Erase(s, 1)[i] = c[i]
      BY <1>2, <2>4
    <3> QED
      BY <1>2, <1>4, <2>4, <3>1, SeqEqual DEF Text
  <2> QED
    BY <2>3, <2>5 DEF c
<1> QED
  BY <1>1, <1>5, <1>6

\* The version is read as a header, after which nothing is left.
LEMMA NoHostStep ==
    ASSUME TypeOK, ParseHeader, NoHost
    PROVE  NoHost'
<1>1. m_request \in Text /\ wire # <<>> /\ wire' = wire /\ DOMAIN m_headers \subseteq VersionOnly
  BY DEF TypeOK, ParseHeader, NoHost
<1>2. m_request \in VersionOnly \cap Text
  <2>1. m_request # <<>> /\ m_request # <<CR>>
    <3>1. Take(<<>>, 1) = <<>>
      BY EmptyText, TakeOne
    <3>2. Take(<<CR>>, 1) = <<CR>>
      <4>1. <<CR>> \in Text /\ Len(<<CR>>) = 1
        BY CharTyped, OneText
      <4> QED
        BY <4>1, TakeTyped
    <3>3. Take(m_request, 1) \notin {<<>>, <<CR>>}
      BY DEF ParseHeader, AtEndOfHeaders
    <3> QED
      BY <3>1, <3>2, <3>3
  <2> QED
    BY <1>1, <2>1 DEF NoHost
<1>3. Free(m_request, {":"}) /\ Erase(m_request, 1) \in {<<>>, <<CR>>}
  BY <1>2, VersionFacts
<1>4. Find(m_request, ":") = 0 /\ Before(m_request, ":") = m_request
  BY <1>1, <1>3, NotFound
<1> DEFINE rest == Erase(m_request, 1)
<1>5. Erase(m_request, Find(m_request, ":") + 1) = rest
  BY <1>4
<1>6. /\ m_headers' = Added(Before(m_request, ":"), Value(rest))
      /\ m_request' = After(rest, LF)
  BY <1>5 DEF ParseHeader
<1>7. After(rest, LF) = rest
  <2>1. rest \in Text
    BY <1>1, EraseTyped
  <2>2. Free(<<>>, {LF}) /\ Free(<<CR>>, {LF})
    BY DEF Free, CR, LF
  <2>3. Free(rest, {LF})
    BY <1>3, <2>2
  <2> HIDE DEF rest
  <2> QED
    BY <2>1, <2>3, NotFound
<1>8. m_request' \in {<<>>, <<CR>>}
  BY <1>3, <1>6, <1>7
<1>9. DOMAIN m_headers' = DOMAIN m_headers \cup {m_request}
  BY <1>4, <1>6 DEF Added
<1>10. DOMAIN m_headers' \subseteq VersionOnly
  BY <1>1, <1>2, <1>9
<1>11. VersionOnly' = VersionOnly
  BY DEF VersionOnly
<1> QED
  BY <1>1, <1>8, <1>10, <1>11 DEF NoHost

\* A request of which only the version was left has no Host.
LEMMA NoHostEnd ==
    ASSUME EndHeaders, NoHost
    PROVE  m_status' = 400
<1>1. Host \notin VersionOnly
  BY DEF Host, VersionOnly, HTTPVersion, CR
<1>2. Host \notin DOMAIN m_headers
  BY <1>1 DEF NoHost
<1> QED
  BY <1>2 DEF EndHeaders

-----------------------------------------------------------------------------
(* Steps that leave the request alone.                                     *)

\* The headers are kept by a step that leaves them alone.
LEMMA HeadersKeptStay ==
    ASSUME UNCHANGED <<request, wire, m_headers>>, HeadersKept
    PROVE  HeadersKept'
<1>1. SUFFICES ASSUME NEW i \in DOMAIN request.headers
               PROVE  /\ NameCame(i)' => /\ Key(i)' \in DOMAIN m_headers
                                         /\ IsPrefix(m_headers[Key(i)'], SentValue(Key(i))')
                      /\ LineCame(i)' => m_headers[Key(i)'] = SentValue(Key(i))'
  BY DEF HeadersKept, IsPrefix
<1>2. /\ Key(i)' = Key(i) /\ SentValue(Key(i))' = SentValue(Key(i))
      /\ (LineCame(i)' <=> LineCame(i)) /\ (NameCame(i)' <=> NameCame(i))
  BY Static, StaticWire
<1>3. /\ NameCame(i) => /\ Key(i) \in DOMAIN m_headers
                        /\ IsPrefix(m_headers[Key(i)], SentValue(Key(i)))
      /\ LineCame(i) => m_headers[Key(i)] = SentValue(Key(i))
  BY DEF HeadersKept
<1> QED
  BY <1>2, <1>3, Zenon

\* The start line is kept by a step that leaves it alone.
LEMMA StartLineStays ==
    ASSUME UNCHANGED <<request, startLine>>, StartLineKept
    PROVE  StartLineKept'
BY DEF StartLineKept, startLine, RouteTarget, SentTarget

\* The request is kept by a step that leaves its fields alone.
LEMMA KeptStays ==
    ASSUME UNCHANGED <<request, wire, startLine, m_headers, m_body>>, Kept
    PROVE  Kept'
<1>1. StartLineKept' /\ HeadersKept'
  BY StartLineStays, HeadersKeptStay DEF Kept
<1>2. SentBody' = SentBody /\ ToDecode' = ToDecode /\ Sent' = Sent
  BY Static, StaticBody
<1>3. BodyKept'
  <2>1. IsPrefix(m_body, SentBody)'
    BY <1>2, Zenon DEF Kept, BodyKept, IsPrefix
  <2>2. (wire = <<>> => m_body = SentBody)' /\ (ToDecode => m_body \in {<<>>, SentBody})'
    BY <1>2 DEF Kept, BodyKept
  <2> QED
    BY <2>1, <2>2, Zenon DEF BodyKept
<1>4. (wire = <<>> => DOMAIN m_headers = Sent)'
  BY <1>2 DEF Kept
<1> QED
  BY <1>1, <1>3, <1>4 DEF Kept

-----------------------------------------------------------------------------
(* The invariant.                                                          *)

\* The invariant holds at first.
LEMMA InvInit ==
    ASSUME Init
    PROVE  Parsing
<1>1. TypeOK
  BY InitTyped
<1>2. m_request = <<>> /\ wire = RequestText(request) /\ wire \in Text /\ pc = "receive"
  BY <1>1 DEF Init, TypeOK
<1>3. m_request \o wire = wire
  BY <1>2, EmptyText
<1>4. Same(m_request \o wire, RequestText(request))
  BY <1>2, <1>3, Zenon DEF Same
<1>5. Unread
  BY <1>4 DEF Init, Unread
<1> QED
  BY <1>2, <1>5 DEF Parsing, DeadWithoutTarget

\* A segment moves from the wire to what has come.
LEMMA ReceiveKeeps ==
    ASSUME TypeOK, Receive, Unread
    PROVE  Unread'
<1>1. m_request \in Text /\ wire \in Text
  BY DEF TypeOK
<1>2. PICK n \in 1..Len(wire) : /\ m_request' = m_request \o SubSeq(wire, 1, n)
                                /\ wire' = Erase(wire, n)
  BY DEF Receive
<1>3. SubSeq(wire, 1, n) = Take(wire, n) /\ n \in Nat /\ n \in 0..Len(wire)
  BY <1>1, TextFacts DEF Take
<1> DEFINE s == Take(wire, n)
           t == Erase(wire, n)
<1>4. s \in Text /\ t \in Text
  BY <1>1, <1>3, TakeTyped, EraseTyped
<1>5. wire = s \o t
  BY <1>1, <1>3, TakeErase
<1>6. m_request' = m_request \o s /\ wire' = t
  BY <1>2, <1>3
<1> HIDE DEF s, t
<1>7. (m_request \o s) \o t = m_request \o (s \o t)
  BY <1>1, <1>4, Assoc
<1>8. m_request' \o wire' = m_request \o wire
  BY <1>5, <1>6, <1>7, Zenon
<1>9. Same(m_request \o wire, RequestText(request)) /\ RequestText(request)' = RequestText(request)
  BY DEF Unread, Receive, RequestText
<1>10. Same(m_request \o wire, RequestText(request))'
  BY <1>8, <1>9, Zenon DEF Same
<1> QED
  BY <1>10 DEF Unread, Receive, startLine, decoding

\* What is refused before the body is read is refused in the end.
LEMMA HopelessStays ==
    ASSUME Hopeless, UNCHANGED <<wire, startLine>>, m_status' \in {m_status, 400}
    PROVE  Hopeless'
BY DEF Hopeless, Refused, startLine

\* A turn of the loop over the headers keeps what it is about.
LEMMA HeadersKeep ==
    ASSUME TypeOK, ParseHeader, Reading
    PROVE  Reading'
<1>1. UNCHANGED <<request, wire, startLine, m_status>>
  BY DEF ParseHeader
<1>2. CASE Hopeless
  BY <1>1, <1>2, HopelessStays DEF Reading
<1>3. CASE NoHost
  BY <1>3, NoHostStep DEF Reading
<1>4. CASE m_status = 200 /\ StartLineKept /\ \E n \in 0..N : OnHeader(n) \/ CutHeader(n)
  <2>1. StartLineKept'
    BY <1>1, <1>4, StartLineStays
  <2>2. \E m \in 0..N : OnHeader(m)' \/ CutHeader(m)'
    BY <1>4, HeaderStep
  <2>3. N' = N
    BY <1>1, Static
  <2> QED
    BY <1>1, <1>4, <2>1, <2>2, <2>3 DEF Reading
<1> QED
  BY <1>2, <1>3, <1>4 DEF Reading

\* The end of the headers, with a body to decode or without.
LEMMA EndKeeps ==
    ASSUME TypeOK, EndHeaders, Reading, new_body = <<>>
    PROVE  /\ pc' = "decode" => Decoding'
           /\ pc' = "check" => Hopeless' \/ (m_status' = 200 /\ Kept')
<1>1. /\ UNCHANGED <<request, wire, startLine, m_headers>> /\ m_status' \in {m_status, 400}
      /\ AtEndOfHeaders
  BY DEF EndHeaders
<1>2. ASSUME Hopeless' PROVE Decoding' /\ (Hopeless' \/ (m_status' = 200 /\ Kept'))
  BY <1>2 DEF Decoding
<1>3. CASE Hopeless
  BY <1>1, <1>2, <1>3, HopelessStays
<1>4. CASE NoHost
  <2>1. Hopeless'
    BY <1>4, NoHostEnd DEF Hopeless
  <2> QED
    BY <1>2, <2>1
<1>5. CASE m_status = 200 /\ StartLineKept /\ \E n \in 0..N : OnHeader(n) \/ CutHeader(n)
  <2>1. HeadersKept /\ BodyCame(Erase(m_request, 2))
    BY <1>1, <1>5, HeadersEnd
  <2>2. CASE m_status' = 400
    BY <1>2, <2>2 DEF Hopeless
  <2>3. CASE m_status' = 200
    <3>1. StartLineKept' /\ HeadersKept'
      BY <1>1, <1>5, <2>1, StartLineStays, HeadersKeptStay
    <3>2. ASSUME pc' = "decode" PROVE Decoding'
      <4>1. ToDecode' /\ DOMAIN m_headers' = Sent' /\ OnChunk(0)'
        BY <2>1, <3>2, BodyReady
      <4>2. (\E n \in 0..D : OnChunk(n))'
        <5>1. (0 \in 0..D)'
          BY <4>1 DEF OnChunk
        <5> QED
          BY <4>1, <5>1
      <4> QED
        BY <2>3, <3>1, <4>1, <4>2 DEF Decoding
    <3>3. ASSUME pc' = "check" PROVE Kept'
      <4>1. BodyKept' /\ (wire' = <<>> => DOMAIN m_headers' = Sent')
        BY <2>1, <3>3, BodyLeft
      <4> QED
        BY <3>1, <4>1 DEF Kept
    <3> QED
      BY <2>3, <3>2, <3>3
  <2> QED
    BY <1>1, <1>5, <2>2, <2>3
<1> QED
  BY <1>3, <1>4, <1>5 DEF Reading

\* A turn of the decoder keeps what it is about.
LEMMA ChunkKeeps ==
    ASSUME TypeOK, DecodeChunk, Decoding
    PROVE  Decoding'
<1>1. UNCHANGED <<request, wire, startLine, m_headers, m_status>>
  BY DEF DecodeChunk
<1>2. CASE Hopeless
  BY <1>1, <1>2, HopelessStays DEF Decoding
<1>3. CASE /\ m_status = 200 /\ StartLineKept /\ HeadersKept /\ ToDecode
           /\ DOMAIN m_headers = Sent
           /\ Stuck \/ \E n \in 0..D : OnChunk(n)
  <2>1. Stuck' \/ \E n \in 0..D : OnChunk(n)'
    BY <1>3, ChunkStep DEF ToDecode
  <2>2. StartLineKept' /\ HeadersKept'
    BY <1>1, <1>3, StartLineStays, HeadersKeptStay
  <2>3. ToDecode' = ToDecode /\ Sent' = Sent /\ D' = D
    BY <1>1, Static, StaticBody
  <2>4. (Stuck \/ \E n \in 0..D : OnChunk(n))'
    BY <2>1, <2>3
  <2> QED
    BY <1>1, <1>3, <2>2, <2>3, <2>4 DEF Decoding
<1> QED
  BY <1>2, <1>3 DEF Decoding

\* The end of the decoder leaves the body that was sent.
LEMMA DecodeKeeps ==
    ASSUME TypeOK, EndDecode, Decoding
    PROVE  Hopeless' \/ (m_status' = 200 /\ Kept')
<1>1. UNCHANGED <<request, wire, startLine, m_headers, m_status>>
  BY DEF EndDecode
<1>2. CASE Hopeless
  BY <1>1, <1>2, HopelessStays
<1>3. CASE /\ m_status = 200 /\ StartLineKept /\ HeadersKept /\ ToDecode
           /\ DOMAIN m_headers = Sent
           /\ Stuck \/ \E n \in 0..D : OnChunk(n)
  <2>1. BodyKept'
    BY <1>3, BodyDecoded
  <2>2. StartLineKept' /\ HeadersKept'
    BY <1>1, <1>3, StartLineStays, HeadersKeptStay
  <2>3. Sent' = Sent
    BY <1>1, Static
  <2> QED
    BY <1>1, <1>3, <2>1, <2>2, <2>3 DEF Kept
<1> QED
  BY <1>2, <1>3 DEF Decoding

\* A request that is hopeless is refused, and one that is kept stays so.
LEMMA CheckKeeps ==
    ASSUME TypeOK, ErrorChecking, Hopeless \/ (m_status = 200 /\ Kept)
    PROVE  Understood'
<1>1. /\ UNCHANGED <<request, wire, startLine, m_headers, m_body>>
      /\ m_status' = IF m_status = 200 THEN CheckedStatus ELSE m_status
  BY DEF ErrorChecking
<1>2. CASE m_status = 400
  BY <1>1, <1>2 DEF Understood
<1>3. CASE Refused
  <2>1. CheckedStatus # 200
    BY <1>3 DEF Refused, CheckedStatus
  <2>2. m_status' # 200 /\ wire' # <<>>
    BY <1>1, <1>3, <2>1 DEF Refused
  <2> QED
    BY <2>2 DEF Understood
<1>4. CASE Kept
  BY <1>1, <1>4, KeptStays DEF Understood
<1> QED
  BY <1>2, <1>3, <1>4 DEF Hopeless

\* What is dead stays without a target.
LEMMA DeadStays ==
    ASSUME UNCHANGED <<pc, request, wire>>, DeadWithoutTarget
    PROVE  DeadWithoutTarget'
BY DEF DeadWithoutTarget, RequestText

\* Every step but a stutter keeps the invariant.
LEMMA InvStep ==
    ASSUME TypeOK, Parsing, Next
    PROVE  Parsing'
<1>1. CASE Receive
  <2>1. pc = "receive" /\ pc' = "receive"
    BY <1>1 DEF Receive
  <2>2. Unread'
    BY <1>1, <2>1, ReceiveKeeps DEF Parsing
  <2> QED
    BY <2>1, <2>2 DEF Parsing, DeadWithoutTarget
<1>2. CASE Parse
  <2>1. /\ pc = "receive" /\ Unread
        /\ \/ pc' = "parsed" /\ m_status' = 204
           \/ pc' = "startline" /\ m_request # <<>> /\ UNCHANGED m_status
        /\ UNCHANGED <<request, wire, m_request, startLine, m_headers, decoding>>
    BY <1>2 DEF Parse, Parsing
  <2>2. CASE pc' = "parsed" /\ m_status' = 204
    BY <2>2 DEF Parsing, DeadWithoutTarget, Understood
  <2>3. CASE pc' = "startline" /\ m_request # <<>> /\ UNCHANGED m_status
    <3>1. Same(m_request \o wire, RequestText(request))'
      <4>1. RequestText(request)' = RequestText(request)
        BY <2>1 DEF RequestText
      <4> QED
        BY <2>1, <4>1, Zenon DEF Same, Unread
    <3>2. Unread'
      BY <2>1, <2>3, <3>1 DEF Unread, startLine, decoding
    <3> QED
      BY <2>1, <2>3, <3>2 DEF Parsing, DeadWithoutTarget
  <2> QED
    BY <2>1, <2>2, <2>3
<1>3. CASE ParseStartLine
  <2>1. Unread /\ m_request # <<>>
    BY <1>3 DEF ParseStartLine, Parsing
  <2>2. \/ pc' = "dead" /\ DeadWithoutTarget'
        \/ /\ pc' = "headers" /\ UNCHANGED new_body
           /\ \/ m_status' = 400 \/ Refused' \/ NoHost'
              \/ m_status' = 200 /\ StartLineKept' /\ OnHeader(0)'
    BY <1>3, <2>1, StartLineStep
  <2>3. CASE pc' = "dead" /\ DeadWithoutTarget'
    BY <2>3 DEF Parsing
  <2>4. CASE /\ pc' = "headers" /\ UNCHANGED new_body
             /\ \/ m_status' = 400 \/ Refused' \/ NoHost'
                \/ m_status' = 200 /\ StartLineKept' /\ OnHeader(0)'
    <3>1. OnHeader(0)' => (\E n \in 0..N : OnHeader(n) \/ CutHeader(n))'
      <4>1. OnHeader(0)' => (0 \in 0..N)'
        BY DEF OnHeader
      <4> QED
        BY <4>1
    <3>2. Reading'
      BY <2>4, <3>1 DEF Reading, Hopeless
    <3>3. new_body' = <<>>
      BY <2>1, <2>4 DEF Unread
    <3> QED
      BY <2>4, <3>2, <3>3 DEF Parsing, DeadWithoutTarget
  <2> QED
    BY <2>2, <2>3, <2>4
<1>4. CASE ParseHeader
  <2>1. pc = "headers" /\ pc' = "headers" /\ UNCHANGED new_body
    BY <1>4 DEF ParseHeader, decoding
  <2>2. Reading' /\ new_body' = <<>>
    BY <1>4, <2>1, HeadersKeep DEF Parsing
  <2> QED
    BY <2>1, <2>2 DEF Parsing, DeadWithoutTarget
<1>5. CASE EndHeaders
  <2>1. pc = "headers" /\ pc' \in {"decode", "check"}
    BY <1>5 DEF EndHeaders
  <2>2. /\ pc' = "decode" => Decoding'
        /\ pc' = "check" => Hopeless' \/ (m_status' = 200 /\ Kept')
    BY <1>5, <2>1, EndKeeps DEF Parsing
  <2> QED
    BY <2>1, <2>2 DEF Parsing, DeadWithoutTarget
<1>6. CASE DecodeChunk
  <2>1. pc = "decode" /\ pc' = "decode"
    BY <1>6 DEF DecodeChunk
  <2>2. Decoding'
    BY <1>6, <2>1, ChunkKeeps DEF Parsing
  <2> QED
    BY <2>1, <2>2 DEF Parsing, DeadWithoutTarget
<1>7. CASE EndDecode
  <2>1. pc = "decode" /\ pc' = "check"
    BY <1>7 DEF EndDecode
  <2>2. Hopeless' \/ (m_status' = 200 /\ Kept')
    BY <1>7, <2>1, DecodeKeeps DEF Parsing
  <2> QED
    BY <2>1, <2>2 DEF Parsing, DeadWithoutTarget
<1>8. CASE ErrorChecking
  <2>1. pc = "check" /\ pc' = "parsed"
    BY <1>8 DEF ErrorChecking
  <2>2. Understood'
    BY <1>8, <2>1, CheckKeeps DEF Parsing
  <2> QED
    BY <2>1, <2>2 DEF Parsing, DeadWithoutTarget
<1> QED
  BY <1>1, <1>2, <1>3, <1>4, <1>5, <1>6, <1>7, <1>8 DEF Next, Thread

\* A stutter keeps the invariant.
LEMMA InvStutter ==
    ASSUME Parsing, UNCHANGED vars
    PROVE  Parsing'
<1>1. UNCHANGED <<request, wire, pc, m_request, startLine, m_headers, m_body, m_status,
                  chunked_size, new_body>>
  BY DEF vars, decoding
<1>s. RequestText(request)' = RequestText(request) /\ N' = N /\ Sent' = Sent /\ D' = D
      /\ ToDecode' = ToDecode
  BY <1>1, Static, StaticBody DEF RequestText
<1>2. Unread => Unread'
  <2>1. Same(m_request \o wire, RequestText(request)) => Same(m_request \o wire, RequestText(request))'
    BY <1>1, <1>s, Zenon DEF Same
  <2> QED
    BY <1>1, <2>1 DEF Unread, startLine
<1>3. (Hopeless => Hopeless') /\ (NoHost => NoHost')
  BY <1>1 DEF Hopeless, Refused, NoHost, startLine, VersionOnly
<1>4. (StartLineKept => StartLineKept') /\ (HeadersKept => HeadersKept') /\ (Kept => Kept')
  BY <1>1, StartLineStays, HeadersKeptStay, KeptStays
<1>5. ASSUME NEW n \in 0..N, OnHeader(n) PROVE OnHeader(n)'
  <2>1. AfterHeader(n)' = AfterHeader(n) /\ \A i : Key(i)' = Key(i) /\ SentValue(Key(i))' = SentValue(Key(i))
    BY <1>1, Static
  <2>2. Same(m_request \o wire, AfterHeader(n))'
    BY <1>1, <1>5, <2>1, Zenon DEF OnHeader, Same
  <2>3. HeadersRead(n)' /\ (DOMAIN m_headers = {Key(i) : i \in 1..n})' /\ (n \in 0..N)'
    BY <1>1, <1>s, <1>5, <2>1 DEF OnHeader, HeadersRead
  <2> QED
    BY <2>2, <2>3, Zenon DEF OnHeader
<1>6. ASSUME NEW n \in 0..N, CutHeader(n) PROVE CutHeader(n)'
  <2>1. /\ \A i : Key(i)' = Key(i) /\ SentValue(Key(i))' = SentValue(Key(i))
        /\ \A i : (LineCame(i)' <=> LineCame(i)) /\ (NameCame(i)' <=> NameCame(i))
    BY <1>1, Static, StaticWire
  <2>2. HeadersRead(n)' /\ (n \in 0..(N - 1))' /\ LineCut(m_request)' /\ ~LineCame(n + 1)'
    BY <1>1, <1>s, <1>6, <2>1 DEF CutHeader, HeadersRead, LineCut
  <2>3. NameCame(n + 1)' => (Key(n + 1) \in DOMAIN m_headers)'
                            /\ IsPrefix(m_headers[Key(n + 1)], SentValue(Key(n + 1)))'
    BY <1>1, <1>6, <2>1, Zenon DEF CutHeader, IsPrefix
  <2> QED
    BY <2>2, <2>3, Zenon DEF CutHeader
<1>7. ASSUME NEW n \in 0..D, OnChunk(n) PROVE OnChunk(n)'
  <2>1. AfterChunk(n)' = AfterChunk(n)
    BY <1>1, StaticBody
  <2>2. Same(m_body \o wire, AfterChunk(n))'
    BY <1>1, <1>7, <2>1, Zenon DEF OnChunk, Same
  <2>3. (n \in 0..D)' /\ (m_body # <<>>)' /\ (chunked_size = HexNumber(Before(m_body, CR)))'
        /\ (new_body = FlattenSeq(SubSeq(request.data, 1, n)))'
    BY <1>1, <1>s, <1>7 DEF OnChunk, Before, Find, SelectInSeq
  <2> QED
    BY <2>2, <2>3, Zenon DEF OnChunk
<1>8. Stuck => Stuck'
  BY <1>1 DEF Stuck
<1>9. Reading => Reading'
  <2>1. (\E n \in 0..N : OnHeader(n) \/ CutHeader(n)) => (\E n \in 0..N : OnHeader(n) \/ CutHeader(n))'
    BY <1>s, <1>5, <1>6
  <2> QED
    BY <1>1, <1>3, <1>4, <2>1 DEF Reading
<1>10. Decoding => Decoding'
  <2>1. (Stuck \/ \E n \in 0..D : OnChunk(n)) => (Stuck \/ \E n \in 0..D : OnChunk(n))'
    BY <1>s, <1>7, <1>8
  <2> QED
    BY <1>1, <1>s, <1>3, <1>4, <2>1 DEF Decoding
<1>11. (Understood => Understood') /\ DeadWithoutTarget'
  BY <1>1, <1>4, DeadStays DEF Understood, Parsing
<1> QED
  BY <1>1, <1>2, <1>3, <1>4, <1>9, <1>10, <1>11 DEF Parsing

(* The inductive invariant of RequestInvariant, for every well-formed      *)
(* request and every way in which its text arrives.                        *)
THEOREM Invariance == Spec => []Inv
<1>1. TypeOK /\ Parsing /\ [Next]_vars => Parsing'
  BY InvStep, InvStutter
<1>2. TypeOK /\ Parsing <=> Inv
  BY DEF Inv
<1> QED
  BY <1>1, <1>2, TypeCorrect, InvInit, PTL DEF Spec

(* A request that has arrived as a whole is understood as it was meant,    *)
(* for every well-formed request (HandleRequest.cpp:47-112, Decoder.cpp).  *)
THEOREM WholeIsUnderstood == Spec => []WholeUnderstood
<1>1. Inv => WholeUnderstood
  <2>1. SUFFICES ASSUME TypeOK, Parsing, pc = "parsed", wire = <<>>, m_status \notin {204, 400}
                 PROVE  /\ StartLineKept
                        /\ DOMAIN m_headers = Sent
                        /\ \A k \in Sent : m_headers[k] = SentValue(k)
                        /\ m_body = SentBody
    BY DEF Inv, WholeUnderstood
  <2>2. Kept
    BY <2>1 DEF Parsing, Understood
  <2>3. ASSUME NEW k \in Sent PROVE m_headers[k] = SentValue(k)
    <3>1. request \in Requests
      BY <2>1 DEF TypeOK
    <3>2. PICK i \in DOMAIN request.headers : Key(i) = k
      BY DEF Sent, Key
    <3>3. LineCame(i)
      <4>1. i \in 1..N
        BY <3>1, HeaderParts
      <4>2. AfterHeader(i) \in Text
        BY <3>1, <4>1, HeaderNext
      <4>3. Len(AfterHeader(i)) \in Nat /\ Len(wire) = 0
        BY <2>1, <4>2, TextFacts, EmptyText
      <4> QED
        BY <4>3 DEF LineCame
    <3> QED
      BY <2>2, <3>2, <3>3 DEF Kept, HeadersKept
  <2> QED
    BY <2>1, <2>2, <2>3 DEF Kept, BodyKept
<1> QED
  BY <1>1, Invariance, PTL

(* What is accepted of a request that was cut is a prefix of what was      *)
(* sent, wherever the cut is (HandleRequest.cpp:47-112).                   *)
THEOREM CutsArePrefixes == Spec => []CutIsPrefix
<1>1. Inv => CutIsPrefix
  <2>1. SUFFICES ASSUME Parsing, pc = "parsed", m_status = 200 PROVE StartLineKept /\ HeadersKept /\ BodyKept
    BY DEF Inv, CutIsPrefix, HeadersKept, BodyKept, Key
  <2> QED
    BY <2>1 DEF Parsing, Understood, Kept
<1> QED
  BY <1>1, Invariance, PTL

(* A body in chunks is decoded as a whole or not at all, whatever the      *)
(* chunks and wherever the cut is (Decoder.cpp:10-20).                     *)
THEOREM ChunksAreWhole == Spec => []ChunksWholeOrNone
<1>1. Inv => ChunksWholeOrNone
  BY DEF Inv, Parsing, Understood, Kept, BodyKept, ChunksWholeOrNone
<1> QED
  BY <1>1, Invariance, PTL

(* The parser throws only where no character of the target has come, for   *)
(* every well-formed request (HandleRequest.cpp:53).                       *)
THEOREM DeathNeedsNoTarget == Spec => []DeadWithoutTarget
<1>1. Inv => DeadWithoutTarget
  BY DEF Inv, Parsing
<1> QED
  BY <1>1, Invariance, PTL
=============================================================================
